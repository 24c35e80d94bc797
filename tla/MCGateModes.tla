---------------------------- MODULE MCGateModes ----------------------------
(* One gate at a time, of every kind: the record keeps gates apart.        *)
EXTENDS GateModes, TLC

MCKinds == {[g \in Gates |-> k] : k \in {"core", "template", "observed"}}

Story(deeds) == [d \in Deeds |-> Len(SelectSeq(deeds, LAMBDA e : e = d))]

MCStories ==
  {Story(s) : s \in {
     <<"weaken", "unlock", "weaken">>, <<"off", "unlock">>,
     <<"weaken", "restore", "off">>, <<"weaken", "lock", "byhand">>,
     <<"observe", "restore", "weaken">>, <<"observe", "weaken", "lock">>,
     <<"weaken", "unprotect", "byhand">>, <<"unprotect", "off">>,
     <<"drop", "byhand", "weaken">>, <<"drop", "observe", "unlock">>,
     <<"drop", "restore", "observe">>}}

Symmetry == Permutations(Branches)
=============================================================================
