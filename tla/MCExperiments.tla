--------------------------- MODULE MCExperiments ---------------------------
(* Stories of one record from its proposal on, and of two that would both  *)
(* run.                                                                    *)
EXTENDS Experiments, TLC

MCMandates == {[days |-> 1, may |-> {"start"}],
               [days |-> 2, may |-> {"start", "adopt"}]}

Story(deeds) == [d \in TrialDeeds |-> Len(SelectSeq(deeds, LAMBDA e : e = d))]
Run == <<"new", "design", "review", "start">>

MCStories ==
  {Story(Run \o s) : s \in {
     <<"reword", "review", "reword", "commit", "refreeze">>,
     <<"prolong", "reassign">>, <<"reassign", "state">>, <<"reassign", "review">>,
     <<"cut", "commit", "state">>, <<"mandate", "decide", "commit">>,
     <<"decide", "state">>, <<"delete", "commit", "new">>}}
  \cup {Story(Run \o <<"new", "design", "start">>)}

Symmetry == Permutations(Records) \cup Permutations(Workers)
=============================================================================
