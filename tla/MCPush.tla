------------------------------- MODULE MCPush -------------------------------
EXTENDS Push

ByRoute == [to |-> {"main"}, phases |-> {}, route |-> TRUE, override |-> FALSE,
            skips |-> {}, reason |-> FALSE, make |-> "plain"]
ToBranch == [ByRoute EXCEPT !.to = {"branch"}]
ByOwner == [ByRoute EXCEPT !.route = FALSE, !.override = TRUE]

(* A worker, a reviewer and an owner; to main, to the branch and to both;   *)
(* with and without what spares a check.                                    *)
Tested ==
    {<<ToBranch, ByRoute>>,
     <<[ToBranch EXCEPT !.make = "noop"], [ByRoute EXCEPT !.to = {"main", "branch"}]>>,
     <<[ByRoute EXCEPT !.make = "altering"], [ByRoute EXCEPT !.phases = {"execute"}]>>,
     <<[ByRoute EXCEPT !.skips = {"tests"}, !.reason = TRUE], ByRoute>>}
Decided ==
    {<<[ByOwner EXCEPT !.phases = {"execute", "review"}], [ByOwner EXCEPT !.phases = {"execute"}]>>,
     <<ByOwner>>,
     <<[ByOwner EXCEPT !.skips = {"gates"}, !.reason = TRUE]>>}

(* One part is red by itself; the other only where both are new.            *)
p1 == CHOOSE p \in Parts : TRUE
Reds ==
    {[c \in Codes |-> IF c[p1] = 1 THEN {p1} ELSE {}],
     [c \in Codes |-> IF \A p \in Parts : c[p] = 1 THEN Parts \ {p1} ELSE {}]}

(* With a certifying run the user does one thing, without one two.          *)
AllStories == [bad : Reds, calls : Tested, runs : {1}, moves : {1}]
              \cup [bad : Reds, calls : Decided \cup {<<ByRoute, ByRoute>>}, runs : {0}, moves : {2}]
AllTheirs == {<<[p \in Parts |-> IF p = p1 THEN 0 ELSE 1], b>> : b \in {"clear", "block"}}
AllSettings == {<<Parts, {}>>, <<Parts, Parts>>, <<{p1}, {}>>}
=============================================================================
