--------------------------- MODULE MCTrainLanding ---------------------------
(* Branches for TLC to run TrainLanding with. *)
EXTENDS TrainLanding

CONSTANTS b, c

First(who) == <<who, 1>>

Told(who, word) == [worker |-> who, state |-> word, host |-> "here"]

(* Work to come: two runs and commits of everybody, the reports of an       *)
(* earlier run all written and released.                                    *)
Quiet(tips, reviewed, pushes) ==
    [tip |-> tips, covered |-> [x \in Branches |-> IF x \in reviewed THEN {tips[x]} ELSE {}],
     made |-> [x \in Branches \cup Strangers |-> IF x \in Branches THEN 1 ELSE 0],
     push |-> pushes, runs |-> 0,
     log |-> <<Told(b, "blocked"), Told(c, "pushed"), Told(b, "pushed")>>]

(* Reports to come: one run, whose board is all that was ever committed.    *)
Talkative(tips, pushes) ==
    [Quiet(tips, Branches, pushes) EXCEPT
        !.log = <<>>, !.runs = 1, !.made = [x \in DOMAIN @ |-> IF x \in Branches THEN 2 ELSE 1]]

(* c on its own, or stacked on b; the branches of `reviewed` are.           *)
Apart == [x \in Branches |-> {First(x)}]
Stacked == [x \in Branches |-> {First(b), First(x)}]

Ready ==
    UNION {{Quiet(t, Branches, p), Talkative(t, p)} : t \in {Apart, Stacked}, p \in BOOLEAN}
        \cup {Quiet(t, {b}, TRUE) : t \in {Apart, Stacked}}
=============================================================================
