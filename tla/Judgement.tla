------------------------------ MODULE Judgement ------------------------------
(***************************************************************************)
(* What a train run promises about the board it judges, without the way it *)
(* searches for an offender (train.py, run and _run_batch).                *)
(*                                                                         *)
(*   - the board only ever gets smaller;                                   *)
(*   - a board passes as a whole, on a tree that holds that board and      *)
(*     nobody else;                                                        *)
(*   - whoever leaves after the verdict takes the verdict along: the rest  *)
(*     is judged again;                                                    *)
(*   - only a board that passed lands, on the tree that passed.            *)
(*                                                                         *)
(* TrainRounds implements this specification with retries, base checks and *)
(* a bisection; TrainLanding builds on it.                                 *)
(***************************************************************************)

CONSTANT Branches

VARIABLES
    board,    \* the passengers still aboard
    tree,     \* whose commits the staging tree holds, beside the base
    passed,   \* this board, as it stands, passed on this tree
    outcome   \* "none" while the run goes on, then how it ended

jvars == <<board, tree, passed, outcome>>

JInit ==
    /\ board \in SUBSET Branches
    /\ tree = {}
    /\ passed = FALSE
    /\ outcome = "none"

(* A tree is built and judged short of a pass, or a passenger is dropped.   *)
Search ==
    /\ outcome = "none" /\ ~passed
    /\ board' \in SUBSET board
    /\ tree' \in SUBSET Branches
    /\ UNCHANGED <<passed, outcome>>

(* The board that could be merged passes, all of it, on its own tree.       *)
Pass ==
    /\ outcome = "none" /\ ~passed
    /\ board' \in (SUBSET board) \ {{}}
    /\ tree' = board'
    /\ passed' = TRUE
    /\ UNCHANGED outcome

(* A passenger leaves after the verdict: the smaller board has none.        *)
Recall ==
    /\ outcome = "none" /\ passed
    /\ board' \in (SUBSET board) \ {board}
    /\ passed' = FALSE
    /\ UNCHANGED <<tree, outcome>>

Land ==
    /\ outcome = "none" /\ passed
    /\ outcome' = "landed"
    /\ UNCHANGED <<board, tree, passed>>

(* The run ends and nothing of this board reaches the integration branch.   *)
Abandon ==
    /\ outcome = "none"
    /\ outcome' = "abandoned"
    /\ passed' = FALSE
    /\ tree' \in SUBSET Branches
    /\ UNCHANGED board

JNext == Search \/ Pass \/ Recall \/ Land \/ Abandon

JSpec == JInit /\ [][JNext]_jvars
=============================================================================
