------------------------------ MODULE CodexRun ------------------------------
(***************************************************************************)
(* A Codex run (_dispatch_codex.py): a supervisor that waits at a barrier, *)
(* starts the worker, watches it, and writes the receipt of how it ended - *)
(* and what is known of a run from outside it, by that receipt. Who starts *)
(* and stops runs is in Handoff. Time is a choice: a deadline passes       *)
(* whenever the code could see it passed.                                  *)
(***************************************************************************)
EXTENDS Naturals

CONSTANTS Runs

VARIABLES run    \* what each run has come to

Verdicts == {"pass", "block"}
Results == Verdicts \cup {"none", "off"}    \* "off": not of the schema
NoReceipt == [outcome |-> "none", seal |-> "none"]

Unlaunched == [
    phase |-> "review", sup |-> "none", go |-> FALSE,
    signal |-> FALSE,        \* `interrupted`: told to end, or past its deadline
    worker |-> "none", tries |-> 0, code |-> "none",
    result |-> "none",       \* what the result file holds
    receipt |-> NoReceipt]   \* terminal.json: the outcome, the digest of the result

Alive(r) == run[r].sup \notin {"none", "gone", "killed"}
IsReview(r) == run[r].phase = "review"
ResultOk(r) == run[r].result \in Verdicts

(* A live supervisor still owns the cleanup; one gone without a receipt is  *)
(* neither ended nor running.                                               *)
Outcome(r) ==
    IF Alive(r) THEN "running"
    ELSE IF run[r].receipt = NoReceipt THEN "unknown" ELSE run[r].receipt.outcome

-----------------------------------------------------------------------------
Launched(r, phase) == run' = [run EXCEPT ![r].phase = phase, ![r].sup = "young"]
Activated(r) == run' = [run EXCEPT ![r].go = TRUE]

(* SIGTERM: a supervisor too young to have its handlers is gone at once.    *)
Signalled(r) ==
    run' = IF run[r].sup = "young" THEN [run EXCEPT ![r].sup = "killed"] ELSE [run EXCEPT ![r].signal = TRUE]

At(r, place) == run[r].sup = place
ToPlace(r, place) == run' = [run EXCEPT ![r].sup = place]

Ready(r) == At(r, "young") /\ ToPlace(r, "barrier")
PassBarrier(r) == At(r, "barrier") /\ run[r].go /\ ToPlace(r, "spawn")

(* No `go`: told to end, or ten seconds over.                               *)
Ended(r, status) == run' = [run EXCEPT ![r].sup = "leaving", ![r].receipt.outcome = status]
GiveUp(r) == At(r, "barrier") /\ ~run[r].go /\ Ended(r, "interrupted")

Spawn(r) ==
    /\ At(r, "spawn")
    /\ run' = [run EXCEPT ![r].sup = "watch", ![r].worker = "alive",
                          ![r].code = "none", ![r].tries = @ + 1]

Overdue(r) ==
    /\ At(r, "watch") /\ ~run[r].signal
    /\ run' = [run EXCEPT ![r].signal = TRUE]

(* The worker is gone, or its whole group is ended now.                     *)
Reap(r) ==
    /\ At(r, "watch") /\ (run[r].signal \/ run[r].worker = "dead")
    /\ run' = [run EXCEPT ![r].sup = "judge", ![r].worker = "dead",
                          ![r].code = IF run[r].worker = "alive" THEN "killed" ELSE @]

(* A review whose result is off its schema runs once more.                  *)
Attempts(r) == IF IsReview(r) THEN 2 ELSE 1
Once(r) == run[r].signal \/ run[r].code # "zero" \/ ~IsReview(r) \/ ResultOk(r)
Last(r) == Once(r) \/ run[r].tries = Attempts(r)
Status(r) ==
    IF run[r].signal \/ run[r].code = "killed" THEN "interrupted"
    ELSE IF run[r].code = "zero" /\ (IsReview(r) => ResultOk(r)) THEN "completed" ELSE "failed"

Judge(r) ==
    /\ At(r, "judge")
    /\ IF Last(r) THEN Ended(r, Status(r)) ELSE ToPlace(r, "spawn")

(* The receipt is one rename; it names the result by its digest.            *)
Seal(r) ==
    /\ At(r, "leaving")
    /\ run' = [run EXCEPT ![r].sup = "sealed", ![r].receipt.seal = run[r].result]
Leave(r) == At(r, "sealed") /\ ToPlace(r, "gone")

Supervise(r) ==
    \/ Ready(r) \/ PassBarrier(r) \/ GiveUp(r) \/ Spawn(r) \/ Overdue(r)
    \/ Reap(r) \/ Judge(r) \/ Seal(r) \/ Leave(r)

-----------------------------------------------------------------------------
(* The worker writes its result and exits, with a supervisor or without;    *)
(* once it has written a good one it writes no other.                       *)
WriteResult(r, v) ==
    /\ run[r].worker = "alive" /\ ~ResultOk(r) /\ run[r].result # v
    /\ run' = [run EXCEPT ![r].result = v]

Exit(r, code) ==
    /\ run[r].worker = "alive"
    /\ run' = [run EXCEPT ![r].worker = "dead", ![r].code = code]

Work(r) == (\E v \in Results \ {"none"} : WriteResult(r, v)) \/ \E c \in {"zero", "other"} : Exit(r, c)

(* SIGKILL takes the supervisor, not the worker. A receipt not yet renamed  *)
(* into place is none.                                                      *)
Kill(r) ==
    /\ Alive(r)
    /\ run' = [run EXCEPT ![r].sup = "killed",
                          ![r].receipt = IF run[r].sup = "sealed" THEN @ ELSE NoReceipt]
Meddle(r) == \E v \in Results : run[r].result # v /\ run' = [run EXCEPT ![r].result = v]
=============================================================================
