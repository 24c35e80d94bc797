-------------------------------- MODULE Lane --------------------------------
(***************************************************************************)
(* Test lanes (template/scripts/process/lane.py): one queue per lane and   *)
(* host, an exclusive flock on test-lane-<lane>.lock, the holder's name in *)
(* test-lane-<lane>.status beside it. Each process runs one lane command:  *)
(*                                                                         *)
(*   run     holds its lane while a command of its own runs                *)
(*   wait    takes the lane and gives it back                              *)
(*   status  says who holds it                                             *)
(*                                                                         *)
(* A command may call lane.py again (a hook inside a suite): the parent of *)
(* such a process is the run whose command called it. Time is abstract:    *)
(* every failed try may be the one past the wait budget.                   *)
(***************************************************************************)
EXTENDS Naturals

CONSTANTS
    Procs,
    Lanes,
    Nobody,    \* no process
    Setups     \* who asks for what, see Setup

Setup == [does   : [Procs -> {"run", "wait", "status"}],
          lane   : [Procs -> Lanes],
          parent : [Procs -> Procs \cup {Nobody}]]

ASSUME NobodyAssumption == Nobody \notin Procs
ASSUME SetupsAssumption == Setups \subseteq Setup

VARIABLES
    setup,    \* fixed for the behaviour
    pc,       \* where each process is
    lock,     \* who has the flock of each lane
    status,   \* whom the lane's status file names
    orphan    \* runs that were killed and whose command runs on

vars == <<setup, pc, lock, status, orphan>>

Idle   == {"idle"}
Inside == {"naming", "body", "unnaming", "unlocking"}   \* with the flock, for a hold
Asking == {"asking", "probing", "sweeping", "reading"}
Ended  == {"done", "busy", "told", "killed"}

lane(p) == setup.lane[p]
parent(p) == setup.parent[p]

(* Parents of parents are out of this model: hooks call lanes one level     *)
(* deep.                                                                    *)
Nested(p) == parent(p) # Nobody

(* PROCESS_LANE_HELD as p inherits it: its parent's hold.                  *)
HeldMarks(p) == IF Nested(p) THEN {lane(parent(p))} ELSE {}

(* The command of the run p is alive: under its hold, or on its own.        *)
CommandRuns(p) == (pc[p] = "body" /\ setup.does[p] = "run") \/ p \in orphan

Kin(p) == {q \in Procs : parent(q) = p}

-----------------------------------------------------------------------------
Init ==
    /\ setup \in Setups
    /\ pc = [p \in Procs |-> "idle"]
    /\ lock = [l \in Lanes |-> Nobody]
    /\ status = [l \in Lanes |-> Nobody]
    /\ orphan = {}

GoesTo(p, to) == pc' = [pc EXCEPT ![p] = to]

(* A nested call starts while its parent's command is alive. A hold of a    *)
(* lane this process tree already holds passes through.                     *)
Start(p) ==
    /\ pc[p] = "idle"
    /\ Nested(p) => CommandRuns(parent(p))
    /\ GoesTo(p, IF setup.does[p] = "status" THEN "asking"
               ELSE IF lane(p) \in HeldMarks(p) THEN "passing" ELSE "polling")
    /\ UNCHANGED <<setup, lock, status, orphan>>

(* Is the lane free? The lock says so. Seeded fault: ask the status file.   *)
FreeByStatus(l) == status[l] = Nobody
Free(l) == lock[l] = Nobody

(* flock: one try. *)
Acquire(p) ==
    /\ pc[p] = "polling" /\ Free(lane(p))
    /\ lock' = [lock EXCEPT ![lane(p)] = p]
    /\ GoesTo(p, "naming")
    /\ UNCHANGED <<setup, status, orphan>>

(* A failed try past the deadline: LaneBusy, described. Seeded fault: the   *)
(* wait has no end for a call from inside another hold.                     *)
NestedWaitsOn(p) == ~Free(lane(p)) /\ ~Nested(p)
OutOfBudget(p) == ~Free(lane(p))

GiveUp(p) ==
    /\ pc[p] = "polling" /\ OutOfBudget(p)
    /\ GoesTo(p, "asking")
    /\ UNCHANGED <<setup, lock, status, orphan>>

(* _write_status: by rename, in one step.                                   *)
Name(p) ==
    /\ pc[p] = "naming"
    /\ status' = [status EXCEPT ![lane(p)] = p]
    /\ GoesTo(p, "body")
    /\ UNCHANGED <<setup, lock, orphan>>

(* The body of the hold ends: the command has exited, and with it the calls *)
(* it made and waited for.                                                  *)
CallsOver(p) == \A q \in Kin(p) : pc[q] \in Idle \cup Ended

EndBody(p) ==
    /\ pc[p] = "body" /\ CallsOver(p)
    /\ GoesTo(p, "unnaming")
    /\ UNCHANGED <<setup, lock, status, orphan>>

EndPass(p) ==
    /\ pc[p] = "passing"
    /\ GoesTo(p, "done")
    /\ UNCHANGED <<setup, lock, status, orphan>>

(* Leaving a hold: the status file goes first, then the lock.               *)
LetsGo(p, step) ==
    IF step = "unnaming" THEN status' = [status EXCEPT ![lane(p)] = Nobody] /\ UNCHANGED lock
    ELSE lock' = [lock EXCEPT ![lane(p)] = Nobody] /\ UNCHANGED status

Unname(p) ==
    /\ pc[p] = "unnaming" /\ LetsGo(p, "unnaming")
    /\ GoesTo(p, "unlocking")
    /\ UNCHANGED <<setup, orphan>>

Unlock(p) ==
    /\ pc[p] = "unlocking" /\ LetsGo(p, "unlocking")
    /\ GoesTo(p, "done")
    /\ UNCHANGED <<setup, orphan>>

-----------------------------------------------------------------------------
(* describe, holder, _lock_free: for `status`, and for whoever gives up.    *)

(* The probe takes the lock it asks about for a moment.                     *)
ProbeLock(p) ==
    /\ pc[p] = "asking"
    /\ IF Free(lane(p))
       THEN lock' = [lock EXCEPT ![lane(p)] = p] /\ GoesTo(p, "probing")
       ELSE GoesTo(p, "reading") /\ UNCHANGED lock
    /\ UNCHANGED <<setup, status, orphan>>

EndProbe(p) ==
    /\ pc[p] = "probing"
    /\ lock' = [lock EXCEPT ![lane(p)] = Nobody]
    /\ GoesTo(p, "sweeping")
    /\ UNCHANGED <<setup, status, orphan>>

AnswerOf(p) == IF setup.does[p] = "status" THEN "told" ELSE "busy"

(* Free: a status file is taken for a crashed holder's leftover.            *)
Sweep(p) ==
    /\ pc[p] = "sweeping"
    /\ status' = [status EXCEPT ![lane(p)] = Nobody]
    /\ GoesTo(p, AnswerOf(p))
    /\ UNCHANGED <<setup, lock, orphan>>

(* Held: the record is read - or "unknown holder", where there is none.     *)
Read(p) ==
    /\ pc[p] = "reading"
    /\ GoesTo(p, AnswerOf(p))
    /\ UNCHANGED <<setup, lock, status, orphan>>

-----------------------------------------------------------------------------
(* SIGKILL to the lane.py process alone: the kernel drops its flock, the    *)
(* status file stays, and the command of a run - which does not inherit the *)
(* lock's descriptor - runs on.                                             *)
Kill(p) ==
    /\ pc[p] \notin Idle \cup Ended
    /\ lock' = [l \in Lanes |-> IF lock[l] = p THEN Nobody ELSE lock[l]]
    /\ orphan' = IF CommandRuns(p) THEN orphan \cup {p} ELSE orphan
    /\ GoesTo(p, "killed")
    /\ UNCHANGED <<setup, status>>

OrphanEnds(p) ==
    /\ p \in orphan /\ CallsOver(p)
    /\ orphan' = orphan \ {p}
    /\ UNCHANGED <<setup, pc, lock, status>>

Step(p) == \/ Acquire(p) \/ GiveUp(p) \/ Name(p) \/ EndBody(p) \/ EndPass(p)
           \/ Unname(p) \/ Unlock(p)
           \/ ProbeLock(p) \/ EndProbe(p) \/ Sweep(p) \/ Read(p)
           \/ OrphanEnds(p)

Next == \E p \in Procs : Start(p) \/ Step(p) \/ Kill(p)

Spec == Init /\ [][Next]_vars

(* A process that can go on does; the commands it runs come to an end.      *)
FairSpec == Spec /\ \A p \in Procs : WF_vars(Step(p))

-----------------------------------------------------------------------------
(* Properties.                                                              *)

TypeOK ==
    /\ setup \in Setups
    /\ pc \in [Procs -> Idle \cup {"polling", "passing"} \cup Inside \cup Asking \cup Ended]
    /\ lock \in [Lanes -> Procs \cup {Nobody}]
    /\ status \in [Lanes -> Procs \cup {Nobody}]
    /\ orphan \subseteq Procs

(* Two commands run in one lane at a time only where one of them outlived   *)
(* its killed lane.py: no order of polls, probes, leftovers and kills lets  *)
(* a second run in while the first still has its hold.                      *)
OneRunALane ==
    \A p, q \in Procs :
        p # q /\ lane(p) = lane(q) /\ CommandRuns(p) /\ CommandRuns(q) => p \in orphan \/ q \in orphan

(* A call that passes through does so inside a hold of its lane - the       *)
(* parent's, or what a killed parent left running: the mark it inherited    *)
(* is not stale.                                                            *)
PassesUnderAHold ==
    \A p \in Procs : pc[p] = "passing" =>
        \E h \in Procs \ {p} :
            /\ h = parent(p) /\ lane(h) = lane(p)
            /\ (lock[lane(p)] = h /\ pc[h] = "body") \/ h \in orphan

(* The status file names the one who has the lock, or one that was killed:  *)
(* leaving never takes the next holder's name away or leaves its own.       *)
NoStaleName ==
    \A l \in Lanes : status[l] # Nobody =>
        \/ lock[l] = status[l] /\ pc[status[l]] \in {"body", "unnaming"}
        \/ pc[status[l]] = "killed"

(* Nothing waits without end, two runs that call each other's lanes from    *)
(* inside their holds included: each call ends, with an answer, a result or *)
(* exit 75.                                                                 *)
EveryCallEnds ==
    \A p \in Procs : pc[p] = "polling" \/ pc[p] \in Inside \cup Asking ~> pc[p] \in Ended
=============================================================================
