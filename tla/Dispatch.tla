------------------------------- MODULE Dispatch -------------------------------
(***************************************************************************)
(* Worker sessions of one host (template/scripts/process/dispatch.py): who *)
(* starts them, records them, moves them from phase to phase and stops     *)
(* them. Each process runs dispatch commands of one kind, again and again: *)
(*                                                                         *)
(*   tick    chain: judge each recorded session by its report, stop who is *)
(*           through and queue what comes next; then drain                 *)
(*   drain   start the queued lines that may start now                     *)
(*   add     queue a line                                                  *)
(*   start   start a session by hand                                       *)
(*   stop    stop a session by hand                                        *)
(*   forget  the train has merged the branch: a dead session's record goes *)
(*                                                                         *)
(* Sessions, what they commit and what they report are the environment's.  *)
(* A swift worker's report comes with its work, committed and pushed; it   *)
(* may report anything and end at any time. A slow one does its duty step  *)
(* by step, and may report too early. Left out: remote and Codex sessions, *)
(* a tmux that cannot be asked, brainstorm, and every refusal of a start   *)
(* that only leaves things as they are (policy, lanes, disk, a stale plan, *)
(* a conflict), like the ones kept: a live session, the limit, a review    *)
(* ahead of origin.                                                        *)
(***************************************************************************)
EXTENDS BranchWork, Sequences, FiniteSets

CONSTANTS
    Branches,
    Ids,         \* sessions there can be at a time: (pid, start time)
    None,        \* no session, no process
    MaxWorkers,  \* max_workers
    Procs,
    Setups       \* who runs what, see Setup

Phases == {"plan", "plan-review", "execute", "quick", "review"}
Line == [branch : Branches, phase : Phases]
(* Of reports, "done" stands for `idle` and `failed` too, which chain takes *)
(* otherwise in a quick run alone: it waits there for the steward, which is *)
(* left out. "working" stands for every word dispatch does nothing about.   *)
Setup == [does : [Procs -> {"tick", "drain", "add", "start", "stop", "forget", "rest"}],
          asks : [Procs -> Line],
          dies : SUBSET Procs,
          queue : Seq(Line),
          slow : BOOLEAN,
          tier : [Branches -> 0..3],
          work : [Branches -> Tip],
          red : SUBSET Texts]  \* the texts of a plan that the gates refuse

ASSUME NoneAssumption == None \notin Ids /\ None \notin Procs
ASSUME LimitAssumption == MaxWorkers \in Nat \ {0}
ASSUME BranchesAssumption == Branches # {}
ASSUME SetupsAssumption == Setups \subseteq Setup

VARIABLES
    setup,      \* fixed for the behaviour
    session,    \* per id: its branch and phase, live or not, and whether the
                \* branch's last report counts as its own; `over`, history:
                \* some report said its phase is over; `red`: the commit whose
                \* gates its record calls red, Bare for none
    record,     \* the record of each branch: the session it names
    work,       \* each branch, `here` on this host and on `origin`
    word,       \* the last report about each branch
    queue,
    chainLock, queueLock,
    pc,
    judging,    \* what a tick still has to judge: sessions, with their reports
    cur, next,  \* the session at hand, and the phase that follows it
    head,       \* the commit its plan is judged at
    lines,      \* what a drain still has to try
    entries,    \* what it will save
    new         \* a session started and not recorded yet

locks == <<chainLock, queueLock>>
chaining == <<judging, cur, next, head>>
draining == <<lines, entries, new>>
vars == <<setup, session, record, work, word, queue, locks, pc, chaining, draining>>

does(p) == setup.does[p]
asks(p) == setup.asks[p]
Tier(b) == setup.tier[b]
Live == {n \in Ids : session[n].live}
Goes(p, to) == pc' = [pc EXCEPT ![p] = to]

-----------------------------------------------------------------------------
(* Reading reports.                                                         *)

(* session_report: the last report since the session started.              *)
ReportOf(n) == IF session[n].heard THEN word[session[n].branch] ELSE "none"

(* phase_over: `pushed` comes at the first push, the tasks on origin tell   *)
(* when an execute is done; a plan that cannot be read tells nothing.       *)
OverOn(branches, n, w) ==
    \/ w = "done"
    \/ <<session[n].phase, w>> \in
          {<<"plan", "planned">>, <<"quick", "review-pass">>} \cup
          ({"review", "plan-review"} \X {"review-pass", "blocked"})
    \/ session[n].phase = "execute" /\ w = "pushed"
       /\ WorkComplete(branches[session[n].branch].origin)
Over(n, w) == OverOn(work, n, w)

(* _chain: what follows a session with that report - nothing yet, nothing   *)
(* more, or another phase, as far as the branch's commits tell.             *)
MovesOn(n, w, to) ==
    LET b == session[n].branch
        here == work[b].here
        origin == work[b].origin
        judged == <<session[n].phase, w, to>>
    IN  \/ judged = <<"plan", "planned", "execute">>
        \/ judged = <<"plan-review", "review-pass", "execute">>
           /\ OwnPlan(here) /\ ~Uncleared(here, Tier(b))
        \/ judged = <<"execute", "pushed", "review">>
           /\ WorkComplete(origin) /\ NewCode(origin)
        \/ judged \in {"review", "quick"} \X {"review-pass"} \X {"end"}
           /\ AttestOnOrigin(here, origin)
        \/ judged = <<"quick", "done", "end">>

(* Uncommitted work: a slow worker has committed what it reports.           *)
Dirty == IF setup.slow THEN {FALSE} ELSE BOOLEAN

-----------------------------------------------------------------------------
(* Sessions.                                                                *)

LiveOn(b) == {n \in Live : session[n].branch = b}
Recorded == {record[b] : b \in Branches} \ {None}
InUse(n) ==
    \/ n \in Live \cup Recorded
    \/ \E p \in Procs : n \in {cur[p], new[p]} \cup {j[1] : j \in judging[p]}

Nobody(n) == [branch |-> CHOOSE b \in Branches : TRUE, phase |-> "plan",
              live |-> FALSE, heard |-> FALSE, over |-> FALSE, red |-> Bare]

Init ==
    /\ setup \in Setups
    /\ session = [n \in Ids |-> Nobody(n)]
    /\ record = [b \in Branches |-> None]
    /\ word = [b \in Branches |-> "none"]
    /\ work = [b \in Branches |-> [here |-> setup.work[b], origin |-> setup.work[b]]]
    /\ queue = setup.queue
    /\ chainLock = None /\ queueLock = None
    /\ pc = [p \in Procs |-> "idle"]
    /\ judging = [p \in Procs |-> {}]
    /\ cur = [p \in Procs |-> None] /\ next = [p \in Procs |-> "wait"]
    /\ head = [p \in Procs |-> Bare]
    /\ lines = [p \in Procs |-> <<>>] /\ entries = [p \in Procs |-> <<>>]
    /\ new = [p \in Procs |-> None]

(* What the sessions are once b's last report is w, and b is as in `now`.   *)
Heard(b, w, now) ==
    [n \in Ids |->
        IF session[n].branch = b /\ session[n].live
        THEN [session[n] EXCEPT !.heard = TRUE, !.over = @ \/ OverOn(now, n, w)]
        ELSE session[n]]

Pushed(b, t) == [work EXCEPT ![b] = [here |-> t, origin |-> t]]
Says(b, w) ==
    /\ word' = [word EXCEPT ![b] = w]
    /\ session' = Heard(b, w, work')

(* A swift worker, and the commit its report comes with.                    *)
Comes(n, w) ==
    LET t == work[session[n].branch].here
        judged == <<session[n].phase, w>>
    IN  CASE w = "planned" /\ ~OwnPlan(t) ->
                 IF Tier(session[n].branch) = 2 THEN PassOn(PlanOn(t)) ELSE PlanOn(t)
          [] w = "pushed" -> CodeOn(t, FALSE)
          [] judged = <<"plan-review", "review-pass">> -> PassOn(t)
          [] judged = <<"review", "review-pass">> -> AttestOn(t)
          [] judged = <<"quick", "review-pass">> -> AttestOn(CodeOn(t, FALSE))
          [] OTHER -> t

Words(phase) == {"working", "done"} \cup
    CASE phase = "plan" -> {"planned"}
      [] phase = "execute" -> {"pushed"}
      [] phase = "quick" -> {"review-pass"}
      [] phase \in {"review", "plan-review"} -> {"review-pass", "blocked"}

Reports(n) ==
    /\ ~setup.slow /\ session[n].live
    /\ \E w \in Words(session[n].phase) :
          /\ work' = Pushed(session[n].branch, Comes(n, w))
          /\ Says(session[n].branch, w)
    /\ UNCHANGED <<setup, record, queue, locks, pc, chaining, draining>>

(* A slow worker: the commits its phase still owes, in any order. A plan    *)
(* may be written again for as long as its session lives.                   *)
Owes(n, t, then) ==
    LET tier == Tier(session[n].branch) IN
    CASE session[n].phase = "plan" ->
             \/ t.plan < 2 /\ then = PlanOn(t)
             \/ tier = 2 /\ Uncleared(t, tier) /\ then = PassOn(t)
      [] session[n].phase = "plan-review" ->
             Uncleared(t, tier) /\ then = PassOn(t)
      [] session[n].phase = "execute" ->
             \/ ~t.code /\ then = CodeOn(t, t.open)
             \/ t.open /\ then = CodeOn(t, FALSE)
      [] session[n].phase = "quick" ->
             \/ ~t.code /\ then = CodeOn(t, FALSE)
             \/ t.fresh /\ then = AttestOn(t)
      [] session[n].phase = "review" ->
             t.fresh /\ then = AttestOn(t)

Commits(n) ==
    LET b == session[n].branch
        t == work[b].here
    IN  /\ setup.slow /\ session[n].live
        /\ \E then \in {PlanOn(t), PassOn(t), CodeOn(t, t.open), CodeOn(t, FALSE), AttestOn(t)} :
              /\ Owes(n, t, then)
              /\ work' = [work EXCEPT ![b].here = then]
    /\ UNCHANGED <<setup, session, record, word, queue, locks, pc, chaining, draining>>

Pushes(n) ==
    LET b == session[n].branch IN
    /\ setup.slow /\ session[n].live /\ work[b].here # work[b].origin
    /\ work' = Pushed(b, work[b].here)
    /\ session' = IF session[n].heard THEN Heard(b, word[b], work') ELSE session
    /\ UNCHANGED <<setup, record, word, queue, locks, pc, chaining, draining>>

(* Its last word, as early as it likes - no plan is reported before there   *)
(* is one.                                                                  *)
LastWord(phase) == CASE phase = "plan" -> "planned"
                     [] phase = "execute" -> "pushed"
                     [] OTHER -> "review-pass"

Claims(n) ==
    LET b == session[n].branch
        w == LastWord(session[n].phase)
    IN  /\ setup.slow /\ session[n].live /\ ReportOf(n) # w
        /\ session[n].phase = "plan" => OwnPlan(work[b].here)
        /\ UNCHANGED work
        /\ Says(b, w)
    /\ UNCHANGED <<setup, record, queue, locks, pc, chaining, draining>>

(* A slow worker leaves when it is through, a swift one at any time.        *)
Through(n) ==
    LET t == work[session[n].branch].here IN
    /\ ReportOf(n) = LastWord(session[n].phase)
    /\ t = work[session[n].branch].origin
    /\ \A then \in {PassOn(t), CodeOn(t, FALSE), AttestOn(t)} : ~Owes(n, t, then)
    /\ session[n].phase = "plan" => t.plan \notin setup.red

Exit(n) ==
    /\ session[n].live /\ (setup.slow => Through(n))
    /\ session' = [session EXCEPT ![n].live = FALSE]
    /\ UNCHANGED <<setup, record, work, word, queue, locks, pc, chaining, draining>>

-----------------------------------------------------------------------------
(* start: the records, the limit; much later the session; then its record.  *)

(* Who holds a slot: a live session whose phase is not over.                *)
Busy == {n \in Live \cap Recorded : ~Over(n, ReportOf(n))}

Room == Cardinality(Busy) < MaxWorkers

(* A dead session's record is in nobody's way.                              *)
Free(b) == record[b] \notin Live
MayStart(b) == Free(b) /\ Room

(* The session starts: an execute without a plan of its own runs quick, a   *)
(* review with a plan still to be cleared is a plan review. Ids nobody uses *)
(* any more are forgotten.                                                  *)
Becomes(l) ==
    LET here == work[l.branch].here IN
    CASE l.phase = "execute" /\ QuickStart(here, work[l.branch].origin, Tier(l.branch)) -> "quick"
      [] l.phase = "review" /\ PlanReviewDue(here, Tier(l.branch)) -> "plan-review"
      [] OTHER -> l.phase
InSync(l) == Becomes(l) = "review" => ~Ahead(work[l.branch].here, work[l.branch].origin)

Fresh == CHOOSE n \in Ids : ~InUse(n)
Spawn(p, l) ==
    /\ \E n \in Ids : ~InUse(n)
    /\ new' = [new EXCEPT ![p] = Fresh]
    /\ session' = [n \in Ids |->
           IF n = Fresh
           THEN [Nobody(n) EXCEPT !.branch = l.branch, !.phase = Becomes(l), !.live = TRUE]
           ELSE IF InUse(n) THEN session[n] ELSE Nobody(n)]

(* _write_record *)
Records(p) ==
    /\ record' = [record EXCEPT ![session[new[p]].branch] = new[p]]
    /\ new' = [new EXCEPT ![p] = None]

-----------------------------------------------------------------------------
(* queue add, in one step under the queue lock: one line per issue and      *)
(* phase.                                                                   *)
Queued == {queue[i] : i \in DOMAIN queue}
Enqueue(l) ==
    /\ queueLock = None
    /\ queue' = IF l \in Queued THEN queue ELSE Append(queue, l)

Add(p) ==
    /\ does(p) = "add" /\ pc[p] = "idle"
    /\ Enqueue(asks(p))
    /\ Goes(p, "ended")
    /\ UNCHANGED <<setup, session, record, work, word, locks, chaining, draining>>

(* drain: the whole queue, in order, under its lock. Seeded fault: without. *)
WithoutLock(p) == UNCHANGED queueLock
LocksQueue(p) == queueLock = None /\ queueLock' = p

TakeQueue(p) ==
    /\ pc[p] = IF does(p) = "drain" THEN "idle" ELSE "drain"
    /\ does(p) \in {"drain", "tick"}
    /\ LocksQueue(p)
    /\ lines' = [lines EXCEPT ![p] = queue] /\ entries' = [entries EXCEPT ![p] = queue]
    /\ Goes(p, "try")
    /\ UNCHANGED <<setup, session, record, work, word, queue, chainLock, chaining, new>>

Accept(p) ==
    /\ pc[p] = "try" /\ lines[p] # <<>> /\ MayStart(Head(lines[p]).branch)
    /\ Goes(p, "spawn")
    /\ UNCHANGED <<setup, session, record, work, word, queue, locks, chaining, draining>>

(* A refused line stays queued and does not hold the ones behind it.        *)
Refuse(p) ==
    /\ pc[p] = "try" /\ lines[p] # <<>> /\ ~MayStart(Head(lines[p]).branch)
    /\ lines' = [lines EXCEPT ![p] = Tail(@)]
    /\ UNCHANGED <<setup, session, record, work, word, queue, locks, pc, chaining, entries, new>>

Start(p) ==
    /\ pc[p] = "spawn"
    /\ InSync(Head(lines[p]))
    /\ Spawn(p, Head(lines[p]))
    /\ Goes(p, "record")
    /\ UNCHANGED <<setup, record, work, word, queue, locks, chaining, lines, entries>>

OutOfSync(p) ==
    /\ pc[p] = "spawn" /\ ~InSync(Head(lines[p]))
    /\ lines' = [lines EXCEPT ![p] = Tail(@)]
    /\ Goes(p, IF does(p) = "start" THEN "ended" ELSE "try")
    /\ UNCHANGED <<setup, session, record, work, word, queue, locks, chaining, entries, new>>

Record(p) ==
    /\ pc[p] = "record" /\ Records(p)
    /\ Goes(p, "save")
    /\ UNCHANGED <<setup, session, work, word, queue, locks, chaining, lines, entries>>

(* The line is struck and what the drain still holds is saved; by hand,     *)
(* there is none. Seeded fault: the first line is struck.                   *)
Top(l, held) == Tail(held)
Without(l, held) ==
    LET kept[i \in 0..Len(held)] ==
            IF i = 0 THEN <<>>
            ELSE IF held[i] = l THEN kept[i - 1] ELSE Append(kept[i - 1], held[i])
    IN  kept[Len(held)]

Strike(p) ==
    /\ pc[p] = "save"
    /\ IF does(p) = "start" THEN UNCHANGED <<queue, entries>> /\ Goes(p, "ended")
       ELSE /\ entries' = [entries EXCEPT ![p] = Without(Head(lines[p]), @)]
            /\ queue' = entries'[p]
            /\ Goes(p, "try")
    /\ lines' = [lines EXCEPT ![p] = Tail(@)]
    /\ UNCHANGED <<setup, session, record, work, word, locks, chaining, new>>

Drained(p) ==
    /\ pc[p] = "try" /\ lines[p] = <<>> /\ does(p) # "start"
    /\ queue' = entries[p] /\ entries' = [entries EXCEPT ![p] = <<>>]
    /\ queueLock' = None
    /\ chainLock' = IF does(p) = "tick" THEN None ELSE chainLock
    /\ Goes(p, "idle")
    /\ UNCHANGED <<setup, session, record, work, word, chaining, lines, new>>

(* By hand: the same start, of one line, without the lock.                  *)
StartByHand(p) ==
    /\ does(p) = "start" /\ pc[p] = "idle"
    /\ MayStart(asks(p).branch)
    /\ lines' = [lines EXCEPT ![p] = <<asks(p)>>]
    /\ Goes(p, "spawn")
    /\ UNCHANGED <<setup, session, record, work, word, queue, locks, chaining, entries, new>>

-----------------------------------------------------------------------------
(* chain, under a lock of its own: the records and reports are read once.   *)
LocksChain(p) == chainLock = None /\ chainLock' = p

TakeChain(p) ==
    /\ does(p) = "tick" /\ pc[p] = "idle"
    /\ LocksChain(p)
    /\ judging' = [judging EXCEPT ![p] = {<<n, ReportOf(n)>> : n \in Recorded}]
    /\ Goes(p, "judge")
    /\ UNCHANGED <<setup, session, record, work, word, queue, queueLock, cur, next, head, draining>>

(* One session at a time: what moves on goes to the recheck, a plan first   *)
(* to its gates - unless a Tier 2 plan has not been passed, or its gates    *)
(* were red on this very commit. Seeded fault: on any.                      *)
OnceRed(n, t) == session[n].red # Bare
RedOn(n, t) == session[n].red = t

Judge(p) ==
    /\ pc[p] = "judge"
    /\ \E j \in judging[p], dirty \in BOOLEAN :
         LET n == j[1]
             b == session[n].branch
             here == work[b].here
             to == {f \in Phases \cup {"end"} : MovesOn(n, j[2], f)}
             waits == \/ to = {} \/ dirty
                      \/ to = {"execute"} /\ Uncleared(here, Tier(b)) /\ Tier(b) < 3
                      \/ to = {"execute"} /\ RedOn(n, here)
         IN  /\ dirty \in Dirty
             /\ judging' = [judging EXCEPT ![p] = @ \ {j}]
             /\ IF waits THEN UNCHANGED <<pc, cur, next, head>>
                ELSE /\ cur' = [cur EXCEPT ![p] = n]
                     /\ next' = [next EXCEPT ![p] = CHOOSE f \in to : TRUE]
                     /\ head' = [head EXCEPT ![p] = here]
                     /\ Goes(p, IF to = {"execute"} THEN "gates" ELSE "recheck")
    /\ UNCHANGED <<setup, session, record, work, word, queue, locks, draining>>

(* plan_gates: minutes later, on the worktree as it is by then. Red is kept *)
(* with the record, for the commit that was judged; green after a Tier 3    *)
(* plan nobody has passed: its review comes first.                          *)
Gates(p) ==
    LET n == cur[p]
        b == session[n].branch
    IN  /\ pc[p] = "gates"
        /\ IF work[b].here.plan \in setup.red
           THEN /\ session' = IF record[b] = n THEN [session EXCEPT ![n].red = head[p]] ELSE session
                /\ Goes(p, "judge") /\ UNCHANGED next
           ELSE /\ next' = [next EXCEPT ![p] = IF Uncleared(head[p], Tier(b)) THEN "plan-review" ELSE @]
                /\ Goes(p, "recheck") /\ UNCHANGED session
    /\ UNCHANGED <<setup, record, work, word, queue, locks, judging, cur, head, draining>>

Judged(p) ==
    /\ pc[p] = "judge" /\ judging[p] = {}
    /\ cur' = [cur EXCEPT ![p] = None] /\ next' = [next EXCEPT ![p] = "wait"]
    /\ head' = [head EXCEPT ![p] = Bare]
    /\ Goes(p, "drain")
    /\ UNCHANGED <<setup, session, record, work, word, queue, locks, judging, draining>>

(* Judging may take minutes (plan_gates): is it still the same session?     *)
Recheck(p) ==
    /\ pc[p] = "recheck"
    /\ Goes(p, IF record[session[cur[p]].branch] = cur[p] THEN "stop" ELSE "judge")
    /\ UNCHANGED <<setup, session, record, work, word, queue, locks, chaining, draining>>

(* stop loads the record for itself. Uncommitted work refuses.              *)
Target(p) == IF does(p) = "stop" THEN asks(p).branch ELSE session[cur[p]].branch
Back(p) == IF does(p) = "stop" THEN "ended" ELSE "judge"

Load(p) ==
    /\ pc[p] = IF does(p) = "stop" THEN "idle" ELSE "stop"
    /\ does(p) \in {"stop", "tick"}
    /\ LET n == record[Target(p)] IN
         IF n = None THEN Goes(p, Back(p)) /\ UNCHANGED cur
         ELSE /\ cur' = [cur EXCEPT ![p] = n]
              /\ IF n \in Live
                 THEN \E dirty \in Dirty : Goes(p, IF dirty THEN Back(p) ELSE "kill")
                 ELSE Goes(p, "unlink")
    /\ UNCHANGED <<setup, session, record, work, word, queue, locks, judging, next, head, draining>>

Kill(p) ==
    /\ pc[p] = "kill"
    /\ session' = [session EXCEPT ![cur[p]].live = FALSE]
    /\ Goes(p, IF does(p) = "stop" THEN "word" ELSE "unlink")
    /\ UNCHANGED <<setup, record, work, word, queue, locks, chaining, draining>>

(* By hand: `idle`, unless its own report has ended the phase.              *)
WordOfStop(p) ==
    /\ pc[p] = "word"
    /\ IF Over(cur[p], ReportOf(cur[p])) THEN UNCHANGED <<word, session>>
       ELSE Says(session[cur[p]].branch, "done")
    /\ UNCHANGED work
    /\ Goes(p, "unlink")
    /\ UNCHANGED <<setup, record, queue, locks, chaining, draining>>

(* A command that ends early, by an error or a signal: its locks go.        *)
Dies(p, to) ==
    /\ chainLock' = IF chainLock = p THEN None ELSE chainLock
    /\ queueLock' = IF queueLock = p THEN None ELSE queueLock
    /\ judging' = [judging EXCEPT ![p] = {}]
    /\ cur' = [cur EXCEPT ![p] = None] /\ next' = [next EXCEPT ![p] = "wait"]
    /\ head' = [head EXCEPT ![p] = Bare]
    /\ lines' = [lines EXCEPT ![p] = <<>>] /\ entries' = [entries EXCEPT ![p] = <<>>]
    /\ new' = [new EXCEPT ![p] = None]
    /\ Goes(p, to)

(* p.unlink(): whatever the record names by now; it fails on none.          *)
Unlink(p) ==
    /\ pc[p] = "unlink"
    /\ IF record[Target(p)] = None
       THEN Dies(p, IF does(p) = "tick" THEN "idle" ELSE "ended") /\ UNCHANGED record
       ELSE /\ record' = [record EXCEPT ![Target(p)] = None]
            /\ Goes(p, IF does(p) = "tick" /\ next[p] # "end" THEN "queue" ELSE Back(p))
            /\ UNCHANGED <<locks, chaining, draining>>
    /\ UNCHANGED <<setup, session, work, word, queue>>

QueueNext(p) ==
    /\ pc[p] = "queue"
    /\ Enqueue([branch |-> Target(p), phase |-> next[p]])
    /\ Goes(p, "judge")
    /\ UNCHANGED <<setup, session, record, work, word, locks, chaining, draining>>

-----------------------------------------------------------------------------
(* forget_branch: a record is read, found dead, and removed.                *)
FindDead(p) ==
    /\ does(p) = "forget" /\ pc[p] = "idle"
    /\ record[asks(p).branch] \in Ids \ Live
    /\ Goes(p, "forget")
    /\ UNCHANGED <<setup, session, record, work, word, queue, locks, chaining, draining>>

Forget(p) ==
    /\ pc[p] = "forget"
    /\ record' = [record EXCEPT ![asks(p).branch] = None]
    /\ Goes(p, "ended")
    /\ UNCHANGED <<setup, session, work, word, queue, locks, chaining, draining>>

Killed(p) ==
    /\ p \in setup.dies /\ pc[p] \notin {"idle", "ended"}
    /\ Dies(p, "ended")
    /\ UNCHANGED <<setup, session, record, work, word, queue>>

Step(p) == \/ Add(p) \/ TakeQueue(p) \/ Accept(p) \/ Refuse(p) \/ Start(p) \/ OutOfSync(p) \/ Record(p)
           \/ Strike(p) \/ Drained(p) \/ StartByHand(p)
           \/ TakeChain(p) \/ Judge(p) \/ Gates(p) \/ Judged(p) \/ Recheck(p)
           \/ Load(p) \/ Kill(p) \/ WordOfStop(p) \/ Unlink(p) \/ QueueNext(p)
           \/ FindDead(p) \/ Forget(p)

Works(n) == Commits(n) \/ Pushes(n) \/ Claims(n)

Next == \/ \E p \in Procs : Step(p) \/ Killed(p)
        \/ \E n \in Ids : Reports(n) \/ Works(n) \/ Exit(n)

Spec == Init /\ [][Next]_vars

(* The steward's ticks come again and again, a command goes on, a slow      *)
(* worker does its duty, and every worker's session comes to an end.        *)
FairSpec == /\ Spec
            /\ \A p \in Procs : WF_vars(Step(p))
            /\ \A n \in Ids : WF_vars(Works(n)) /\ WF_vars(Exit(n))

-----------------------------------------------------------------------------
(* Properties.                                                              *)

(* Nobody intervenes: ticks and queue adds only, or drains and queue adds   *)
(* only, and none of them is killed.                                        *)
Unattended ==
    /\ setup.dies = {}
    /\ \E all \in {"tick", "drain"} : \A p \in Procs : does(p) \in {all, "add", "rest"}

(* A branch has one worker: unattended, no order of ticks, drains and adds  *)
(* starts a second session in a branch's worktree.                          *)
OneWorkerABranch ==
    Unattended => \A b \in Branches : Cardinality(LiveOn(b)) <= 1

(* No line is lost: one leaves the queue only after its own start.          *)
LinesLeaveByStarting ==
    [][\A l \in Queued \ Queued' : \E p \in Procs : pc[p] = "save" /\ Head(lines[p]) = l]_vars

(* The work gets through: unattended, with ticks that come again, every     *)
(* queued line is started one day - those a full host refuses time and      *)
(* again, and those chained by the session that had the branch before. And  *)
(* with workers that do their duty, a branch queued for its plan, or for a  *)
(* quick run, ends as a train candidate - its code attested, on origin, and *)
(* nobody left on it - whatever the tier, however early a worker claims to  *)
(* be done, when the gates refuse the plan and when it is written again     *)
(* under a tick's eyes.                                                     *)
Candidate(b) ==
    /\ AttestOnOrigin(work[b].here, work[b].origin)
    /\ work[b].here.code /\ ~NewCode(work[b].origin)
    /\ record[b] = None /\ LiveOn(b) = {}
WorkGetsThrough ==
    Unattended =>
        <>[]/\ queue = <<>>
            /\ setup.slow => \A i \in DOMAIN setup.queue : Candidate(setup.queue[i].branch)
=============================================================================
