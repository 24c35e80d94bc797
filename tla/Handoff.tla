------------------------------- MODULE Handoff -------------------------------
(***************************************************************************)
(* dispatch.py with Codex runs on one branch: it starts a run on what a    *)
(* review binds, stops it, and hands an ended review over (handoff of      *)
(* _dispatch_codex.py) - the result against its receipt, the report, an    *)
(* attest of Attest that commits, the push - while the user works in the   *)
(* same worktree. One command runs at a time, and dies anywhere; the attest*)
(* it called goes on without it.                                           *)
(***************************************************************************)
EXTENDS Attest, CodexRun

VARIABLES
    rec,      \* the branch's record: its run, 0 for none
    bound,    \* the head each run's review is bound to
    op,       \* the command that runs
    for,      \* the run an attest was called for
    done,     \* handoff.json of each run
    rows,     \* the runs unavailable.jsonl names
    origin,   \* the commits of the branch on origin
    harm      \* kills and meddling so far, at most scene.harm

runs == <<run, rec, bound>>
handing == <<op, for, done, rows, origin>>
all == <<vars, runs, handing, harm>>

ASSUME CodexAssumption ==
    /\ Runs \subseteq Nat \ {0}
    /\ \A s \in Scenes : /\ "phase" \in DOMAIN s /\ s.phase \in {"review", "execute"} /\ s.harm \in Nat
                         /\ s.attests \in 0..Cardinality(Procs) /\ s.runs \subseteq Runs
                         /\ s.ended \in Results /\ (s.ended # "none" => 1 \in Runs)

HeadTree == log[Len(log)].tree
Dirty == {f \in Paths : Held(f) # HeadTree[f] \/ index[f] # HeadTree[f]}

RecordsAppended(f) ==
    f = Plan /\ NoFile \notin {Held(f), HeadTree[f]} /\ Extends(Held(f), HeadTree[f])
Clean == \A f \in Dirty : RecordsAppended(f)

ReportText(r) == [kind |-> "report", run |-> r]

(* The lines there are; no file is not one without any.                     *)
AnyLine ==
    [kind : {"review"}, verdict : {"pass", "block"}, round : Nat, by : STRING \cup Procs]
    \cup [kind : {"words"}, nr : Nat] \cup [kind : {"report"}, run : Nat]
ASSUME NoContentAssumption == NoFile \notin Seq(AnyLine)

Idle == [at |-> "idle", run |-> 0, moves |-> 0, before |-> {}, plans |-> {}, left |-> {},
         call |-> NoFile, verdict |-> "none", commit |-> 0, pushed |-> FALSE]
NoHandoff == [state |-> "none", commit |-> 0, pushed |-> FALSE]

(* No run yet; or one that ended, bound to the first commit.                *)
AsEnded == [Unlaunched EXCEPT !.sup = "gone", !.go = TRUE, !.worker = "dead", !.tries = 1,
                !.code = "zero", !.result = scene.ended,
                !.receipt = [outcome |-> "completed", seal |-> scene.ended]]
HandedInit ==
    /\ Init
    /\ rec = IF scene.ended = "none" THEN 0 ELSE 1
    /\ run = [r \in Runs |-> IF r = rec THEN AsEnded ELSE Unlaunched]
    /\ bound = [r \in Runs |-> IF r = rec THEN 1 ELSE 0]
    /\ op = Idle
    /\ for = [p \in Procs |-> 0]
    /\ done = [r \in Runs |-> NoHandoff]
    /\ rows = {}
    /\ origin = 1
    /\ harm = 0

Goal(at) == op' = [op EXCEPT !.at = at]
Rests == op' = Idle
During(at) == op.at = at /\ UNCHANGED harm
NoFilesTouched == UNCHANGED vars
NoRunTouched == UNCHANGED runs

-----------------------------------------------------------------------------
(* start: refused while the branch's run goes on or nobody knows. A review  *)
(* binds the head of a worktree that is clean but for appended records. The *)
(* run is launched, recorded, then let past its barrier.                    *)
Free == rec # 0 => Outcome(rec) \notin {"running", "unknown"}

Start(r) ==
    /\ During("idle") /\ r \in scene.runs /\ run[r].sup = "none"
    /\ Free /\ \A s \in Runs : s < r /\ s \in scene.runs => run[s].sup # "none"
    /\ scene.phase = "review" => Clean
    /\ bound' = [bound EXCEPT ![r] = Len(log)]
    /\ op' = [op EXCEPT !.at = "launch", !.run = r]
    /\ NoFilesTouched /\ UNCHANGED <<run, rec, for, done, rows, origin>>

Launch ==
    /\ During("launch")
    /\ Launched(op.run, scene.phase)
    /\ Goal("record")
    /\ NoFilesTouched /\ UNCHANGED <<rec, bound, for, done, rows, origin>>

Record ==
    /\ During("record")
    /\ rec' = op.run
    /\ Goal("activate")
    /\ NoFilesTouched /\ UNCHANGED <<run, bound, for, done, rows, origin>>

Activate ==
    /\ During("activate")
    /\ Activated(op.run)
    /\ Rests
    /\ NoFilesTouched /\ UNCHANGED <<rec, bound, for, done, rows, origin>>

-----------------------------------------------------------------------------
(* stop: the record goes when the run is known to have ended; a live one is *)
(* told to end and given eight seconds. Work in the worktree wants --force. *)
Stop(force) ==
    /\ During("idle") /\ rec # 0
    /\ Dirty = {} \/ force
    /\ IF Alive(rec)
         THEN Signalled(rec) /\ op' = [op EXCEPT !.at = "stopping", !.run = rec] /\ UNCHANGED rec
         ELSE /\ Outcome(rec) # "unknown" /\ rec' = 0
              /\ UNCHANGED <<run, op>>
    /\ NoFilesTouched /\ UNCHANGED <<bound, for, done, rows, origin>>

Stopped ==
    /\ During("stopping")
    /\ rec' = IF Outcome(op.run) = "interrupted" THEN 0 ELSE rec
    /\ Rests
    /\ NoFilesTouched /\ UNCHANGED <<run, bound, for, done, rows, origin>>

-----------------------------------------------------------------------------
(* handoff. An attested run is never attested twice: its commit is pushed   *)
(* again, while it is HEAD. A run that ended without a result is the        *)
(* recorded way out; one that runs or vanished is refused. Seeded fault:    *)
(* whatever is HEAD is pushed again.                                        *)
WhateverIsHead(r) == TRUE
ItsCommitIsHead(r) == done[r].commit = Len(log)
NoResult(r) == Outcome(r) \in {"failed", "interrupted"}

Look ==
    /\ During("idle") /\ rec # 0 /\ IsReview(rec)
    /\ \/ /\ done[rec].state = "attested" /\ ~done[rec].pushed /\ ItsCommitIsHead(rec)
          /\ op' = [op EXCEPT !.at = "push", !.run = rec, !.moves = moves, !.commit = done[rec].commit]
          /\ UNCHANGED rows
       \/ /\ done[rec].state # "attested" /\ NoResult(rec)
          /\ rows' = rows \cup {rec} /\ UNCHANGED op
       \/ /\ done[rec].state # "attested" /\ Outcome(rec) = "completed"
          /\ Cardinality(Called) < scene.attests
          /\ op' = [op EXCEPT !.at = "recognise", !.run = rec, !.moves = moves] /\ UNCHANGED rows
    /\ NoFilesTouched /\ NoRunTouched /\ UNCHANGED <<for, done, origin>>

(* A handoff that stopped after its own attest commit is finished: HEAD is  *)
(* that commit, straight on the bound head, which brings or changes the     *)
(* file named for this run, whatever was written to it since, and holds a   *)
(* line of Codex on that head.                                              *)
NamedFor(r, data) == data \notin {NoFile, <<>>} /\ data[1] = ReportText(r)
LinesFor(r, lines) == {l \in {lines[i] : i \in DOMAIN lines} : l.kind = "review" /\ l.by \in Procs /\ for[l.by] = r}
CommittedAttest(r) ==
    /\ Len(log) = bound[r] + 1
    /\ NamedFor(r, HeadTree[Report]) /\ HeadTree[Report] # log[bound[r]].tree[Report]
    /\ LinesFor(r, Lines(HeadTree[Shard])) # {}

Recognise ==
    /\ During("recognise")
    /\ Goal(IF CommittedAttest(op.run) THEN "finish" ELSE "bind")
    /\ NoFilesTouched /\ NoRunTouched /\ UNCHANGED <<for, done, rows, origin>>

(* The bundle still binds: HEAD is the reviewed head, nothing but appended  *)
(* records beside it.                                                       *)
Bind ==
    /\ During("bind")
    /\ IF Clean /\ Len(log) = bound[op.run] THEN Goal("result") ELSE Rests
    /\ NoFilesTouched /\ NoRunTouched /\ UNCHANGED <<for, done, rows, origin>>

(* Seeded fault: the result as it is now.                                   *)
AsItIsNow(r) == TRUE
AsSealed(r) == run[r].result = run[r].receipt.seal

TakeResult ==
    /\ During("result")
    /\ IF AsSealed(op.run) /\ ResultOk(op.run)
         THEN op' = [op EXCEPT !.at = "report", !.verdict = run[op.run].result]
         ELSE Rests
    /\ rows' = IF AsSealed(op.run) /\ ~ResultOk(op.run) THEN rows \cup {op.run} ELSE rows
    /\ NoFilesTouched /\ NoRunTouched /\ UNCHANGED <<for, done, origin>>

OnlyFiles == UNCHANGED <<attest, git, moves>>

WriteReport ==
    /\ During("report")
    /\ name' = [name EXCEPT ![Report] = 3]
    /\ bytes' = [bytes EXCEPT ![3] = <<ReportText(op.run)>>]
    /\ Goal("list")
    /\ OnlyFiles /\ NoRunTouched /\ UNCHANGED <<for, done, rows, origin>>

(* The appended records ride along; the dry run looks as the attest will,   *)
(* its evidence a choice.                                                   *)
ListDirty ==
    /\ During("list")
    /\ op' = [op EXCEPT !.at = "dry", !.before = Dirty, !.plans = {f \in Dirty : RecordsAppended(f)}]
    /\ NoFilesTouched /\ NoRunTouched /\ UNCHANGED <<for, done, rows, origin>>

DryRun ==
    /\ During("dry")
    /\ \/ /\ \A f \in {Shard, Report} \cup op.plans : ~Foreign(Held(f), HeadTree[f], index[f])
          /\ Goal("call")
       \/ Goal("clean")
    /\ NoFilesTouched /\ NoRunTouched /\ UNCHANGED <<for, done, rows, origin>>

(* A lens of a round that blocked on this very head names that round;       *)
(* whether the blocks at hand are of this head is a choice.                 *)
CallAttest(p) ==
    /\ During("call") /\ pc[p] = "uncalled"
    /\ \E claim \in {0, Highest(Lines(Held(Shard)))} :
           scene' = [scene EXCEPT !.calls =
               [c \in Called \cup {p} |->
                   IF c = p THEN [verdict |-> op.verdict, claim |-> claim, commit |-> TRUE,
                                  with |-> {Report} \cup op.plans]
                   ELSE scene.calls[c]]]
    /\ pc' = [pc EXCEPT ![p] = "head"]
    /\ for' = [for EXCEPT ![p] = op.run]
    /\ op' = [op EXCEPT !.at = "wait", !.call = p]
    /\ UNCHANGED <<snap, round, laid, fd, files, git, moves>> /\ NoRunTouched /\ UNCHANGED <<done, rows, origin>>

Await ==
    /\ During("wait") /\ pc[op.call] \in Ends
    /\ Goal(IF pc[op.call] = "committed" THEN "finish" ELSE "reset")
    /\ NoFilesTouched /\ NoRunTouched /\ UNCHANGED <<for, done, rows, origin>>

-----------------------------------------------------------------------------
(* _restore, after an attest that failed: unstage everything, then put back *)
(* what is dirty and was not before. With a lock left behind git does       *)
(* neither, and the file is unlinked like one the attest made.              *)
Reset ==
    /\ During("reset")
    /\ index' = IF lock = NoFile THEN HeadTree ELSE index
    /\ UNCHANGED <<attest, files, lock, log, moves>> /\ NoRunTouched /\ UNCHANGED <<for, done, rows, origin>>
    /\ op' = [op EXCEPT !.at = "put back", !.left = Dirty' \ op.before]

Unlinked(f) == [name EXCEPT ![f] = 0]

PutBack(f) ==
    /\ During("put back") /\ f \in op.left
    /\ op' = [op EXCEPT !.left = @ \ {f}]
    /\ IF HeadTree[f] # NoFile /\ lock = NoFile
         THEN /\ bytes' = Append(bytes, HeadTree[f])
              /\ name' = [name EXCEPT ![f] = Len(bytes')]
              /\ index' = [index EXCEPT ![f] = HeadTree[f]]
         ELSE name' = Unlinked(f) /\ UNCHANGED <<bytes, index>>
    /\ UNCHANGED <<attest, lock, log, moves>> /\ NoRunTouched /\ UNCHANGED <<for, done, rows, origin>>

AllPutBack ==
    /\ During("put back") /\ op.left = {}
    /\ Goal("clean")
    /\ NoFilesTouched /\ NoRunTouched /\ UNCHANGED <<for, done, rows, origin>>

Refuse ==
    /\ During("clean")
    /\ name' = [name EXCEPT ![Report] = 0]
    /\ done' = [done EXCEPT ![op.run] = [NoHandoff EXCEPT !.state = "refused"]]
    /\ Rests
    /\ UNCHANGED bytes /\ OnlyFiles /\ NoRunTouched /\ UNCHANGED <<for, rows, origin>>

-----------------------------------------------------------------------------
(* _finish: the commit is named, HEAD is pushed through the hook, then the  *)
(* receipt. The hook, or an origin that moved, refuses the push.            *)
Name ==
    /\ During("finish")
    /\ op' = [op EXCEPT !.at = "push", !.commit = Len(log)]
    /\ NoFilesTouched /\ NoRunTouched /\ UNCHANGED <<for, done, rows, origin>>

PushHead ==
    /\ During("push")
    /\ \E accepted \in BOOLEAN :
           /\ origin' = IF accepted THEN Len(log) ELSE origin
           /\ op' = [op EXCEPT !.at = "receipt", !.pushed = accepted]
    /\ NoFilesTouched /\ NoRunTouched /\ UNCHANGED <<for, done, rows>>

WriteReceipt ==
    /\ During("receipt")
    /\ done' = [done EXCEPT ![op.run] = [state |-> "attested", commit |-> op.commit, pushed |-> op.pushed]]
    /\ Rests
    /\ NoFilesTouched /\ NoRunTouched /\ UNCHANGED <<for, rows, origin>>

HandOver ==
    \/ Look \/ Recognise \/ Bind \/ TakeResult \/ WriteReport \/ ListDirty \/ DryRun
    \/ Await \/ Reset \/ AllPutBack \/ Refuse \/ Name \/ PushHead \/ WriteReceipt
    \/ \E p \in Procs : CallAttest(p)
    \/ \E f \in Paths : PutBack(f)

Command ==
    \/ Launch \/ Record \/ Activate \/ Stopped \/ HandOver
    \/ \E r \in Runs : Start(r)
    \/ \E force \in BOOLEAN : Stop(force)

-----------------------------------------------------------------------------
Harms == harm < scene.harm /\ harm' = harm + 1

KillCommand ==
    /\ Harms /\ op.at # "idle"
    /\ Rests
    /\ NoFilesTouched /\ NoRunTouched /\ UNCHANGED <<for, done, rows, origin>>

Harm == \E r \in Runs : Harms /\ (Kill(r) \/ (Meddle(r) /\ run[r].sup # "none"))

Attested == Next /\ UNCHANGED <<runs, handing, harm>>
Supervised ==
    \/ \E r \in Runs : (Supervise(r) \/ Work(r)) /\ UNCHANGED harm
    \/ Harm

HandedNext ==
    \/ Attested
    \/ Command \/ KillCommand
    \/ Supervised /\ NoFilesTouched /\ UNCHANGED <<rec, bound, handing>>

HandedSpec == HandedInit /\ [][HandedNext]_all
-----------------------------------------------------------------------------
(* handoff's docstring: receipts and digests, and an attested run is never  *)
(* attested twice. Of a run whose handoffs died, raced their own attests or *)
(* met the user, what is committed gives the verdict the receipt sealed, of *)
(* a review that completed on the head it was bound to; and it is one line, *)
(* unless a handoff was killed and the user put its leftovers away, so that *)
(* another one could call its attest beside the one that went on.           *)
LinesOf(i, r) == LinesFor(r, Lines(log[i].tree[Shard]))
LinesAreTrue ==
    \A i \in DOMAIN log : \A r \in Runs : \A l \in LinesOf(i, r) :
        /\ run[r].receipt = [outcome |-> "completed", seal |-> l.verdict]
        /\ bound[r] < i /\ r \notin rows
OneLineEach ==
    harm = 0 \/ moves = 0 =>
        \A i \in DOMAIN log : \A r \in Runs : \A l \in LinesOf(i, r) : LinesOf(i, r) = {l}
AttestsWhatRan == LinesAreTrue /\ OneLineEach

(* What a handoff brings to origin ends with the commit that attests its    *)
(* run, be it its own or one a handoff that died had made; and a push that  *)
(* failed is made again only for the commit that was named then, whatever   *)
(* was committed since. So far as nobody else is at work in the worktree: no *)
(* attest of another's, no step of the user since it looked.                *)
Undisturbed(r) == moves = op.moves /\ \A p \in Called : for[p] = r
AttestedBy(i, r) == LinesOf(i, r) # {}
PushesOnlyItsReview ==
    [][origin' # origin /\ Undisturbed(op.run) /\ (harm = 0 \/ moves = 0) =>
          IF done[op.run].state = "attested" THEN origin' = done[op.run].commit
          ELSE AttestedBy(origin', op.run) /\ ~AttestedBy(origin' - 1, op.run)]_all
=============================================================================
