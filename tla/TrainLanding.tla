---------------------------- MODULE TrainLanding ----------------------------
(***************************************************************************)
(* Boarding and landing of train runs (template/scripts/process/train.py,  *)
(* plan, candidates, the end of _run_batch, _delete_branch; tower.py,      *)
(* report_ids, train_holds, held_since) on one clone with one origin, among *)
(* everything that moves meanwhile: workers commit, review, push and hold  *)
(* their branches here and on other hosts, somebody else moves main, and a *)
(* run may die between any two of its git commands.                        *)
(*                                                                         *)
(* How a board is judged is Judgement's; TrainRounds implements that.      *)
(*                                                                         *)
(* A commit is <<who, n>>, a ref the set of commits it reaches, {} a ref   *)
(* that does not exist. The base everybody branched from is in every ref   *)
(* and left out. Merge commits are left out too: a merge reaches what its  *)
(* parents reach.                                                          *)
(***************************************************************************)
EXTENDS Naturals, Sequences, FiniteSets

CONSTANTS
    Branches,
    Starts,       \* where the branches may stand at first, see Start
    MaxCommits,   \* bounds: of one branch,
    MaxReports,   \* of all branches,
    MaxStrangers, \* commits on main that are no train's, here and elsewhere,
    MaxRuns       \* and runs of the train

Strangers == {"root", "forge"}
Commits == (Branches \cup Strangers) \X Nat
Refs == SUBSET Commits

Report == [worker : Branches, state : {"blocked", "pushed"}, host : {"here", "far"}]

Start == [tip : [Branches -> Refs], covered : [Branches -> SUBSET Refs],
          made : [Branches \cup Strangers -> Nat], push : BOOLEAN,
          log : Seq(Report), runs : 0..MaxRuns]

ASSUME StrangersAssumption == Strangers \cap Branches = {}
ASSUME StartsAssumption == Starts \subseteq Start
(* Histories, as git keeps them: a commit reaches itself and what all that  *)
(* it reaches does, and nothing that reaches it. A branch stands on a       *)
(* commit: its own last one, if that was not amended away.                  *)
Begun(s) == UNION {s.tip[b] : b \in Branches}
Descends(s, past) ==
    /\ \A c \in Begun(s) :
          /\ c \in past[c] /\ c[2] <= s.made[c[1]]
          /\ \A d \in past[c] : past[d] \subseteq past[c] /\ (c \in past[d] => d = c)
    /\ \A b \in Branches :
          /\ s.tip[b] # {} => \E c \in s.tip[b] : past[c] = s.tip[b]
          /\ <<b, s.made[b]>> \in s.tip[b] => past[<<b, s.made[b]>>] = s.tip[b]
ASSUME HistoryAssumption ==
    \A s \in Starts : \E past \in [Begun(s) -> SUBSET Begun(s)] : Descends(s, past)

ASSUME BoundsAssumption == {MaxCommits, MaxReports, MaxStrangers, MaxRuns} \subseteq Nat

VARIABLES
    tip,       \* refs/heads/<b> of the clone
    copy,      \* origin's refs/heads/<b>
    main,      \* the clone's main
    origin,    \* origin's main
    tracking,  \* the clone's origin/main
    made,      \* how many commits each one made so far
    covered,   \* per branch: the histories a clearing REVIEW pass covers
    log,       \* all reports of workers, by when they were written
    fetched,   \* which of the other hosts' the clone has (positions in log)
    pc, push, runs,
    base, pinned,         \* what the run boarded: SHAs of main and the branches
    seen,                 \* and the reports it read then
    board, tree, passed,  \* Judgement's
    todo, cur, lease,     \* the cleanup: who is left, who is on, the SHA a delete expects
    done,      \* who got the train's `done`
    atPin, atCheck, left  \* history: reports there were at boarding's snapshot and
                          \* at the last hold check, and who left because of one

refs == <<tip, copy, main, origin, tracking, made, covered>>
words == <<log, fetched>>
boarding == <<base, pinned, seen, atPin>>
judged == <<board, tree, passed>>
cleaning == <<todo, cur, lease>>
told == <<atCheck, left>>
vars == <<refs, words, pc, push, runs, boarding, judged, cleaning, done, told>>

J == INSTANCE Judgement WITH outcome <- "none"

-----------------------------------------------------------------------------
(* Reports. Those of this host are read at once, the others' once fetched.  *)

Known == {i \in DOMAIN log : log[i].host = "here" \/ i \in fetched}
Of(b, known) == {i \in known : log[i].worker = b}

(* train_holds: the latest word is `blocked`.                               *)
Holds(b, known) ==
    \E i \in Of(b, known) : log[i].state = "blocked" /\ \A j \in Of(b, known) : j <= i

(* A host whose reports boarding read: this one, or one of which it read    *)
(* some. Another brings its whole history, which is no news of this run.    *)
ReadBefore(host) == host = "here" \/ \E i \in seen : log[i].host = host

(* held_since: an effective hold, or a `blocked` boarding had not seen.     *)
HeldSince(b, known) ==
    \/ Holds(b, known)
    \/ \E i \in Of(b, known) \ seen : log[i].state = "blocked" /\ ReadBefore(log[i].host)

-----------------------------------------------------------------------------
Nothing == [b \in Branches |-> {}]

Init ==
    /\ \E s \in Starts : /\ tip = s.tip /\ covered = s.covered
                         /\ made = s.made /\ push = s.push
                         /\ log = s.log /\ runs = s.runs
    /\ copy = tip
    /\ main = {} /\ origin = {} /\ tracking = {}
    /\ fetched = {} /\ pc = "idle"
    /\ base = {} /\ pinned = Nothing /\ seen = {} /\ atPin = {}
    /\ board = {} /\ tree = {} /\ passed = FALSE
    /\ todo = {} /\ cur = {} /\ lease = {}
    /\ done = {} /\ atCheck = {} /\ left = {}

(* What a passenger brings into the staging tree: the SHA it boarded with.  *)
(* Seeded fault: its branch, by name.                                       *)
ByName(b) == tip[b]
Brings(b) == pinned[b]

Staged == base \cup UNION {Brings(b) : b \in tree}

(* The process ends, and what it remembered with it. *)
Ends ==
    /\ pc' = "idle"
    /\ base' = {} /\ pinned' = Nothing /\ seen' = {} /\ atPin' = {}
    /\ board' = {} /\ tree' = {} /\ passed' = FALSE
    /\ todo' = {} /\ cur' = {} /\ lease' = {}
    /\ atCheck' = {} /\ left' = {}
    /\ UNCHANGED <<refs, words, push, runs, done>>

-----------------------------------------------------------------------------
(* Boarding.                                                                *)

(* plan: both fetches are best effort.                                      *)
Fetch ==
    /\ pc = "idle" /\ runs < MaxRuns
    /\ pc' = "pin" /\ runs' = runs + 1
    /\ tracking' \in {tracking, origin}
    /\ fetched' \in {fetched, DOMAIN log}
    /\ UNCHANGED <<tip, copy, main, origin, made, covered, log, push, boarding, judged,
                   cleaning, done, told>>

(* _snapshot: all SHAs at once. Who is eligible is judged on them: a branch *)
(* that leads and whose pinned tip a clearing pass covers.                  *)
Pin ==
    /\ pc = "pin"
    /\ pc' = "read"
    /\ base' = tracking /\ pinned' = tip
    /\ atPin' = DOMAIN log
    /\ board' = {b \in Branches : ~(tip[b] \subseteq tracking) /\ tip[b] \in covered[b]}
    /\ tree' = {} /\ passed' = FALSE
    /\ atCheck' = {} /\ left' = {}
    /\ UNCHANGED <<refs, words, push, runs, seen, cleaning, done>>

(* report_ids *)
ReadReports ==
    /\ pc = "read"
    /\ pc' = "board"
    /\ seen' = Known
    /\ UNCHANGED <<refs, words, push, runs, base, pinned, atPin, judged, cleaning, done, told>>

(* The holds; somebody is aboard, and the run departs.                       *)
Board ==
    /\ pc = "board"
    /\ board' = {b \in board : ~Holds(b, Known)} /\ board' # {}
    /\ pc' = "judge"
    /\ UNCHANGED <<refs, words, push, runs, boarding, tree, passed, cleaning, done, told>>

(* The rounds, as far as they matter here: some of the board, no more than  *)
(* boarded, passes on its own tree.                                         *)
Judge ==
    /\ pc = "judge"
    /\ J!Pass
    /\ pc' = "check"
    /\ UNCHANGED <<refs, words, push, runs, boarding, cleaning, done, told>>

(* held_during_run: who is held since boarding leaves, and with it whoever  *)
(* contains its tip. The rest is judged again, and checked again. Seeded    *)
(* fault: only the ones whose worker said so leave.                         *)
DirectLeave(direct) == direct
AllLeave(direct) ==
    direct \cup {b \in board : \E h \in direct : pinned[h] \subseteq pinned[b]}

HoldCheck ==
    /\ pc = "check"
    /\ UNCHANGED <<refs, log, push, runs, boarding, cleaning, done>>
    /\ fetched' \in {fetched, DOMAIN log}
    /\ atCheck' = Known'
    /\ LET off == AllLeave({b \in board : HeldSince(b, Known')}) IN
         /\ left' = left \cup off
         /\ IF off = {} THEN pc' = "depart" /\ UNCHANGED judged
            ELSE J!Recall /\ board' = board \ off /\ pc' = "judge"

-----------------------------------------------------------------------------
(* Landing: origin first, the clone second, then one passenger at a time.   *)

FastForward == origin \subseteq Staged

(* Local main must be on the base, or the train would publish without it.   *)
Departs == pc = "depart" /\ main \subseteq base

Push ==
    /\ Departs /\ push /\ FastForward
    /\ origin' = Staged /\ tracking' = Staged
    /\ pc' = "merge"
    /\ UNCHANGED <<tip, copy, main, made, covered, words, push, runs, boarding, judged,
                   cleaning, done, told>>

(* Rejected, for another push to origin or by a pre-push gate: the run ends *)
(* there. Seeded fault: nobody looks at the exit code.                      *)
GoesOn ==
    /\ pc' = "merge"
    /\ UNCHANGED <<refs, words, push, runs, boarding, judged, cleaning, done, told>>
OnRejection == Ends

PushRejected == Departs /\ push /\ OnRejection

WithoutPush ==
    /\ Departs /\ ~push
    /\ pc' = "merge"
    /\ UNCHANGED <<refs, words, push, runs, boarding, judged, cleaning, done, told>>

(* merge --ff-only: main moves up, or is there already.                     *)
Landed == board

Merge ==
    /\ pc = "merge"
    /\ main \subseteq Staged \/ Staged \subseteq main
    /\ main' = main \cup Staged
    /\ pc' = "clean"
    /\ todo' = Landed
    /\ UNCHANGED <<tip, copy, origin, tracking, made, covered, words, push, runs, boarding,
                   judged, cur, lease, done, told>>

(* A passenger that moved since boarding keeps branch, records and copy.    *)
Next1(to, b) == cur' = {b} /\ todo' = todo \ {b} /\ pc' = to

Moved ==
    /\ pc = "clean"
    /\ \E b \in todo : tip[b] # pinned[b] /\ todo' = todo \ {b}
    /\ UNCHANGED <<refs, words, pc, push, runs, boarding, judged, cur, lease, done, told>>

Settle ==
    /\ pc = "clean"
    /\ \E b \in todo : tip[b] = pinned[b] /\ Next1("report", b)
    /\ UNCHANGED <<refs, words, push, runs, boarding, judged, lease, done, told>>

ReportDone ==
    /\ pc = "report"
    /\ done' = done \cup cur
    /\ pc' = "delete"
    /\ UNCHANGED <<refs, words, push, runs, boarding, judged, cleaning, told>>

(* update-ref -d with the SHA that boarded; a branch checked out in a       *)
(* worktree stays. Seeded fault: branch -D.                                 *)
AsItIs(b) == TRUE
AsBoarded(b) == tip[b] = pinned[b]

DeleteLocal ==
    /\ pc = "delete"
    /\ \E b \in cur : /\ AsBoarded(b)
                      /\ tip' = [tip EXCEPT ![b] = {}]
                      /\ lease' = pinned[b]
    /\ pc' = IF push THEN "copy" ELSE "clean"
    /\ UNCHANGED <<copy, main, origin, tracking, made, covered, words, push, runs,
                   boarding, judged, todo, cur, done, told>>

KeepLocal ==
    /\ pc = "delete"
    /\ pc' = "clean"
    /\ UNCHANGED <<refs, words, push, runs, boarding, judged, cleaning, done, told>>

(* push --force-with-lease, a delete.                                       *)
DeleteCopy ==
    /\ pc = "copy"
    /\ \E b \in cur : copy[b] = lease /\ copy' = [copy EXCEPT ![b] = {}]
    /\ pc' = "clean"
    /\ UNCHANGED <<tip, main, origin, tracking, made, covered, words, push, runs, boarding,
                   judged, cleaning, done, told>>

(* The lease is stale, or origin cannot be reached. The first time, a copy  *)
(* that only lags behind what merged is deleted under a lease of its own.   *)
Lags(b) == copy[b] # {} /\ copy[b] \subseteq pinned[b]

KeepCopy ==
    /\ pc = "copy"
    /\ pc' = "clean"
    /\ UNCHANGED <<refs, words, push, runs, boarding, judged, cleaning, done, told>>

Relent ==
    /\ pc = "copy"
    /\ \E b \in cur : /\ copy[b] # lease /\ lease = pinned[b] /\ Lags(b)
                      /\ lease' = copy[b]
    /\ UNCHANGED <<refs, words, pc, push, runs, boarding, judged, todo, cur, done, told>>

(* Every passenger is settled: the run ends. It also ends where it stands:  *)
(* it does not depart, nobody passes or is left, local main is ahead, the   *)
(* fast-forward or another git command fails, the process is killed.        *)
Finish == pc = "clean" /\ todo = {} /\ Ends
Abort == pc # "idle" /\ Ends

Run == \/ Fetch \/ Pin \/ ReadReports \/ Board \/ Judge \/ HoldCheck
       \/ Push \/ PushRejected \/ WithoutPush \/ Merge
       \/ Moved \/ Settle \/ ReportDone
       \/ DeleteLocal \/ KeepLocal \/ DeleteCopy \/ Relent \/ KeepCopy
       \/ Finish \/ Abort

-----------------------------------------------------------------------------
(* Everybody else.                                                          *)

Still == UNCHANGED <<pc, push, runs, boarding, judged, cleaning, done, told>>

Fresh(who, limit) ==
    /\ made[who] < limit
    /\ made' = [made EXCEPT ![who] = @ + 1]
New(who) == <<who, made[who] + 1>>

Work(b) ==
    /\ tip[b] # {} /\ Fresh(b, MaxCommits)
    /\ tip' = [tip EXCEPT ![b] = @ \cup {New(b)}]
    /\ UNCHANGED <<copy, main, origin, tracking, covered, words>> /\ Still

(* The last commit is amended (or rebased: none of its old self is left).   *)
Amend(b) ==
    /\ <<b, made[b]>> \in tip[b] /\ Fresh(b, MaxCommits)
    /\ tip' = [tip EXCEPT ![b] = (@ \ {<<b, made[b]>>}) \cup {New(b)}]
    /\ UNCHANGED <<copy, main, origin, tracking, covered, words>> /\ Still

(* A review of the branch as it stands, and the commit that records it.     *)
Attest(b) ==
    /\ tip[b] # {} /\ tip[b] \notin covered[b] /\ Fresh(b, MaxCommits)
    /\ tip' = [tip EXCEPT ![b] = @ \cup {New(b)}]
    /\ covered' = [covered EXCEPT ![b] = @ \cup {tip'[b]}]
    /\ UNCHANGED <<copy, main, origin, tracking, words>> /\ Still

PushCopy(b) ==
    /\ tip[b] # {} /\ copy[b] # tip[b]
    /\ copy' = [copy EXCEPT ![b] = tip[b]]
    /\ UNCHANGED <<tip, main, origin, tracking, made, covered, words>> /\ Still

PushFromElsewhere(b) ==
    /\ copy[b] # {} /\ Fresh(b, MaxCommits)
    /\ copy' = [copy EXCEPT ![b] = @ \cup {New(b)}]
    /\ UNCHANGED <<tip, main, origin, tracking, covered, words>> /\ Still

Write(r) ==
    /\ Len(log) < MaxReports
    /\ log' = Append(log, r)
    /\ UNCHANGED <<refs, fetched>> /\ Still

MainMovesElsewhere ==
    /\ Fresh("forge", MaxStrangers)
    /\ origin' = origin \cup {New("forge")}
    /\ UNCHANGED <<tip, copy, main, tracking, covered, words>> /\ Still

CommitOnMain ==
    /\ Fresh("root", MaxStrangers)
    /\ main' = main \cup {New("root")}
    /\ UNCHANGED <<tip, copy, origin, tracking, covered, words>> /\ Still

Others ==
    \/ \E b \in Branches : Work(b) \/ Amend(b) \/ Attest(b) \/ PushCopy(b) \/ PushFromElsewhere(b)
    \/ \E r \in Report : Write(r)
    \/ MainMovesElsewhere \/ CommitOnMain

Next == Run \/ Others

Spec == Init /\ [][Next]_vars

-----------------------------------------------------------------------------
(* Properties.                                                              *)

OnMain == {"merge", "clean", "report", "delete", "copy"}   \* past the push

TypeOK ==
    /\ tip \in [Branches -> Refs] /\ copy \in [Branches -> Refs]
    /\ main \in Refs /\ origin \in Refs /\ tracking \in Refs
    /\ made \in [Branches \cup Strangers -> Nat]
    /\ covered \in [Branches -> SUBSET Refs]
    /\ log \in Seq(Report) /\ fetched \subseteq DOMAIN log
    /\ pc \in {"idle", "pin", "read", "board", "judge", "check", "depart"} \cup OnMain
    /\ push \in BOOLEAN /\ runs \in 0..MaxRuns
    /\ base \in Refs /\ pinned \in [Branches -> Refs]
    /\ seen \subseteq DOMAIN log /\ atPin \subseteq DOMAIN log /\ atCheck \subseteq DOMAIN log
    /\ board \subseteq Branches /\ tree \subseteq Branches /\ passed \in BOOLEAN
    /\ todo \subseteq Branches /\ cur \subseteq Branches /\ lease \in Refs
    /\ done \subseteq Branches /\ left \subseteq Branches

(* Whatever the workers commit, amend or review while a run goes on, and    *)
(* wherever it dies: each branch commit on main, here and on origin, is     *)
(* part of a history a clearing REVIEW pass covers.                         *)
MainIsReviewed ==
    \A c \in main \cup origin :
        c[1] \in Branches => \E b \in Branches : \E S \in covered[b] : c \in S

(* Who lands has no word against it that the run could have read: no hold   *)
(* at the last check, no `blocked` since the reports were read at boarding, *)
(* released or not, on whichever host. And the tip of one that left for     *)
(* such a word does not land with another that contains it.                 *)
HeldTipsStayOut ==
    pc \in OnMain =>
        /\ \A b \in board : ~Holds(b, atCheck)
        /\ \A i \in atCheck \ seen :
              log[i].state = "blocked" /\ ReadBefore(log[i].host) => log[i].worker \notin board
        /\ \A h \in left : ~(pinned[h] \subseteq Staged)

(* Where the train pushes, local main never has a branch commit origin does *)
(* not have: not after a rejected push, not after a crash at any point.     *)
LocalNeverAhead ==
    push => \A c \in main : c[1] \in Branches => c \in origin

(* Nothing anybody published on origin's main goes away: whoever pushes to  *)
(* it after the train pinned its base, the train does not push over it.     *)
OriginOnlyGrows == [][origin \subseteq origin']_vars

(* A branch is deleted here only when all it holds at that moment is on     *)
(* main, its copy on origin only when all that copy holds is on origin's    *)
(* main - whoever commits, amends or pushes between boarding, the checks    *)
(* and the delete.                                                          *)
NothingIsLost ==
    [][\A b \in Branches :
          /\ tip[b] # {} /\ tip'[b] = {} => tip[b] \subseteq main
          /\ copy[b] # {} /\ copy'[b] = {} => copy[b] \subseteq origin]_vars

(* `done` is told of what boarded and is on main - not of a passenger the   *)
(* run dropped.                                                             *)
DoneIsLanded ==
    [][\A b \in done' \ done : pinned[b] \subseteq main /\ (push => pinned[b] \subseteq origin)]_vars
=============================================================================
