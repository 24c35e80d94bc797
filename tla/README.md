# A formal model of dev-process

`dev-process` is a template that installs a development process into a
repository: coding agents ("workers") build issues on branches in worktrees of
one clone, other agents review them, a *merge train* tests the reviewed branches
together and lands them on the integration branch, and gates keep the records
honest. The code is Python under `template/scripts/process/` (about 30,000 lines;
paths below are relative to that directory unless they start with `template/`).
Its programs are short-lived and share state through git refs, files in the
git common directory, journals and file locks: that, and not any one algorithm,
is where they are hard to test, and what this project models.

## The system

| Component | Code | State it keeps | Operations | Talks to | Module |
|---|---|---|---|---|---|
| Merge train: judging a board | `train.py` `_run_batch`, `judge`, `build_train`, `bisect` | one run's memory; the staging worktree `<root>-train`; remembered greens | build a tree, judge it, re-run a flake, check the base, bisect, drop, check holds, end | git, the suite (through a lane), reports | `Judgement`, `TrainRounds` |
| Merge train: boarding and landing | `train.py` `plan`, `candidates`, `_snapshot`, `_delete_branch`; `tower.py` `report_ids`, `held_since` | local and origin's `main`, branches and their copies | pin SHAs, read reports, push, fast-forward, settle passengers | git, origin, reports, dispatch, tidy | `TrainLanding` |
| Merge train: before and beside the rounds | `train.py` `departure`, `pre_board`, `decide`, `read_facts`, `_settle_plans`, `_deviations` | the probe tree, facts of a check, plans | check a candidate alone, read why it failed, report it, archive plans, close issues | judging, tower, plans | `Boarding`, `Settling` |
| Test lanes | `lane.py` | `test-lane-<lane>.lock`, `<lane>.status`, `PROCESS_LANE_HELD` | run, wait, status, nested calls | train, hooks, every test run of the host | `Lane` |
| Dispatch | `dispatch.py` | one record per branch, the queue, sessions | start, stop, chain, drain, queue, forget | lanes, reports, reviews, branches' commits | `Dispatch`, `BranchWork` |
| Codex runs | `_dispatch_codex.py` | a supervisor's receipts, a run's binding and handoff | start, supervise, stop, hand over | attest, dispatch, origin | `CodexRun`, `Handoff` |
| Attest | `attest.py`, `Snapshot` of `attest_evidence.py` | REVIEW lines of a journal shard, index, HEAD | snapshot, decide, append, commit | git, editors, other attests | `Attest` |
| Evidence of a pass | `attest_evidence.py`, `required_records.py`, `make_review_bundle.py` | records of plan and journal, policy | build a bundle, block, pass or refuse | attest, review gate | `Evidence` |
| Review gate | `check_review.py` | nothing of its own: commits, journals, plans | judge a push to main | every push, the train | `Reviewed`, `ReviewGate` |
| Push guard and merge route, test selection, certificates | `pre_push.py`, `merge_route.py`, `test_select.py`, `certificate.py`, `gate_runner.py.jinja` | the stamp, certificates, the ledger | let a push through or refuse it, select tests, certify | git hooks, train | `Push` |
| Gate modes | `gate_modes.py` | an append-only record on every branch, the event log | weaken, restore, lock, unlock, fold, sentinel | gate runner | `GateModes` |
| Gate optimisation | `optimize.py` | experiment records, the mandate | design, review, freeze, move, check | people, gates | `Experiments` |
| Finish, tidy | `finish.py`, `tidy.py`, `compact_journal.py`, `publish_and_prune.py` | worktrees, branches, plans, reports, journals, specs | check, archive, rebase, merge, delete; compact, publish, prune | git, origin, issues | `Finish`, `Records`, `Prune` |
| Reports, tower | `report.py`, `tower.py`, `say` of `dispatch.py` | a log per host, `seen` of a watch, screens | write, publish, fetch, show, watch, say | train, dispatch, people | `Tower` |
| Red-green evidence, record checks, inventories, rehydrate, template update, release tools | `red_evidence.py`, `check_*.py`, `inventory.py`, `rehydrate.py`, `template_update.py`, `tools/` | none between runs | read trees, print findings | gates | - |

`PROJECT.json` lists every part with its status, every modelled definition with
its lines, and every hazard with the line it bites at and the properties that
cover it.

### What is hard

* **Reads that belong together are not atomic.** Boarding reads SHAs, then report
  identities, then holds; an attest reads HEAD, then the shard, then decides;
  a tick reads records and reports and acts minutes later; cleanup reads a copy on
  origin, compares it, deletes it. Workers commit, amend, review, push, save and
  report between any two of them.
* **One staging worktree, many trees.** First runs, probes, base checks and
  retries of a train run all use it; what is pushed is whatever it holds last.
* **Verdicts by chance, or from memory.** A suite may be flaky, missing, or green
  by a stamp, a certificate or a memo of another run.
* **Death anywhere.** A train pushes, fast-forwards and deletes in separate git
  commands; an attest dies with the index locked; a lane holder, a supervisor or a
  handoff is killed while what it started runs on; publishing stops half-way.
* **Records by name.** Dispatch decides on a record it read earlier, under a lock that
  not every command takes, and then writes or removes whatever has that name by now.
* **Records by merge.** Journals and mode records are files that branches append
  to, merge in either order, rebase, revert and prune; what counts is what a fold of
  the merged lines says.
* **Words across hosts.** A hold may be written here or elsewhere, and be seen
  late or not at all.

## Modules

```
Judgement        what a run promises about the board it judges (abstract)
  ^ implemented by TrainRounds    the rounds: retry, base check, bisection
  ^ used by        TrainLanding   boarding, push, cleanup, among the workers
Lane             the test lanes of a host
BranchWork <- Dispatch            what a branch's commits tell; the workers of a host
Attest, CodexRun <- Handoff       writing a REVIEW line; a Codex run; handing one over
Evidence         what a pass must show, and the bundle that says so beforehand
Reviewed <- ReviewGate            what is reviewed content; what may land
Push             the guards of a push, stamps and certificates
GateModes        whether a gate blocks       Experiments   the records of optimize.py
Prune <- Records <- Finish        publishing a spec; tidying records; a branch's tail
Tower, Settling <- Boarding       reports, watch, table, say; what a merge closes; pre-board

MC<module>       values of the constants for TLC
<module>Proofs   theorems, checked by TLAPS
```

(`A <- B`: B extends A.) A definition has the name of the function it stands for
where that reads well; the "seeded fault" operators next to a definition are the
mutations `PROJECT.json` lists and take no part in the specification.

### Judgement, TrainRounds: judging a board

`Judgement` is the promise: the board only shrinks, a board passes as a whole on
its own tree, whoever leaves after the verdict takes the verdict along, and only
a board that passed lands, on the tree that passed.

`TrainRounds` is the loop of `_run_batch`, one action per run of the suite:
`First` (the combined tree of a round), `RetryHere`/`RetryFull` (the one flake
re-run of a round: in place, or rebuilt), `CheckBase` (`check_base`, with the
memo), `SuiteMissing`, `SuiteLost`, `RedBase`, `StartSearch`, `Probe` (the
bisection over prefixes), `Confirm` (the base, for real, before the first passenger is
blamed on a remembered green), `Drop`, `HoldCheck`, and the ends: `Landed`,
`PushRejected`, `LocalAhead`, `NothingSurvived`, `EnvironmentRed`, `Aborted`.
`staged` is who is merged in the staging worktree, `greenHere` the trees whose
green this run remembers, `reported` who got the train's `blocked`.

What a tree deserves is a function of who is on it (`world.truth`): base and
passengers are pinned at boarding. The constant `Worlds` is the set of situations
explored: verdicts, merge conflicts, who is stacked on whom, whether the memo
vouches for the base, and what `--retry` re-runs (nothing, the suite's failed
tests faithfully, or something narrower). A run may come out red on a tree that
deserves green (`MaxFlakes` times). A retry on a worktree the first run wrote
into may answer either way. `misled` remembers that a run the code never
repeats was a flake: no code could blame rightly then.

### TrainLanding: boarding and landing

One clone, one origin, several runs of the train in sequence, and everybody else.
A commit is `<<who, n>>`, a ref is the set of commits it reaches, so a merge is
a union, an ancestor a subset, and a fast-forward a superset. `Fetch`, `Pin`, `ReadReports`,
`Board` are the reads of `plan` and `candidates`, in the code's order. `Judge` is
`Judgement`'s `Pass` and `HoldCheck` its `Recall` (or the way to the push).
`Push`, `PushRejected`, `WithoutPush`, `Merge` land; `Moved`, `Settle`, `ReportDone`,
`DeleteLocal`/`KeepLocal`, `DeleteCopy`/`Relent`/`KeepCopy` settle a passenger;
`Abort` is the process dying, or a git command failing, anywhere. `Work`,
`Amend`, `Attest`, `PushCopy`, `PushFromElsewhere`, `Write` are the workers,
`MainMovesElsewhere` and `CommitOnMain` others on main.

A review is reduced to what it clears: `covered[b]` is the set of histories of
`b` that a clearing pass covers; a branch is eligible when its pinned history is
one of them. Reports are one log in the order they were written; this host reads
its own at once and another's after a fetch.

### Lane: test lanes

Each process runs one `lane.py` command. `lock` is the flock, `status` whom the
status file names, `orphan` the runs whose `lane.py` was killed and whose command
lives on. `Acquire`, `GiveUp`, `Name`, `EndBody`, `Unname`, `Unlock` are `hold`;
`Probe`, `EndProbe`, `Sweep`, `Read` are `holder` and `_lock_free` (the probe takes
the lock for a moment, as the code does); `Start` decides the pass-through of
`PROCESS_LANE_HELD`; `Kill` and `OrphanEnds` are SIGKILL and what it leaves.

### BranchWork, Dispatch: the workers of a host

`BranchWork` is what `dispatch.py` reads from a branch's commits: its own plan and
which text of it was passed, open tasks, code after the last attestation, whether
the tip is an attestation that origin has. A commit is a record of just these.

Each process of `Dispatch` runs commands of one kind: a tick (`chain`, then `drain`), a
`drain`, a `queue add`, a `start` or `stop` by hand, or the train's `forget_branch`.
`start` is three steps, as far apart as in the code: `Accept` (or `StartByHand`) reads
the records and counts who holds a slot, `Start` starts the session (or `OutOfSync`
refuses a review ahead of origin), `Record` writes its record. `drain` is `TakeQueue`,
then `Accept`..`Strike` or `Refuse` for each line, `Drained`; it saves the list it
read, less what it started. `chain` is `TakeChain` (records and reports, read once),
`Judge`, `Gates` (the plan's gates, minutes long), `Recheck`, the three steps of `stop`
(`Load`, `Kill`, `Unlink`), `QueueNext`, `Judged`; `stop` by hand adds `WordOfStop`.
`Killed` ends a command anywhere; the kernel frees its locks.

A session is who runs on a branch, in which phase, live or not, and whether the
branch's last report counts as its own (`heard`, for the code's comparison of times).
Swift workers (`Reports`) commit, push and report in one step and may say anything;
slow ones (`Commits`, `Pushes`, `Claims`) do their duty piece by piece and may claim
to be through too early. `Exit` ends a session.

### Attest, CodexRun, Handoff: a REVIEW line, by hand or by a Codex run

`Attest` is one attest among several and a user. `ReadHead`, three `ReadFile`s and `Decide` are
the snapshot and the round; `TakeLock`, `CheckIndex` (W1), `OpenShard`, `AppendLine`,
`SameFile` (W2), `RenameIndex`, `Hooks`, `UpdateRef` the write, and `Die` its end anywhere.
Files are inodes: `name` says which one a path names, `bytes` what each holds, so that
an editor's `Save` under a new inode and an `Edit` in place differ; `index` and `log`
are git's. A file is a sequence of lines.

`CodexRun` is a supervisor at its barrier, the worker it starts, the receipt it
renames into place, and what `dispatch.py` can tell of it from outside. `Handoff` starts,
stops and hands over runs on one branch: `Look`, `Recognise`, `Bind`, `TakeResult`,
`WriteReport`, `ListDirty`, `DryRun`, `CallAttest`, `Await`, then `Name`, `PushHead`,
`WriteReceipt`, or `Reset`, `PutBack`, `AllPutBack`, `Refuse`. A command may be killed while
its attest goes on; files of an ended run may be swapped.

### Evidence: what a pass must show

One work on one branch of an issue that had an earlier work: records in the plan and
two journal shards, policies on main and on the branch, reviews that block and pass.
`Build` is `make_review_bundle.py`, `Block` and `Pass` are `attest.py` (a pass is an action
only where `_decide_code` or `_decide_plan_review` lets it be one); `WriteRecord`, `CommitRecords`,
`Fix`, `Rewrite`, `OwnPolicy`, `Land`, `TakeMain` and the planning sessions are the
people around it. The properties state anew, from the records alone, what was owed.

### Reviewed, ReviewGate: what may land

`Reviewed` is git's three-way merge of trees and `check_review.py`'s comparison with it
(`UnreviewedAt`): a path of a judged tip is reviewed where it holds what git's own merge
of the reviewed heads with main holds - main at the commits where that tip met it
(`Meetings`, its merge bases with main), not main as it is by now. Of several such commits
each is taken in turn (`OverMeetings`), and a review left partial at one is asked again at
the next. `ReviewGate` is the history of two works and main under every deed that makes
such a comparison hard (`Write`, `Revert`, `MergeMain`, `Rebase`, `Stack`, `Stage`,
`Attest`, `Archive`, `Waive`, `Delete`, `Prune`, others on main), and `Push`/`PushTrain`, which
land only what the gate's findings leave. `Fresh` judges a push at its tip and a train at each
passenger that carries the work, as it boarded: so a train lands whose passengers forked before
main moved, by a push, by others, or while it waited. `LandedIsSeen` and `ReviewedIsKept` say what the
comparison of contents is worth: a reviewer whose pass speaks for the work (its own, or one
of its tier and above) has seen each content come, or go, in the range he read. A train is
held to it at each passenger, against what that passenger met; of the train itself
`LandedIsSeen` says that what it changes on main, as main is by then, one of its passengers holds
and has not always held. A tip that met main at several commits (a criss-cross) may hold what one of
them holds against another: `Comes` asks there only for what main never held, and
`ReviewedIsKept` says nothing of such a tip. One exception is the code's (`RestsOnMain`): a line of an older attest that
covers a slice of a branch, rebased away since, vouches for what stood beneath the slice where
main once held the same.

### Push: guards of a push

`pre_push.py`, `merge_route.py` and the selector as one sequence of a hook's steps - which
route, which gates, which stages, what a stamp or a certificate spares, what is written
to the ledger - beside a certifying run (`Certify`), a user who edits, commits and
changes settings on the way, and others who land on main.

### GateModes, Experiments

`GateModes`: an append-only record per tree; a merge keeps every row of both, in any order
that keeps the order of each (`Joins`); `Fold` is
`gate_modes.fold`, `Land` the gate runner's decision over modes read from both main and
the branch, `Sentinel` its watch of the event log. `Experiments`: one file per
experiment, moved by `move` with the names and rights of its caller, edited by hand, and
judged on by `history_problems` (`Active`), with every committed version.

### Finish, Records, Prune

`Finish` is `finish.py --apply` (checks, archive, rebase, suite, merge or push, `done`,
delete) and `tidy.py --apply` on the same branch, beside a worker, a mate and others. tidy
takes a worktree in three steps, with everybody else between any two: `Look`, which lists it;
`TidyRecheck`, which applies the keep policy again; and `TidyRemove`, git's removal, which refuses
uncommitted edits and nothing else. A session may start (`StartSession`), edit and commit
after the second look. `TidySparesWork` therefore asks that no patch of the clone and no edit is
lost, and that what goes was at rest and merged at the second look; a session begun after it
does lose its directory, as `dispatch.py:1062-1064` admits.
`Records` is what tidy does to reports, plans and journal shards (`compact_journal.py`
step by step), `Prune` is `publish_and_prune.py` with a GitHub that may not answer, or
post and deny it.

### Tower, Settling, Boarding

`Tower` is reports of several hosts, the watch (look, write `seen`, print: three steps,
killed before or after any of them, armed again), the table and its findings, and `say` (look, paste,
Enter, look again). `Settling` is which plans a merge archives and which issues it
closes. `Boarding` is `pre_board` (whether a train departs is a choice) with the host's own trouble, and the merges
of `build_train`; its blocked reports go into the file `Tower` reads.

## What is checked

Twelve runs, one per question; each finds all of its properties true on every
reachable state (safety) or fair behaviour (liveness) of its scenes.

| Run | Scenes and bounds | Properties | What it shows |
|---|---|---|---|
| `rounds` (3.2 million states) | 4 passengers: all 256 verdict functions of a pair, conflicts, stacking, memo, narrow retry; bisections of four with culprit sets, a repair, a suite that comes or goes; 1 flake | `BlamesTheOffender`, `KeepsJudgement`, `RunEnds` | who is dropped turned its prefix red; the round loop implements `Judgement`; every run ends |
| `landing` (3.6 million) | 2 branches, apart or stacked, 2 commits each, 1 stranger on each main; 2 quiet runs, or 1 run among up to 3 reports of two hosts; with and without push | `MainIsReviewed`, `HeldTipsStayOut`, `NothingIsLost` | only reviewed histories reach main; what is held when the train looks does not; cleanup loses no commit |
| `lane` (13 thousand) | 4 processes (two runs, calls from inside, a `status`, `wait` or second nested call), 2 lanes, kills everywhere | `OneRunALane`, `EveryCallEnds` | runs are serial but for what a killed `lane.py` leaves; no circle of nested calls waits for ever |
| `dispatch` (341 thousand) | 2 branches, 3 session ids, limit 1; steward alone, people beside it, one branch all the way in each tier | `OneWorkerABranch`, `LinesLeaveByStarting`, `WorkGetsThrough` | no second worker in a worktree, no lost queue line, and queued work ends as a train candidate |
| `attest` (2.4 million) | attests alone, two at once with a user, Codex runs with lives, whole handoffs, what a killed one leaves and a user puts away; shard absent or with 1-2 blocks | `NoCommitIsLost`, `PassesOverNoUnseenBlock`, `AttestsWhatRan`, `KeepsForeignWork`, `PushesOnlyItsReview` | no attest orphans a commit, outranks a block it had not seen, or loses what others staged or wrote; what is attested of a run is what its receipt says, once while no kill meets the user |
| `review_gate` (1.4 million) | 10 stories of 6-8 commits, 2 works (tiers 3, 2), 2 paths (symmetric) | `LandedIsSeen`, `ReviewedIsKept`, `LastWordHolds`, `NoPlanEscapes` | whatever is merged, rebased, reverted, stacked or taken by a train on a main that has moved: nothing unseen lands, nothing reviewed is lost unseen, a pass answers every block, no plan slips away |
| `gates` (345 thousand) | 1 gate of 3 kinds, 2 branches, 11 stories, 1 failing run, 2 landings | `LockOutlivesMerges`, `NoBranchWeakensItsOwn` | the sentinel's lock survives every merge order; no branch lands past a gate by its own row |
| `experiments` (828 thousand) | 2 records, 2 workers, 9 stories, 2 days | `TermsNeverEase`, `AdoptedByRight` | terms of a running experiment do not change; nobody adopts his own, or under a right he lacks |
| `push` (1.5 million) | 2 parts, 7 series of calls, 2 families of red, 1 certifying run beside 1 move of the user, or 2 moves without one, 3 commits on main | `WhatSparesARunIsTrue`, `MainStaysGreen`, `MainIsAccountedFor` | stamps and certificates are true of what they name; red code reaches main, and a guard is passed, only on the record |
| `finish` (2.5 million) | a branch's life (2 works, a mate, others, 2 runs, 3 moves), and the records' life (3 reports, 2 items, 2 spec files, 2 writings) | `LandsChecked`, `TidySparesWork`, `TidySparesRecords`, `PublishedThenPruned` | what `finish` lands was judged as it lands; no patch, edit or record is lost to `tidy` or the pruner, whoever works between their steps |
| `evidence` (576 thousand) | 7 scenes (rounds, older shard, rules, plan, criteria, no diff, no fork) of 4-6 steps | `SilenceIsNoTrap`, `PassesAreBacked`, `PlanHasItsPeer` | a pass has every record its rules demand, of its own work; a plan its peer; a silent bundle hides no refusal |
| `boarding` (287 thousand) | 7 scenes (silence, prompts, table, say, check, killed, plans), 2 branches, one on another host | `PreboardIsFair`, `ClosesOnlyFinished`, `WakesOnce`, `TableHidesNobody`, `SaidIsHeard`, `SilenceIsTold` | nobody is blamed for the host; issues close only with their plan; a watch wakes once, and does wake unless it is killed with the word in its mouth; said is heard |

Eleven further properties of the train and the lanes, among them each module's `TypeOK`,
are theorems (below) and are not run again.

*Why these bounds.* In `rounds`, two passengers give every verdict function and every order
of drop, hold and conflict; four are the least for which the bisection halves
twice and its ends can be off by one in either direction. One flake is
enough because a second one in the same round is either not repeated by the code
(`misled`) or the first of a later round. For `landing`, two runs are what a crash
needs (one dies, the next meets what it left), two commits per branch what an
amend or a late commit needs after the reviewed one, and three reports the
shortest hold-release-hold. In `lane`, two holders with a nested call each are the
smallest circle. In `dispatch`, a limit of one with two branches makes every second
start one too many, and three ids are a live session, one being judged, and a new one;
a plan changes at most twice, which is once under a tick's eyes. In `attest`, two attests
are what a race of rounds needs, and one user step between any two of their calls;
handoffs are killed and retried once, and a user removes what the killed one left. In `review_gate`, seven commits are two works, a
main that moves, a merge each way and a verdict on either side of it, and eight also two boarded
tips with main moving before and after they are staged; two paths are a
clean merge and a conflict. In `gates` two branches are every order of their rows a merge can give.
In `experiments` two days are "within" and "after" a trial. In `push`, one user's move at
any step of the hook is what makes a checked value stale. In `finish`, three moves are a
commit, an edit and a mate's push within one run. In `evidence`, six steps are block, fix, record,
block, record, pass. Every property of every run has a mutant: with a small
plausible change of the code - a dropped guard, a swapped order, an off-by-one - TLC
finds it violated under the same bounds, so the bounds reach the case each property is about.

*Fairness.* A train run is one sequential program: `FairSpec` of `TrainRounds` lets it
step as long as it can, and assumes nothing of the verdicts. In `Lane` each process
that can step does, which includes that the commands run under a lane end; no
fairness is assumed of who gets a lock: a call may lose every race, and ends by its wait budget.
In `Dispatch` each command goes on as long as it can (`flock` is waited for, and
the steward's ticks come again), a slow worker does its duty, and each session ends some
day. In `Boarding` a watch that is armed goes on, its minutes pass, and so does time. The
other modules state no liveness and no fairness.

*Deadlock.* Only `TrainRounds`, which loops at its ends, is checked for deadlock. In the
other eleven everything may end - all commands are over, or the bounds on commits, moves,
runs and kills are used up - so `CHECK_DEADLOCK` is off there; that calls and queued work do end is
what `EveryCallEnds` and `WorkGetsThrough` say.

### Where the code and its documents disagree

Met while modelling. The models follow the code; the properties are stated so that
they are true of it, and say so where that matters.

* `train.md:225-226` promises a dropped passenger a `blocked` report. A run that drops
  one and then has its push rejected, or finds local main ahead, returns before it
  tells them (`train.py:2356`).
* `train.md:228-231`: a suite that exists nowhere blames nobody. When the memo calls the
  base green and the confirming run then answers "undefined", only "red" is looked
  at and the first passenger is dropped.
* The comment in `candidates` (`train.py:364`, and `train.md:128-129`) says a hold before the
  second read is in the hold read below. One that is written before it and released
  before the holds are read is in neither set; the tip it was about lands.
* `tower.md:156-157`: `max_workers` caps the live sessions of a host. Two starts by hand,
  or one beside a drain, both count before either is recorded, and both start; on one
  branch, both in its worktree.
* `lane.py:14-15`: the holder is named in its status file. A `status` that found the
  lane free removes that file after somebody else took the lane and wrote it.
* `optimization.md:72` against `gate_modes.py:254`: a restore without `--lock` ends a lock.
* `testing.md:344-345` against `pre_push.py:222-228`: which stages a stamp speaks for.
* `tests/test_pre_push.py:413-414`: "the stamp names what the tests saw, or nothing". `frame`
  (`pre_push.py:244-255`) looks at the worktree only after the tests: tests that ran over a
  dirty checkout, or one edited and restored meanwhile, are stamped. (`still` of `Push`
  remembers it; `WhatSparesARunIsTrue` asks nothing of such a stamp.)
* `_dispatch_codex.py:686-687` and `tower.md:248`: an attested run is never attested twice. A handoff
  killed while its attest goes on leaves a report; once the user has removed it, a second
  handoff calls a second attest, and one commit can carry two lines of the run.
  `OneLineEach` leaves out a kill and a user together. (Nor does a handoff take a lock,
  `dispatch.py:2103`; the model runs one command at a time.)
* `tidy.py:17-18` and 465: "nothing unmerged can be lost". tidy deletes the branches it listed
  by name (`tidy.py:526-533`): what a mate pushes to one between the look and the delete goes
  with it. `TidySparesWork` asks that what tidy *saw* there is on main, and of this clone that nothing
  is lost.
* `tower.md:47-64`: each silence wakes the watch, once. `_announce` writes `seen`
  (`tower.py:806-813`) before `wait` prints (1213-1216): a watch killed between the two has
  announced a silence nobody is ever told of. `lost` of `Tower` remembers it, and `SilenceIsTold`
  excepts that episode and no other.

### Hazards beyond the listed ones

`PROJECT.json` lists the hazards that properties are about or that weigh most. Seen as well:
a branch stacked on a blocked one boards (`train.py:554`); hosts with skewed clocks
(`tower.py:472`), or two clones under one host name (`report.py:231`); `forget_branch`
unlinks by name what a start has written in between (`dispatch.py:820`), as `stop` does
(2473); an unknown Codex run cannot be cleared by `stop` (1840-1841); a handoff killed between
report and attest leaves a stray report, and two handoffs may run at once; an amended commit
passes `_committed_attest`, which looks at names and one line; what `tidy` decides by
`assume-unchanged` (`tidy.py:569`).


## What is proved

`<Module>Proofs` holds the theorems of a module, for every value of its constants that
satisfies the module's named assumptions; TLC evaluates these on its instances. They
say what kinds of things the constants are (finite sets of passengers, natural bounds,
scenes that are records of the right fields), and three facts about the outside:
`HistoryAssumption` (git's histories: a commit reaches its own past, a branch starts on
one commit), `JournalAssumption` (a journal that is found counts its rounds as `attest.py`
does) and `ShelvesAssumption` (a report hidden from git was committed before). `NoFileAssumption`
and `NoContentAssumption` keep the model value for an absent file apart from processes and contents.
`WorldsAssumption` adds to the types of a train's world: a check changes the directory
only before its first command, and is then one `&&` chain; its scripts stand in the chain
it starts with; a branch is aboard once; a plan's stem is one branch's, has one slug, and is
no slug or issue; a branch's pass is of a plan it brings and names its stem or slug.

| Theorems | Property a run checks | The invariant, and why it is needed |
|---|---|---|
| `TrainRoundsProofs`: `BlameIsDeserved`, `ImplementsJudgement`; `TypeCorrect`, `OneFateEach`, `DroppedAreToldOfIt`, `LandedDeservesGreen`, `AbortsTellTheTruth` | `BlamesTheOffender`, `KeepsJudgement` | A tree whose green is remembered deserves green; what is known of the base is its verdict, unless by the memo or a flake no code repeats; past `holds` the staging worktree holds exactly those aboard; during a bisection the prefix at `lo` is cleared and the one at `hi` is not. Lemmas on positions and prefixes of a board give the halving its bounds for boards of any size. |
| `TrainLandingProofs`: `MainStaysReviewed`, `HeldStayOut`, `DeletesLoseNothing`; `LandingTypes`, `OriginFirst`, `OriginIsFastForwarded`, `DoneIsOnMain` | `MainIsReviewed`, `HeldTipsStayOut`, `NothingIsLost` | Whatever a ref, a pin or the staging tree holds is reviewed, main's, a stranger's or its branch's own; every ref holds the past of what it holds, so that a tip inside a merge came with its branch; who left for a hold is in nothing aboard; a copy is deleted on origin only as it was compared. |
| `BoardingProofs` (lanes): `LanesAreSerial`; `LaneTypes`, `PassThroughIsCovered`, `NamesAreFresh` | `OneRunALane` | A body runs only under its lock, its parent's hold or an orphan's; which process holds which lane, by its place in `hold`. |
| `HandoffProofs`: `HistoryIsALine`, `NoBlockIsPassedOver`, `ForeignWorkIsKept`, `AttestsOnceWhatRan`, `PushesWhatItReviewed`; `AttestsTheTruth` | `NoCommitIsLost`, `PassesOverNoUnseenBlock`, `KeepsForeignWork`, `AttestsWhatRan`, `PushesOnlyItsReview` | Whatever is kept anywhere - inodes, index, commits, snapshots, laid indexes - is lines whose author wrote them and whose blocking rounds have no gaps; a round is one more than the blocks its attest knew; under the lock the index is as it was checked. A run that ended keeps its receipt; an attest is called for a completed run, with the sealed verdict; its lines are committed after the head the run is bound to. Unless a handoff was killed and the user stepped in as well (`Calm`), a run has one attest at a time: what a killed handoff left still lies about or was committed, and the next one stops at either; so where an attest is to write there is no line of its run, in the shard or in what anybody has read of it (`CalmInv`). With nobody else at work HEAD is the bound head until its attest commits, and that commit then; an attest left over would have to be one beside the one that committed (`PushInv`). |
| `DispatchProofs`: `OneWorkerEach`, `LinesStayTillStarted`; `DispatchTypes`, `WithoutIsTheRest` | `OneWorkerABranch`, `LinesLeaveByStarting` | Where a command of each kind can be, which lock it holds there and what it has in hand; a drain's copy is the queue; a record names a session of its own branch; unattended, every live session is on record or its starter holds the lock to record it. `WithoutIsTheRest` (striking one line keeps the others) is an induction over the numbers, done with a set of counterexamples. |
| `PushProofs`: `WhatSparesIsTrue`, `PushedMainIsGreen`, `PushesAreAccountedFor` | `WhatSparesARunIsTrue`, `MainStaysGreen`, `MainIsAccountedFor` | Each decision of the hook so far is on the log or in its hand; the worktree of a certifying run is what it was at its start, or known to be mixed; the stages in the file are those of that run. A push nobody disturbed has its own head fixed and stands on the base it was asked with, of which main is never a part: so what others land does not move the fork it is measured over. Past its tests it is green, owed to another host, skipped by the owner, or a branch's with a certificate. |
| `BoardingProofs`: `WatchesWakeOnce`, `SaidWasHeard`, `NobodyIsHidden`, `PreboardAccusesFairly`, `MergesCloseFinished`; `BoardingTypes` | `WakesOnce`, `SaidIsHeard`, `TableHidesNobody`, `PreboardIsFair`, `ClosesOnlyFinished` | What was announced of an episode is in `seen` for as long as the session stays in it, also between the look and the file written after it, so every step is shown either to let a session sleep on or to count that it stirred; a text typed into a session stands in its line while it is the same session. A chain of commands that stops on a whole host stops at something on the tree, and a host that lost nothing since shows the same again (induction over the chain, as a least counterexample): so the second look and the probe convict only the branch. The plans and passes on a train's line are main's and its wagons' own, each of one branch. |
| `FinishProofs`: `LandsWhatItChecked`, `TidyLosesNoWork`, `TidyLosesNoRecord`, `PruneLosesNothing` | `LandsChecked`, `TidySparesWork`, `TidySparesRecords`, `PublishedThenPruned` | What a run has shown stays true, because main and the reviews only grow and it holds its branch still: a rebase loses no patch (induction over the patches). Main only grows, so a branch merged when `tidy` looked stays merged; of the worktree, what the second look found is kept until the removal (`RemovingInv`), and every step of everybody is shown to leave each patch on the branch, local main or main; between fold and drop the archive has every older shard. Files behind the pruner are published as they lie on disk as long as nobody touches them. |
| `GateProofs`: `BlocksAreAnswered`, `PlansDoNotEscape` | `LastWordHolds`, `NoPlanEscapes` | Per work: a plan archived anywhere is archived on its branch, one of main's that is gone anywhere is gone there, and no history has it archived and then gone; while no line was lost, its branch has every line of it, and no round is below that of a block before it. Each kind of new commit (`NextCommit`) is shown once to keep this, then each deed to be one. |
| `GateProofs`: `LandsWhatWasSeen`, `KeepsWhatWasReviewed` | `LandedIsSeen`, `ReviewedIsKept` | `Links`: every pass names a head and a base of its, and ancestries nest; `TrainHolds`: a staged train is two merges in turn, of a commit main has and of its passengers, whatever main is by now (`IsTrain`, `Blends`). The rest is about one merge of heads in turn (`ReviewedMerge`), by induction: per path it is main's, conflicted, or held by a head that brought it, i.e. that has it otherwise at a commit beneath nothing main has (`TurnInv`); and this at each commit where the judged tip met main, carrying the ranges left partial on to the next; so what a judged tip holds beyond what it met, a whole review or a partial one saw come, and what a review saw change gives way only where a head holds a commit that had it (`GivesWay`). A review that begins on main counts whole at once; the own one, rebased away, only where its base is such a merge. |
| `GateProofs`: `PassesHaveTheirLegs`, `PlansHaveTheirPeers`, `SilenceIsKept` | `PassesAreBacked`, `PlanHasItsPeer`, `SilenceIsNoTrap` | The log's trees have well-formed records, policies and one plan; what is committed stays; a bundle is what `Build` shows of the log at its head. What `Owed` says of a call's facts is then compared, row by row, with what the property counts for itself. |
| `GateProofs`: `TermsStayFrozen`, `AdoptionsAreRightful` | `TermsNeverEase`, `AdoptedByRight` | What ran was committed, and a committed file is a version git remembers, so the freeze of a later version is checked against it. Which line of a history is the first, the last or the only one of its kind is a lemma on sets of places. |
| `FinishProofs` (gate modes): `LocksOutlive`, `NobodyWeakensItsOwn` | `LockOutlivesMerges`, `NoBranchWeakensItsOwn` | The sentinel's rows are locked restores; a branch has every row of the main it holds, in whatever order. Induction over the rows shows what a fold can say (`FoldSays`): a gate that does not block was weakened where no lock stood and not restored since, or observes and was never restored. |

Eleven of these state what no run checks any more: `TypeOK`, `EachHasOneFate`,
`LandsDeservedGreen`, `AbortsAreTrue`, `DroppedAreTold` (rounds); `TypeOK`, `LocalNeverAhead`,
`OriginOnlyGrows`, `DoneIsLanded` (landing); `PassesUnderAHold`, `NoStaleName` (lanes).

### Only model-checked

* Liveness: `RunEnds`, `EveryCallEnds`, `WorkGetsThrough`, `SilenceIsTold`. Fairness and
  `ENABLED` are beyond the prover.
* What a recursive definition computes is proved where an induction over the numbers does
  it, as a least counterexample (`Without`, `Rebased`, the chain of a check's commands, `Fold`,
  `ReviewedMerge`, the rounds of `Weighed`); the library's induction theorems take an operator
  and cannot be used.

## What is not modelled

Record checks, inventories, `rehydrate.py`, `template_update.py`, `red_evidence.py` and `tools/`
read trees and print, or run once at a release. Everywhere, wording, layout and logging
are left out. Beyond that, by module:

* `TrainRounds`: how a suite's output is read, time. `TrainLanding`: eligibility beyond a
  covering review, deploys, two trains on one clone.
* `Lane`: nice levels, hosts without `fcntl`.
* `Dispatch`: a fork without the branch, an origin that does not answer, merge conflicts, remote
  and Codex sessions (see `Handoff`), timeouts of the plan's gates; a slow worker has no
  uncommitted work.
* `Attest`, `Handoff`: what evidence says (see `Evidence`), whether a dry run finds fault, and
  whether origin takes a push, are choices; amending is left out; a report is always the same
  inode; one command at a time.
* `Evidence`: names of issue and work coincide, one branch.
* `Reviewed`, `ReviewGate`: a round is counted from the blocks at hand; a plan archived under
  an issue no commit claims; of a deleted plan only that it was there.
* `Push`: a checkout that changes and changes back is told apart only while a certifying
  run is on; `make -n`. A push's certificate names tree and configuration, not what was
  touched, so a branch's stamp that rests on one can name less.
* `GateModes`: one gate at a time, a clone and a log for each branch, a log that never
  rolls over; every guardrail touches every weakening; "sampled" is shadow on a share.
* `Experiments`: a hand writes no line under another's name.
* `Finish`, `Records`, `Prune`: a dry run of the pruner; older shards are written by nobody;
  issue and slug are one name; `gh` posts once or not at all; hooks and checks of template
  and spec are part of "the gates are red".
* `Tower`, `Settling`, `Boarding`: a host breaks and does not heal during a check; the probe's
  owner check and its first build are one step; a suite behind `;` or `||`; a pass by issue
  clears every plan of it; conflicts are yes or no.

## Plan

1. Two trains on one clone over one staging worktree; two handoffs at once.
2. Remote and Codex sessions in `Dispatch`; amended commits in `Handoff`.
