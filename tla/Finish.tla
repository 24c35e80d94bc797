------------------------------- MODULE Finish -------------------------------
(***************************************************************************)
(* The tail of a branch: `finish.py --apply` checks it, archives its plan, *)
(* rebases, tests and merges it, reports it done and deletes it on origin; *)
(* `tidy.py --apply` deletes what is merged and removes its worktree. One  *)
(* clone with one branch, checked out here; main may be checked out in     *)
(* another worktree of the clone. Around them a worker commits and runs    *)
(* finish again, a mate pushes the same branch from another host, others   *)
(* land on main, and any run is killed. A behaviour is about the branch,   *)
(* or about what else tidy cleans up (Records, Prune) with the branch at   *)
(* rest.                                                                   *)
(*                                                                         *)
(* A history is the sequence of its commits above the fork, each a patch   *)
(* and the number of its rebases. `Red` and `Broken` are the combinations  *)
(* of patches the gates and the suite fail on. In a repository without a   *)
(* remote, main is the clone's own.                                        *)
(***************************************************************************)
EXTENDS Records, Integers, SequencesExt

CONSTANTS
    Work,       \* what the worker may still commit
    Mates,      \* what a mate may push to the branch
    Theirs,     \* what others may land on main
    Quiet,      \* the patches no test is about
    Red,        \* families of combinations red in the gates, one is the run's
    Broken,     \* the same of the full suite
    Runs,       \* runs of finish
    Moves,      \* steps of the people around the branch
    Writings,   \* steps of the people on the records
    Shelves     \* the records there are at first, and runs of publish_and_prune

Patches == Work \cup Mates \cup Theirs \cup {"archive"}
ASSUME PatchesAssumption ==
    /\ Quiet \subseteq Patches /\ "archive" \in Quiet
    /\ Red \cup Broken \subseteq SUBSET SUBSET Patches
    /\ Runs \in Nat /\ Moves \in Nat /\ Writings \in Nat

(* A report the user has hidden from git was committed first.               *)
ASSUME ShelvesAssumption ==
    \A s \in Shelves :
        /\ s.report \in [Report -> [head : Nat, index : Nat, disk : Nat, hidden : BOOLEAN]]
        /\ \A r \in Report : s.report[r].hidden => s.report[r].index = s.report[r].head
        /\ s.plan \in [Items -> {"none", "active", "archived", "edited"}]
        /\ DOMAIN s.journal = {"old", "archive", "today", "prose"}
        /\ s.spec \in Specification /\ s.runs \in Nat

VARIABLES
    world,     \* has it a remote; is there a plan; what is red, what is broken
    main,      \* origin's main
    theirs,    \* origin's branch, <<>> when there is none
    tracked,   \* the clone's origin/main
    local,     \* the clone's main
    branch,    \* the clone's branch, <<>> when deleted
    here,      \* this checkout: what it is on, uncommitted edits, a live session
    there,     \* the checkout of main: is it one, edited, the history of its files
    cleared,   \* the patches the branch's clearing review has seen
    finish,    \* the run of finish
    tidy,      \* the run of tidy
    left       \* runs of finish and steps of the people still to come

refs == <<main, theirs, tracked, local, branch>>
around == <<world, records>>
vars == <<around, refs, here, there, cleared, finish, tidy, left>>

Idle == [at |-> "idle"]
Content(h) == {h[i].p : i \in DOMAIN h}
Contained(h, m) == ToSet(h) \subseteq ToSet(m)
Commit(p) == [p |-> p, g |-> 0]
Fails(family, h) == \E s \in family : s \subseteq Content(h)
AllPatches == Content(main) \cup Content(theirs) \cup Content(local) \cup Content(branch)

Remote == world.remote
Upstream == IF Remote THEN tracked ELSE local
Integration == IF Remote THEN main ELSE local
Elsewhere == there.on

-----------------------------------------------------------------------------
(* What a plan of tier 2 demands: a clearing review of all its branch adds. *)
(* finish asks while the plan is active, the gates for a push to main also  *)
(* when it is archived. Seeded fault: the local merge runs no such gates.   *)
Own(h) == Content(h) \ (Content(Integration) \cup Content(Upstream))
Active(h) == world.plan /\ "archive" \notin Content(h)
Covered(h) == world.plan => Own(h) \ Quiet \subseteq cleared

Ready == /\ here.on = "branch" /\ ~here.dirty
         /\ Active(branch) => Covered(branch)
         /\ ~Fails(world.red, branch)

NoGates(h) == TRUE
MergeGates(h) == Covered(h) /\ ~Fails(world.red, h)

(* Rebased: what main has not, again.                                       *)
Onto(h, c, m) == IF c.p \in Content(m) THEN h ELSE Append(h, [c EXCEPT !.g = @ + 1])

Rebased(h, m) ==
    LET replayed[i \in 0..Len(h)] == IF i = 0 THEN m ELSE Onto(replayed[i - 1], h[i], m)
    IN  replayed[Len(h)]

(* Git takes no main but one that grows.                                   *)
FastForward(old, new) == IsPrefix(old, new)

(* A worktree that may go: contained in main, worked on, nobody at work,    *)
(* no edit.                                                                 *)
Spare(base) == /\ here.on = "branch" /\ Elsewhere /\ branch # <<>>
               /\ Contained(branch, base)
               /\ ~here.live /\ ~here.dirty

-----------------------------------------------------------------------------
(* The life of a branch, with nothing on the shelf.                         *)
BranchLife ==
    /\ world \in [remote : BOOLEAN, plan : BOOLEAN, red : Red, broken : Broken]
    /\ \E p \in Work : branch = <<Commit(p)>>
    /\ theirs \in IF Remote THEN {<<>>, branch} ELSE {<<>>}
    /\ here = [on |-> "branch", dirty |-> FALSE, live |-> TRUE]
    /\ there \in [on : BOOLEAN, dirty : {FALSE}, files : {<<>>}]
    /\ cleared \in {{}, Content(branch)}
    /\ left = [runs |-> Runs, moves |-> Moves, writings |-> 0]
    /\ report = [r \in Report |-> [head |-> 0, index |-> 0, disk |-> 0, hidden |-> FALSE]]
    /\ plan = [w \in Items |-> "none"]
    /\ journal = [old |-> {}, archive |-> {}, today |-> {}, prose |-> FALSE]
    /\ spec = NoSpec

(* The records of a clone whose branches are gone.                          *)
RecordsLife ==
    /\ world = [remote |-> TRUE, plan |-> FALSE, red |-> {}, broken |-> {}]
    /\ branch = <<>> /\ theirs = <<>>
    /\ here = [on |-> "gone", dirty |-> FALSE, live |-> FALSE]
    /\ there = [on |-> TRUE, dirty |-> FALSE, files |-> <<>>]
    /\ cleared = {}
    /\ \E s \in Shelves :
          /\ report = s.report /\ plan = s.plan /\ journal = s.journal /\ spec = s.spec
          /\ left = [runs |-> s.runs, moves |-> 0, writings |-> Writings]

Init ==
    /\ main = <<>> /\ tracked = <<>> /\ local = <<>>
    /\ BranchLife \/ RecordsLife
    /\ issue = NoComments /\ pruner = NotRunning
    /\ finish = Idle /\ tidy = Idle

Stop == finish' = Idle

-----------------------------------------------------------------------------
(* finish.apply, step by step. A blocked check changes nothing; a command   *)
(* that fails ends the run where it is, as a kill does (Kill).              *)
Start(tests) ==
    /\ finish = Idle /\ left.runs > 0 /\ left' = [left EXCEPT !.runs = @ - 1]
    /\ Ready
    /\ tests = "claim" => Remote
    /\ finish' = [at |-> "checked", tests |-> tests, still |-> TRUE]
    /\ UNCHANGED <<around, refs, here, there, cleared, tidy>>

(* The plan goes to the archive on the branch; a failed commit is undone.   *)
Archive ==
    /\ finish.at = "checked"
    /\ branch' = IF Active(branch) THEN Append(branch, Commit("archive")) ELSE branch
    /\ finish' = [finish EXCEPT !.at = "archived"]
    /\ UNCHANGED <<around, main, theirs, tracked, local, here, there, cleared, tidy, left>>

Fetch ==
    /\ finish.at = "archived"
    /\ tracked' = main
    /\ finish' = [finish EXCEPT !.at = "fetched"]
    /\ UNCHANGED <<around, main, theirs, local, branch, here, there, cleared, tidy, left>>

(* Behind: rebased, unless an edit is in the way, and all checked again.    *)
Rebase ==
    /\ finish.at = "fetched"
    /\ IF Contained(Upstream, branch)
       THEN finish' = [finish EXCEPT !.at = "based"] /\ UNCHANGED branch
       ELSE /\ ~here.dirty
            /\ branch' = Rebased(branch, Upstream)
            /\ finish' = [finish EXCEPT !.at = "rebased"]
    /\ UNCHANGED <<around, main, theirs, tracked, local, here, there, cleared, tidy, left>>

Recheck ==
    /\ finish.at = "rebased"
    /\ Ready
    /\ finish' = [finish EXCEPT !.at = "based"]
    /\ UNCHANGED <<around, refs, here, there, cleared, tidy, left>>

(* The suite, a claim, a quiet range - or the end of the run.               *)
IsQuiet(h) == Own(h) \subseteq Quiet

Test ==
    /\ finish.at = "based"
    /\ finish' = IF finish.tests = "suite"
                 THEN [at |-> "testing", tests |-> "suite", still |-> finish.still, start |-> branch]
                 ELSE IF finish.tests = "claim" \/ IsQuiet(branch) THEN [finish EXCEPT !.at = "tested"]
                 ELSE Idle
    /\ UNCHANGED <<around, refs, here, there, cleared, tidy, left>>

(* What the suite says of a checkout edited under it is anything.           *)
Tested ==
    /\ finish.at = "testing"
    /\ finish.still => ~Fails(world.broken, finish.start)
    /\ finish' = [at |-> "tested", tests |-> "suite", still |-> finish.still]
    /\ UNCHANGED <<around, refs, here, there, cleared, tidy, left>>

(* Without a remote: the gates with the merge target, then the fast-forward *)
(* where main is checked out. The branch goes if nothing holds it.          *)
GateLocally ==
    /\ finish.at = "tested" /\ ~Remote
    /\ MergeGates(branch)
    /\ finish' = [finish EXCEPT !.at = "gated"]
    /\ UNCHANGED <<around, refs, here, there, cleared, tidy, left>>

(* main is elsewhere: its files and its ref move together, or neither does. *)
Together(h) == [there EXCEPT !.files = h]

MergeThere ==
    /\ finish.at = "gated" /\ Elsewhere
    /\ ~there.dirty /\ FastForward(local, branch)
    /\ local' = branch /\ there' = Together(branch)
    /\ finish' = [finish EXCEPT !.at = "landed"]
    /\ UNCHANGED <<around, main, theirs, tracked, branch, here, cleared, tidy, left>>

(* main is nowhere: this checkout goes there, and stays there.              *)
CheckOut ==
    /\ finish.at = IF Remote THEN "tested" ELSE "gated"
    /\ ~Elsewhere
    /\ here' = [here EXCEPT !.on = "main"]
    /\ finish' = [finish EXCEPT !.at = "switched"]
    /\ UNCHANGED <<around, refs, there, cleared, tidy, left>>

MergeHere ==
    /\ finish.at = "switched"
    /\ FastForward(local, branch)
    /\ local' = branch
    /\ finish' = [finish EXCEPT !.at = IF Remote THEN "merged" ELSE "landed"]
    /\ UNCHANGED <<around, main, theirs, tracked, branch, here, there, cleared, tidy, left>>

(* The push: main's tip as it is when git starts; the hook judges it.       *)
Push ==
    /\ Remote
    /\ \/ finish.at = "merged"
       \/ finish.at = "tested" /\ Elsewhere
    /\ LET tip == IF Elsewhere THEN branch ELSE local IN
          /\ Elsewhere => Contained(tracked, branch)
          /\ MergeGates(tip)
          /\ finish' = [at |-> "pushing", tests |-> finish.tests, still |-> finish.still, tip |-> tip]
    /\ UNCHANGED <<around, refs, here, there, cleared, tidy, left>>

Arrive ==
    /\ finish.at = "pushing"
    /\ FastForward(main, finish.tip)
    /\ main' = finish.tip /\ tracked' = finish.tip
    /\ finish' = [at |-> "landed", tests |-> finish.tests, still |-> finish.still]
    /\ UNCHANGED <<around, theirs, local, branch, here, there, cleared, tidy, left>>

(* The other checkout is brought along if it is clean and can be.           *)
Refresh ==
    /\ finish.at = "landed" /\ Remote /\ Elsewhere
    /\ IF ~there.dirty /\ FastForward(local, tracked)
       THEN local' = tracked /\ there' = Together(tracked)
       ELSE UNCHANGED <<local, there>>
    /\ finish' = [finish EXCEPT !.at = "refreshed"]
    /\ UNCHANGED <<around, main, theirs, tracked, branch, here, cleared, tidy, left>>

(* Reported done, the branch goes: on origin whatever it holds by now, here *)
(* what `branch -d` calls merged.                                           *)
Delete ==
    /\ finish.at = IF Remote /\ Elsewhere THEN "refreshed" ELSE "landed"
    /\ Stop
    /\ IF Remote
       THEN theirs' \in {theirs, <<>>} /\ UNCHANGED branch
       ELSE UNCHANGED theirs /\ branch' = IF Elsewhere \/ ~Contained(branch, local) THEN branch ELSE <<>>
    /\ UNCHANGED <<around, main, tracked, local, here, there, cleared, tidy, left>>

-----------------------------------------------------------------------------
(* tidy: a look after `fetch --prune`, and then what it saw, in order: the  *)
(* branches on origin, the spec directory, old shards, archived plans and   *)
(* reports, the worktree, which is judged once more before it goes. Seeded  *)
(* fault: the look is enough.                                               *)
Look ==
    /\ tidy = Idle /\ Elsewhere /\ pruner = NotRunning
    /\ LET base == IF Remote THEN main ELSE local IN
          tidy' = [at |-> "looked", saw |-> theirs, delete |-> theirs # <<>> /\ Contained(theirs, main),
                   remove |-> Spare(base),
                   spec |-> Finished /\ ~SpecBlocked, fold |-> journal.old # {} \/ journal.prose,
                   plans |-> OldPlans, reports |-> {r \in OldReports : ~Unremovable(r)},
                   open |-> {w \in Items : Open(w)}, disk |-> [r \in OnDisk |-> report[r].disk]]
    /\ tracked' = main
    /\ UNCHANGED <<around, main, theirs, local, branch, here, there, cleared, finish, left>>

TidyGoes(to) == tidy' = [tidy EXCEPT !.at = to]
NothingToPrune == ~tidy.spec /\ ~tidy.fold /\ tidy.plans = {} /\ tidy.reports = {}

TidyDelete ==
    /\ tidy.at = "looked"
    /\ theirs' = IF tidy.delete THEN <<>> ELSE theirs
    /\ TidyGoes(IF NothingToPrune THEN "worktrees" ELSE "specs")
    /\ UNCHANGED <<around, main, tracked, local, branch, here, there, cleared, finish, left>>

TidyPrune ==
    /\ tidy.at = "specs" /\ pruner = NotRunning
    /\ TidyGoes("journal")
    /\ IF tidy.spec /\ left.runs > 0
       THEN /\ Judged("prune") \/ UNCHANGED pruning
            /\ left' = [left EXCEPT !.runs = @ - 1]
       ELSE UNCHANGED <<pruning, left>>
    /\ UNCHANGED <<world, shelved, refs, here, there, cleared, finish>>

TidyFold ==
    /\ pruner = NotRunning
    /\ \/ tidy.at = "journal" /\ tidy.fold /\ FoldLines /\ TidyGoes("shards")
       \/ tidy.at = "journal" /\ ~tidy.fold /\ UNCHANGED shelved /\ TidyGoes("archive")
       \/ tidy.at = "shards" /\ DropShards /\ TidyGoes("archive")
    /\ UNCHANGED <<world, pruning, refs, here, there, cleared, finish, left>>

TidyPlans ==
    /\ tidy.at = "archive"
    /\ RemovePlans(tidy.plans) /\ TidyGoes("reports")
    /\ UNCHANGED <<world, pruning, refs, here, there, cleared, finish, left>>

TidyReports ==
    /\ tidy.at = "reports"
    /\ RemoveReports(tidy.reports) /\ TidyGoes("worktrees")
    /\ UNCHANGED <<world, pruning, refs, here, there, cleared, finish, left>>

AsSeen == tidy.remove
StillSpare == tidy.remove /\ Spare(Upstream)

TidyRecheck ==
    /\ tidy.at = "worktrees"
    /\ tidy' = IF StillSpare THEN [at |-> "removing", found |-> branch, live |-> here.live] ELSE Idle
    /\ UNCHANGED <<around, refs, here, there, cleared, finish, left>>

(* The removal is a command of its own: git refuses a worktree with edits,  *)
(* and knows of no session. The branch stays, whatever is on it by now.     *)
TidyRemove ==
    /\ tidy.at = "removing"
    /\ tidy' = Idle
    /\ IF here.dirty THEN UNCHANGED <<here, finish>>
                     ELSE here' = [here EXCEPT !.on = "gone"] /\ finish' = Idle
    /\ UNCHANGED <<around, refs, there, cleared, left>>

-----------------------------------------------------------------------------
(* Kills, and the people.                                                   *)
Kill ==
    /\ finish # Idle /\ Stop
    /\ UNCHANGED <<around, refs, here, there, cleared, tidy, left>>

KillTidy ==
    /\ tidy # Idle /\ tidy' = Idle
    /\ UNCHANGED <<around, refs, here, there, cleared, finish, left>>

(* publish_and_prune, by tidy or by hand.                                   *)
PruneByHand(mode) ==
    /\ left.runs > 0 /\ left' = [left EXCEPT !.runs = @ - 1]
    /\ Judged(mode)
    /\ UNCHANGED <<world, shelved, refs, here, there, cleared, finish, tidy>>

PruneGoesOn ==
    /\ Prunes
    /\ UNCHANGED <<world, shelved, refs, here, there, cleared, finish, tidy, left>>

OnTheRecords ==
    /\ left.writings > 0 /\ left' = [left EXCEPT !.writings = @ - 1]
    /\ \/ Writes /\ UNCHANGED shelved
       \/ Keeps /\ UNCHANGED pruning
    /\ UNCHANGED <<world, refs, here, there, cleared, finish, tidy>>

Move == left.moves > 0 /\ left' = [left EXCEPT !.moves = @ - 1]
Moved == IF finish.at = "idle" THEN finish ELSE [finish EXCEPT !.still = FALSE]

Edit ==
    /\ Move
    /\ here.on # "gone" /\ ~here.dirty
    /\ here' = [here EXCEPT !.dirty = TRUE]
    /\ finish' = Moved
    /\ UNCHANGED <<around, refs, there, cleared, tidy>>

CommitEdit(p) ==
    /\ Move
    /\ here.dirty /\ here.on # "gone" /\ p \notin AllPatches
    /\ here' = [here EXCEPT !.dirty = FALSE]
    /\ IF here.on = "branch" THEN branch' = Append(branch, Commit(p)) /\ UNCHANGED local
                             ELSE local' = Append(local, Commit(p)) /\ UNCHANGED branch
    /\ finish' = Moved
    /\ UNCHANGED <<around, main, theirs, tracked, there, cleared, tidy>>

SwitchBack ==
    /\ Move
    /\ finish = Idle /\ here.on = "main" /\ ~here.dirty /\ branch # <<>>
    /\ here' = [here EXCEPT !.on = "branch"]
    /\ UNCHANGED <<around, refs, there, cleared, finish, tidy>>

Review ==
    /\ Move
    /\ cleared' = Content(branch) /\ cleared' # cleared
    /\ UNCHANGED <<around, refs, here, there, finish, tidy>>

EndSession ==
    /\ Move
    /\ here.live /\ here' = [here EXCEPT !.live = FALSE]
    /\ UNCHANGED <<around, refs, there, cleared, finish, tidy>>

StartSession ==
    /\ Move
    /\ here.on # "gone" /\ ~here.live /\ here' = [here EXCEPT !.live = TRUE]
    /\ UNCHANGED <<around, refs, there, cleared, finish, tidy>>

EditThere ==
    /\ Move
    /\ there.on /\ ~there.dirty /\ there' = [there EXCEPT !.dirty = TRUE]
    /\ UNCHANGED <<around, refs, here, cleared, finish, tidy>>

PushBranch(p) ==
    /\ Move
    /\ Remote /\ p \notin AllPatches
    /\ theirs' = Append(IF theirs = <<>> THEN branch ELSE theirs, Commit(p))
    /\ UNCHANGED <<around, main, tracked, local, branch, here, there, cleared, finish, tidy>>

(* On origin, or - without one - by a commit on the checked-out main.       *)
LandOther(p) ==
    /\ Move
    /\ p \notin AllPatches
    /\ IF Remote THEN main' = Append(main, Commit(p)) /\ UNCHANGED <<local, there>>
       ELSE /\ there.on /\ there.dirty
            /\ local' = Append(local, Commit(p)) /\ UNCHANGED main
            /\ there' = [there EXCEPT !.dirty = FALSE, !.files = local']
    /\ UNCHANGED <<around, theirs, tracked, branch, here, cleared, finish, tidy>>

Apply ==
    \/ \E tests \in {"suite", "claim", "none"} : Start(tests)
    \/ Archive \/ Fetch \/ Rebase \/ Recheck \/ Test \/ Tested
    \/ GateLocally \/ MergeThere \/ CheckOut \/ MergeHere
    \/ Push \/ Arrive \/ Refresh \/ Delete

People ==
    \/ Edit \/ \E p \in Work : CommitEdit(p)
    \/ SwitchBack \/ Review \/ EndSession \/ StartSession \/ EditThere
    \/ \E p \in Mates : PushBranch(p)
    \/ \E p \in Theirs : LandOther(p)

Tidies ==
    \/ Look \/ TidyDelete \/ TidyPrune \/ TidyFold \/ TidyPlans \/ TidyReports
    \/ TidyRecheck \/ TidyRemove \/ KillTidy

Next == \/ Apply \/ Tidies \/ Kill \/ People
        \/ PruneByHand("prune") \/ PruneByHand("stage") \/ PruneGoesOn \/ OnTheRecords

Spec == Init /\ [][Next]_vars

-----------------------------------------------------------------------------
Lands == Integration' # Integration /\ finish.at \in {"pushing", "gated", "switched"} /\ finish'.at = "landed"
Landed == Content(Integration') \ Content(Integration)

(* What finish puts on main passed the gates as it lands, the review of its *)
(* plan has seen all of it, and the suite was green on it, on the main it   *)
(* lands on - or the worker's word stands for that, or no test is about it. *)
(* An edit of the checkout meanwhile voids the suite's part and, where no   *)
(* push judges the commit itself, the gates' too.                           *)
LandsChecked ==
    [][Lands => /\ Remote \/ finish.still => ~Fails(world.red, Integration')
                /\ (Remote \/ finish.still) /\ world.plan => Landed \ Quiet \subseteq cleared
                /\ finish.still =>
                      \/ finish.tests = "suite" /\ ~Fails(world.broken, Integration')
                      \/ finish.tests = "claim" /\ Remote
                      \/ finish.tests # "suite" /\ Landed \subseteq Quiet]_vars

(* No step of finish, of tidy or of anyone loses work of this clone: every  *)
(* patch on its branch, its main or origin's stays on one of them, through  *)
(* rebases, merges and deletions, and an edit is gone only when it is       *)
(* committed, for git takes no worktree with one. The worktree that goes    *)
(* had nobody at work and nothing main lacks when it was judged for the     *)
(* second time; a session that starts after that loses its directory. On    *)
(* origin tidy deletes by name: what it saw of the branch is on main, and   *)
(* what a mate has pushed to it since is lost.                              *)
Secured == Content(main) \cup Content(local) \cup Content(branch)

TidySparesWork ==
    [][/\ Secured \subseteq Secured'
       /\ here.on # "gone" /\ here.dirty =>
             /\ here'.on # "gone"
             /\ here'.dirty \/ Secured' # Secured
       /\ here'.on = "gone" /\ here.on # "gone" => ~tidy.live /\ Contained(tidy.found, Integration)
       /\ tidy.at = "looked" /\ tidy'.at # "looked" /\ theirs' # theirs => Contained(tidy.saw, main)]_vars

(* What tidy does to the records is to be had back or not needed. A report  *)
(* it removes is in HEAD as it was on disk, unless it was edited after the  *)
(* look where git does not look. Folding the journal, whenever it is        *)
(* killed, leaves each work the REVIEW line that stands. The report the     *)
(* next round of an open work reads is still the one it was.                *)
TidySparesRecords ==
    [][/\ \A r \in Report : report[r].disk # 0 /\ report'[r].disk = 0 =>
             report[r].disk = report[r].head \/ report[r].disk # tidy.disk[r]
       /\ \A w \in Items : journal'.today = journal.today => Stands(w)' = Stands(w)
       /\ tidy.at = "reports" /\ tidy'.at = "worktrees" =>
             \A w \in tidy.open : NextRoundReads(w)' = NextRoundReads(w)]_vars
=============================================================================
