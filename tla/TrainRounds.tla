----------------------------- MODULE TrainRounds -----------------------------
(***************************************************************************)
(* The judging of one train run: the loop of _run_batch in                 *)
(* template/scripts/process/train.py, from the first combined tree to the  *)
(* push. Each run of the suite is one step. The base and the passengers'   *)
(* SHAs are pinned at boarding (#391), so the verdict a tree deserves is a *)
(* fixed function of who is on it; a run may still come out red on a tree  *)
(* that deserves green: a flake.                                           *)
(*                                                                         *)
(* Passengers are numbered in boarding order: 1 has waited longest.        *)
(***************************************************************************)
EXTENDS Naturals, FiniteSets

CONSTANTS
    N,          \* how many passengers may board
    Worlds,     \* the situations the run may find itself in, see World
    MaxFlakes   \* bound: how many runs may come out red by chance

Branches == 1..N

(* What a tree deserves: "gates" - the process gates are red; "suite" - the *)
(* gates are green and the suite is red; "undefined" - the gates are green  *)
(* and the suite command or its make target does not exist on that tree.    *)
Truths == {"green", "gates", "suite", "undefined"}

World == [
    truth    : [SUBSET Branches -> Truths],
    clash    : SUBSET (Branches \X Branches),    \* <<b, c>>: b does not merge once c is in, <<b, b>>: nor on the base
    contains : [Branches -> SUBSET Branches],    \* whose boarded tips are ancestors of b's
    memo     : BOOLEAN,                          \* green-suites names the base's tree
    retry    : {"none", "faithful", "narrow", "missing"}]  \* what --retry re-runs

ASSUME NAssumption == N \in Nat
ASSUME WorldsAssumption == Worlds \subseteq World
ASSUME FlakesAssumption == MaxFlakes \in Nat

Stops == {"landed", "nobody", "undefined", "base-red", "local-ahead",
          "push-rejected", "environment", "aborted"}
Judging == {"first", "missing", "retry", "base", "search"}

VARIABLES
    world,         \* the situation, fixed for the run
    pc,            \* where the run is: in Judging, "holds", "depart" or in Stops
    boarded,       \* who boarded
    aboard,        \* who still is aboard
    staged,        \* who is merged in the staging worktree, beside the base
    redIn,         \* where the first run of the round went red
    retried,       \* the round has used its flake re-run
    baseState,     \* the base's verdict, "unknown" until it is asked for
    baseFromMemo,  \* the base's green is the memo's, not a run's
    greenHere,     \* trees whose suite this run saw green
    lo, hi,        \* the bisection: positions aboard, from 1
    blamed, conflicted, held,   \* who left, and why
    reported,      \* who got the train's own `blocked` report
    flakes,        \* history: runs that were red by chance
    misled         \* history: one of them was a run the code does not repeat

gone == <<blamed, conflicted, held>>
searching == <<lo, hi>>
base == <<baseState, baseFromMemo>>
vars == <<world, pc, boarded, aboard, staged, redIn, retried, base, greenHere,
          searching, gone, reported, flakes, misled>>

-----------------------------------------------------------------------------
(* Merging (build_train): in boarding order, each one onto what is in.      *)

(* M is who ends up merged when the passengers S are tried.                 *)
Merges(S, M) ==
    \A b \in S : b \in M <=> /\ <<b, b>> \notin world.clash
                             /\ \A c \in M : c < b => <<b, c>> \notin world.clash

(* Who is dropped for a conflict.                                           *)
Off(S, M) == S \ M

(* The place of b in the boarding order, and the first k passengers.        *)
UpTo(b) == {c \in aboard : c <= b}
Position(b) == Cardinality(UpTo(b))
Prefix(k) == {b \in aboard : Position(b) <= k}

-----------------------------------------------------------------------------
(* Judging a tree (judge, full_suite, _sh). A verdict says what the run     *)
(* answered, what decided it - "gates", "suite", a green "seen" earlier in  *)
(* this run, the "memo" of an earlier one, the "retry" command, a           *)
(* "conflict" - and whether it was red by chance.                           *)

Verdict == [v : {"green", "red", "undefined"},
            by : {"gates", "suite", "seen", "memo", "retry", "conflict"},
            flaked : BOOLEAN]

Says(v, by) == [v |-> v, by |-> by, flaked |-> FALSE]
Flake(by) ==
    IF flakes < MaxFlakes THEN {[v |-> "red", by |-> by, flaked |-> TRUE]} ELSE {}

SuiteSays(S) ==
    IF world.truth[S] = "green" THEN {Says("green", "suite")} \cup Flake("suite")
    ELSE IF world.truth[S] = "undefined" THEN {Says("undefined", "suite")}
    ELSE {Says("red", "suite")}

(* memo: the caller asks about the bare base and lets an earlier train's    *)
(* green stand in for the suite. The gates run in any case.                 *)
Judge(S, memo) ==
    IF world.truth[S] = "gates" THEN {Says("red", "gates")}
    ELSE Flake("gates") \cup
         IF S \in greenHere THEN {Says("green", "seen")}
         ELSE IF memo THEN {Says("green", "memo")}
         ELSE SuiteSays(S)

(* attempt: build the passengers S, of whom M merge, and judge the tree.    *)
Attempt(S, M) ==
    IF M = {} /\ S # {} THEN {Says("red", "conflict")} ELSE Judge(M, FALSE)

(* What a run on the tree of M leaves behind. Remembering a green suite is  *)
(* best effort: a tree without a readable key is not remembered.            *)
Ran(M, o) ==
    /\ staged' = M
    /\ flakes' = IF o.flaked THEN flakes + 1 ELSE flakes
    /\ greenHere' \in IF o.v = "green" /\ o.by = "suite"
                      THEN {greenHere, greenHere \cup {M}} ELSE {greenHere}

(* The second run on the worktree as the first one left it. What that run   *)
(* wrote (dirty) may decide the answer; --retry may also ask less than the  *)
(* suite does ("narrow": other flags, another environment).                 *)
Again(how, dirty) ==
    IF dirty THEN {Says("green", "retry"), Says("red", "retry")}
    ELSE IF how = "gates" THEN
        IF world.truth[staged] = "gates" THEN {Says("red", "gates")}
        ELSE Flake("gates") \cup SuiteSays(staged)
    ELSE IF world.truth[staged] = "green" THEN {Says("green", "retry")} \cup Flake("retry")
    ELSE {Says("red", "retry")} \cup
         IF world.retry = "narrow" THEN {Says("green", "retry")} ELSE {}

-----------------------------------------------------------------------------
Init ==
    /\ world \in Worlds
    /\ boarded \in (SUBSET Branches) \ {{}}
    /\ aboard = boarded
    /\ pc = "first"
    /\ staged = {}
    /\ redIn = "suite"
    /\ retried = FALSE
    /\ baseState = "unknown" /\ baseFromMemo = FALSE
    /\ greenHere = {}
    /\ lo = 1 /\ hi = 1
    /\ blamed = {} /\ conflicted = {} /\ held = {}
    /\ reported = {}
    /\ flakes = 0 /\ misled = FALSE

(* A round begins: the combined tree of everybody aboard is built and       *)
(* judged; who does not merge is off.                                       *)
AfterFirst(M, o) ==
    IF M = {} THEN "depart"
    ELSE IF o.v = "green" THEN "holds"
    ELSE IF o.v = "undefined" THEN "missing"
    ELSE IF retried THEN "base" ELSE "retry"

First ==
    /\ pc = "first"
    /\ \E M \in SUBSET aboard :
         /\ Merges(aboard, M)
         /\ \E o \in Attempt(aboard, M) :
              /\ Ran(M, o)
              /\ redIn' = o.by
              /\ pc' = AfterFirst(M, o)
         /\ aboard' = M
         /\ conflicted' = conflicted \cup Off(aboard, M)
    /\ UNCHANGED <<world, boarded, retried, base, searching, blamed, held, reported, misled>>

(* check_base: the base's verdict, asked for once in a run.                  *)
BaseVerdict(o) == o.v

CheckBase ==
    /\ pc \in {"missing", "base"} /\ baseState = "unknown"
    /\ \E o \in Judge({}, world.memo) :
         /\ Ran({}, o)
         /\ baseState' = BaseVerdict(o)
         /\ baseFromMemo' = (o.by = "memo")
         /\ misled' = (misled \/ o.flaked)
    /\ UNCHANGED <<world, pc, boarded, aboard, redIn, retried, searching, gone, reported>>

(* The combined tree has no such suite, and neither has the base: nobody's  *)
(* fault. Whoever a round before dropped is told (_report_dropped).         *)
SuiteMissing ==
    /\ pc = "missing" /\ baseState = "undefined"
    /\ pc' = "undefined"
    /\ reported' = reported \cup conflicted \cup blamed
    /\ UNCHANGED <<world, boarded, aboard, staged, redIn, retried, base, greenHere,
                   searching, gone, flakes, misled>>

(* The base has the suite, so somebody aboard lost it: red, and no re-run.  *)
SuiteLost ==
    /\ pc = "missing" /\ baseState \in {"green", "red"}
    /\ pc' = "base"
    /\ retried' = TRUE
    /\ UNCHANGED <<world, boarded, aboard, staged, redIn, base, greenHere,
                   searching, gone, reported, flakes, misled>>

(* retry_plan, and the exception run makes for a worktree the first run     *)
(* wrote into.                                                              *)
RetryPlan(dirty) ==
    IF dirty THEN "full"
    ELSE IF redIn = "gates" THEN "gates"
    ELSE IF world.retry \in {"faithful", "narrow"} THEN "failed" ELSE "full"

AfterRetry(o) == IF o.v = "green" THEN "holds" ELSE "base"

RetryHere ==
    /\ pc = "retry"
    /\ \E dirty \in BOOLEAN :
         /\ RetryPlan(dirty) # "full"
         /\ \E o \in Again(RetryPlan(dirty), dirty) :
              /\ Ran(staged, o)
              /\ misled' = (misled \/ o.flaked)
              /\ pc' = AfterRetry(o)
    /\ retried' = TRUE
    /\ UNCHANGED <<world, boarded, aboard, redIn, base, searching, gone, reported>>

RetryFull ==
    /\ pc = "retry"
    /\ \E dirty \in BOOLEAN : RetryPlan(dirty) = "full"
    /\ \E M \in SUBSET aboard :
         /\ Merges(aboard, M)
         /\ \E o \in Attempt(aboard, M) :
              /\ Ran(M, o)
              /\ misled' = (misled \/ o.flaked)
              /\ pc' = AfterRetry(o)
         /\ aboard' = M
         /\ conflicted' = conflicted \cup Off(aboard, M)
    /\ retried' = TRUE
    /\ UNCHANGED <<world, boarded, redIn, base, searching, blamed, held, reported>>

(* The base is red itself: nobody is blamed, nobody is told.                *)
RedBase ==
    /\ pc = "base" /\ baseState = "red"
    /\ pc' = "base-red"
    /\ UNCHANGED <<world, boarded, aboard, staged, redIn, retried, base, greenHere,
                   searching, gone, reported, flakes, misled>>

StartSearch ==
    /\ pc = "base" /\ baseState \in {"green", "undefined"}
    /\ pc' = "search"
    /\ lo' = 1 /\ hi' = Cardinality(aboard)
    /\ UNCHANGED <<world, boarded, aboard, staged, redIn, retried, base, greenHere,
                   gone, reported, flakes, misled>>

(* A prefix is cleared when it is green, or cannot be judged on a base that *)
(* cannot be judged either.                                                 *)
Cleared(o) == o.v = "green" \/ (o.v = "undefined" /\ baseState = "undefined")

(* A cleared prefix moves the lower end past it.                            *)
Above(mid) == mid + 1

Probe ==
    /\ pc = "search" /\ lo < hi
    /\ LET mid == (lo + hi) \div 2 IN
       \E M \in SUBSET Prefix(mid) :
         /\ Merges(Prefix(mid), M)
         /\ \E o \in Attempt(Prefix(mid), M) :
              /\ Ran(M, o)
              /\ misled' = (misled \/ o.flaked)
              /\ IF Cleared(o) /\ M = Prefix(mid)
                 THEN lo' = Above(mid) /\ hi' = hi
                 ELSE hi' = mid /\ lo' = lo
         /\ conflicted' = conflicted \cup Off(Prefix(mid), M)
    /\ UNCHANGED <<world, pc, boarded, aboard, redIn, retried, base, blamed, held, reported>>

(* Every prefix is red and the base is green by the memo only: main may     *)
(* have turned red outside the tree, so the base runs for real first.       *)
(* Seeded fault: the memo is trusted to the end.                            *)
TrustsTheMemo == FALSE
Unconfirmed == lo = 1 /\ baseFromMemo

Confirm ==
    /\ pc = "search" /\ lo = hi /\ Unconfirmed
    /\ \E o \in Judge({}, FALSE) :
         /\ Ran({}, o)
         /\ baseState' = o.v
         /\ misled' = (misled \/ o.flaked)
         /\ pc' = IF o.v = "red" THEN "base-red" ELSE "search"
    /\ baseFromMemo' = FALSE
    /\ UNCHANGED <<world, boarded, aboard, redIn, retried, searching, gone, reported>>

(* The bisection has one passenger left: it is dropped, and the rest is a   *)
(* new combination with a flake re-run of its own. Seeded fault: a board    *)
(* somebody left goes straight to the push.                                 *)
StraightToThePush(left) == "depart"
NextRound(left) == IF left = {} THEN "depart" ELSE "first"

Drop ==
    /\ pc = "search" /\ lo = hi /\ ~Unconfirmed
    /\ \E b \in aboard :
         /\ Position(b) = lo
         /\ blamed' = blamed \cup {b}
         /\ aboard' = aboard \ {b}
         /\ pc' = NextRound(aboard \ {b})
    /\ retried' = FALSE
    /\ UNCHANGED <<world, boarded, staged, redIn, base, greenHere, searching,
                   conflicted, held, reported, flakes, misled>>

(* held_during_run: workers (direct) hold their branch now or were blocked  *)
(* since boarding; who is stacked on one of them leaves too. Whoever is     *)
(* left is a new combination. Seeded fault: only the stacked ones leave.    *)
StackedLeave(direct) == {b \in aboard : world.contains[b] \cap direct # {}}
Leaving(direct) == {b \in aboard : b \in direct \/ world.contains[b] \cap direct # {}}

HoldCheck ==
    /\ pc = "holds"
    /\ \E direct \in SUBSET aboard :
         IF direct = {}
         THEN pc' = "depart" /\ UNCHANGED <<aboard, held, retried>>
         ELSE /\ held' = held \cup Leaving(direct)
              /\ aboard' = aboard \ Leaving(direct)
              /\ retried' = FALSE
              /\ pc' = NextRound(aboard \ Leaving(direct))
    /\ UNCHANGED <<world, boarded, staged, redIn, base, greenHere, searching,
                   blamed, conflicted, reported, flakes, misled>>

-----------------------------------------------------------------------------
(* After the loop.                                                          *)

(* _report_dropped is reached from these ends of the run, and from          *)
(* SuiteMissing.                                                            *)
ToldAtTheEnd(stop) ==
    IF stop \in {"landed", "nobody"} THEN conflicted \cup blamed ELSE {}

Leave(stop) ==
    /\ pc = "depart"
    /\ pc' = stop
    /\ reported' = reported \cup ToldAtTheEnd(stop)
    /\ UNCHANGED <<world, boarded, aboard, staged, redIn, retried, base, greenHere,
                   searching, gone, flakes, misled>>

NothingSurvived == aboard = {} /\ Leave("nobody")
LocalAhead      == aboard # {} /\ Leave("local-ahead")
PushRejected    == aboard # {} /\ Leave("push-rejected")
Landed          == aboard # {} /\ Leave("landed")

(* The preflight is red on the first tree, or a suite ran no recipe         *)
(* (EnvironmentRed); or the run is killed, or a git command of it fails.    *)
Breaks(stop) ==
    /\ pc' = stop
    /\ UNCHANGED <<world, boarded, aboard, staged, redIn, retried, base, greenHere,
                   searching, gone, reported, flakes, misled>>

EnvironmentRed == pc \in Judging /\ Breaks("environment")
Aborted        == pc \in Judging \cup {"holds", "depart"} /\ Breaks("aborted")

(* The run is over. *)
Over == pc \in Stops /\ UNCHANGED vars

Step == \/ First \/ CheckBase \/ SuiteMissing \/ SuiteLost
        \/ RetryHere \/ RetryFull \/ RedBase \/ StartSearch
        \/ Probe \/ Confirm \/ Drop \/ HoldCheck
        \/ NothingSurvived \/ LocalAhead \/ PushRejected \/ Landed

Next == Step \/ EnvironmentRed \/ Aborted \/ Over

Spec == Init /\ [][Next]_vars

(* The run is one sequential program: as long as it can step, it does.      *)
FairSpec == Spec /\ WF_vars(Step)

-----------------------------------------------------------------------------
(* Properties.                                                              *)

TypeOK ==
    /\ world \in Worlds
    /\ pc \in Judging \cup {"holds", "depart"} \cup Stops
    /\ boarded \subseteq Branches
    /\ aboard \subseteq Branches
    /\ staged \subseteq Branches
    /\ redIn \in {"gates", "suite", "seen", "conflict"}
    /\ retried \in BOOLEAN
    /\ baseState \in {"unknown", "green", "red", "undefined"}
    /\ baseFromMemo \in BOOLEAN
    /\ greenHere \subseteq SUBSET Branches
    /\ lo \in Nat /\ hi \in Nat
    /\ blamed \subseteq Branches
    /\ conflicted \subseteq Branches
    /\ held \subseteq Branches
    /\ reported \subseteq Branches
    /\ flakes \in 0..MaxFlakes
    /\ misled \in BOOLEAN

(* Every passenger is accounted for, for exactly one reason: still aboard,  *)
(* dropped as the offender, in conflict, or held by its worker. No order of *)
(* drops, re-runs and holds loses a passenger or gives it two fates (the    *)
(* aboard, blamed, conflicted and held lists of _run_batch).                *)
EachHasOneFate ==
    /\ boarded = aboard \cup blamed \cup conflicted \cup held
    /\ aboard \cap (blamed \cup conflicted \cup held) = {}
    /\ blamed \cap (conflicted \cup held) = {}
    /\ conflicted \cap held = {}

(* What a run pushes and fast-forwards to is the tree of exactly those      *)
(* still aboard, and that tree deserves green - unless the project's own    *)
(* --retry asks less than its suite. However many rounds, probes, base      *)
(* checks and holds used the one staging worktree in between.               *)
LandsDeservedGreen ==
    pc = "landed" =>
        /\ staged = aboard /\ aboard # {}
        /\ world.truth[staged] = "green" \/ world.retry = "narrow"

(* A tree that counts against the passengers on it: red, or without the     *)
(* suite the base has.                                                      *)
Red(S) == \/ world.truth[S] \in {"gates", "suite"}
          \/ world.truth[S] = "undefined" /\ world.truth[{}] # "undefined"

(* The base has no suite to compare with, and the run cannot know it: the   *)
(* memo says it is green, or the whole board has no suite either.           *)
Incomparable == /\ world.truth[{}] = "undefined"
                /\ world.memo \/ world.truth[aboard] = "undefined"

(* Who is blamed turned the board red: with it the prefix is red, without   *)
(* it - for the first passenger: on the bare base - it is not. A flake in   *)
(* the first run of a round never costs a passenger; a memo of a base that  *)
(* has since turned red outside the tree does not either.                   *)
BlamesTheOffender ==
    [][\A b \in blamed' \ blamed :
          ~misled /\ ~Incomparable => Red(UpTo(b)) /\ ~Red(UpTo(b) \ {b})]_vars

(* A run that gives up says why, truly: "the base is red" only of a base    *)
(* that is red, "the suite does not exist" only where neither the board nor *)
(* the base has it - so an abort without blame never hides an offender.     *)
AbortsAreTrue ==
    /\ pc = "base-red" /\ ~misled => world.truth[{}] \in {"gates", "suite"}
    /\ pc = "undefined" => /\ world.truth[{}] = "undefined"
                           /\ world.truth[aboard] = "undefined"

(* A run that ends by landing, with nobody left or without a suite has told *)
(* each worker it dropped, and no other; the worker of a held branch gets   *)
(* no `blocked` of the train's.                                             *)
DroppedAreTold ==
    /\ reported \subseteq blamed \cup conflicted
    /\ pc \in {"landed", "nobody", "undefined"} => blamed \cup conflicted \subseteq reported

(* The search for offenders ends: every run that is not cut off lands or    *)
(* gives up, whatever was red, flaky, in conflict or held.                  *)
RunEnds == <>(pc \in Stops)

(* The run implements Judgement: searching may stage any tree, but the one  *)
(* that lands is the tree that passed, with everybody still aboard.         *)
J == INSTANCE Judgement WITH
        board   <- aboard,
        tree    <- staged,
        passed  <- pc \in {"holds", "landed"} \/ (pc = "depart" /\ aboard # {}),
        outcome <- IF pc = "landed" THEN "landed"
                   ELSE IF pc \in Stops THEN "abandoned" ELSE "none"

KeepsJudgement == J!JSpec
=============================================================================
