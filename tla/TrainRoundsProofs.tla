-------------------------- MODULE TrainRoundsProofs --------------------------
(* Proofs about TrainRounds, for any number of passengers, any set of       *)
(* situations and any bound on the flakes.                                  *)
EXTENDS TrainRounds, FiniteSetTheorems, TLAPS

-----------------------------------------------------------------------------
(* What a run of the suite may answer.                                      *)

Answer(o) ==
    /\ o.v \in {"green", "red", "undefined"}
    /\ o.flaked \in BOOLEAN
    /\ o.flaked => o.v = "red" /\ flakes < MaxFlakes

LEMMA FlakeAnswers ==
    ASSUME NEW by, NEW o \in Flake(by)
    PROVE  Answer(o) /\ o.by = by /\ o.v = "red" /\ o.flaked
  <1>1. flakes < MaxFlakes /\ o = [v |-> "red", by |-> by, flaked |-> TRUE]
    BY Zenon DEF Flake
  <1> QED
    BY <1>1 DEF Answer

LEMMA SaysAnswers ==
    ASSUME NEW v \in {"green", "red", "undefined"}, NEW by
    PROVE  Answer(Says(v, by)) /\ Says(v, by).by = by
  BY DEF Says, Answer

LEMMA SuiteAnswers ==
    ASSUME NEW S, NEW o \in SuiteSays(S)
    PROVE  Answer(o) /\ o.by = "suite"
  <1>1. o \in Flake("suite") \/ \E v \in {"green", "red", "undefined"} : o = Says(v, "suite")
    BY DEF SuiteSays
  <1> QED
    BY <1>1, FlakeAnswers, SaysAnswers

(* A judged tree answers with a verdict, red by chance only within the      *)
(* bound; without the memo it is decided by what ran in this run.           *)
LEMMA JudgeAnswers ==
    ASSUME NEW S, NEW memo \in BOOLEAN, NEW o \in Judge(S, memo)
    PROVE  /\ Answer(o)
           /\ o.by \in {"gates", "suite", "seen", "memo"}
           /\ o.by = "memo" => memo
  <1>1. \/ o \in Flake("gates")
        \/ o \in SuiteSays(S)
        \/ o = Says("red", "gates")
        \/ o = Says("green", "seen")
        \/ o = Says("green", "memo") /\ memo
    BY DEF Judge
  <1> QED
    BY <1>1, FlakeAnswers, SaysAnswers, SuiteAnswers

LEMMA AttemptAnswers ==
    ASSUME NEW S, NEW M, NEW o \in Attempt(S, M)
    PROVE  Answer(o) /\ o.by \in {"gates", "suite", "seen", "conflict"}
  <1>1. o = Says("red", "conflict") \/ o \in Judge(M, FALSE)
    BY DEF Attempt
  <1> QED
    BY <1>1, JudgeAnswers, SaysAnswers

(* The second run on the same worktree answers with a verdict too.          *)
LEMMA AgainAnswers ==
    ASSUME NEW how, NEW dirty, NEW o \in Again(how, dirty)
    PROVE  Answer(o)
  <1>1. \/ \E by \in {"gates", "retry"} : o \in Flake(by)
        \/ o \in SuiteSays(staged)
        \/ \E v \in {"green", "red"}, by \in {"gates", "retry"} : o = Says(v, by)
    BY DEF Again
  <1> QED
    BY <1>1, FlakeAnswers, SaysAnswers, SuiteAnswers

(* A run keeps the types of what it writes.                                 *)
LEMMA RanTypes ==
    ASSUME flakes \in 0..MaxFlakes, greenHere \subseteq SUBSET Branches,
           NEW M \in SUBSET Branches, NEW o, Answer(o), Ran(M, o)
    PROVE  /\ staged' \subseteq Branches
           /\ flakes' \in 0..MaxFlakes
           /\ greenHere' \subseteq SUBSET Branches
  BY FlakesAssumption DEF Ran, Answer

(* The passengers are finitely many, and so is every set of them.           *)
LEMMA BoardsAreFinite ==
    ASSUME NEW S \in SUBSET Branches
    PROVE  IsFiniteSet(S) /\ Cardinality(S) \in Nat
  <1>1. IsFiniteSet(Branches)
    BY NAssumption, FS_Interval DEF Branches
  <1> QED
    BY <1>1, FS_Subset, FS_CardinalityType

-----------------------------------------------------------------------------
(* Every step keeps every variable in its range.                            *)
LEMMA TypeStep == TypeOK /\ [Next]_vars => TypeOK'
  <1> SUFFICES ASSUME TypeOK, [Next]_vars PROVE TypeOK'
    OBVIOUS
  <1> USE DEF TypeOK
  <1>w. world \in World
    BY WorldsAssumption
  <1>1. CASE First
    <2> PICK M \in SUBSET aboard : \E o \in Attempt(aboard, M) :
              /\ Ran(M, o) /\ redIn' = o.by /\ pc' = AfterFirst(M, o)
              /\ aboard' = M /\ conflicted' = conflicted \cup Off(aboard, M)
      BY <1>1 DEF First
    <2> PICK o \in Attempt(aboard, M) :
              Ran(M, o) /\ redIn' = o.by /\ pc' = AfterFirst(M, o)
      OBVIOUS
    <2>1. Answer(o) /\ o.by \in {"gates", "suite", "seen", "conflict"}
      BY AttemptAnswers
    <2>2. staged' \subseteq Branches /\ flakes' \in 0..MaxFlakes /\ greenHere' \subseteq SUBSET Branches
      BY <2>1, RanTypes
    <2> QED
      BY <1>1, <2>1, <2>2 DEF First, AfterFirst, Off, Judging, base, searching
  <1>2. CASE CheckBase
    <2> PICK o \in Judge({}, world.memo) : Ran({}, o) /\ baseState' = o.v
              /\ baseFromMemo' = (o.by = "memo") /\ misled' = (misled \/ o.flaked)
      BY <1>2 DEF CheckBase, BaseVerdict
    <2>1. Answer(o)
      BY <1>w, JudgeAnswers DEF World
    <2>2. staged' \subseteq Branches /\ flakes' \in 0..MaxFlakes /\ greenHere' \subseteq SUBSET Branches
      BY <2>1, RanTypes
    <2> QED
      BY <1>2, <2>1, <2>2 DEF CheckBase, Answer, searching, gone
  <1>3. CASE SuiteMissing
    BY <1>3 DEF SuiteMissing, Stops, base, searching, gone
  <1>4. CASE SuiteLost
    BY <1>4 DEF SuiteLost, Judging, base, searching, gone
  <1>5. CASE RetryHere
    <2> PICK dirty \in BOOLEAN : \E o \in Again(RetryPlan(dirty), dirty) :
              Ran(staged, o) /\ misled' = (misled \/ o.flaked) /\ pc' = AfterRetry(o)
      BY <1>5 DEF RetryHere
    <2> PICK o \in Again(RetryPlan(dirty), dirty) :
              Ran(staged, o) /\ misled' = (misled \/ o.flaked) /\ pc' = AfterRetry(o)
      OBVIOUS
    <2>1. Answer(o)
      BY AgainAnswers
    <2>2. staged' \subseteq Branches /\ flakes' \in 0..MaxFlakes /\ greenHere' \subseteq SUBSET Branches
      BY <2>1, RanTypes
    <2> QED
      BY <1>5, <2>1, <2>2 DEF RetryHere, AfterRetry, Answer, Judging, base, searching, gone
  <1>6. CASE RetryFull
    <2> PICK M \in SUBSET aboard : \E o \in Attempt(aboard, M) :
              /\ Ran(M, o) /\ misled' = (misled \/ o.flaked) /\ pc' = AfterRetry(o)
              /\ aboard' = M /\ conflicted' = conflicted \cup Off(aboard, M)
      BY <1>6 DEF RetryFull
    <2> PICK o \in Attempt(aboard, M) :
              Ran(M, o) /\ misled' = (misled \/ o.flaked) /\ pc' = AfterRetry(o)
      OBVIOUS
    <2>1. Answer(o)
      BY AttemptAnswers
    <2>2. staged' \subseteq Branches /\ flakes' \in 0..MaxFlakes /\ greenHere' \subseteq SUBSET Branches
      BY <2>1, RanTypes
    <2> QED
      BY <1>6, <2>1, <2>2 DEF RetryFull, AfterRetry, Answer, Off, Judging, base, searching
  <1>7. CASE RedBase
    BY <1>7 DEF RedBase, Stops, base, searching, gone
  <1>8. CASE StartSearch
    BY <1>8, BoardsAreFinite DEF StartSearch, Judging, base, gone
  <1>9. CASE Probe
    <2> DEFINE mid == (lo + hi) \div 2
    <2> PICK M \in SUBSET Prefix(mid) : \E o \in Attempt(Prefix(mid), M) :
              /\ Ran(M, o) /\ misled' = (misled \/ o.flaked)
              /\ IF Cleared(o) /\ M = Prefix(mid) THEN lo' = Above(mid) /\ hi' = hi
                                                  ELSE hi' = mid /\ lo' = lo
              /\ conflicted' = conflicted \cup Off(Prefix(mid), M)
      BY <1>9 DEF Probe
    <2> PICK o \in Attempt(Prefix(mid), M) :
              /\ Ran(M, o) /\ misled' = (misled \/ o.flaked)
              /\ IF Cleared(o) /\ M = Prefix(mid) THEN lo' = Above(mid) /\ hi' = hi
                                                  ELSE hi' = mid /\ lo' = lo
      OBVIOUS
    <2>0. mid \in Nat /\ Prefix(mid) \subseteq Branches
      BY DEF Prefix
    <2>1. Answer(o)
      BY AttemptAnswers
    <2>2. staged' \subseteq Branches /\ flakes' \in 0..MaxFlakes /\ greenHere' \subseteq SUBSET Branches
      BY <2>0, <2>1, RanTypes
    <2>3. lo' \in Nat /\ hi' \in Nat
      BY <2>0 DEF Above
    <2> QED
      BY <1>9, <2>0, <2>1, <2>2, <2>3 DEF Probe, Answer, Off, base
  <1>10. CASE Confirm
    <2> PICK o \in Judge({}, FALSE) : Ran({}, o) /\ baseState' = o.v
              /\ misled' = (misled \/ o.flaked)
              /\ pc' = IF o.v = "red" THEN "base-red" ELSE "search"
      BY <1>10 DEF Confirm
    <2>1. Answer(o)
      BY JudgeAnswers
    <2>2. staged' \subseteq Branches /\ flakes' \in 0..MaxFlakes /\ greenHere' \subseteq SUBSET Branches
      BY <2>1, RanTypes
    <2> QED
      BY <1>10, <2>1, <2>2 DEF Confirm, Answer, Judging, Stops, searching, gone
  <1>11. CASE Drop
    BY <1>11 DEF Drop, NextRound, Judging, base, searching
  <1>12. CASE HoldCheck
    BY <1>12 DEF HoldCheck, NextRound, Leaving, Judging, base, searching
  <1>13. CASE NothingSurvived \/ LocalAhead \/ PushRejected \/ Landed
    BY <1>13 DEF NothingSurvived, LocalAhead, PushRejected, Landed, Leave, ToldAtTheEnd,
                 Stops, base, searching, gone
  <1>14. CASE EnvironmentRed \/ Aborted
    BY <1>14 DEF EnvironmentRed, Aborted, Breaks, Stops, base, searching, gone
  <1>15. CASE Over \/ UNCHANGED vars
    BY <1>15 DEF Over, vars, base, searching, gone
  <1> QED
    BY <1>1, <1>2, <1>3, <1>4, <1>5, <1>6, <1>7, <1>8, <1>9, <1>10, <1>11, <1>12, <1>13,
       <1>14, <1>15 DEF Next, Step

LEMMA TypeInit == Init => TypeOK
  <1> SUFFICES ASSUME Init PROVE TypeOK
    OBVIOUS
  <1>1. flakes \in 0..MaxFlakes
    BY FlakesAssumption DEF Init
  <1>2. pc \in Judging
    BY DEF Init, Judging
  <1>3. boarded \subseteq Branches /\ aboard \subseteq Branches
    BY DEF Init
  <1> QED
    BY <1>1, <1>2, <1>3 DEF Init, TypeOK

(* Every variable keeps its type, however many passengers board.            *)
THEOREM TypeCorrect == Spec => []TypeOK
  BY TypeInit, TypeStep, PTL DEF Spec

-----------------------------------------------------------------------------
(* Once a board was merged as a whole, every part of it merges as a whole:  *)
(* no re-run and no probe finds a new conflict.                             *)

Mergeable(S) == \A b \in S : /\ <<b, b>> \notin world.clash
                             /\ \A c \in S : c < b => <<b, c>> \notin world.clash

LEMMA MergedIsMergeable ==
    ASSUME NEW S, NEW M \in SUBSET S, Merges(S, M)
    PROVE  Mergeable(M)
  BY DEF Merges, Mergeable

LEMMA MergesWhole ==
    ASSUME NEW T, Mergeable(T), NEW S \in SUBSET T, NEW M \in SUBSET S, Merges(S, M)
    PROVE  M = S
  BY DEF Merges, Mergeable

InRound == {"missing", "retry", "base", "search"}

FateInv ==
    /\ EachHasOneFate
    /\ pc \in InRound => Mergeable(aboard) /\ aboard # {}

LEMMA FateStep == TypeOK /\ FateInv /\ [Next]_vars => FateInv'
  <1> SUFFICES ASSUME TypeOK, FateInv, [Next]_vars PROVE FateInv'
    OBVIOUS
  <1> USE DEF FateInv, EachHasOneFate, InRound
  <1>1. CASE First
    <2> PICK M \in SUBSET aboard :
              /\ Merges(aboard, M)
              /\ \E o \in Attempt(aboard, M) : pc' = AfterFirst(M, o)
              /\ aboard' = M /\ conflicted' = conflicted \cup (aboard \ M)
      BY <1>1 DEF First, Off
    <2>1. Mergeable(M)' /\ UNCHANGED <<boarded, blamed, held>>
      BY <1>1, MergedIsMergeable DEF First, Mergeable
    <2>2. pc' \in InRound => M # {}
      BY DEF AfterFirst
    <2>3. EachHasOneFate'
      BY <2>1
    <2> QED
      BY <2>1, <2>2, <2>3 DEF Mergeable
  <1>2. CASE CheckBase
    BY <1>2 DEF CheckBase, gone, Mergeable
  <1>3. CASE SuiteMissing
    BY <1>3 DEF SuiteMissing, gone, Mergeable
  <1>4. CASE SuiteLost
    BY <1>4 DEF SuiteLost, gone, Mergeable
  <1>5. CASE RetryHere
    BY <1>5 DEF RetryHere, AfterRetry, gone, Mergeable
  <1>6. CASE RetryFull
    <2> PICK M \in SUBSET aboard :
              /\ Merges(aboard, M)
              /\ aboard' = M /\ conflicted' = conflicted \cup (aboard \ M)
      BY <1>6 DEF RetryFull, Off
    <2>1. M = aboard
      BY <1>6, MergesWhole DEF RetryFull
    <2> QED
      BY <1>6, <2>1 DEF RetryFull, AfterRetry, Mergeable
  <1>7. CASE RedBase
    BY <1>7 DEF RedBase, gone, Mergeable
  <1>8. CASE StartSearch
    BY <1>8 DEF StartSearch, gone, Mergeable
  <1>9. CASE Probe
    <2> DEFINE P == Prefix((lo + hi) \div 2)
    <2> PICK M \in SUBSET P : Merges(P, M) /\ conflicted' = conflicted \cup (P \ M)
      BY <1>9 DEF Probe, Off
    <2>1. M = P
      BY <1>9, MergesWhole DEF Probe, Prefix
    <2> QED
      BY <1>9, <2>1 DEF Probe, Mergeable
  <1>10. CASE Confirm
    BY <1>10 DEF Confirm, gone, Mergeable
  <1>11. CASE Drop
    BY <1>11 DEF Drop, NextRound
  <1>12. CASE HoldCheck
    BY <1>12 DEF HoldCheck, NextRound, Leaving
  <1>13. CASE NothingSurvived \/ LocalAhead \/ PushRejected \/ Landed
    BY <1>13 DEF NothingSurvived, LocalAhead, PushRejected, Landed, Leave, gone
  <1>14. CASE EnvironmentRed \/ Aborted
    BY <1>14 DEF EnvironmentRed, Aborted, Breaks, gone
  <1>15. CASE Over \/ UNCHANGED vars
    BY <1>15 DEF Over, vars, gone, Mergeable
  <1> QED
    BY <1>1, <1>2, <1>3, <1>4, <1>5, <1>6, <1>7, <1>8, <1>9, <1>10, <1>11, <1>12, <1>13,
       <1>14, <1>15 DEF Next, Step

LEMMA FateInit == Init => FateInv
  BY DEF Init, FateInv, EachHasOneFate, InRound

(* No order of drops, re-runs, conflicts and holds loses a passenger or     *)
(* gives it two fates: what is left behind is told one thing.               *)
THEOREM OneFateEach == Spec => []EachHasOneFate
  <1>1. TypeOK /\ FateInv /\ [Next]_vars => (TypeOK /\ FateInv)'
    BY TypeStep, FateStep
  <1>2. FateInv => EachHasOneFate
    BY DEF FateInv
  <1> QED
    BY TypeInit, FateInit, <1>1, <1>2, PTL DEF Spec

-----------------------------------------------------------------------------
(* Who hears of it.                                                         *)

LEMMA ToldStep == DroppedAreTold /\ [Next]_vars => DroppedAreTold'
  <1> SUFFICES ASSUME DroppedAreTold, [Next]_vars PROVE DroppedAreTold'
    OBVIOUS
  <1> USE DEF DroppedAreTold
  <1>1. CASE First \/ RetryFull
    BY <1>1 DEF First, RetryFull, AfterFirst, AfterRetry
  <1>2. CASE RetryHere
    BY <1>2 DEF RetryHere, AfterRetry, gone
  <1>3. CASE CheckBase \/ SuiteLost \/ RedBase \/ StartSearch \/ Confirm
    BY <1>3 DEF CheckBase, SuiteLost, RedBase, StartSearch, Confirm, gone
  <1>4. CASE SuiteMissing
    BY <1>4 DEF SuiteMissing, gone
  <1>5. CASE Probe
    BY <1>5 DEF Probe
  <1>6. CASE Drop \/ HoldCheck
    BY <1>6 DEF Drop, HoldCheck, NextRound
  <1>7. CASE NothingSurvived \/ LocalAhead \/ PushRejected \/ Landed
    BY <1>7 DEF NothingSurvived, LocalAhead, PushRejected, Landed, Leave, ToldAtTheEnd, gone
  <1>8. CASE EnvironmentRed \/ Aborted
    BY <1>8 DEF EnvironmentRed, Aborted, Breaks, gone
  <1>9. CASE UNCHANGED vars
    BY <1>9 DEF vars, gone
  <1> QED
    BY <1>1, <1>2, <1>3, <1>4, <1>5, <1>6, <1>7, <1>8, <1>9 DEF Next, Step, Over

(* A run that lands, is left with nobody or finds no suite has told every   *)
(* worker it dropped, in whatever round that was, and nobody else.          *)
THEOREM DroppedAreToldOfIt == Spec => []DroppedAreTold
  <1>1. Init => DroppedAreTold
    BY DEF Init, DroppedAreTold
  <1> QED
    BY <1>1, ToldStep, PTL DEF Spec

-----------------------------------------------------------------------------
(* A green answer is deserved.                                              *)

Deserved(S) == world.truth[S] = "green" \/ world.retry = "narrow"

RememberedAreGreen == \A S \in greenHere : world.truth[S] = "green"

LEMMA GreenSuite ==
    ASSUME NEW S, NEW o \in SuiteSays(S), o.v = "green"
    PROVE  world.truth[S] = "green"
  <1>1. \A x \in Flake("suite") : x.v = "red"
    BY FlakeAnswers
  <1>2. Says("undefined", "suite").v = "undefined" /\ Says("red", "suite").v = "red"
    BY DEF Says
  <1> QED
    BY <1>1, <1>2 DEF SuiteSays

LEMMA GreenJudge ==
    ASSUME RememberedAreGreen, NEW S, NEW memo, NEW o \in Judge(S, memo), o.v = "green"
    PROVE  o.by = "memo" \/ world.truth[S] = "green"
  <1>1. \A x \in Flake("gates") : x.v = "red"
    BY FlakeAnswers
  <1>2. Says("red", "gates").v = "red" /\ Says("green", "memo").by = "memo"
    BY DEF Says
  <1>3. \/ o = Says("green", "seen") /\ S \in greenHere
        \/ o = Says("green", "memo")
        \/ o \in SuiteSays(S)
    BY <1>1, <1>2 DEF Judge
  <1> QED
    BY <1>2, <1>3, GreenSuite DEF RememberedAreGreen

LEMMA GreenAttempt ==
    ASSUME RememberedAreGreen, NEW S, NEW M, NEW o \in Attempt(S, M), o.v = "green"
    PROVE  world.truth[M] = "green"
  <1>1. o \in Judge(M, FALSE)
    <2>1. o = Says("red", "conflict") \/ o \in Judge(M, FALSE)
      BY DEF Attempt
    <2>2. Says("red", "conflict").v = "red"
      BY DEF Says
    <2> QED
      BY <2>1, <2>2
  <1>2. o.by # "memo"
    BY AttemptAnswers
  <1> QED
    BY <1>1, <1>2, GreenJudge

(* On the same worktree, unless the first run wrote into it.                *)
LEMMA GreenAgain ==
    ASSUME NEW how, NEW o \in Again(how, FALSE), o.v = "green"
    PROVE  Deserved(staged) /\ (o.by = "suite" => world.truth[staged] = "green")
  <1>1. \A by : \A x \in Flake(by) : x.v = "red"
    BY FlakeAnswers
  <1>2. /\ \A by : Says("red", by).v = "red"
        /\ Says("green", "retry").by = "retry"
    BY DEF Says
  <1>3. \/ o \in SuiteSays(staged)
        \/ o = Says("green", "retry") /\ Deserved(staged)
    BY <1>1, <1>2 DEF Again, Deserved
  <1> QED
    BY <1>2, <1>3, GreenSuite DEF Deserved

LEMMA RanRemembers ==
    ASSUME RememberedAreGreen, NEW M, NEW o, Ran(M, o), UNCHANGED world,
           o.v = "green" /\ o.by = "suite" => world.truth[M] = "green"
    PROVE  RememberedAreGreen'
  BY DEF RememberedAreGreen, Ran

(* What is ready to leave passed, and it is what the worktree holds.        *)
GreenInv ==
    /\ RememberedAreGreen
    /\ pc \in {"retry", "holds", "landed"} \/ (pc = "depart" /\ aboard # {}) =>
          staged = aboard /\ aboard # {}
    /\ pc \in {"holds", "landed"} \/ (pc = "depart" /\ aboard # {}) => Deserved(staged)

LEMMA GreenStep == TypeOK /\ FateInv /\ GreenInv /\ [Next]_vars => GreenInv'
  <1> SUFFICES ASSUME TypeOK, FateInv, GreenInv, [Next]_vars PROVE GreenInv'
    OBVIOUS
  <1> USE DEF GreenInv
  <1>1. CASE First
    <2> PICK M \in SUBSET aboard : \E o \in Attempt(aboard, M) :
              Ran(M, o) /\ pc' = AfterFirst(M, o) /\ aboard' = M
      BY <1>1 DEF First
    <2> PICK o \in Attempt(aboard, M) : Ran(M, o) /\ pc' = AfterFirst(M, o)
      OBVIOUS
    <2>1. o.v = "green" => world.truth[M] = "green"
      BY GreenAttempt
    <2>2. UNCHANGED world /\ staged' = M /\ aboard' = M
      BY <1>1 DEF First, Ran
    <2>3. RememberedAreGreen'
      BY <2>1, <2>2, RanRemembers
    <2>4. /\ pc' \in {"retry", "holds", "missing", "base"} => M # {}
          /\ pc' = "depart" => M = {}
          /\ pc' = "holds" => o.v = "green"
          /\ pc' # "landed"
      BY DEF AfterFirst
    <2> QED
      BY <2>1, <2>2, <2>3, <2>4 DEF Deserved
  <1>2. CASE CheckBase
    <2> PICK o \in Judge({}, world.memo) : Ran({}, o)
      BY <1>2 DEF CheckBase
    <2>1. o.v = "green" /\ o.by = "suite" => world.truth[{}] = "green"
      BY GreenJudge
    <2> QED
      BY <1>2, <2>1, RanRemembers DEF CheckBase
  <1>3. CASE SuiteMissing
    BY <1>3 DEF SuiteMissing, RememberedAreGreen, Deserved
  <1>4. CASE SuiteLost
    BY <1>4 DEF SuiteLost, RememberedAreGreen, Deserved
  <1>5. CASE RetryHere
    <2> PICK dirty \in BOOLEAN : RetryPlan(dirty) # "full" /\
              \E o \in Again(RetryPlan(dirty), dirty) : Ran(staged, o) /\ pc' = AfterRetry(o)
      BY <1>5 DEF RetryHere
    <2>1. dirty = FALSE
      BY DEF RetryPlan
    <2> PICK o \in Again(RetryPlan(dirty), FALSE) : Ran(staged, o) /\ pc' = AfterRetry(o)
      BY <2>1
    <2>2. o.v = "green" => Deserved(staged) /\ (o.by = "suite" => world.truth[staged] = "green")
      BY GreenAgain
    <2>3. RememberedAreGreen'
      BY <1>5, <2>2, RanRemembers DEF RetryHere
    <2>4. /\ pc' \in {"holds", "base"} /\ (pc' = "holds" => o.v = "green")
          /\ staged' = staged /\ UNCHANGED <<world, aboard>>
      BY <1>5 DEF RetryHere, AfterRetry, Ran
    <2> QED
      BY <1>5, <2>2, <2>3, <2>4 DEF RetryHere, Deserved
  <1>6. CASE RetryFull
    <2> PICK M \in SUBSET aboard : Merges(aboard, M) /\ aboard' = M /\
              \E o \in Attempt(aboard, M) : Ran(M, o) /\ pc' = AfterRetry(o)
      BY <1>6 DEF RetryFull
    <2> PICK o \in Attempt(aboard, M) : Ran(M, o) /\ pc' = AfterRetry(o)
      OBVIOUS
    <2>1. o.v = "green" => world.truth[M] = "green"
      BY GreenAttempt
    <2>2. M = aboard /\ aboard # {}
      BY <1>6, MergesWhole DEF RetryFull, FateInv, InRound
    <2>3. RememberedAreGreen'
      BY <1>6, <2>1, RanRemembers DEF RetryFull
    <2>4. /\ pc' \in {"holds", "base"} /\ (pc' = "holds" => o.v = "green")
          /\ staged' = M /\ UNCHANGED world
      BY <1>6 DEF RetryFull, AfterRetry, Ran
    <2> QED
      BY <2>1, <2>2, <2>3, <2>4 DEF Deserved
  <1>7. CASE RedBase
    BY <1>7 DEF RedBase, RememberedAreGreen, Deserved
  <1>8. CASE StartSearch
    BY <1>8 DEF StartSearch, RememberedAreGreen, Deserved
  <1>9. CASE Probe
    <2> DEFINE P == Prefix((lo + hi) \div 2)
    <2> PICK M \in SUBSET P : \E o \in Attempt(P, M) : Ran(M, o)
      BY <1>9 DEF Probe
    <2> PICK o \in Attempt(P, M) : Ran(M, o)
      OBVIOUS
    <2>1. o.v = "green" => world.truth[M] = "green"
      BY GreenAttempt
    <2> QED
      BY <1>9, <2>1, RanRemembers DEF Probe
  <1>10. CASE Confirm
    <2> PICK o \in Judge({}, FALSE) : Ran({}, o) /\ pc' \in {"base-red", "search"}
      BY <1>10 DEF Confirm
    <2>1. o.v = "green" /\ o.by = "suite" => world.truth[{}] = "green"
      BY GreenJudge
    <2> QED
      BY <1>10, <2>1, RanRemembers DEF Confirm
  <1>11. CASE Drop
    BY <1>11 DEF Drop, NextRound, RememberedAreGreen
  <1>12. CASE HoldCheck
    BY <1>12 DEF HoldCheck, NextRound, RememberedAreGreen, Deserved
  <1>13. CASE NothingSurvived \/ LocalAhead \/ PushRejected \/ Landed
    BY <1>13 DEF NothingSurvived, LocalAhead, PushRejected, Landed, Leave, RememberedAreGreen, Deserved
  <1>14. CASE EnvironmentRed \/ Aborted
    BY <1>14 DEF EnvironmentRed, Aborted, Breaks, RememberedAreGreen, Deserved
  <1>15. CASE Over \/ UNCHANGED vars
    BY <1>15 DEF Over, vars, RememberedAreGreen, Deserved
  <1> QED
    BY <1>1, <1>2, <1>3, <1>4, <1>5, <1>6, <1>7, <1>8, <1>9, <1>10, <1>11, <1>12, <1>13,
       <1>14, <1>15 DEF Next, Step

LEMMA GreenInit == Init => GreenInv
  BY DEF Init, GreenInv, RememberedAreGreen

RoundInv == TypeOK /\ FateInv /\ GreenInv

LEMMA RoundInvariant == Spec => []RoundInv
  <1>1. Init => RoundInv
    BY TypeInit, FateInit, GreenInit DEF RoundInv
  <1>2. RoundInv /\ [Next]_vars => RoundInv'
    BY TypeStep, FateStep, GreenStep DEF RoundInv
  <1> QED
    BY <1>1, <1>2, PTL DEF Spec

(* What lands is the tree of exactly those still aboard, and it deserves    *)
(* green (or the project's own --retry asks less than its suite).           *)
THEOREM LandedDeservesGreen == Spec => []LandsDeservedGreen
  <1>1. RoundInv => LandsDeservedGreen
    BY DEF RoundInv, GreenInv, LandsDeservedGreen, Deserved
  <1> QED
    BY RoundInvariant, <1>1, PTL

-----------------------------------------------------------------------------
(* The run implements Judgement.                                            *)

(* Any step that leaves the run judging is a step of the abstract search.   *)
LEMMA SearchesOn ==
    ASSUME pc \in Judging, pc' \in Judging \/ (pc' = "depart" /\ aboard' = {}),
           aboard' \in SUBSET aboard, staged' \in SUBSET Branches
    PROVE  J!Search
  BY DEF J!Search, Judging, Stops

LEMMA Passes ==
    ASSUME pc \in Judging, pc' = "holds", aboard' \in SUBSET aboard,
           aboard' # {}, staged' = aboard'
    PROVE  J!Pass
  <1>1. pc \notin {"holds", "landed", "depart"} /\ pc \notin Stops
    BY DEF Judging, Stops
  <1>2. pc' \notin Stops /\ pc' # "landed"
    BY DEF Stops
  <1>3. aboard' \in (SUBSET aboard) \ {{}}
    OBVIOUS
  <1> QED
    BY <1>1, <1>2, <1>3 DEF J!Pass

LEMMA Abandons ==
    ASSUME pc \notin Stops, pc' \in Stops \ {"landed"}, aboard' = aboard,
           staged' \in SUBSET Branches
    PROVE  J!Abandon
  BY DEF J!Abandon, Stops

LEMMA JudgementStep == RoundInv /\ RoundInv' /\ [Next]_vars => [J!JNext]_(J!jvars)
  <1> SUFFICES ASSUME RoundInv, RoundInv', [Next]_vars PROVE [J!JNext]_(J!jvars)
    OBVIOUS
  <1> USE DEF J!JNext
  <1>a. staged' \in SUBSET Branches
    BY DEF RoundInv, TypeOK
  <1>b. pc = "retry" => staged = aboard /\ aboard # {}
    BY DEF RoundInv, GreenInv
  <1>c. pc = "holds" => staged = aboard /\ aboard # {}
    BY DEF RoundInv, GreenInv
  <1>d. pc' = "holds" => staged' = aboard' /\ aboard' # {}
    BY DEF RoundInv, GreenInv
  <1>1. CASE First
    <2>1. /\ pc \in Judging /\ aboard' \in SUBSET aboard
          /\ pc' \in Judging \cup {"holds"} \/ (pc' = "depart" /\ aboard' = {})
      BY <1>1 DEF First, AfterFirst, Judging
    <2> QED
      BY <2>1, <1>a, <1>d, SearchesOn, Passes
  <1>2. CASE CheckBase
    BY <1>2, <1>a, SearchesOn DEF CheckBase, Judging
  <1>3. CASE SuiteMissing
    BY <1>3, <1>a, Abandons DEF SuiteMissing, Stops
  <1>4. CASE SuiteLost
    BY <1>4, <1>a, SearchesOn DEF SuiteLost, Judging
  <1>5. CASE RetryHere
    <2>1. pc \in Judging /\ aboard' = aboard /\ pc' \in Judging \cup {"holds"}
      BY <1>5 DEF RetryHere, AfterRetry, Judging
    <2> QED
      BY <2>1, <1>a, <1>d, SearchesOn, Passes
  <1>6. CASE RetryFull
    <2>1. pc \in Judging /\ aboard' \in SUBSET aboard /\ pc' \in Judging \cup {"holds"}
      BY <1>6 DEF RetryFull, AfterRetry, Judging
    <2> QED
      BY <2>1, <1>a, <1>d, SearchesOn, Passes
  <1>7. CASE RedBase
    BY <1>7, <1>a, Abandons DEF RedBase, Stops
  <1>8. CASE StartSearch
    BY <1>8, <1>a, SearchesOn DEF StartSearch, Judging
  <1>9. CASE Probe
    BY <1>9, <1>a, SearchesOn DEF Probe, Judging
  <1>10. CASE Confirm
    <2>1. pc = "search" /\ aboard' = aboard /\ pc' \in {"base-red", "search"}
      BY <1>10 DEF Confirm
    <2> QED
      BY <2>1, <1>a, SearchesOn, Abandons DEF Judging, Stops
  <1>11. CASE Drop
    <2>1. /\ pc \in Judging /\ aboard' \in SUBSET aboard
          /\ pc' = "first" \/ (pc' = "depart" /\ aboard' = {})
      BY <1>11 DEF Drop, NextRound, Judging
    <2> QED
      BY <2>1, <1>a, SearchesOn DEF Judging
  <1>12. CASE HoldCheck
    <2>1. CASE pc' = "depart" /\ UNCHANGED <<aboard, staged>> /\ aboard # {}
      BY <1>12, <2>1 DEF HoldCheck, J!jvars, Stops
    <2>2. CASE /\ aboard' \in (SUBSET aboard) \ {aboard} /\ staged' = staged
               /\ pc' = "first" \/ (pc' = "depart" /\ aboard' = {})
      BY <1>12, <2>2 DEF HoldCheck, J!Recall, Stops
    <2>3. PICK direct \in SUBSET aboard :
            \/ direct = {} /\ pc' = "depart" /\ UNCHANGED <<aboard, staged>>
            \/ /\ direct # {} /\ aboard' = aboard \ Leaving(direct) /\ staged' = staged
               /\ pc' = NextRound(aboard')
      BY <1>12 DEF HoldCheck
    <2>4. direct \subseteq Leaving(direct)
      BY DEF Leaving
    <2> QED
      BY <1>12, <1>c, <2>1, <2>2, <2>3, <2>4 DEF HoldCheck, NextRound
  <1>13. CASE NothingSurvived \/ LocalAhead \/ PushRejected
    <2>1. pc = "depart" /\ pc' \in {"nobody", "local-ahead", "push-rejected"} /\ aboard' = aboard
      BY <1>13 DEF NothingSurvived, LocalAhead, PushRejected, Leave
    <2> QED
      BY <2>1, <1>a, Abandons DEF Stops
  <1>14. CASE Landed
    BY <1>14 DEF Landed, Leave, J!Land, Stops
  <1>15. CASE EnvironmentRed \/ Aborted
    <2>1. pc \notin Stops /\ pc' \in {"environment", "aborted"} /\ aboard' = aboard
      BY <1>15 DEF EnvironmentRed, Aborted, Breaks, Judging, Stops
    <2> QED
      BY <2>1, <1>a, Abandons DEF Stops
  <1>16. CASE Over \/ UNCHANGED vars
    BY <1>16 DEF Over, vars, J!jvars
  <1> QED
    BY <1>1, <1>2, <1>3, <1>4, <1>5, <1>6, <1>7, <1>8, <1>9, <1>10, <1>11, <1>12, <1>13,
       <1>14, <1>15, <1>16 DEF Next, Step

LEMMA JudgementInit == Init => J!JInit
  BY DEF Init, J!JInit, Stops

(* The search for offenders - retries, base checks, bisection, holds -      *)
(* implements the promise: who lands passed as a whole, after the last one  *)
(* to leave left.                                                           *)
THEOREM ImplementsJudgement == Spec => KeepsJudgement
  BY JudgementInit, JudgementStep, RoundInvariant, PTL DEF Spec, KeepsJudgement, J!JSpec

-----------------------------------------------------------------------------
(* Positions aboard and boarding order agree.                               *)

LEMMA PositionsOrder ==
    ASSUME aboard \subseteq Branches, NEW b \in aboard, NEW c \in aboard
    PROVE  /\ Position(b) \in Nat /\ Position(b) >= 1
           /\ c <= b => Position(c) <= Position(b)
           /\ b < c => Position(b) < Position(c)
  <1>0. \A x \in aboard : x \in Nat
    BY NAssumption DEF Branches
  <1>1. /\ UpTo(b) \subseteq Branches /\ UpTo(c) \subseteq Branches
        /\ b \in UpTo(b) /\ c \in UpTo(c) /\ b \in Nat /\ c \in Nat
    BY <1>0 DEF UpTo
  <1>2. /\ IsFiniteSet(UpTo(b)) /\ Position(b) \in Nat
        /\ IsFiniteSet(UpTo(c)) /\ Position(c) \in Nat
    BY <1>1, BoardsAreFinite DEF Position
  <1>3. Position(b) >= 1
    BY <1>1, <1>2, FS_EmptySet DEF Position
  <1>4. ASSUME c <= b PROVE Position(c) <= Position(b)
    <2>1. UpTo(c) \subseteq UpTo(b)
      BY <1>0, <1>4 DEF UpTo
    <2> QED
      BY <1>2, <2>1, FS_Subset DEF Position
  <1>5. ASSUME b < c PROVE Position(b) < Position(c)
    <2>1. UpTo(b) \subseteq UpTo(c) /\ UpTo(b) # UpTo(c)
      BY <1>0, <1>5 DEF UpTo
    <2> QED
      BY <1>2, <2>1, FS_Subset DEF Position
  <1> QED
    BY <1>2, <1>3, <1>4, <1>5

LEMMA PositionsCompare ==
    ASSUME aboard \subseteq Branches, NEW b \in aboard, NEW c \in aboard
    PROVE  /\ Position(b) \in Nat /\ Position(c) \in Nat /\ Position(c) >= 1
           /\ Position(c) <= Position(b) <=> c <= b
           /\ Position(c) <= Position(b) - 1 <=> c <= b /\ c # b
  <1>1. \A x \in aboard : x \in Nat
    BY NAssumption DEF Branches
  <1> QED
    BY <1>1, PositionsOrder

(* The whole board is a prefix, and so are the passengers up to each one,   *)
(* with it and without it.                                                  *)
LEMMA WholePrefix ==
    ASSUME aboard \subseteq Branches
    PROVE  Prefix(Cardinality(aboard)) = aboard
  <1>1. ASSUME NEW b \in aboard PROVE Position(b) <= Cardinality(aboard)
    <2>1. UpTo(b) \subseteq aboard
      BY DEF UpTo
    <2> QED
      BY BoardsAreFinite, <2>1, FS_Subset DEF Position
  <1> QED
    BY <1>1 DEF Prefix

LEMMA PrefixAt ==
    ASSUME aboard \subseteq Branches, NEW b \in aboard
    PROVE  /\ Prefix(Position(b)) = UpTo(b)
           /\ Prefix(Position(b) - 1) = UpTo(b) \ {b}
           /\ Position(b) = 1 => UpTo(b) \ {b} = {}
  <1>1. ASSUME NEW c \in aboard
        PROVE  /\ Position(b) \in Nat /\ Position(c) \in Nat /\ Position(c) >= 1
               /\ Position(c) <= Position(b) <=> c <= b
               /\ Position(c) <= Position(b) - 1 <=> c <= b /\ c # b
    BY PositionsCompare
  <1>2. Position(b) = 1 => UpTo(b) \ {b} = {}
    BY <1>1 DEF UpTo
  <1> QED
    BY <1>1, <1>2 DEF Prefix, UpTo

-----------------------------------------------------------------------------
(* What an answer short of green says about the tree.                       *)

RedTruth(S) == world.truth[S] \in {"gates", "suite"}

Honest(o, S) ==
    /\ o.v = "undefined" => world.truth[S] = "undefined"
    /\ o.v = "red" /\ ~o.flaked => RedTruth(S)

LEMMA SuiteHonest ==
    ASSUME world \in World, NEW S \in SUBSET Branches, world.truth[S] # "gates",
           NEW o \in SuiteSays(S)
    PROVE  /\ Honest(o, S)
           /\ o.v = "red" => world.truth[S] \in {"green", "suite"}
  <1>1. world.truth[S] \in Truths
    BY DEF World
  <1>2. \A v, by : Says(v, by).v = v /\ Says(v, by).flaked = FALSE
    BY DEF Says
  <1>3. \A x \in Flake("suite") : x.v = "red" /\ x.flaked
    BY FlakeAnswers
  <1>4. CASE world.truth[S] = "green"
    BY <1>2, <1>3, <1>4 DEF SuiteSays, Honest
  <1>5. CASE world.truth[S] = "suite"
    BY <1>2, <1>5 DEF SuiteSays, Honest, RedTruth
  <1>6. CASE world.truth[S] = "undefined"
    BY <1>2, <1>6 DEF SuiteSays, Honest
  <1> QED
    BY <1>1, <1>4, <1>5, <1>6 DEF Truths

LEMMA JudgeHonest ==
    ASSUME world \in World, NEW S \in SUBSET Branches, NEW memo \in BOOLEAN,
           NEW o \in Judge(S, memo)
    PROVE  /\ Honest(o, S)
           /\ o.by = "memo" => memo /\ o.v = "green"
           /\ o.by = "suite" /\ o.v = "red" => world.truth[S] \in {"green", "suite"}
  <1>2. \A v, by : Says(v, by).v = v /\ Says(v, by).by = by /\ Says(v, by).flaked = FALSE
    BY DEF Says
  <1>3. CASE world.truth[S] = "gates"
    BY <1>2, <1>3 DEF Judge, Honest, RedTruth
  <1>4. CASE world.truth[S] # "gates" /\ o \in Flake("gates")
    BY <1>4, FlakeAnswers DEF Honest
  <1>5. CASE world.truth[S] # "gates" /\ o \in SuiteSays(S)
    BY <1>5, SuiteHonest, SuiteAnswers
  <1>6. CASE o = Says("green", "seen") \/ (o = Says("green", "memo") /\ memo)
    BY <1>2, <1>6 DEF Honest
  <1> QED
    BY <1>3, <1>4, <1>5, <1>6 DEF Judge

LEMMA AttemptHonest ==
    ASSUME world \in World, NEW M \in SUBSET Branches, NEW S, M # {} \/ S = {},
           NEW o \in Attempt(S, M)
    PROVE  Honest(o, M) /\ (o.by = "suite" /\ o.v = "red" => world.truth[M] \in {"green", "suite"})
  BY JudgeHonest DEF Attempt

LEMMA AgainHonest ==
    ASSUME world \in World, staged \in SUBSET Branches,
           NEW how \in {"gates", "failed"},
           how = "failed" => world.truth[staged] \in {"green", "suite"},
           NEW o \in Again(how, FALSE)
    PROVE  Honest(o, staged)
  <1>2. \A v, by : Says(v, by).v = v /\ Says(v, by).flaked = FALSE
    BY DEF Says
  <1>3. \A by : \A x \in Flake(by) : x.v = "red" /\ x.flaked
    BY FlakeAnswers
  <1>4. CASE how = "gates" /\ world.truth[staged] = "gates"
    BY <1>2, <1>4 DEF Again, Honest, RedTruth
  <1>5. CASE how = "gates" /\ world.truth[staged] # "gates"
    BY <1>3, <1>5, SuiteHonest DEF Again, Honest
  <1>6. CASE how = "failed"
    BY <1>2, <1>3, <1>6 DEF Again, Honest, RedTruth
  <1> QED
    BY <1>4, <1>5, <1>6

-----------------------------------------------------------------------------
(* What the run knows of the base, and when the suite is missing.           *)
BaseInv ==
    /\ baseState = "undefined" => world.truth[{}] = "undefined"
    /\ baseState = "red" /\ ~misled => RedTruth({})
    /\ baseState = "green" /\ ~baseFromMemo => world.truth[{}] = "green"
    /\ baseFromMemo => world.memo /\ baseState = "green"
    /\ pc \in {"missing", "undefined"} => world.truth[aboard] = "undefined"
    /\ pc = "undefined" => world.truth[{}] = "undefined"
    /\ pc = "base-red" /\ ~misled => RedTruth({})
    /\ pc = "first" => ~retried
    /\ pc = "retry" => /\ redIn \in {"gates", "suite"}
                       /\ redIn = "suite" => world.truth[staged] \in {"green", "suite"}

LEMMA BaseStep == RoundInv /\ RoundInv' /\ BaseInv /\ [Next]_vars => BaseInv'
  <1> SUFFICES ASSUME RoundInv, RoundInv', BaseInv, [Next]_vars PROVE BaseInv'
    OBVIOUS
  <1> USE DEF BaseInv
  <1>w. world \in World /\ RememberedAreGreen /\ {} \in SUBSET Branches
    BY WorldsAssumption DEF RoundInv, TypeOK, GreenInv
  <1>1. CASE First
    <2> PICK M \in SUBSET aboard : \E o \in Attempt(aboard, M) :
              Ran(M, o) /\ pc' = AfterFirst(M, o) /\ aboard' = M /\ redIn' = o.by
      BY <1>1 DEF First
    <2> PICK o \in Attempt(aboard, M) : Ran(M, o) /\ pc' = AfterFirst(M, o) /\ redIn' = o.by
      OBVIOUS
    <2>1. /\ UNCHANGED <<world, baseState, baseFromMemo, misled, retried>>
          /\ staged' = M /\ aboard' = M /\ ~retried
      BY <1>1 DEF First, Ran, base
    <2>2. ASSUME M # {}
          PROVE  /\ Honest(o, M)
                 /\ o.by = "suite" /\ o.v = "red" => world.truth[M] \in {"green", "suite"}
                 /\ o.by # "conflict" /\ Answer(o)
      <3>1. o \in Judge(M, FALSE) /\ M \in SUBSET Branches
        BY <2>2 DEF Attempt, RoundInv, TypeOK
      <3> QED
        BY <3>1, <1>w, JudgeHonest, JudgeAnswers
    <2>4. /\ pc' \in {"depart", "holds", "missing", "retry"}
          /\ pc' = "missing" => M # {} /\ o.v = "undefined"
          /\ pc' = "retry" => M # {} /\ o.v \notin {"green", "undefined"}
      BY <2>1 DEF AfterFirst
    <2>5. ASSUME M # {}, o.v = "red" PROVE o.by \in {"gates", "suite"}
      <3>1. o \in Judge(M, FALSE)
        BY <2>5 DEF Attempt
      <3>2. o.by # "seen"
        <4>1. Says("green", "seen").v = "green" /\ Says("red", "gates").by = "gates"
              /\ Says("green", "memo").v = "green"
          BY DEF Says
        <4> QED
          BY <2>5, <3>1, <4>1, FlakeAnswers, SuiteAnswers DEF Judge
      <3> QED
        BY <2>2, <2>5, <3>1, <3>2, JudgeAnswers
    <2> QED
      BY <2>1, <2>2, <2>4, <2>5 DEF Honest, Answer, RedTruth
  <1>2. CASE CheckBase
    <2> PICK o \in Judge({}, world.memo) : Ran({}, o) /\ baseState' = o.v
              /\ baseFromMemo' = (o.by = "memo") /\ misled' = (misled \/ o.flaked)
      BY <1>2 DEF CheckBase, BaseVerdict
    <2>1. world.memo \in BOOLEAN
      BY <1>w DEF World
    <2>2. Honest(o, {}) /\ Answer(o) /\ (o.by = "memo" => world.memo /\ o.v = "green")
      BY <1>w, <2>1, JudgeHonest, JudgeAnswers
    <2>3. o.v = "green" => o.by = "memo" \/ world.truth[{}] = "green"
      BY <1>w, GreenJudge
    <2> QED
      BY <1>2, <2>2, <2>3 DEF CheckBase, Honest, Answer, RedTruth
  <1>3. CASE SuiteMissing
    BY <1>3 DEF SuiteMissing, base, RedTruth
  <1>4. CASE SuiteLost
    BY <1>4 DEF SuiteLost, base, RedTruth
  <1>5. CASE RetryHere
    <2>1. /\ UNCHANGED <<world, baseState, baseFromMemo, aboard>>
          /\ pc' \in {"holds", "base"} /\ (misled => misled')
      BY <1>5 DEF RetryHere, AfterRetry, base
    <2> QED
      BY <2>1 DEF RedTruth
  <1>6. CASE RetryFull
    <2>1. /\ UNCHANGED <<world, baseState, baseFromMemo>>
          /\ pc' \in {"holds", "base"} /\ (misled => misled')
      BY <1>6 DEF RetryFull, AfterRetry, base
    <2> QED
      BY <2>1 DEF RedTruth
  <1>7. CASE RedBase
    BY <1>7 DEF RedBase, base, RedTruth
  <1>8. CASE StartSearch
    BY <1>8 DEF StartSearch, base, RedTruth
  <1>9. CASE Probe
    <2>1. /\ UNCHANGED <<world, baseState, baseFromMemo, pc>> /\ pc = "search"
          /\ (misled => misled')
      BY <1>9 DEF Probe, base
    <2> QED
      BY <2>1 DEF RedTruth
  <1>10. CASE Confirm
    <2> PICK o \in Judge({}, FALSE) : Ran({}, o) /\ baseState' = o.v
              /\ misled' = (misled \/ o.flaked)
              /\ pc' = IF o.v = "red" THEN "base-red" ELSE "search"
      BY <1>10 DEF Confirm
    <2>2. Honest(o, {}) /\ Answer(o) /\ o.by # "memo"
      BY <1>w, JudgeHonest, JudgeAnswers
    <2>3. o.v = "green" => world.truth[{}] = "green"
      BY <1>w, <2>2, GreenJudge
    <2> QED
      BY <1>10, <2>2, <2>3 DEF Confirm, Honest, Answer, RedTruth
  <1>11. CASE Drop
    BY <1>11 DEF Drop, NextRound, base, RedTruth
  <1>12. CASE HoldCheck
    <2>1. /\ pc' \in {"depart", "first"} /\ (pc' = "first" => retried' = FALSE)
          /\ UNCHANGED <<world, baseState, baseFromMemo, misled>>
      BY <1>12 DEF HoldCheck, NextRound, base
    <2> QED
      BY <2>1 DEF RedTruth
  <1>13. CASE NothingSurvived \/ LocalAhead \/ PushRejected \/ Landed
    BY <1>13 DEF NothingSurvived, LocalAhead, PushRejected, Landed, Leave, base, RedTruth
  <1>14. CASE EnvironmentRed \/ Aborted
    BY <1>14 DEF EnvironmentRed, Aborted, Breaks, base, RedTruth
  <1>15. CASE Over \/ UNCHANGED vars
    BY <1>15 DEF Over, vars, base, RedTruth
  <1> QED
    BY <1>1, <1>2, <1>3, <1>4, <1>5, <1>6, <1>7, <1>8, <1>9, <1>10, <1>11, <1>12, <1>13,
       <1>14, <1>15 DEF Next, Step

LEMMA BaseInit == Init => BaseInv
  BY DEF Init, BaseInv

LEMMA BaseInvariant == Spec => [](RoundInv /\ BaseInv)
  BY RoundInvariant, BaseInit, BaseStep, PTL DEF Spec

(* A run that gives up says why, truly.                                     *)
THEOREM AbortsTellTheTruth == Spec => []AbortsAreTrue
  <1>1. BaseInv => AbortsAreTrue
    BY DEF BaseInv, AbortsAreTrue, RedTruth
  <1> QED
    BY BaseInvariant, <1>1, PTL

-----------------------------------------------------------------------------
(* The bisection: red at its upper end, not red just below its lower end.   *)
(* The state functions of the property, as operators of their arguments.    *)

FirstOf(A, k) == {b \in A : Cardinality({c \in A : c <= b}) <= k}
RedOn(w, S) == \/ w.truth[S] \in {"gates", "suite"}
               \/ w.truth[S] = "undefined" /\ w.truth[{}] # "undefined"
Blind(w, A) == w.truth[{}] = "undefined" /\ (w.memo \/ w.truth[A] = "undefined")

LEMMA Unfolded ==
    /\ \A k : Prefix(k) = FirstOf(aboard, k)
    /\ \A S : Red(S) <=> RedOn(world, S)
    /\ Incomparable <=> Blind(world, aboard)
  BY DEF Prefix, Position, UpTo, FirstOf, Red, RedOn, Incomparable, Blind

SearchInv ==
    /\ pc = "base" /\ ~misled /\ ~Blind(world, aboard) => RedOn(world, aboard)
    /\ pc = "search" => /\ lo \in Nat \ {0} /\ hi \in Nat /\ lo <= hi
                        /\ baseState \in {"green", "undefined"}
    /\ pc = "search" /\ ~misled /\ ~Blind(world, aboard) =>
          /\ RedOn(world, FirstOf(aboard, hi))
          /\ lo > 1 => ~RedOn(world, FirstOf(aboard, lo - 1))

(* An honest answer, read as Probe reads it: a cleared prefix is not red,   *)
(* any other one is.                                                        *)
LEMMA ProbeReads ==
    ASSUME world \in World, BaseInv, baseState \in {"green", "undefined"},
           ~Blind(world, aboard), NEW S \in SUBSET Branches,
           NEW o, Honest(o, S), Answer(o), ~o.flaked,
           o.v = "green" => world.truth[S] = "green"
    PROVE  IF Cleared(o) THEN ~RedOn(world, S) ELSE RedOn(world, S)
  <1>1. CASE o.v = "green"
    BY <1>1 DEF Cleared, RedOn
  <1>2. CASE o.v = "red"
    BY <1>2 DEF Cleared, RedOn, Honest, RedTruth
  <1>3. CASE o.v = "undefined" /\ baseState = "undefined"
    BY <1>3 DEF Cleared, RedOn, Honest, BaseInv
  <1>4. CASE o.v = "undefined" /\ baseState = "green"
    BY <1>4 DEF Cleared, RedOn, Honest, BaseInv, Blind
  <1> QED
    BY <1>1, <1>2, <1>3, <1>4 DEF Answer

LEMMA SearchStep ==
    RoundInv /\ RoundInv' /\ BaseInv /\ BaseInv' /\ SearchInv /\ [Next]_vars => SearchInv'
  <1> SUFFICES ASSUME RoundInv, RoundInv', BaseInv, BaseInv', SearchInv, [Next]_vars
               PROVE  SearchInv'
    OBVIOUS
  <1> USE DEF SearchInv
  <1>w. /\ world \in World /\ RememberedAreGreen /\ misled \in BOOLEAN
        /\ aboard \in SUBSET Branches /\ staged \in SUBSET Branches
    BY WorldsAssumption DEF RoundInv, TypeOK, GreenInv
  <1>n. pc \in InRound => Mergeable(aboard) /\ aboard # {}
    BY DEF RoundInv, FateInv
  <1>1. CASE First
    <2>1. pc' \notin {"base", "search"}
      BY <1>1 DEF First, AfterFirst, BaseInv
    <2> QED
      BY <2>1
  <1>2. CASE CheckBase
    <2>1. UNCHANGED <<world, pc, aboard>> /\ (misled => misled') /\ pc # "search"
      BY <1>2 DEF CheckBase
    <2> QED
      BY <2>1
  <1>3. CASE SuiteMissing
    BY <1>3 DEF SuiteMissing
  <1>4. CASE SuiteLost
    <2>1. world.truth[aboard] = "undefined" /\ UNCHANGED <<world, aboard>> /\ pc' = "base"
      BY <1>4 DEF SuiteLost, BaseInv
    <2> QED
      BY <2>1 DEF RedOn, Blind
  <1>5. CASE RetryHere
    <2> PICK dirty \in BOOLEAN : RetryPlan(dirty) # "full" /\
              \E o \in Again(RetryPlan(dirty), dirty) :
                 misled' = (misled \/ o.flaked) /\ pc' = AfterRetry(o)
      BY <1>5 DEF RetryHere
    <2>1. /\ dirty = FALSE /\ RetryPlan(dirty) \in {"gates", "failed"}
          /\ RetryPlan(dirty) = "failed" => redIn # "gates"
      BY DEF RetryPlan
    <2> PICK o \in Again(RetryPlan(dirty), FALSE) :
                 misled' = (misled \/ o.flaked) /\ pc' = AfterRetry(o)
      BY <2>1
    <2>2. pc = "retry" /\ UNCHANGED <<world, aboard>>
      BY <1>5 DEF RetryHere
    <2>3. staged = aboard
      BY <2>2 DEF RoundInv, GreenInv
    <2>4. Honest(o, aboard) /\ Answer(o)
      BY <1>w, <2>1, <2>2, <2>3, AgainHonest, AgainAnswers DEF BaseInv
    <2>5. pc' = "holds" \/ (pc' = "base" /\ o.v # "green")
      BY DEF AfterRetry
    <2> QED
      BY <2>2, <2>4, <2>5 DEF Honest, Answer, RedTruth, RedOn, Blind
  <1>6. CASE RetryFull
    <2> PICK M \in SUBSET aboard : Merges(aboard, M) /\ aboard' = M /\
              \E o \in Attempt(aboard, M) : misled' = (misled \/ o.flaked) /\ pc' = AfterRetry(o)
      BY <1>6 DEF RetryFull
    <2> PICK o \in Attempt(aboard, M) : misled' = (misled \/ o.flaked) /\ pc' = AfterRetry(o)
      OBVIOUS
    <2>2. M = aboard /\ aboard # {} /\ UNCHANGED <<world, aboard>>
      BY <1>6, <1>n, MergesWhole DEF RetryFull, InRound
    <2>4. Honest(o, aboard) /\ Answer(o)
      BY <1>w, <2>2, AttemptHonest, AttemptAnswers
    <2>5. pc' = "holds" \/ (pc' = "base" /\ o.v # "green")
      BY DEF AfterRetry
    <2> QED
      BY <2>2, <2>4, <2>5 DEF Honest, Answer, RedTruth, RedOn, Blind
  <1>7. CASE RedBase
    BY <1>7 DEF RedBase
  <1>8. CASE StartSearch
    <2>1. /\ UNCHANGED <<world, aboard, baseState, misled>> /\ pc = "base" /\ pc' = "search"
          /\ lo' = 1 /\ hi' = Cardinality(aboard) /\ baseState \in {"green", "undefined"}
      BY <1>8 DEF StartSearch, base
    <2>2. Cardinality(aboard) \in Nat /\ Cardinality(aboard) # 0
      BY <1>w, <1>n, <2>1, BoardsAreFinite, FS_EmptySet DEF InRound
    <2>3. FirstOf(aboard, Cardinality(aboard)) = aboard
      BY <1>w, WholePrefix, Unfolded
    <2> QED
      BY <2>1, <2>2, <2>3
  <1>9. CASE Probe
    <2> DEFINE mid == (lo + hi) \div 2
    <2> DEFINE P == Prefix(mid)
    <2> PICK M \in SUBSET P : Merges(P, M) /\ \E o \in Attempt(P, M) :
              /\ Ran(M, o)
              /\ misled' = (misled \/ o.flaked)
              /\ IF Cleared(o) /\ M = P THEN lo' = mid + 1 /\ hi' = hi
                                        ELSE hi' = mid /\ lo' = lo
      BY <1>9 DEF Probe, Above
    <2> PICK o \in Attempt(P, M) :
              /\ misled' = (misled \/ o.flaked)
              /\ IF Cleared(o) /\ M = P THEN lo' = mid + 1 /\ hi' = hi
                                        ELSE hi' = mid /\ lo' = lo
      OBVIOUS
    <2>1. UNCHANGED <<world, aboard, baseState, pc>> /\ pc = "search" /\ lo < hi
      BY <1>9 DEF Probe, base
    <2>2. mid \in Nat /\ lo <= mid /\ mid < hi
      BY <2>1
    <2>3. P \in SUBSET aboard /\ P \in SUBSET Branches /\ P = FirstOf(aboard, mid)
      BY <1>w, Unfolded DEF Prefix
    <2>4. M = P
      BY <1>n, <2>1, <2>3, MergesWhole DEF InRound
    <2>5. Honest(o, P) /\ Answer(o) /\ (o.v = "green" => world.truth[P] = "green")
      BY <1>w, <2>3, <2>4, AttemptHonest, AttemptAnswers, GreenAttempt
    <2>6. ~misled' /\ ~Blind(world, aboard) =>
             IF Cleared(o) THEN ~RedOn(world, P) ELSE RedOn(world, P)
      BY <1>w, <2>1, <2>3, <2>5, ProbeReads DEF Answer
    <2>9. ~misled' => ~misled
      OBVIOUS
    <2>10. ~misled' /\ ~Blind(world, aboard) =>
             /\ RedOn(world, FirstOf(aboard, hi))
             /\ lo > 1 => ~RedOn(world, FirstOf(aboard, lo - 1))
      BY <2>1, <2>9
    <2>7. CASE Cleared(o)
      <3>1. lo' = mid + 1 /\ hi' = hi /\ lo' - 1 = mid
        BY <2>2, <2>4, <2>7
      <3>2. ~misled' /\ ~Blind(world, aboard) => ~RedOn(world, FirstOf(aboard, lo' - 1))
        BY <2>3, <2>6, <2>7, <3>1
      <3> HIDE DEF mid, P
      <3>3. lo' \in Nat \ {0} /\ hi' \in Nat /\ lo' <= hi'
        BY <2>1, <2>2, <3>1
      <3> QED
        BY <2>1, <2>10, <3>1, <3>2, <3>3
    <2>8. CASE ~Cleared(o)
      <3>1. hi' = mid /\ lo' = lo
        BY <2>4, <2>8
      <3>2. ~misled' /\ ~Blind(world, aboard) => RedOn(world, FirstOf(aboard, hi'))
        BY <2>3, <2>6, <2>8, <3>1
      <3> HIDE DEF mid, P
      <3>3. lo' \in Nat \ {0} /\ hi' \in Nat /\ lo' <= hi'
        BY <2>1, <2>2, <3>1
      <3> QED
        BY <2>1, <2>10, <3>1, <3>2, <3>3
    <2> QED
      BY <2>7, <2>8
  <1>10. CASE Confirm
    <2> PICK o \in Judge({}, FALSE) : /\ baseState' = o.v /\ misled' = (misled \/ o.flaked)
              /\ pc' = IF o.v = "red" THEN "base-red" ELSE "search"
      BY <1>10 DEF Confirm
    <2>1. UNCHANGED <<world, aboard, lo, hi>> /\ pc = "search"
      BY <1>10 DEF Confirm, searching
    <2>2. Answer(o)
      BY JudgeAnswers
    <2> QED
      BY <2>1, <2>2 DEF Answer
  <1>11. CASE Drop
    BY <1>11 DEF Drop, NextRound
  <1>12. CASE HoldCheck
    BY <1>12 DEF HoldCheck, NextRound
  <1>13. CASE NothingSurvived \/ LocalAhead \/ PushRejected \/ Landed
    BY <1>13 DEF NothingSurvived, LocalAhead, PushRejected, Landed, Leave
  <1>14. CASE EnvironmentRed \/ Aborted
    BY <1>14 DEF EnvironmentRed, Aborted, Breaks
  <1>15. CASE Over \/ UNCHANGED vars
    BY <1>15 DEF Over, vars, base, searching
  <1> QED
    BY <1>1, <1>2, <1>3, <1>4, <1>5, <1>6, <1>7, <1>8, <1>9, <1>10, <1>11, <1>12, <1>13,
       <1>14, <1>15 DEF Next, Step

LEMMA SearchInit == Init => SearchInv
  BY DEF Init, SearchInv

(* The one who is dropped is the one whose boarding turned the tree red.    *)
LEMMA BlameStep ==
    ASSUME RoundInv, BaseInv, SearchInv, [Next]_vars,
           NEW b \in blamed' \ blamed, ~misled, ~Incomparable
    PROVE  Red(UpTo(b)) /\ ~Red(UpTo(b) \ {b})
  <1>1. Drop
    BY DEF Next, Step, First, CheckBase, SuiteMissing, SuiteLost, RetryHere, RetryFull, RedBase,
           StartSearch, Probe, Confirm, HoldCheck, NothingSurvived, LocalAhead, PushRejected,
           Landed, Leave, EnvironmentRed, Aborted, Breaks, Over, vars, gone
  <1>2. b \in aboard /\ Position(b) = lo /\ pc = "search" /\ lo = hi /\ ~Unconfirmed
    BY <1>1 DEF Drop
  <1>3. aboard \subseteq Branches
    BY DEF RoundInv, TypeOK
  <1>4. /\ Prefix(hi) = UpTo(b) /\ Prefix(lo - 1) = UpTo(b) \ {b}
        /\ lo = 1 => UpTo(b) \ {b} = {}
    <2>1. b \in aboard /\ Position(b) = lo /\ hi = lo
      BY <1>2
    <2>2. /\ Prefix(Position(b)) = UpTo(b)
          /\ Prefix(Position(b) - 1) = UpTo(b) \ {b}
          /\ Position(b) = 1 => UpTo(b) \ {b} = {}
      BY <1>3, <2>1, PrefixAt
    <2> QED
      BY <2>1, <2>2
  <1>5. Red(Prefix(hi)) /\ (lo > 1 => ~Red(Prefix(lo - 1)))
    BY <1>2, Unfolded DEF SearchInv
  <1>6. ASSUME lo = 1 PROVE ~Red({})
    BY <1>2, <1>6 DEF SearchInv, BaseInv, Unconfirmed, Red
  <1>7. lo = 1 \/ lo > 1
    BY <1>2 DEF SearchInv
  <1> QED
    BY <1>4, <1>5, <1>6, <1>7

(* For every number of passengers and every way red, missing suites,        *)
(* conflicts, holds and flakes may fall: nobody is dropped as the offender  *)
(* whose boarding did not turn the tree red.                                *)
THEOREM BlameIsDeserved == Spec => BlamesTheOffender
  <1>1. Spec => [](RoundInv /\ BaseInv /\ SearchInv)
    BY BaseInvariant, SearchInit, SearchStep, PTL DEF Spec
  <1>2. RoundInv /\ BaseInv /\ SearchInv /\ [Next]_vars =>
          [\A b \in blamed' \ blamed :
             ~misled /\ ~Incomparable => Red(UpTo(b)) /\ ~Red(UpTo(b) \ {b})]_vars
    BY BlameStep
  <1> QED
    BY <1>1, <1>2, PTL DEF Spec, BlamesTheOffender
=============================================================================
