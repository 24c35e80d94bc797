---------------------------- MODULE FinishProofs ----------------------------
(***************************************************************************)
(* What finish.py, tidy.py and publish_and_prune.py keep, for any patches, *)
(* families of red combinations, shelves and files, and however often the  *)
(* people around them move and runs are killed. Three invariants, one for  *)
(* each of the three variables groups: the branch and the run of finish,   *)
(* the records and the run of tidy, the specification and its pruner.      *)
(* Behind them, what gate_modes.py keeps of a gate's log, for any branches, *)
(* gates and rows.                                                         *)
(***************************************************************************)
EXTENDS Finish, GateModes, TLAPS, SequenceTheorems, FiniteSetTheorems, WellFoundedInduction

Commits == [p : Patches, g : Nat]
Histories == Seq(Commits)

Plain == [at : {"checked", "archived", "fetched", "rebased", "based", "tested", "gated", "switched",
                "merged", "landed", "refreshed"},
          tests : {"suite", "claim", "none"}, still : BOOLEAN]
Testing == [at : {"testing"}, tests : {"suite"}, still : BOOLEAN, start : Histories]
Pushing == [at : {"pushing"}, tests : {"suite", "claim", "none"}, still : BOOLEAN, tip : Histories]

RefsOK ==
    /\ main \in Histories /\ tracked \in Histories /\ local \in Histories
    /\ branch \in Histories /\ theirs \in Histories
    /\ here \in [on : {"branch", "main", "gone"}, dirty : BOOLEAN, live : BOOLEAN]
    /\ world.remote \in BOOLEAN
FinishOK == finish = Idle \/ finish \in Plain \cup Testing \cup Pushing

(* origin/main is behind main; who works on the branch has one, and what    *)
(* its review has seen is on it.                                            *)
LineInv ==
    /\ Contained(tracked, main)
    /\ here.on = "branch" \/ finish # Idle => branch # <<>>
    /\ branch # <<>> => cleared \subseteq Content(branch)

(* What the run has shown so far, of what it will land: the gates and the   *)
(* review, and - while nobody touches the checkout - the tests.             *)
Seen(h) == /\ ~Fails(world.red, h)
           /\ world.plan => (Content(h) \ Content(Integration)) \ Quiet \subseteq cleared
AsTested(h) == /\ finish.tests = "suite" => ~Fails(world.broken, h)
               /\ finish.tests = "none" => Content(h) \ Content(Integration) \subseteq Quiet

RunInv ==
    finish # Idle =>
        /\ finish.tests = "claim" \/ finish.at = "merged" => Remote
        /\ finish.at = "pushing" => Seen(finish.tip)
        /\ finish.still =>
              /\ finish.at = "testing" => finish.start = branch
              /\ finish.at \in {"tested", "gated", "switched", "merged"} => AsTested(branch)
              /\ finish.at = "merged" => local = branch
              /\ finish.at = "pushing" => AsTested(finish.tip)
              /\ finish.at = "gated" \/ (finish.at = "switched" /\ ~Remote) => Seen(branch)

(* Without main in another checkout, what merges has gone there itself.      *)
AwayInv ==
    /\ DOMAIN there = {"on", "dirty", "files"}
    /\ finish.at \in {"switched", "merged", "pushing", "landed"} /\ ~Elsewhere => here.on = "main"

FinishInv == RefsOK /\ FinishOK /\ LineInv /\ RunInv

(* What tidy saw of the branch on origin, and of the reports it will take:  *)
(* none reaches a work that was open then, and none that git cannot see     *)
(* change has changed in HEAD since. Between folding and dropping, the      *)
(* archive holds what the old shards do.                                    *)
TidyOK ==
    \/ tidy = Idle
    \/ /\ DOMAIN tidy = {"at", "saw", "delete", "remove", "spec", "fold", "plans", "reports", "open",
                          "disk"}
       /\ tidy.at \notin {"idle", "removing"}
    \/ DOMAIN tidy = {"at", "found", "live"} /\ tidy.at = "removing"

Spared(r) == /\ Shelf[r].by # "none" /\ Shelf[r].of \notin tidy.open /\ Shelf[r].name \notin tidy.open
             /\ report[r].hidden /\ report[r].disk # 0 => report[r].head = tidy.disk[r]

Looked == tidy # Idle /\ tidy.at # "removing"

TidyInv ==
    Looked =>
        /\ tidy.delete => Contained(tidy.saw, main)
        /\ tidy.at = "shards" => journal.old \subseteq journal.archive
        /\ \A r \in tidy.reports : r \in Report /\ Spared(r)

Entry == [head : Nat, index : Nat, disk : Nat, hidden : BOOLEAN]

RecordsOK ==
    /\ report \in [Report -> Entry]
    /\ DOMAIN journal = {"old", "archive", "today", "prose"}
    /\ \A r \in Report : report[r].hidden /\ report[r].disk # 0 => report[r].index = report[r].head

RecordsInv == RecordsOK /\ TidyOK /\ TidyInv

(* What the second look found of the worktree that goes.                    *)
RemovingInv == tidy.at = "removing" => ~tidy.live /\ Contained(tidy.found, Integration)

(* A run of the pruner. What is behind it stands on the issue as it is on   *)
(* disk, and nothing the directory owes is missing, while nobody touches    *)
(* either; of what stands there, only what it has posted itself is new.     *)
PrunerOK ==
    \/ pruner = NotRunning
    \/ /\ pruner.at \in {"next", "post"}
       /\ pruner.mode \in {"prune", "stage"} /\ pruner.still \in BOOLEAN /\ pruner.todo \in Seq(SpecFile)
       /\ pruner.at = "next" => DOMAIN pruner = {"at", "mode", "still", "todo"}
       /\ pruner.at = "post" =>
             /\ DOMAIN pruner = {"at", "mode", "still", "todo", "text", "held", "part"}
             /\ pruner.todo # <<>> /\ pruner.text \in Nat /\ pruner.part \in Nat \ {0}
    \/ pruner \in [at : {"remove"}, still : BOOLEAN]

Published(f) == CommentsOf("prune", f, spec.disk[f]) \subseteq issue.posted
Settled == ~SpecBlocked /\ ~SpecDirty

PrunerInv ==
    pruner # NotRunning =>
        /\ pruner.at = "post" =>
              \A c \in issue.posted :
                  \/ c \in pruner.held
                  \/ \E i \in 1..pruner.part - 1 :
                        c = Comment(pruner.mode, Head(pruner.todo), pruner.text, i)
        /\ pruner.at = "remove" => spec.kept
        /\ pruner.still =>
              /\ pruner.at = "remove" => Settled /\ \A f \in SpecFile : Published(f)
              /\ pruner.at # "remove" /\ pruner.mode = "prune" =>
                    /\ Settled
                    /\ \A f \in SpecFile : Published(f) \/ \E i \in DOMAIN pruner.todo : f = pruner.todo[i]
              /\ pruner.at = "post" => pruner.text = spec.disk[Head(pruner.todo)]

SpecOK == spec \in Specification /\ DOMAIN issue = {"posted", "again"}

PruneInv == SpecOK /\ PrunerOK /\ PrunerInv

-----------------------------------------------------------------------------
(* Histories.                                                               *)

LEMMA ContentOfAppend ==
    ASSUME NEW h \in Histories, NEW c \in Commits
    PROVE  Content(Append(h, c)) = Content(h) \cup {c.p}
  <1>1. /\ Append(h, c) \in Histories /\ Len(Append(h, c)) = Len(h) + 1
        /\ \A i \in 1..Len(h) : Append(h, c)[i] = h[i]
        /\ Append(h, c)[Len(h) + 1] = c
    BY AppendProperties DEF Histories
  <1>2. DOMAIN h = 1..Len(h) /\ DOMAIN Append(h, c) = 1..Len(h) + 1 /\ Len(h) \in Nat
    BY <1>1 DEF Histories
  <1> QED
    BY <1>1, <1>2 DEF Content

LEMMA AppendGrows ==
    ASSUME NEW h \in Histories, NEW c \in Commits
    PROVE  ToSet(h) \subseteq ToSet(Append(h, c))
  <1>1. /\ Append(h, c) \in Histories /\ Len(Append(h, c)) = Len(h) + 1
        /\ \A i \in 1..Len(h) : Append(h, c)[i] = h[i]
    BY AppendProperties DEF Histories
  <1>2. DOMAIN h = 1..Len(h) /\ DOMAIN Append(h, c) = 1..Len(h) + 1 /\ Len(h) \in Nat
    BY <1>1 DEF Histories
  <1> QED
    BY <1>1, <1>2 DEF ToSet

LEMMA FastForwardGrows ==
    ASSUME NEW h \in Histories, NEW m \in Histories, FastForward(h, m)
    PROVE  ToSet(h) \subseteq ToSet(m)
  <1>1. Len(h) <= Len(m) /\ SubSeq(h, 1, Len(h)) = SubSeq(m, 1, Len(h))
    BY DEF FastForward, IsPrefix
  <1>2. \A i \in 1..Len(h) : i \in 1..Len(m) /\ h[i] = m[i]
    BY <1>1 DEF Histories
  <1> QED
    BY <1>2 DEF ToSet, Histories

LEMMA ContainedContent ==
    ASSUME NEW h \in Histories, NEW m \in Histories, ToSet(h) \subseteq ToSet(m)
    PROVE  Content(h) \subseteq Content(m)
  BY DEF ToSet, Content

LEMMA ContentIsPatches ==
    ASSUME NEW h \in Histories
    PROVE  Content(h) \subseteq Patches /\ (h # <<>> => Content(h) # {})
  <1>1. \A i \in DOMAIN h : h[i] \in Commits
    BY DEF Histories
  <1>2. h # <<>> => 1 \in DOMAIN h
    BY DEF Histories
  <1> QED
    BY <1>1, <1>2 DEF Content, Commits

LEMMA CommitIsOne == \A p \in Patches : Commit(p) \in Commits /\ Commit(p).p = p
  BY DEF Commit, Commits

(* Induction on a set of numbers, from the library's order on them.         *)
LEMMA Least ==
    ASSUME NEW T \in SUBSET Nat, T # {}
    PROVE  \E m \in T : \A k \in T : m <= k
  <1> DEFINE below == {pair \in Nat \X Nat : pair[1] < pair[2]}
  <1>1. OpToRel(<, Nat) = below
    BY Zenon DEF OpToRel
  <1>2. IsWellFoundedOn(below, Nat)
    BY <1>1, NatLessThanWellFounded, Zenon
  <1>3. \E m \in T : \A k \in T : <<k, m>> \notin below
    <2> HIDE DEF below
    <2> QED
      BY <1>2, WFMin
  <1>4. \A k, m \in Nat : <<k, m>> \notin below => m <= k
    OBVIOUS
  <1> HIDE DEF below
  <1> QED
    BY <1>3, <1>4

LEMMA Induction ==
    ASSUME NEW T \in SUBSET Nat, 0 \in T, \A i \in T : i + 1 \in T
    PROVE  T = Nat
  <1>1. SUFFICES ASSUME Nat \ T # {} PROVE FALSE
    OBVIOUS
  <1>2. PICK m \in Nat \ T : \A k \in Nat \ T : m <= k
    BY <1>1, Least
  <1>3. m - 1 \in T
    BY <1>2
  <1> QED
    BY <1>2, <1>3

(* A rebase loses no patch of the branch: main, and on it each commit main  *)
(* has not, one after the other.                                            *)
Replay(h, m, n, f) == f = [i \in 0..n |-> IF i = 0 THEN m ELSE Onto(f[i - 1], h[i], m)]

LEMMA ReplayExists ==
    ASSUME NEW h, NEW m, NEW n \in Nat
    PROVE  \E f : Replay(h, m, n, f)
  <1> DEFINE T == {i \in Nat : \E f : Replay(h, m, i, f)}
  <1>1. 0 \in T
    <2> DEFINE f == [i \in 0..0 |-> m]
    <2>1. Replay(h, m, 0, f)
      BY DEF Replay
    <2> QED
      BY <2>1
  <1>2. ASSUME NEW i \in T PROVE i + 1 \in T
    <2>1. PICK f : Replay(h, m, i, f)
      OBVIOUS
    <2> DEFINE g == [j \in 0..i + 1 |-> IF j \in 0..i THEN f[j] ELSE Onto(f[i], h[j], m)]
    <2>2. ASSUME NEW j \in 0..i + 1
          PROVE  g[j] = IF j = 0 THEN m ELSE Onto(g[j - 1], h[j], m)
      <3>1. CASE j = 0
        BY <2>1, <3>1 DEF Replay
      <3>2. CASE j \in 0..i /\ j # 0
        <4>1. j - 1 \in 0..i /\ j - 1 \in 0..i + 1
          BY <3>2
        <4>2. g[j] = f[j] /\ g[j - 1] = f[j - 1]
          BY <3>2, <4>1
        <4>3. f[j] = Onto(f[j - 1], h[j], m)
          BY <2>1, <3>2 DEF Replay
        <4> QED
          BY <3>2, <4>2, <4>3
      <3>3. CASE j = i + 1
        <4>1. /\ j \notin 0..i /\ j # 0 /\ j - 1 = i
              /\ i \in 0..i /\ i \in 0..i + 1
          BY <3>3
        <4>2. g[j] = Onto(f[i], h[j], m) /\ g[j - 1] = f[i]
          BY <4>1
        <4> QED
          BY <4>1, <4>2
      <3> QED
        BY <3>1, <3>2, <3>3
    <2>3. Replay(h, m, i + 1, g)
      BY <2>2 DEF Replay
    <2> QED
      BY <2>3
  <1>3. T = Nat
    BY <1>1, <1>2, Induction
  <1> QED
    BY <1>3

LEMMA OntoKeeps ==
    ASSUME NEW h \in Histories, NEW c \in Commits, NEW m
    PROVE  /\ Onto(h, c, m) \in Histories
           /\ Content(h) \subseteq Content(Onto(h, c, m))
           /\ c.p \in Content(m) \cup Content(Onto(h, c, m))
  <1> DEFINE d == [c EXCEPT !.g = @ + 1]
  <1>1. d \in Commits /\ d.p = c.p
    BY DEF Commits
  <1> HIDE DEF d
  <1>2. Append(h, d) \in Histories /\ Content(Append(h, d)) = Content(h) \cup {c.p}
    BY <1>1, ContentOfAppend DEF Histories
  <1>3. Onto(h, c, m) = IF c.p \in Content(m) THEN h ELSE Append(h, d)
    BY DEF Onto, d
  <1> QED
    BY <1>2, <1>3

LEMMA RebaseLosesNothing ==
    ASSUME NEW h \in Histories, NEW m \in Histories
    PROVE  /\ Rebased(h, m) \in Histories
           /\ Content(h) \cup Content(m) \subseteq Content(Rebased(h, m))
  <1> DEFINE N == Len(h)
             f == CHOOSE g : Replay(h, m, N, g)
             Upto(i) == {h[k].p : k \in 1..i}
             Good(i, s) == s \in Histories /\ Content(m) \cup Upto(i) \subseteq Content(s)
             T == {i \in Nat : i <= N => Good(i, f[i])}
  <1>0. N \in Nat /\ DOMAIN h = 1..N /\ \A i \in 1..N : h[i] \in Commits
    BY DEF Histories
  <1>1. Replay(h, m, N, f)
    BY <1>0, ReplayExists
  <1>2. Rebased(h, m) = f[N]
    BY DEF Rebased, Replay
  <1> HIDE DEF f, N
  <1>3. f[0] = m /\ \A i \in 0..N : i # 0 => f[i] = Onto(f[i - 1], h[i], m)
    BY <1>0, <1>1 DEF Replay
  <1>4. 0 \in T
    <2>1. Upto(0) = {}
      OBVIOUS
    <2> QED
      BY <1>3, <2>1
  <1>5. ASSUME NEW i \in T PROVE i + 1 \in T
    <2> HIDE DEF Good
    <2>0. i + 1 \in Nat
      OBVIOUS
    <2>1. SUFFICES ASSUME i + 1 <= N PROVE Good(i + 1, f[i + 1])
      BY <2>0
    <2>2. i \in Nat /\ i + 1 \in 0..N /\ i + 1 # 0 /\ (i + 1) - 1 = i /\ i + 1 \in 1..N
      BY <1>0, <2>1
    <2>3. Good(i, f[i]) /\ h[i + 1] \in Commits
      BY <1>0, <2>2
    <2>4. f[i + 1] = Onto(f[i], h[i + 1], m)
      BY <1>3, <2>2
    <2>5. Upto(i + 1) = Upto(i) \cup {h[i + 1].p}
      <3>1. \A k \in 1..i + 1 : k \in 1..i \/ k = i + 1
        BY <2>2
      <3>2. i + 1 \in 1..i + 1 /\ \A k \in 1..i : k \in 1..i + 1
        BY <2>2
      <3> QED
        BY <3>1, <3>2
    <2> HIDE DEF Upto
    <2> USE DEF Good
    <2>6. /\ Onto(f[i], h[i + 1], m) \in Histories
          /\ Content(f[i]) \subseteq Content(Onto(f[i], h[i + 1], m))
          /\ h[i + 1].p \in Content(m) \cup Content(Onto(f[i], h[i + 1], m))
      BY <2>3, OntoKeeps
    <2> QED
      BY <2>3, <2>4, <2>5, <2>6
  <1>6. T = Nat
    BY <1>4, <1>5, Induction
  <1>7. Good(N, f[N])
    BY <1>0, <1>6
  <1>8. Upto(N) = Content(h)
    BY <1>0 DEF Content
  <1> QED
    BY <1>2, <1>7, <1>8

-----------------------------------------------------------------------------
(* The branch and the run of finish.                                        *)

LEMMA BothGrow ==
    ASSUME RefsOK, RefsOK', world' = world,
           ToSet(main) \subseteq ToSet(main'), ToSet(local) \subseteq ToSet(local')
    PROVE  Content(Integration) \subseteq Content(Integration')
  <1>1. /\ Content(main) \subseteq Content(main')
        /\ Content(local) \subseteq Content(local')
    BY ContainedContent DEF RefsOK
  <1> QED
    BY <1>1 DEF Integration, Remote

LEMMA OwnIsNotOnMain ==
    ASSUME RefsOK, LineInv, NEW h
    PROVE  Own(h) = Content(h) \ Content(Integration)
  <1>1. Content(tracked) \subseteq Content(main)
    BY ContainedContent DEF RefsOK, LineInv, Contained
  <1> QED
    BY <1>1 DEF Own, Integration, Upstream, Remote

LEMMA InitFinish == Init => FinishInv
  <1> SUFFICES ASSUME Init PROVE FinishInv
    OBVIOUS
  <1>1. main = <<>> /\ tracked = <<>> /\ local = <<>> /\ finish = Idle
    BY DEF Init
  <1>2. <<>> \in Histories
    BY DEF Histories
  <1>3. CASE BranchLife
    <2>1. PICK p \in Work : branch = <<Commit(p)>>
      BY <1>3 DEF BranchLife
    <2>2. Commit(p) \in Commits
      BY CommitIsOne DEF Patches
    <2>3. branch \in Histories /\ branch # <<>>
      BY <2>1, <2>2 DEF Histories
    <2>4. RefsOK
      BY <1>1, <1>2, <1>3, <2>3 DEF BranchLife, RefsOK
    <2>5. cleared \subseteq Content(branch)
      BY <1>3 DEF BranchLife
    <2> QED
      BY <1>1, <2>3, <2>4, <2>5 DEF FinishInv, FinishOK, LineInv, RunInv, Contained, ToSet
  <1>4. CASE RecordsLife
    BY <1>1, <1>2, <1>4 DEF RecordsLife, FinishInv, RefsOK, FinishOK, LineInv, RunInv, Contained, ToSet
  <1> QED
    BY <1>3, <1>4 DEF Init

(* What the run has shown stays so while others only add to main and to the *)
(* review, and its branch is left alone - or it knows it was touched.       *)
LEMMA OthersKeepRun ==
    ASSUME FinishInv, RefsOK', world' = world,
           ToSet(main) \subseteq ToSet(main'), ToSet(local) \subseteq ToSet(local'),
           finish # Idle => cleared \subseteq cleared',
           \/ finish' = finish /\ (finish = Idle \/ (branch' = branch /\ (Remote => local' = local)))
           \/ finish # Idle /\ finish' = [finish EXCEPT !.still = FALSE]
    PROVE  FinishOK' /\ RunInv'
  <1> USE DEF FinishInv
  <1>1. Content(Integration) \subseteq Content(Integration')
    BY BothGrow
  <1>2. \A h : finish # Idle /\ Seen(h) => Seen(h)'
    BY <1>1 DEF Seen, Fails
  <1>3. CASE finish' = finish /\ finish = Idle
    BY <1>3 DEF FinishOK, RunInv
  <1>4. CASE finish' = finish /\ finish # Idle /\ branch' = branch /\ (Remote => local' = local)
    <2>1. \A h : AsTested(h) => AsTested(h)'
      BY <1>1, <1>4 DEF AsTested, Fails
    <2> QED
      BY <1>2, <1>4, <2>1 DEF FinishOK, RunInv, Remote
  <1>5. CASE finish # Idle /\ finish' = [finish EXCEPT !.still = FALSE]
    <2>1. /\ FinishOK' /\ finish' # Idle /\ ~finish'.still
          /\ finish'.at = finish.at /\ finish'.tests = finish.tests
          /\ finish.at = "pushing" => finish'.tip = finish.tip
      BY <1>5 DEF FinishOK, Plain, Testing, Pushing, Idle
    <2> QED
      BY <1>2, <1>5, <2>1 DEF RunInv, Remote
  <1> QED
    BY <1>3, <1>4, <1>5

(* A step that leaves the branch and its run alone.                         *)
LEMMA ElsewhereKeepsFinish ==
    ASSUME FinishInv, UNCHANGED <<world, main, local, branch, here, cleared, finish>>,
           tracked' \in {tracked, main}, theirs' \in Histories
    PROVE  FinishInv'
  <1>1. RefsOK'
    BY DEF FinishInv, RefsOK
  <1>2. LineInv'
    BY DEF FinishInv, LineInv, Contained
  <1> QED
    BY <1>1, <1>2, OthersKeepRun DEF FinishInv

LEMMA StartKeeps ==
    ASSUME FinishInv, NEW tests \in {"suite", "claim", "none"}, Start(tests)
    PROVE  FinishInv'
  <1> USE DEF FinishInv, Start, around, refs
  <1>1. RefsOK'
    BY DEF RefsOK
  <1>2. FinishOK'
    BY DEF FinishOK, Plain
  <1>3. LineInv'
    BY DEF LineInv, Contained, Ready
  <1>4. RunInv'
    BY DEF RunInv, Remote
  <1> QED
    BY <1>1, <1>2, <1>3, <1>4

(* A step of the run: the branch keeps what it had, main too, the review    *)
(* stays as it is.                                                          *)
LEMMA RunGoesOn ==
    ASSUME FinishInv, finish # Idle, RefsOK', UNCHANGED <<world, here, cleared>>,
           Content(branch) \subseteq Content(branch'), branch' # <<>>, Contained(tracked, main)'
    PROVE  LineInv'
  BY DEF FinishInv, LineInv

(* Before the tests a run has shown nothing, but what it says of itself.    *)
LEMMA EarlyRun ==
    ASSUME FinishInv, finish # Idle, world' = world, finish' \in Plain, finish'.tests = finish.tests,
           finish'.at \in {"checked", "archived", "fetched", "rebased", "based", "landed", "refreshed"}
    PROVE  FinishOK' /\ RunInv'
  <1>1. finish' # Idle
    BY DEF Plain, Idle
  <1> QED
    BY <1>1 DEF FinishInv, FinishOK, RunInv, Remote

LEMMA ArchiveKeeps == ASSUME FinishInv, Archive PROVE FinishInv'
  <1> USE DEF FinishInv, Archive, around
  <1>1. finish # Idle /\ finish' \in Plain /\ finish'.tests = finish.tests /\ finish'.at = "archived"
    BY DEF FinishOK, Plain, Testing, Pushing, Idle
  <1>2. /\ branch' \in Histories /\ branch' # <<>> /\ Content(branch) \subseteq Content(branch')
    <2>1. branch \in Histories /\ branch # <<>> /\ Commit("archive") \in Commits
      BY <1>1, CommitIsOne DEF RefsOK, LineInv, Patches
    <2>2. Append(branch, Commit("archive")) \in Histories /\ Append(branch, Commit("archive")) # <<>>
      BY <2>1 DEF Histories
    <2>3. Content(branch) \subseteq Content(Append(branch, Commit("archive")))
      BY <2>1, ContentOfAppend
    <2> QED
      BY <2>1, <2>2, <2>3
  <1>3. RefsOK'
    BY <1>2 DEF RefsOK
  <1>4. LineInv'
    BY <1>1, <1>2, <1>3, RunGoesOn DEF LineInv, Contained
  <1> QED
    BY <1>1, <1>3, <1>4, EarlyRun

LEMMA FetchKeeps == ASSUME FinishInv, Fetch PROVE FinishInv'
  <1> USE DEF FinishInv, Fetch, around
  <1>1. finish # Idle /\ finish' \in Plain /\ finish'.tests = finish.tests /\ finish'.at = "fetched"
    BY DEF FinishOK, Plain, Testing, Pushing, Idle
  <1>2. RefsOK'
    BY DEF RefsOK
  <1>3. LineInv'
    BY <1>1 DEF LineInv, Contained
  <1> QED
    BY <1>1, <1>2, <1>3, EarlyRun

LEMMA RebaseKeeps == ASSUME FinishInv, Rebase PROVE FinishInv'
  <1> USE DEF FinishInv, Rebase, around
  <1>1. /\ finish # Idle /\ finish' \in Plain /\ finish'.tests = finish.tests
        /\ finish'.at \in {"based", "rebased"}
    BY DEF FinishOK, Plain, Testing, Pushing, Idle
  <1>2. branch' \in Histories /\ branch' # <<>> /\ Content(branch) \subseteq Content(branch')
    <2>1. branch \in Histories /\ branch # <<>> /\ Upstream \in Histories
      BY <1>1 DEF RefsOK, LineInv, Upstream
    <2>2. /\ Rebased(branch, Upstream) \in Histories
          /\ Content(branch) \subseteq Content(Rebased(branch, Upstream))
      BY <2>1, RebaseLosesNothing
    <2>3. Content(branch) # {} /\ Content(<<>>) = {}
      BY <2>1, ContentIsPatches DEF Content
    <2> QED
      BY <2>1, <2>2, <2>3
  <1>3. RefsOK'
    BY <1>2 DEF RefsOK
  <1>4. LineInv'
    BY <1>1, <1>2, <1>3, RunGoesOn DEF LineInv, Contained
  <1> QED
    BY <1>1, <1>3, <1>4, EarlyRun

(* The steps of the run that move no ref.                                   *)
LEMMA StepsKeepLine ==
    ASSUME FinishInv, finish # Idle, UNCHANGED <<world, refs, cleared>>,
           here' \in {here, [here EXCEPT !.on = "main"]}
    PROVE  RefsOK' /\ LineInv' /\ (\A h : Seen(h)' = Seen(h))
  <1> USE DEF FinishInv, refs
  <1>1. RefsOK'
    BY DEF RefsOK
  <1>2. LineInv'
    BY DEF LineInv, Contained
  <1>3. \A h : Seen(h)' = Seen(h)
    BY DEF Seen, Fails, Integration, Remote
  <1> QED
    BY <1>1, <1>2, <1>3

LEMMA RecheckKeeps == ASSUME FinishInv, Recheck PROVE FinishInv'
  <1> USE DEF Recheck, around
  <1>1. finish # Idle /\ finish' \in Plain /\ finish'.tests = finish.tests /\ finish'.at = "based"
    BY DEF FinishInv, FinishOK, Plain, Testing, Pushing, Idle
  <1> QED
    BY <1>1, EarlyRun, StepsKeepLine DEF FinishInv

LEMMA TestKeeps == ASSUME FinishInv, Test PROVE FinishInv'
  <1> USE DEF Test, around
  <1>1. finish # Idle /\ finish \in Plain /\ finish.at = "based"
    BY DEF FinishInv, FinishOK, Plain, Testing, Pushing, Idle
  <1>2. RefsOK' /\ LineInv'
    BY <1>1, StepsKeepLine
  <1>3. CASE finish.tests = "suite"
    <2>1. finish' = [at |-> "testing", tests |-> "suite", still |-> finish.still, start |-> branch]
      BY <1>3
    <2>2. FinishOK'
      BY <1>1, <2>1 DEF FinishOK, Testing, Plain, FinishInv, RefsOK
    <2>3. RunInv'
      BY <1>1, <2>1 DEF RunInv, refs
    <2> QED
      BY <1>2, <2>2, <2>3 DEF FinishInv
  <1>4. CASE finish.tests # "suite" /\ (finish.tests = "claim" \/ IsQuiet(branch))
    <2>1. finish' = [finish EXCEPT !.at = "tested"]
      BY <1>4
    <2>2. FinishOK' /\ finish'.at = "tested" /\ finish'.tests = finish.tests
      BY <1>1, <2>1 DEF FinishOK, Plain
    <2>3. finish.tests = "claim" => Remote
      BY <1>1 DEF FinishInv, RunInv
    <2>4. AsTested(branch)'
      <3>1. finish.tests = "none" => Content(branch) \ Content(Integration) \subseteq Quiet
        BY <1>4, OwnIsNotOnMain DEF IsQuiet, FinishInv
      <3> QED
        BY <1>4, <2>2, <3>1 DEF AsTested, refs, Integration, Remote
    <2>5. RunInv'
      BY <2>2, <2>3, <2>4 DEF RunInv, Remote
    <2> QED
      BY <1>2, <2>2, <2>5 DEF FinishInv
  <1>5. CASE finish' = Idle
    BY <1>2, <1>5 DEF FinishInv, FinishOK, RunInv
  <1> QED
    BY <1>3, <1>4, <1>5

LEMMA TestedKeeps == ASSUME FinishInv, Tested PROVE FinishInv'
  <1> USE DEF Tested, around
  <1>1. finish # Idle /\ finish \in Testing
    BY DEF FinishInv, FinishOK, Plain, Testing, Pushing, Idle
  <1>2. RefsOK' /\ LineInv'
    BY <1>1, StepsKeepLine
  <1>3. FinishOK' /\ finish'.at = "tested" /\ finish'.tests = "suite" /\ finish'.still = finish.still
    BY <1>1 DEF FinishOK, Plain, Testing
  <1>4. finish.still => AsTested(branch)'
    BY <1>1, <1>3 DEF FinishInv, RunInv, AsTested, Fails, refs
  <1>5. RunInv'
    BY <1>3, <1>4 DEF RunInv
  <1> QED
    BY <1>2, <1>3, <1>5 DEF FinishInv

LEMMA GateLocallyKeeps == ASSUME FinishInv, GateLocally PROVE FinishInv'
  <1> USE DEF GateLocally, around
  <1>1. finish # Idle /\ finish \in Plain /\ finish.at = "tested"
    BY DEF FinishInv, FinishOK, Plain, Testing, Pushing, Idle
  <1>2. RefsOK' /\ LineInv' /\ \A h : Seen(h)' = Seen(h)
    BY <1>1, StepsKeepLine
  <1>3. FinishOK' /\ finish'.at = "gated" /\ finish'.tests = finish.tests /\ finish'.still = finish.still
    BY <1>1 DEF FinishOK, Plain
  <1>4. Seen(branch)'
    <2>1. Seen(branch)
      BY OwnIsNotOnMain DEF FinishInv, MergeGates, Covered, Seen
    <2> QED
      BY <1>2, <2>1 DEF refs
  <1>5. finish.still => AsTested(branch)'
    BY <1>1, <1>3 DEF FinishInv, RunInv, AsTested, Fails, refs, Integration, Remote
  <1>6. RunInv'
    BY <1>1, <1>3, <1>4, <1>5 DEF RunInv, FinishInv, Remote
  <1> QED
    BY <1>2, <1>3, <1>6 DEF FinishInv

LEMMA CheckOutKeeps == ASSUME FinishInv, CheckOut PROVE FinishInv'
  <1> USE DEF CheckOut, around
  <1>1. /\ finish # Idle /\ finish \in Plain /\ finish.at \in {"tested", "gated"}
        /\ ~Remote => finish.at = "gated"
    BY DEF FinishInv, FinishOK, Plain, Testing, Pushing, Idle
  <1>2. RefsOK' /\ LineInv' /\ \A h : Seen(h)' = Seen(h)
    BY <1>1, StepsKeepLine
  <1>3. FinishOK' /\ finish'.at = "switched" /\ finish'.tests = finish.tests /\ finish'.still = finish.still
    BY <1>1 DEF FinishOK, Plain
  <1>4. finish.still /\ ~Remote => Seen(branch)'
    BY <1>1, <1>2 DEF FinishInv, RunInv, refs
  <1>5. finish.still => AsTested(branch)'
    BY <1>1, <1>3 DEF FinishInv, RunInv, AsTested, Fails, refs, Integration, Remote
  <1>6. RunInv'
    BY <1>1, <1>3, <1>4, <1>5 DEF RunInv, FinishInv, Remote
  <1> QED
    BY <1>2, <1>3, <1>6 DEF FinishInv

LEMMA MergeKeeps == ASSUME FinishInv, MergeThere \/ MergeHere PROVE FinishInv'
  <1> USE DEF MergeThere, MergeHere, around
  <1>1. /\ finish # Idle /\ finish \in Plain /\ local' = branch
        /\ finish.at \in {"gated", "switched"}
        /\ finish' = [finish EXCEPT !.at = "landed"]
              \/ (Remote /\ finish.at = "switched" /\ finish' = [finish EXCEPT !.at = "merged"])
    BY DEF FinishInv, FinishOK, Plain, Testing, Pushing, Idle
  <1>2. UNCHANGED <<world, main, theirs, tracked, branch, here, cleared>>
    OBVIOUS
  <1>3. RefsOK' /\ LineInv'
    BY <1>1, <1>2 DEF FinishInv, RefsOK, LineInv, Contained
  <1>4. CASE finish' = [finish EXCEPT !.at = "landed"]
    BY <1>1, <1>2, <1>3, <1>4, EarlyRun DEF FinishInv, Plain
  <1>5. CASE Remote /\ finish.at = "switched" /\ finish' = [finish EXCEPT !.at = "merged"]
    <2>1. FinishOK' /\ finish'.at = "merged" /\ finish'.tests = finish.tests /\ finish'.still = finish.still
      BY <1>1, <1>5 DEF FinishOK, Plain
    <2>2. finish.still => AsTested(branch)'
      BY <1>1, <1>2, <1>5, <2>1 DEF FinishInv, RunInv, AsTested, Fails, Integration, Remote
    <2>3. RunInv'
      BY <1>1, <1>2, <1>5, <2>1, <2>2 DEF RunInv, Remote
    <2> QED
      BY <1>3, <2>1, <2>3 DEF FinishInv
  <1> QED
    BY <1>1, <1>4, <1>5

LEMMA PushKeeps == ASSUME FinishInv, Push PROVE FinishInv'
  <1> USE DEF Push, around
  <1> DEFINE tip == IF Elsewhere THEN branch ELSE local
  <1>1. /\ finish # Idle /\ finish \in Plain
        /\ finish.at = "merged" \/ (finish.at = "tested" /\ Elsewhere)
    BY DEF FinishInv, FinishOK, Plain, Testing, Pushing, Idle
  <1>2. RefsOK' /\ LineInv' /\ \A h : Seen(h)' = Seen(h)
    BY <1>1, StepsKeepLine
  <1>3. /\ finish' = [at |-> "pushing", tests |-> finish.tests, still |-> finish.still, tip |-> tip]
        /\ MergeGates(tip) /\ tip \in Histories
    BY DEF FinishInv, RefsOK
  <1>4. Seen(tip)
    BY <1>3, OwnIsNotOnMain DEF FinishInv, MergeGates, Covered, Seen
  <1>5. finish.still => AsTested(tip)
    BY <1>1 DEF FinishInv, RunInv
  <1> HIDE DEF tip
  <1>6. FinishOK' /\ finish'.at = "pushing" /\ finish'.tests = finish.tests /\ finish'.tip = tip
           /\ finish'.still = finish.still
    BY <1>1, <1>3 DEF FinishOK, Plain, Pushing
  <1>7. Seen(finish.tip)'
    BY <1>2, <1>4, <1>6
  <1>8. finish.still => AsTested(finish.tip)'
    BY <1>5, <1>6 DEF AsTested, Fails, refs, Integration, Remote
  <1>9. RunInv'
    BY <1>1, <1>6, <1>7, <1>8 DEF RunInv, FinishInv, Remote
  <1> QED
    BY <1>2, <1>6, <1>9 DEF FinishInv

LEMMA ArriveKeeps == ASSUME FinishInv, Arrive PROVE FinishInv'
  <1> USE DEF FinishInv, Arrive, around
  <1>1. finish # Idle /\ finish \in Pushing
    BY DEF FinishOK, Plain, Testing, Pushing, Idle
  <1>2. finish' \in Plain /\ finish'.tests = finish.tests /\ finish'.at = "landed"
    BY <1>1 DEF Plain, Pushing
  <1>3. RefsOK'
    BY <1>1 DEF RefsOK, Pushing
  <1>4. LineInv'
    BY <1>1 DEF LineInv, Contained
  <1> QED
    BY <1>1, <1>2, <1>3, <1>4, EarlyRun

LEMMA RefreshKeeps == ASSUME FinishInv, Refresh PROVE FinishInv'
  <1> USE DEF FinishInv, Refresh, around
  <1>1. finish # Idle /\ finish' \in Plain /\ finish'.tests = finish.tests /\ finish'.at = "refreshed"
    BY DEF FinishOK, Plain, Testing, Pushing, Idle
  <1>2. RefsOK'
    BY DEF RefsOK
  <1>3. LineInv'
    BY <1>1 DEF LineInv, Contained
  <1> QED
    BY <1>1, <1>2, <1>3, EarlyRun

LEMMA DeleteKeeps == ASSUME FinishInv, AwayInv, Delete PROVE FinishInv'
  <1> USE DEF FinishInv, Delete, Stop, around
  <1>1. finish' = Idle /\ finish # Idle
    BY DEF Idle
  <1>2. FinishOK' /\ RunInv'
    BY <1>1 DEF FinishOK, RunInv
  <1>3. <<>> \in Histories
    BY DEF Histories
  <1>4. RefsOK'
    BY <1>3 DEF RefsOK
  <1>5. branch' = branch \/ (branch' = <<>> /\ here.on = "main")
    BY DEF AwayInv
  <1>6. LineInv'
    BY <1>1, <1>5 DEF LineInv, Contained
  <1> QED
    BY <1>2, <1>4, <1>6

(* The people.                                                              *)

LEMMA EditKeeps == ASSUME FinishInv, Edit \/ EndSession \/ StartSession PROVE FinishInv'
  <1> USE DEF FinishInv, Edit, EndSession, StartSession, around, refs
  <1>1. RefsOK'
    BY DEF RefsOK
  <1>2. /\ finish' # Idle => finish # Idle
        /\ finish' = finish \/ (finish # Idle /\ finish' = [finish EXCEPT !.still = FALSE])
    BY DEF Moved, FinishOK, Plain, Testing, Pushing, Idle
  <1>3. LineInv'
    BY <1>2 DEF LineInv, Contained, RefsOK
  <1> QED
    BY <1>1, <1>2, <1>3, OthersKeepRun

LEMMA CommitKeeps == ASSUME FinishInv, NEW p \in Work, CommitEdit(p) PROVE FinishInv'
  <1> USE DEF FinishInv, CommitEdit, around
  <1>1. Commit(p) \in Commits /\ branch \in Histories /\ local \in Histories
    BY CommitIsOne DEF RefsOK, Patches
  <1>2. /\ Append(branch, Commit(p)) \in Histories /\ Append(branch, Commit(p)) # <<>>
        /\ Append(local, Commit(p)) \in Histories
    BY <1>1 DEF Histories
  <1>3. /\ Content(branch) \subseteq Content(Append(branch, Commit(p)))
        /\ ToSet(local) \subseteq ToSet(Append(local, Commit(p)))
    BY <1>1, ContentOfAppend, AppendGrows
  <1>4. RefsOK'
    BY <1>2 DEF RefsOK
  <1>5. /\ finish' # Idle => finish # Idle
        /\ \/ finish' = finish /\ finish = Idle
           \/ finish # Idle /\ finish' = [finish EXCEPT !.still = FALSE]
    BY DEF Moved, FinishOK, Plain, Testing, Pushing, Idle
  <1>6. LineInv'
    <2>1. here'.on = here.on
      BY DEF RefsOK
    <2>2. branch' = branch \/ branch' = Append(branch, Commit(p))
      OBVIOUS
    <2>3. branch = <<>> => here.on # "branch"
      BY DEF LineInv
    <2> QED
      BY <1>2, <1>3, <1>5, <2>1, <2>2, <2>3 DEF LineInv, Contained
  <1> QED
    BY <1>3, <1>4, <1>5, <1>6, OthersKeepRun

LEMMA SwitchKeeps == ASSUME FinishInv, SwitchBack \/ Review PROVE FinishInv'
  <1> USE DEF FinishInv, SwitchBack, Review, around, refs
  <1>1. RefsOK'
    BY DEF RefsOK
  <1>2. LineInv'
    BY DEF LineInv, Contained
  <1>3. finish # Idle => cleared \subseteq cleared'
    BY DEF LineInv
  <1> QED
    BY <1>1, <1>2, <1>3, OthersKeepRun

LEMMA PushBranchKeeps == ASSUME FinishInv, NEW p \in Mates, PushBranch(p) PROVE FinishInv'
  <1>1. theirs' \in Histories
    <2>1. Commit(p) \in Commits
      BY CommitIsOne DEF Patches
    <2> QED
      BY <2>1 DEF PushBranch, FinishInv, RefsOK, Histories
  <1> QED
    BY <1>1, ElsewhereKeepsFinish DEF PushBranch, around

LEMMA LandOtherKeeps == ASSUME FinishInv, NEW p \in Theirs, LandOther(p) PROVE FinishInv'
  <1> USE DEF FinishInv, LandOther, around
  <1>1. Commit(p) \in Commits /\ main \in Histories /\ local \in Histories
    BY CommitIsOne DEF RefsOK, Patches
  <1>2. /\ Append(main, Commit(p)) \in Histories /\ Append(local, Commit(p)) \in Histories
        /\ ToSet(main) \subseteq ToSet(Append(main, Commit(p)))
        /\ ToSet(local) \subseteq ToSet(Append(local, Commit(p)))
    BY <1>1, AppendGrows DEF Histories
  <1>3. RefsOK'
    BY <1>2 DEF RefsOK
  <1>4. LineInv'
    BY <1>2 DEF LineInv, Contained
  <1> QED
    BY <1>2, <1>3, <1>4, OthersKeepRun

(* What else ends a run: a kill, or tidy, whose worktree it was.            *)
LEMMA EndKeeps ==
    ASSUME FinishInv, UNCHANGED <<world, refs, cleared>>, finish' = Idle,
           here' = here \/ here' = [here EXCEPT !.on = "gone"]
    PROVE  FinishInv'
  <1>1. RefsOK'
    BY DEF FinishInv, RefsOK, refs
  <1>2. LineInv'
    BY DEF FinishInv, LineInv, Contained, refs, RefsOK
  <1> QED
    BY <1>1, <1>2 DEF FinishInv, FinishOK, RunInv

LEMMA OthersKeepFinish ==
    ASSUME FinishInv,
           \/ Tidies \/ EditThere \/ PruneByHand("prune") \/ PruneByHand("stage") \/ PruneGoesOn
           \/ OnTheRecords \/ UNCHANGED vars
    PROVE  FinishInv'
  <1>0. theirs \in Histories /\ <<>> \in Histories
    BY DEF FinishInv, RefsOK, Histories
  <1>1. CASE Look \/ TidyDelete
    BY <1>0, <1>1, ElsewhereKeepsFinish DEF Look, TidyDelete, around
  <1>2. CASE TidyPrune \/ TidyFold \/ TidyPlans \/ TidyReports \/ TidyRecheck \/ KillTidy
    BY <1>0, <1>2, ElsewhereKeepsFinish
       DEF TidyPrune, TidyFold, TidyPlans, TidyReports, TidyRecheck, KillTidy, refs, around
  <1>3. CASE TidyRemove
    <2>1. CASE ~here.dirty
      BY <1>3, <2>1, EndKeeps DEF TidyRemove, around
    <2>2. CASE here.dirty
      BY <1>0, <1>3, <2>2, ElsewhereKeepsFinish DEF TidyRemove, refs, around
    <2> QED
      BY <2>1, <2>2
  <1>4. CASE \/ EditThere \/ PruneByHand("prune") \/ PruneByHand("stage") \/ PruneGoesOn
             \/ OnTheRecords \/ UNCHANGED vars
    BY <1>0, <1>4, ElsewhereKeepsFinish
       DEF EditThere, PruneByHand, PruneGoesOn, OnTheRecords, vars, refs, around
  <1> QED
    BY <1>1, <1>2, <1>3, <1>4 DEF Tidies

LEMMA NextKeepsFinish == FinishInv /\ AwayInv /\ [Next]_vars => FinishInv'
  <1> SUFFICES ASSUME FinishInv, AwayInv, [Next]_vars PROVE FinishInv'
    OBVIOUS
  <1>1. CASE Apply
    BY <1>1, StartKeeps, ArchiveKeeps, FetchKeeps, RebaseKeeps, RecheckKeeps, TestKeeps, TestedKeeps,
       GateLocallyKeeps, MergeKeeps, CheckOutKeeps, PushKeeps, ArriveKeeps, RefreshKeeps, DeleteKeeps
       DEF Apply
  <1>2. CASE Kill
    BY <1>2, EndKeeps DEF Kill, Stop, around
  <1>3. CASE People
    BY <1>3, EditKeeps, CommitKeeps, SwitchKeeps, PushBranchKeeps, LandOtherKeeps, OthersKeepFinish
       DEF People
  <1> QED
    BY <1>1, <1>2, <1>3, OthersKeepFinish DEF Next

LEMMA InitAway == Init => AwayInv
  <1> SUFFICES ASSUME Init PROVE AwayInv
    OBVIOUS
  <1>1. finish = Idle /\ DOMAIN there = {"on", "dirty", "files"}
    BY DEF Init, BranchLife, RecordsLife
  <1> QED
    BY <1>1 DEF AwayInv, Idle

LEMMA StaysAway ==
    ASSUME FinishInv, AwayInv, DOMAIN there' = DOMAIN there, there'.on = there.on,
           \/ finish' = Idle
           \/ /\ here'.on = here.on
              /\ \/ finish'.at = finish.at
                 \/ finish'.at \notin {"switched", "merged", "pushing", "landed"}
                 \/ finish.at \in {"switched", "merged", "pushing", "landed"}
                 \/ Elsewhere
           \/ here'.on = "main"
    PROVE  AwayInv'
  BY DEF AwayInv, Elsewhere, Idle

LEMMA NextKeepsAway == FinishInv /\ AwayInv /\ [Next]_vars => AwayInv'
  <1> SUFFICES ASSUME FinishInv, AwayInv, [Next]_vars PROVE AwayInv'
    OBVIOUS
  <1>0. /\ finish = Idle \/ finish \in Plain \cup Testing \cup Pushing
        /\ DOMAIN there = {"on", "dirty", "files"}
        /\ here \in [on : {"branch", "main", "gone"}, dirty : BOOLEAN, live : BOOLEAN]
    BY DEF FinishInv, FinishOK, AwayInv, RefsOK
  <1>1. CASE UNCHANGED there
    <2>1. CASE Apply
      <3>1. CASE \E tests \in {"suite", "claim", "none"} : Start(tests)
        <4>1. finish'.at = "checked" /\ UNCHANGED here
          BY <3>1 DEF Start
        <4> QED
          BY <1>1, <4>1, StaysAway
      <3>2. CASE Archive \/ Fetch \/ Rebase \/ Recheck \/ Test \/ Tested \/ GateLocally
        <4>1. /\ finish'.at \in {"archived", "fetched", "rebased", "based", "testing", "tested", "gated", "idle"}
              /\ UNCHANGED here
          BY <1>0, <3>2
             DEF Archive, Fetch, Rebase, Recheck, Test, Tested, GateLocally, Plain, Testing, Pushing, Idle
        <4> QED
          BY <1>1, <4>1, StaysAway
      <3>3. CASE MergeThere \/ MergeHere \/ Push \/ Arrive \/ Refresh
        <4>1. /\ UNCHANGED here
              /\ \/ finish'.at = "refreshed"
                 \/ finish.at \in {"switched", "merged", "pushing"}
                 \/ Elsewhere
          BY <1>0, <3>3 DEF MergeThere, MergeHere, Push, Arrive, Refresh, Plain
        <4> QED
          BY <1>1, <4>1, StaysAway
      <3>4. CASE CheckOut \/ Delete
        <4>1. finish' = Idle \/ here'.on = "main"
          BY <1>0, <3>4 DEF CheckOut, Delete, Stop
        <4> QED
          BY <1>1, <4>1, StaysAway
      <3> QED
        BY <2>1, <3>1, <3>2, <3>3, <3>4 DEF Apply
    <2>2. CASE Kill \/ TidyRemove
      <3>1. finish' = Idle \/ (UNCHANGED <<here, finish>>)
        BY <2>2 DEF Kill, Stop, TidyRemove
      <3> QED
        BY <1>1, <3>1, StaysAway
    <2>3. CASE People
      <3>1. here'.on = here.on \/ finish' = Idle
        BY <1>0, <2>3 DEF People, Edit, CommitEdit, SwitchBack, Review, EndSession, StartSession, EditThere,
                          PushBranch, LandOther
      <3>2. finish'.at = finish.at
        BY <1>0, <2>3 DEF People, Edit, CommitEdit, SwitchBack, Review, EndSession, StartSession, EditThere,
                          PushBranch, LandOther, Moved, Idle, Plain, Testing, Pushing
      <3> QED
        BY <1>1, <3>1, <3>2, StaysAway
    <2>4. CASE UNCHANGED <<here, finish>>
      BY <1>1, <2>4, StaysAway
    <2>5. \/ Apply \/ Kill \/ TidyRemove \/ People \/ UNCHANGED <<here, finish>>
      BY DEF Next, Tidies, Look, TidyDelete, TidyPrune, TidyFold, TidyPlans, TidyReports, TidyRecheck, KillTidy,
             PruneByHand, PruneGoesOn, OnTheRecords, vars
    <2> QED
      BY <2>1, <2>2, <2>3, <2>4, <2>5
  <1>2. CASE there' # there
    <2>1. \/ MergeThere \/ Refresh \/ EditThere \/ \E p \in Theirs : LandOther(p)
      BY <1>2 DEF Next, Apply, Start, Archive, Fetch, Rebase, Recheck, Test, Tested, GateLocally,
                  CheckOut, MergeHere, Push, Arrive, Delete, People, Edit, CommitEdit, SwitchBack, Review,
                  EndSession, StartSession, PushBranch, Kill, Tidies, Look, TidyDelete, TidyPrune, TidyFold, TidyPlans,
                  TidyReports, TidyRecheck, TidyRemove, KillTidy, PruneByHand, PruneGoesOn, OnTheRecords, vars
    <2>2. DOMAIN there' = DOMAIN there /\ there'.on = there.on /\ here'.on = here.on
      BY <1>0, <2>1 DEF MergeThere, Refresh, EditThere, LandOther, Together
    <2>3. Elsewhere \/ finish'.at = finish.at
      BY <2>1 DEF MergeThere, Refresh, EditThere, LandOther
    <2> QED
      BY <2>2, <2>3, StaysAway
  <1> QED
    BY <1>1, <1>2

LEMMA FinishInvariant == Spec => [](FinishInv /\ AwayInv)
  BY InitFinish, InitAway, NextKeepsFinish, NextKeepsAway, PTL DEF Spec

(* A step that lands is an arrival on origin, or the merge of a repository  *)
(* without one.                                                             *)
LEMMA LandingSteps ==
    ASSUME FinishInv, Next, Lands
    PROVE  \/ Arrive /\ Remote
           \/ (MergeThere \/ MergeHere) /\ ~Remote
  <1> USE DEF Lands
  <1>0. finish \in Plain \cup Pushing /\ finish'.at = "landed"
    BY DEF FinishInv, FinishOK, Plain, Testing, Pushing, Idle
  <1>1. CASE Apply
    <2>1. Arrive \/ MergeThere \/ MergeHere
      <3>1. ASSUME NEW tests \in {"suite", "claim", "none"} PROVE ~Start(tests)
        BY <1>0 DEF Start
      <3>2. ~(Archive \/ Fetch \/ Rebase \/ Recheck \/ Test \/ Tested \/ GateLocally)
        BY <1>0 DEF Archive, Fetch, Rebase, Recheck, Test, Tested, GateLocally, Plain, Pushing
      <3>3. ~(CheckOut \/ Push \/ Refresh \/ Delete)
        BY <1>0 DEF CheckOut, Push, Refresh, Delete, Stop, Idle, Plain, Pushing
      <3> QED
        BY <1>1, <3>1, <3>2, <3>3 DEF Apply
    <2>2. Arrive => Remote
      BY DEF Arrive, Integration, Remote, around
    <2>3. MergeThere \/ MergeHere => ~Remote
      BY <1>0 DEF MergeThere, MergeHere, Integration, Remote, around, Plain
    <2> QED
      BY <2>1, <2>2, <2>3
  <1>2. CASE Kill
    BY <1>0, <1>2 DEF Kill, Stop, Idle
  <1>3. CASE Tidies
    BY <1>0, <1>3 DEF Tidies, Look, TidyDelete, TidyPrune, TidyFold, TidyPlans, TidyReports, TidyRecheck, TidyRemove,
                      KillTidy, Idle
  <1>4. CASE People
    BY <1>0, <1>4 DEF People, Edit, CommitEdit, SwitchBack, Review, EndSession, StartSession, EditThere, PushBranch,
                      LandOther, Moved, Plain, Pushing
  <1>5. CASE PruneByHand("prune") \/ PruneByHand("stage") \/ PruneGoesOn \/ OnTheRecords
    BY <1>0, <1>5 DEF PruneByHand, PruneGoesOn, OnTheRecords
  <1> QED
    BY <1>1, <1>2, <1>3, <1>4, <1>5 DEF Next

Checked ==
    Lands => /\ Remote \/ finish.still => ~Fails(world.red, Integration')
             /\ (Remote \/ finish.still) /\ world.plan => Landed \ Quiet \subseteq cleared
             /\ finish.still =>
                   \/ finish.tests = "suite" /\ ~Fails(world.broken, Integration')
                   \/ finish.tests = "claim" /\ Remote
                   \/ finish.tests # "suite" /\ Landed \subseteq Quiet

(* What finish puts on main passed the gates and the review as it lands, and*)
(* the tests as far as nobody touched the checkout: for any commits, red    *)
(* combinations, rebases, mates and kills.                                  *)
THEOREM LandsWhatItChecked == Spec => LandsChecked
  <1>1. FinishInv /\ [Next]_vars => [Checked]_vars
    <2> SUFFICES ASSUME FinishInv, Next, Lands PROVE Checked
      BY DEF Checked
    <2>0. finish # Idle /\ finish.tests \in {"suite", "claim", "none"}
      BY DEF Lands, FinishInv, FinishOK, Plain, Testing, Pushing, Idle
    <2>1. CASE Arrive /\ Remote
      <3>1. finish.at = "pushing" /\ Integration' = finish.tip
        BY <2>1 DEF Arrive, Integration, Remote, around
      <3>2. Seen(finish.tip) /\ (finish.still => AsTested(finish.tip))
        BY <2>0, <3>1 DEF FinishInv, RunInv
      <3> QED
        BY <2>0, <2>1, <3>1, <3>2 DEF Checked, Seen, AsTested, Landed
    <2>2. CASE (MergeThere \/ MergeHere) /\ ~Remote
      <3>1. finish.at \in {"gated", "switched"} /\ Integration' = branch
        BY <2>2 DEF MergeThere, MergeHere, Integration, Remote, around
      <3>2. finish.still => Seen(branch) /\ AsTested(branch)
        BY <2>0, <2>2, <3>1 DEF FinishInv, RunInv
      <3>3. finish.tests # "claim"
        BY <2>0, <2>2 DEF FinishInv, RunInv
      <3> QED
        BY <2>0, <2>2, <3>1, <3>2, <3>3 DEF Checked, Seen, AsTested, Landed
    <2> QED
      BY <2>1, <2>2, LandingSteps
  <1> QED
    BY FinishInvariant, <1>1, PTL DEF Spec, LandsChecked, Checked

-----------------------------------------------------------------------------
(* The records and the run of tidy.                                         *)

LEMMA InitRecords == Init => RecordsInv
  <1> SUFFICES ASSUME Init PROVE RecordsInv
    OBVIOUS
  <1>1. RecordsOK
    <2>1. CASE BranchLife
      BY <2>1 DEF BranchLife, RecordsOK, Entry
    <2>2. CASE RecordsLife
      BY <2>2, ShelvesAssumption DEF RecordsLife, RecordsOK, Entry
    <2> QED
      BY <2>1, <2>2 DEF Init
  <1> QED
    BY <1>1 DEF Init, RecordsInv, TidyOK, TidyInv, Looked

LEMMA MainGrows ==
    ASSUME FinishInv, [Next]_vars
    PROVE  ToSet(main) \subseteq ToSet(main')
  <1>1. CASE UNCHANGED main
    BY <1>1
  <1>2. CASE Arrive
    <2>1. main \in Histories /\ finish.tip \in Histories
      BY <1>2 DEF Arrive, FinishInv, RefsOK, FinishOK, Plain, Testing, Pushing, Idle
    <2> QED
      BY <1>2, <2>1, FastForwardGrows DEF Arrive
  <1>3. ASSUME NEW p \in Theirs, LandOther(p) PROVE ToSet(main) \subseteq ToSet(main')
    <2>1. Commit(p) \in Commits /\ main \in Histories
      BY CommitIsOne DEF FinishInv, RefsOK, Patches
    <2> QED
      BY <1>3, <2>1, AppendGrows DEF LandOther
  <1>4. Apply => UNCHANGED main \/ Arrive
    BY DEF Apply, Start, Archive, Fetch, Rebase, Recheck, Test, Tested, GateLocally, MergeThere, CheckOut,
           MergeHere, Push, Refresh, Delete, refs
  <1>5. People => UNCHANGED main \/ \E p \in Theirs : LandOther(p)
    BY DEF People, Edit, CommitEdit, SwitchBack, Review, EndSession, StartSession, EditThere, PushBranch, refs
  <1>6. Next \/ UNCHANGED vars => UNCHANGED main \/ Apply \/ People
    BY DEF Next, Tidies, Look, TidyDelete, TidyPrune, TidyFold, TidyPlans, TidyReports, TidyRecheck, TidyRemove,
           KillTidy, Kill, PruneByHand, PruneGoesOn, OnTheRecords, vars, refs
  <1> QED
    BY <1>1, <1>2, <1>3, <1>4, <1>5, <1>6

(* A step that leaves the shelf alone, whatever becomes of the look.        *)
LEMMA ShelfStays ==
    ASSUME RecordsInv, UNCHANGED shelved, ToSet(main) \subseteq ToSet(main'),
           \/ tidy' = tidy
           \/ tidy' = Idle
           \/ tidy'.at = "removing" /\ DOMAIN tidy' = {"at", "found", "live"}
           \/ Looked /\ \E to : to \notin {"idle", "shards", "removing"} /\ tidy' = [tidy EXCEPT !.at = to]
    PROVE  RecordsInv'
  <1> USE DEF RecordsInv, shelved
  <1>1. RecordsOK'
    BY DEF RecordsOK
  <1>2. CASE tidy' = tidy \/ tidy' = Idle
    BY <1>1, <1>2 DEF TidyOK, TidyInv, Looked, Contained, Spared
  <1>3. CASE Looked /\ \E to : to \notin {"idle", "shards", "removing"} /\ tidy' = [tidy EXCEPT !.at = to]
    <2>1. /\ TidyOK' /\ tidy'.at # "shards"
          /\ tidy'.saw = tidy.saw /\ tidy'.delete = tidy.delete /\ tidy'.reports = tidy.reports
          /\ tidy'.open = tidy.open /\ tidy'.disk = tidy.disk
      BY <1>3 DEF TidyOK, Looked, Idle
    <2> QED
      BY <1>1, <1>3, <2>1 DEF TidyInv, Looked, Contained, Spared
  <1>4. CASE tidy'.at = "removing" /\ DOMAIN tidy' = {"at", "found", "live"}
    BY <1>1, <1>4 DEF TidyOK, TidyInv, Looked
  <1> QED
    BY <1>2, <1>3, <1>4

LEMMA LookKeeps == ASSUME RecordsInv, Look PROVE RecordsInv'
  <1> USE DEF Look, around, records, shelved
  <1>1. RecordsOK'
    BY DEF RecordsInv, RecordsOK
  <1>2. TidyOK' /\ tidy'.at = "looked"
    BY DEF TidyOK, Idle
  <1>3. tidy'.delete => Contained(tidy'.saw, main')
    BY DEF Contained
  <1>4. ASSUME NEW r \in tidy'.reports PROVE r \in Report /\ Spared(r)'
    <2>1. r \in OldReports /\ ~Unremovable(r)
      BY <1>4
    <2>2. r \in OnDisk /\ Shelf[r].by # "none" /\ ~Open(Shelf[r].of) /\ ~NameReaches(r)
      BY <2>1 DEF OldReports
    <2>3. report[r].head = report[r].disk
      BY <2>1 DEF Unremovable
    <2>4. tidy'.disk[r] = report[r].disk
      BY <2>2
    <2>5. tidy'.open = {w \in Items : Open(w)}
      OBVIOUS
    <2> QED
      BY <2>2, <2>3, <2>4, <2>5 DEF Spared, OnDisk, NameReaches
  <1> QED
    BY <1>1, <1>2, <1>3, <1>4 DEF RecordsInv, TidyInv, Looked

LEMMA FoldKeeps == ASSUME RecordsInv, TidyFold PROVE RecordsInv' /\ UNCHANGED report /\ Lines' = Lines
  <1> USE DEF RecordsInv, TidyFold, TidyGoes, refs
  <1>1. tidy # Idle /\ UNCHANGED <<report, main>>
    BY DEF Idle, FoldLines, DropShards, shelved
  <1>2. \E to \in {"shards", "archive"} :
           /\ tidy' = [tidy EXCEPT !.at = to]
           /\ to = "shards" => FoldLines
    OBVIOUS
  <1>3. /\ TidyOK' /\ (tidy'.at = "shards" => FoldLines)
        /\ tidy'.saw = tidy.saw /\ tidy'.delete = tidy.delete /\ tidy'.reports = tidy.reports
        /\ tidy'.open = tidy.open /\ tidy'.disk = tidy.disk
    BY <1>1, <1>2 DEF TidyOK, Idle
  <1>4. DOMAIN journal' = DOMAIN journal /\ journal'.today = journal.today
    BY DEF RecordsOK, FoldLines, DropShards, shelved
  <1>5. RecordsOK'
    BY <1>1, <1>4 DEF RecordsOK
  <1>6. FoldLines => journal'.old \subseteq journal'.archive
    BY DEF FoldLines, RecordsOK
  <1>7. TidyInv'
    BY <1>1, <1>3, <1>6 DEF TidyInv, Looked, Contained, Spared
  <1>8. Lines' = Lines
    <2>1. CASE tidy.at = "shards"
      <3>1. journal' = [journal EXCEPT !.old = {}, !.prose = FALSE]
        BY <2>1 DEF DropShards
      <3>2. journal.old \subseteq journal.archive
        BY <1>1, <2>1 DEF TidyInv, Looked
      <3> QED
        BY <3>1, <3>2 DEF Lines, RecordsOK
    <2>2. CASE tidy.at # "shards"
      <3>1. UNCHANGED journal \/ journal' = [journal EXCEPT !.archive = @ \cup journal.old]
        BY <2>2 DEF FoldLines, shelved
      <3> QED
        BY <3>1 DEF Lines, RecordsOK
    <2> QED
      BY <2>1, <2>2
  <1> QED
    BY <1>1, <1>3, <1>5, <1>7, <1>8

LEMMA RemovesKeep == ASSUME RecordsInv, TidyPlans \/ TidyReports PROVE RecordsInv'
  <1> USE DEF RecordsInv
  <1>1. /\ tidy.at \in {"archive", "reports"} /\ UNCHANGED <<journal, main>>
        /\ \E to \in {"reports", "worktrees"} : tidy' = [tidy EXCEPT !.at = to]
    <2>1. CASE TidyPlans
      BY <2>1 DEF TidyPlans, RemovePlans, TidyGoes, refs
    <2>2. CASE TidyReports
      BY <2>2 DEF TidyReports, RemoveReports, TidyGoes, refs
    <2> QED
      BY <2>1, <2>2
  <1>2. tidy # Idle
    BY <1>1 DEF Idle
  <1>3. /\ TidyOK' /\ tidy'.at # "shards"
        /\ tidy'.saw = tidy.saw /\ tidy'.delete = tidy.delete /\ tidy'.reports = tidy.reports
        /\ tidy'.open = tidy.open /\ tidy'.disk = tidy.disk
    BY <1>1, <1>2 DEF TidyOK, Idle
  <1>4. /\ report' \in [Report -> Entry]
        /\ \A r \in Report : /\ report'[r].hidden = report[r].hidden
                             /\ report'[r].disk # 0 => report'[r] = report[r]
    <2>1. CASE TidyPlans
      BY <2>1 DEF TidyPlans, RemovePlans, RecordsOK
    <2>2. CASE TidyReports
      <3>1. report' = [r \in Report |-> IF r \in tidy.reports /\ GitRemoves(r)
                                        THEN [report[r] EXCEPT !.index = 0, !.disk = 0] ELSE report[r]]
        BY <2>2 DEF TidyReports, RemoveReports
      <3>2. \A r \in Report : report[r] \in Entry
        BY DEF RecordsOK
      <3>3. \A e \in Entry : /\ [e EXCEPT !.index = 0, !.disk = 0] \in Entry
                              /\ [e EXCEPT !.index = 0, !.disk = 0].disk = 0
                              /\ [e EXCEPT !.index = 0, !.disk = 0].hidden = e.hidden
        BY DEF Entry
      <3> QED
        BY <3>1, <3>2, <3>3
    <2> QED
      BY <2>1, <2>2
  <1>5. RecordsOK'
    BY <1>1, <1>4 DEF RecordsOK
  <1>6. TidyInv'
    BY <1>1, <1>2, <1>3, <1>4 DEF TidyInv, Looked, Contained, Spared
  <1> QED
    BY <1>3, <1>5, <1>6

LEMMA KeepsKeep ==
    ASSUME RecordsInv, Keeps, UNCHANGED <<tidy, main>>
    PROVE  RecordsInv'
  <1> USE DEF RecordsInv
  <1>1. DOMAIN journal' = DOMAIN journal /\ journal'.old = journal.old /\ journal'.archive = journal.archive
    BY DEF Keeps, WriteReport, StageReport, CommitReports, Attest, Replan, RecordsOK
  <1>2. /\ report' \in [Report -> Entry]
        /\ \A r \in Report :
              /\ report'[r].hidden = report[r].hidden
              /\ report'[r].disk # 0 <=> report[r].disk # 0
              /\ report[r].hidden /\ report[r].disk # 0 =>
                    report'[r].index = report[r].index /\ report'[r].head = report[r].head
    BY DEF Keeps, WriteReport, StageReport, CommitReports, Attest, Replan, RecordsOK, Entry
  <1>3. RecordsOK'
    BY <1>1, <1>2 DEF RecordsOK
  <1>4. TidyOK' /\ TidyInv'
    BY <1>1, <1>2 DEF TidyOK, TidyInv, Looked, Contained, Spared
  <1> QED
    BY <1>3, <1>4

LEMMA NextKeepsRecords == FinishInv /\ RecordsInv /\ [Next]_vars => RecordsInv'
  <1> SUFFICES ASSUME FinishInv, RecordsInv, [Next]_vars PROVE RecordsInv'
    OBVIOUS
  <1>0. ToSet(main) \subseteq ToSet(main')
    BY MainGrows
  <1>1. CASE Look \/ TidyFold \/ TidyPlans \/ TidyReports
    BY <1>1, LookKeeps, FoldKeeps, RemovesKeep
  <1>2. CASE TidyDelete \/ TidyPrune
    <2>1. /\ Looked /\ UNCHANGED shelved
          /\ \E to \in {"worktrees", "specs", "journal"} : tidy' = [tidy EXCEPT !.at = to]
      BY <1>2 DEF TidyDelete, TidyPrune, TidyGoes, Looked, Idle, around, records
    <2> QED
      BY <1>0, <2>1, ShelfStays
  <1>3. CASE TidyRecheck \/ TidyRemove \/ KillTidy
    <2>1. /\ tidy' = Idle \/ (tidy'.at = "removing" /\ DOMAIN tidy' = {"at", "found", "live"})
          /\ UNCHANGED shelved
      BY <1>3 DEF TidyRecheck, TidyRemove, KillTidy, around, records
    <2> QED
      BY <1>0, <2>1, ShelfStays
  <1>4. CASE OnTheRecords
    <2>1. CASE Keeps
      BY <1>4, <2>1, KeepsKeep DEF OnTheRecords, refs
    <2>2. CASE Writes /\ UNCHANGED shelved
      BY <1>0, <1>4, <2>2, ShelfStays DEF OnTheRecords
    <2> QED
      BY <1>4, <2>1, <2>2 DEF OnTheRecords
  <1>5. CASE UNCHANGED <<shelved, tidy>>
    BY <1>0, <1>5, ShelfStays
  <1>6. Apply => UNCHANGED <<shelved, tidy>>
    BY DEF Apply, Start, Archive, Fetch, Rebase, Recheck, Test, Tested, GateLocally, MergeThere,
           CheckOut, MergeHere, Push, Arrive, Refresh, Delete, around, records
  <1>7. People => UNCHANGED <<shelved, tidy>>
    BY DEF People, Edit, CommitEdit, SwitchBack, Review, EndSession, StartSession, EditThere, PushBranch, LandOther,
           around, records
  <1>8. Kill \/ PruneByHand("prune") \/ PruneByHand("stage") \/ PruneGoesOn \/ UNCHANGED vars
           => UNCHANGED <<shelved, tidy>>
    BY DEF Kill, PruneByHand, PruneGoesOn, vars, around, records
  <1> QED
    BY <1>1, <1>2, <1>3, <1>4, <1>5, <1>6, <1>7, <1>8 DEF Next, Tidies

LEMMA RecordsInvariant == Spec => []RecordsInv
  BY FinishInvariant, InitRecords, NextKeepsRecords, PTL DEF Spec

-----------------------------------------------------------------------------
(* What the clone and origin's main hold, and what tidy takes.               *)

LEMMA LocalGrows ==
    ASSUME FinishInv, [Next]_vars
    PROVE  ToSet(local) \subseteq ToSet(local')
  <1>0. local \in Histories /\ branch \in Histories /\ tracked \in Histories
    BY DEF FinishInv, RefsOK
  <1>1. CASE UNCHANGED local
    BY <1>1
  <1>2. CASE MergeThere \/ MergeHere \/ Refresh
    BY <1>0, <1>2, FastForwardGrows DEF MergeThere, MergeHere, Refresh
  <1>3. ASSUME NEW p \in Patches, UNCHANGED local \/ local' = Append(local, Commit(p))
        PROVE  ToSet(local) \subseteq ToSet(local')
    BY <1>0, <1>3, CommitIsOne, AppendGrows
  <1>4. Apply => UNCHANGED local \/ MergeThere \/ MergeHere \/ Refresh
    BY DEF Apply, Start, Archive, Fetch, Rebase, Recheck, Test, Tested, GateLocally, CheckOut, Push,
           Arrive, Delete, refs
  <1>5. People => UNCHANGED local \/ \E p \in Patches : local' = Append(local, Commit(p))
    BY DEF People, Edit, CommitEdit, SwitchBack, Review, EndSession, StartSession, EditThere,
           PushBranch, LandOther, Patches, refs
  <1>6. Next \/ UNCHANGED vars => UNCHANGED local \/ Apply \/ People
    BY DEF Next, Tidies, Look, TidyDelete, TidyPrune, TidyFold, TidyPlans, TidyReports, TidyRecheck,
           TidyRemove, KillTidy, Kill, PruneByHand, PruneGoesOn, OnTheRecords, vars, refs
  <1> QED
    BY <1>1, <1>2, <1>3, <1>4, <1>5, <1>6

LEMMA BranchStays ==
    ASSUME FinishInv, [Next]_vars
    PROVE  Content(branch) \subseteq Content(branch') \cup Content(local')
  <1>0. local \in Histories /\ branch \in Histories /\ Upstream \in Histories
    BY DEF FinishInv, RefsOK, Upstream, Remote
  <1>1. CASE UNCHANGED branch
    BY <1>1
  <1>2. CASE Rebase
    BY <1>0, <1>2, RebaseLosesNothing DEF Rebase
  <1>3. CASE Delete
    <2>1. UNCHANGED branch \/ (Contained(branch, local) /\ UNCHANGED local)
      BY <1>3 DEF Delete
    <2> QED
      BY <1>0, <2>1, ContainedContent DEF Contained
  <1>4. ASSUME NEW p \in Patches, UNCHANGED branch \/ branch' = Append(branch, Commit(p))
        PROVE  Content(branch) \subseteq Content(branch') \cup Content(local')
    BY <1>0, <1>4, CommitIsOne, ContentOfAppend
  <1>5. Apply => UNCHANGED branch \/ Rebase \/ Delete \/ \E p \in Patches : branch' = Append(branch, Commit(p))
    BY DEF Apply, Start, Archive, Fetch, Recheck, Test, Tested, GateLocally, MergeThere, CheckOut,
           MergeHere, Push, Arrive, Refresh, Patches, refs
  <1>6. People => UNCHANGED branch \/ \E p \in Patches : branch' = Append(branch, Commit(p))
    BY DEF People, Edit, CommitEdit, SwitchBack, Review, EndSession, StartSession, EditThere,
           PushBranch, LandOther, Patches, refs
  <1>7. Next \/ UNCHANGED vars => UNCHANGED branch \/ Apply \/ People
    BY DEF Next, Tidies, Look, TidyDelete, TidyPrune, TidyFold, TidyPlans, TidyReports, TidyRecheck,
           TidyRemove, KillTidy, Kill, PruneByHand, PruneGoesOn, OnTheRecords, vars, refs
  <1> QED
    BY <1>1, <1>2, <1>3, <1>4, <1>5, <1>6, <1>7

(* No patch is lost.                                                        *)
LEMMA SecuredGrows == FinishInv /\ FinishInv' /\ [Next]_vars => Secured \subseteq Secured'
  <1> SUFFICES ASSUME FinishInv, FinishInv', [Next]_vars PROVE Secured \subseteq Secured'
    OBVIOUS
  <1>1. /\ main \in Histories /\ local \in Histories
        /\ main' \in Histories /\ local' \in Histories
    BY DEF FinishInv, RefsOK
  <1>2. Content(main) \subseteq Content(main') /\ Content(local) \subseteq Content(local')
    BY <1>1, MainGrows, LocalGrows, ContainedContent
  <1> QED
    BY <1>2, BranchStays DEF Secured

(* Who touches the checkout.                                                *)
LEMMA HereSteps ==
    ASSUME Next
    PROVE  \/ CheckOut \/ Edit \/ SwitchBack \/ EndSession \/ StartSession \/ TidyRemove
           \/ \E p \in Work : CommitEdit(p)
           \/ UNCHANGED here
  <1>1. Apply => CheckOut \/ UNCHANGED here
    BY DEF Apply, Start, Archive, Fetch, Rebase, Recheck, Test, Tested, GateLocally, MergeThere,
           MergeHere, Push, Arrive, Refresh, Delete
  <1>2. People => \/ Edit \/ SwitchBack \/ EndSession \/ StartSession
                  \/ \E p \in Work : CommitEdit(p)
                  \/ UNCHANGED here
    BY DEF People, Review, EditThere, PushBranch, LandOther
  <1>3. Tidies \/ Kill => TidyRemove \/ UNCHANGED here
    BY DEF Tidies, Look, TidyDelete, TidyPrune, TidyFold, TidyPlans, TidyReports, TidyRecheck,
           KillTidy, Kill
  <1>4. PruneByHand("prune") \/ PruneByHand("stage") \/ PruneGoesOn \/ OnTheRecords => UNCHANGED here
    BY DEF PruneByHand, PruneGoesOn, OnTheRecords
  <1> QED
    BY <1>1, <1>2, <1>3, <1>4 DEF Next

EditSpared == here.on # "gone" /\ here.dirty =>
                 /\ here'.on # "gone"
                 /\ here'.dirty \/ Secured' # Secured

(* An edit goes only into a commit.                                         *)
LEMMA EditsStay == FinishInv /\ Next => EditSpared
  <1> SUFFICES ASSUME FinishInv, Next, here.on # "gone", here.dirty PROVE EditSpared
    BY DEF EditSpared
  <1>0. here \in [on : {"branch", "main", "gone"}, dirty : BOOLEAN, live : BOOLEAN]
    BY DEF FinishInv, RefsOK
  <1>1. CASE CheckOut \/ Edit \/ SwitchBack \/ EndSession \/ StartSession \/ TidyRemove \/ UNCHANGED here
    <2>1. here'.on # "gone" /\ here'.dirty
      BY <1>0, <1>1 DEF CheckOut, Edit, SwitchBack, EndSession, StartSession, TidyRemove
    <2> QED
      BY <2>1 DEF EditSpared
  <1>2. ASSUME NEW p \in Work, CommitEdit(p) PROVE EditSpared
    <2>1. here'.on = here.on /\ p \notin Secured
      BY <1>0, <1>2 DEF CommitEdit, AllPatches, Secured
    <2>2. Commit(p) \in Commits /\ Commit(p).p = p /\ branch \in Histories /\ local \in Histories
      BY CommitIsOne DEF FinishInv, RefsOK, Patches
    <2>3. p \in Content(branch') \/ p \in Content(local')
      BY <1>2, <2>2, ContentOfAppend DEF CommitEdit
    <2>4. p \in Secured'
      BY <2>3 DEF Secured
    <2> QED
      BY <2>1, <2>4 DEF EditSpared
  <1> QED
    BY <1>1, <1>2, HereSteps

(* Between the second look and the removal main only grows.                 *)
LEMMA NextKeepsRemoving == FinishInv /\ RecordsInv /\ RemovingInv /\ [Next]_vars => RemovingInv'
  <1> SUFFICES ASSUME FinishInv, RecordsInv, RemovingInv, [Next]_vars, tidy'.at = "removing"
               PROVE  (~tidy.live /\ Contained(tidy.found, Integration))'
    BY DEF RemovingInv
  <1>0. ToSet(Integration) \subseteq ToSet(Integration')
    <2>1. world' = world
      BY DEF Next, Apply, Start, Archive, Fetch, Rebase, Recheck, Test, Tested, GateLocally, MergeThere,
             CheckOut, MergeHere, Push, Arrive, Refresh, Delete, People, Edit, CommitEdit, SwitchBack, Review,
             EndSession, StartSession, EditThere, PushBranch, LandOther, Tidies, Look, TidyDelete, TidyPrune,
             TidyFold, TidyPlans, TidyReports, TidyRecheck, TidyRemove, KillTidy, Kill, PruneByHand,
             PruneGoesOn, OnTheRecords, vars, around
    <2> QED
      BY <2>1, MainGrows, LocalGrows DEF Integration, Remote
  <1>1. CASE UNCHANGED tidy
    BY <1>0, <1>1 DEF RemovingInv, Contained
  <1>2. CASE TidyRecheck
    <2>1. StillSpare /\ tidy' = [at |-> "removing", found |-> branch, live |-> here.live]
      BY <1>2 DEF TidyRecheck, Idle
    <2>2. ~here.live /\ Contained(branch, Upstream)
      BY <2>1 DEF StillSpare, Spare
    <2>3. Contained(branch, Integration)
      BY <2>2 DEF FinishInv, LineInv, Contained, Upstream, Integration, Remote
    <2> QED
      BY <1>0, <2>1, <2>2, <2>3 DEF Contained
  <1>3. Apply \/ People \/ Kill => UNCHANGED tidy
    BY DEF Apply, Start, Archive, Fetch, Rebase, Recheck, Test, Tested, GateLocally, MergeThere,
           CheckOut, MergeHere, Push, Arrive, Refresh, Delete, People, Edit, CommitEdit, SwitchBack, Review,
           EndSession, StartSession, EditThere, PushBranch, LandOther, Kill
  <1>4. Tidies => TidyRecheck
    <2>1. tidy # Idle => \A to : to # "removing" => [tidy EXCEPT !.at = to].at # "removing"
      BY DEF RecordsInv, TidyOK
    <2>2. TidyDelete \/ TidyPrune \/ TidyFold \/ TidyPlans \/ TidyReports
          => tidy # Idle /\ \E to : to # "removing" /\ tidy' = [tidy EXCEPT !.at = to]
      <3>1. TidyDelete => tidy # Idle /\ TidyGoes(IF NothingToPrune THEN "worktrees" ELSE "specs")
        BY DEF TidyDelete, Idle
      <3>2. TidyPrune \/ TidyFold \/ TidyPlans \/ TidyReports
            => tidy # Idle /\ \E to \in {"journal", "shards", "archive", "reports", "worktrees"} : TidyGoes(to)
        BY DEF TidyPrune, TidyFold, TidyPlans, TidyReports, Idle
      <3> QED
        BY <3>1, <3>2 DEF TidyGoes
    <2>3. Look \/ TidyRemove \/ KillTidy => tidy'.at # "removing"
      BY DEF Look, TidyRemove, KillTidy, Idle
    <2> QED
      BY <2>1, <2>2, <2>3 DEF Tidies
  <1>5. PruneByHand("prune") \/ PruneByHand("stage") \/ PruneGoesOn \/ OnTheRecords \/ UNCHANGED vars
           => UNCHANGED tidy
    BY DEF PruneByHand, PruneGoesOn, OnTheRecords, vars
  <1> QED
    BY <1>1, <1>2, <1>3, <1>4, <1>5 DEF Next

LEMMA RemovingInvariant == Spec => []RemovingInv
  <1>1. Init => RemovingInv
    BY DEF Init, RemovingInv, Idle
  <1> QED
    BY FinishInvariant, RecordsInvariant, <1>1, NextKeepsRemoving, PTL DEF Spec

SparesWork ==
    /\ Secured \subseteq Secured'
    /\ EditSpared
    /\ here'.on = "gone" /\ here.on # "gone" => ~tidy.live /\ Contained(tidy.found, Integration)
    /\ tidy.at = "looked" /\ tidy'.at # "looked" /\ theirs' # theirs => Contained(tidy.saw, main)

(* No patch and no edit of this clone is lost, and what tidy takes was at   *)
(* rest and merged when it looked: for any histories, and whatever is       *)
(* edited, committed, pushed, merged or begun between its looks and its     *)
(* removals. What a mate pushes to the branch after the look is not spared. *)
THEOREM TidyLosesNoWork == Spec => TidySparesWork
  <1>1. /\ FinishInv /\ FinishInv' /\ RecordsInv /\ RemovingInv /\ [Next]_vars
        => [SparesWork]_vars
    <2> SUFFICES ASSUME FinishInv, FinishInv', RecordsInv, RemovingInv, Next PROVE SparesWork
      BY DEF SparesWork
    <2>1. ASSUME theirs' # theirs, tidy.at = "looked", tidy'.at # "looked"
          PROVE  Contained(tidy.saw, main)
      <3>1. tidy' # tidy
        BY <2>1
      <3>2. Tidies
        BY <3>1 DEF Next, Apply, Start, Archive, Fetch, Rebase, Recheck, Test, Tested, GateLocally,
                    MergeThere, CheckOut, MergeHere, Push, Arrive, Refresh, Delete, People, Edit, CommitEdit,
                    SwitchBack, Review, EndSession, StartSession, EditThere, PushBranch, LandOther, Kill,
                    PruneByHand, PruneGoesOn, OnTheRecords
      <3>3. TidyDelete
        BY <2>1, <3>2 DEF Tidies, Look, TidyPrune, TidyFold, TidyPlans, TidyReports, TidyRecheck,
                          TidyRemove, KillTidy, Idle, refs
      <3>4. tidy.delete /\ Looked
        BY <2>1, <3>3 DEF TidyDelete, Looked, Idle
      <3> QED
        BY <3>4 DEF RecordsInv, TidyInv
    <2>2. ASSUME here'.on = "gone", here.on # "gone"
          PROVE  ~tidy.live /\ Contained(tidy.found, Integration)
      <3>1. here \in [on : {"branch", "main", "gone"}, dirty : BOOLEAN, live : BOOLEAN]
        BY DEF FinishInv, RefsOK
      <3>2. TidyRemove
        BY <2>2, <3>1, HereSteps DEF CheckOut, Edit, SwitchBack, EndSession, StartSession, CommitEdit
      <3> QED
        BY <3>2 DEF TidyRemove, RemovingInv
    <2>3. Secured \subseteq Secured' /\ EditSpared
      BY SecuredGrows, EditsStay
    <2> QED
      BY <2>1, <2>2, <2>3 DEF SparesWork
  <1> QED
    BY FinishInvariant, RecordsInvariant, RemovingInvariant, <1>1, PTL
       DEF Spec, TidySparesWork, SparesWork, EditSpared

(* Who touches the records: tidy, and the people.                           *)
LEMMA RecordSteps ==
    ASSUME Next
    PROVE  TidyFold \/ TidyPlans \/ TidyReports \/ (OnTheRecords /\ Keeps) \/ UNCHANGED shelved
  <1>1. Apply => UNCHANGED shelved
    BY DEF Apply, Start, Archive, Fetch, Rebase, Recheck, Test, Tested, GateLocally, MergeThere,
           CheckOut, MergeHere, Push, Arrive, Refresh, Delete, around, records
  <1>2. People => UNCHANGED shelved
    BY DEF People, Edit, CommitEdit, SwitchBack, Review, EndSession, StartSession, EditThere, PushBranch, LandOther,
           around, records
  <1>3. Look \/ TidyDelete \/ TidyPrune \/ TidyRecheck \/ TidyRemove \/ KillTidy \/ Kill => UNCHANGED shelved
    BY DEF Look, TidyDelete, TidyPrune, TidyRecheck, TidyRemove, KillTidy, Kill, around, records
  <1>4. PruneByHand("prune") \/ PruneByHand("stage") \/ PruneGoesOn => UNCHANGED shelved
    BY DEF PruneByHand, PruneGoesOn
  <1>5. OnTheRecords => Keeps \/ UNCHANGED shelved
    BY DEF OnTheRecords
  <1> QED
    BY <1>1, <1>2, <1>3, <1>4, <1>5 DEF Next, Tidies

SparesRecords ==
    /\ \A r \in Report : report[r].disk # 0 /\ report'[r].disk = 0 =>
          report[r].disk = report[r].head \/ report[r].disk # tidy.disk[r]
    /\ \A w \in Items : journal'.today = journal.today => Stands(w)' = Stands(w)
    /\ tidy.at = "reports" /\ tidy'.at = "worktrees" =>
          \A w \in tidy.open : NextRoundReads(w)' = NextRoundReads(w)

LEMMA RemovedAreInHead ==
    ASSUME RecordsInv, Next, NEW r \in Report, report[r].disk # 0, report'[r].disk = 0
    PROVE  report[r].disk = report[r].head \/ report[r].disk # tidy.disk[r]
  <1>1. TidyReports
    <2>1. report' # report
      OBVIOUS
    <2>2. ~(OnTheRecords /\ Keeps)
      BY DEF Keeps, WriteReport, StageReport, CommitReports, Attest, Replan, RecordsInv, RecordsOK, Entry
    <2>3. ~TidyPlans /\ ~TidyFold
      BY <2>1 DEF TidyPlans, RemovePlans, TidyFold, FoldLines, DropShards, shelved
    <2> QED
      BY <2>1, <2>2, <2>3, RecordSteps DEF shelved
  <1>2. r \in tidy.reports /\ GitRemoves(r)
    BY <1>1 DEF TidyReports, RemoveReports
  <1>3. Looked
    BY <1>1 DEF TidyReports, Looked, Idle
  <1>4. report[r].hidden => report[r].head = tidy.disk[r]
    BY <1>2, <1>3 DEF RecordsInv, TidyInv, Spared
  <1> QED
    BY <1>2, <1>4 DEF GitRemoves

LEMMA LinesStand ==
    ASSUME RecordsInv, Next, journal'.today = journal.today
    PROVE  Lines' = Lines
  <1>1. CASE TidyFold
    BY <1>1, FoldKeeps
  <1>2. ~TidyFold => UNCHANGED journal
    <2>1. TidyPlans \/ TidyReports => UNCHANGED journal
      BY DEF TidyPlans, TidyReports, RemovePlans, RemoveReports
    <2>2. Keeps => UNCHANGED journal
      BY DEF Keeps, WriteReport, StageReport, CommitReports, Attest, Replan, RecordsInv, RecordsOK
    <2> QED
      BY <2>1, <2>2, RecordSteps DEF shelved
  <1> QED
    BY <1>1, <1>2 DEF Lines

LEMMA PriorsStay ==
    ASSUME RecordsInv, Next, tidy.at = "reports", tidy'.at = "worktrees", NEW w \in tidy.open
    PROVE  Prior(w)' = Prior(w)
  <1>1. TidyReports
    <2>1. tidy' # tidy
      OBVIOUS
    <2>2. ~Apply /\ ~People
      BY <2>1 DEF Apply, Start, Archive, Fetch, Rebase, Recheck, Test, Tested, GateLocally,
                  MergeThere, CheckOut, MergeHere, Push, Arrive, Refresh, Delete, People, Edit, CommitEdit,
                  SwitchBack, Review, EndSession, StartSession, EditThere, PushBranch, LandOther
    <2>3. Tidies
      BY <2>1, <2>2 DEF Next, Kill, PruneByHand, PruneGoesOn, OnTheRecords
    <2> QED
      BY <2>3 DEF Tidies, Look, TidyDelete, TidyPrune, TidyFold, TidyPlans, TidyRecheck, TidyRemove, KillTidy, Idle
  <1>2. Looked
    BY <1>1 DEF TidyReports, Looked, Idle
  <1>3. \A r \in Report : r \notin tidy.reports => report'[r] = report[r]
    BY <1>1 DEF TidyReports, RemoveReports, RecordsInv, RecordsOK
  <1>4. \A r \in Report : report'[r].disk # 0 => report[r].disk # 0
    BY <1>1 DEF TidyReports, RemoveReports, RecordsInv, RecordsOK, Entry
  <1>5. ASSUME NEW r \in tidy.reports
        PROVE  /\ Shelf[r].by # "none" /\ Shelf[r].of # w /\ Shelf[r].name # w
    BY <1>2 DEF RecordsInv, TidyInv, Spared
  <1> QED
    BY <1>3, <1>4, <1>5 DEF Prior, OnDisk

(* What tidy does to the records can be had back or is not needed: for any  *)
(* shelf, reports and lines, with people writing, staging, committing and   *)
(* attesting between its look and its removes, and kills between its steps. *)
THEOREM TidyLosesNoRecord == Spec => TidySparesRecords
  <1>1. RecordsInv /\ [Next]_vars => [SparesRecords]_vars
    <2> SUFFICES ASSUME RecordsInv, Next PROVE SparesRecords
      BY DEF SparesRecords
    <2>1. \A r \in Report : report[r].disk # 0 /\ report'[r].disk = 0 =>
             report[r].disk = report[r].head \/ report[r].disk # tidy.disk[r]
      BY RemovedAreInHead
    <2>2. \A w \in Items : journal'.today = journal.today => Stands(w)' = Stands(w)
      BY LinesStand DEF Stands
    <2>3. tidy.at = "reports" /\ tidy'.at = "worktrees" =>
             \A w \in tidy.open : NextRoundReads(w)' = NextRoundReads(w)
      BY PriorsStay DEF NextRoundReads
    <2> QED
      BY <2>1, <2>2, <2>3 DEF SparesRecords
  <1> QED
    BY RecordsInvariant, <1>1, PTL DEF Spec, TidySparesRecords, SparesRecords

-----------------------------------------------------------------------------
(* The specification and its pruner.                                        *)

LEMMA FilesAre ==
    /\ SpecFiles \in Seq(SpecFile) /\ SpecFiles # <<>>
    /\ <<Head(SpecFiles)>> \in Seq(SpecFile)
    /\ \A f \in SpecFile : \E i \in DOMAIN SpecFiles : f = SpecFiles[i]
  <1>1. SpecFiles \in Seq(SpecFile)
    <2>1. SpecFiles \in Seq(DOMAIN Parts)
      BY FilesAssumption
    <2>2. \A i \in 1..Len(SpecFiles) : SpecFiles[i] \in SpecFile
      BY <2>1 DEF SpecFile
    <2> QED
      BY <2>1, <2>2
  <1> QED
    BY <1>1, FilesAssumption DEF SpecFile

LEMMA InitPrune == Init => PruneInv
  <1> SUFFICES ASSUME Init PROVE PruneInv
    OBVIOUS
  <1>1. spec \in Specification
    <2>1. CASE BranchLife
      BY <2>1 DEF BranchLife, NoSpec, Specification
    <2>2. CASE RecordsLife
      BY <2>2, ShelvesAssumption DEF RecordsLife
    <2> QED
      BY <2>1, <2>2 DEF Init
  <1> QED
    BY <1>1 DEF Init, PruneInv, SpecOK, PrunerOK, PrunerInv, NoComments

LEMMA PrunerSettles ==
    ASSUME SpecOK, SpecOK', pruner' = NotRunning
    PROVE  PruneInv'
  BY DEF PruneInv, PrunerOK, PrunerInv

LEMMA JudgedKeeps ==
    ASSUME PruneInv, NEW mode \in {"prune", "stage"}, Judged(mode)
    PROVE  PruneInv'
  <1> USE DEF Judged, PruneInv
  <1> DEFINE todo == IF mode = "prune" THEN SpecFiles ELSE <<Head(SpecFiles)>>
  <1>1. /\ pruner' = [at |-> "next", mode |-> mode, still |-> TRUE, todo |-> todo]
        /\ mode = "prune" => Settled
        /\ UNCHANGED <<spec, issue>>
    BY DEF Settled
  <1>2. todo \in Seq(SpecFile)
    BY FilesAre
  <1>3. mode = "prune" => \A f \in SpecFile : \E i \in DOMAIN todo : f = todo[i]
    BY FilesAre
  <1> HIDE DEF todo
  <1>4. PrunerOK'
    <2>1. /\ pruner'.at = "next" /\ pruner'.mode = mode /\ pruner'.still = TRUE /\ pruner'.todo = todo
          /\ DOMAIN pruner' = {"at", "mode", "still", "todo"}
      BY <1>1
    <2> QED
      BY <1>2, <2>1 DEF PrunerOK
  <1>5. PrunerInv'
    BY <1>1, <1>3 DEF PrunerInv, Settled, SpecBlocked, SpecDirty
  <1> QED
    BY <1>1, <1>4, <1>5 DEF SpecOK

LEMMA ReadTextKeeps == ASSUME PruneInv, ReadText PROVE PruneInv'
  <1> USE DEF ReadText, PruneInv
  <1>0. UNCHANGED <<spec, issue>> /\ SpecOK'
    BY DEF SpecOK
  <1>1. CASE pruner' = NotRunning
    BY <1>0, <1>1, PrunerSettles
  <1>2. CASE pruner' # NotRunning
    <2>1. pruner' = [at |-> "post", mode |-> pruner.mode, still |-> pruner.still, todo |-> pruner.todo,
                     text |-> spec.disk[Head(pruner.todo)], held |-> issue.posted, part |-> 1]
      BY <1>2
    <2>2. pruner # NotRunning /\ pruner.todo \in Seq(SpecFile) /\ pruner.todo # <<>>
          /\ pruner.mode \in {"prune", "stage"} /\ pruner.still \in BOOLEAN
      BY DEF PrunerOK, NotRunning
    <2>3. Head(pruner.todo) \in SpecFile
      BY <2>2
    <2>4. spec.disk[Head(pruner.todo)] \in Nat
      BY <2>3 DEF SpecOK, Specification
    <2>5. PrunerOK'
      BY <2>1, <2>2, <2>4 DEF PrunerOK
    <2>6. PrunerInv'
      BY <1>0, <2>1, <2>2 DEF PrunerInv, Settled, SpecBlocked, SpecDirty, Published
    <2> QED
      BY <1>0, <2>5, <2>6
  <1> QED
    BY <1>1, <1>2

LEMMA PostKeeps ==
    ASSUME PruneInv, PostPart
    PROVE  PruneInv' /\ issue'.again = issue.again
  <1> USE DEF PostPart, PruneInv
  <1>1. /\ pruner # NotRunning /\ pruner.at = "post" /\ pruner.part \in Nat \ {0}
        /\ pruner' = [pruner EXCEPT !.part = @ + 1] /\ UNCHANGED spec
    BY DEF PrunerOK, NotRunning
  <1>2. /\ DOMAIN issue' = DOMAIN issue /\ issue.posted \subseteq issue'.posted
        /\ issue'.posted \subseteq issue.posted \cup {This}
        /\ ~Held(This, pruner.held) => issue'.again = issue.again \cup (issue.posted \cap {This})
        /\ Held(This, pruner.held) => issue'.again = issue.again
    BY DEF Posts, SpecOK
  <1>3. PrunerOK'
    BY <1>1 DEF PrunerOK, NotRunning
  <1>4. /\ pruner'.at = "post" /\ pruner'.part = pruner.part + 1 /\ pruner'.mode = pruner.mode
        /\ pruner'.todo = pruner.todo /\ pruner'.text = pruner.text /\ pruner'.held = pruner.held
        /\ pruner'.still = pruner.still
    BY <1>1 DEF PrunerOK, NotRunning
  <1>5. \A c \in issue'.posted :
           \/ c \in pruner'.held
           \/ \E i \in 1..pruner'.part - 1 : c = Comment(pruner'.mode, Head(pruner'.todo), pruner'.text, i)
    <2>1. \A i \in 1..pruner.part - 1 : i \in 1..pruner'.part - 1
      BY <1>1, <1>4
    <2>2. pruner.part > 0 => pruner.part \in 1..pruner'.part - 1
      BY <1>1, <1>4
    <2> QED
      BY <1>1, <1>2, <1>4, <2>1, <2>2 DEF PrunerInv, This
  <1>6. PrunerInv'
    BY <1>1, <1>2, <1>4, <1>5 DEF PrunerInv, Settled, SpecBlocked, SpecDirty, Published
  <1>7. ~Held(This, pruner.held) => This \notin issue.posted
    <2>1. \A i \in 1..pruner.part - 1 : i # pruner.part
      BY <1>1
    <2> QED
      BY <1>1, <2>1 DEF Held, PrunerInv, This, Comment
  <1> QED
    BY <1>1, <1>2, <1>3, <1>6, <1>7 DEF SpecOK

LEMMA FailsKeeps ==
    ASSUME PruneInv, PostFails
    PROVE  PruneInv' /\ issue'.again = issue.again
  <1> USE DEF PostFails, PruneInv
  <1>1. pruner # NotRunning /\ pruner.part \in Nat \ {0}
    BY DEF PrunerOK, NotRunning
  <1>2. This \notin issue.posted
    <2>1. \A i \in 1..pruner.part - 1 : i # pruner.part
      BY <1>1
    <2> QED
      BY <1>1, <2>1 DEF Held, PrunerInv, This, Comment
  <1>3. DOMAIN issue' = DOMAIN issue /\ issue'.again = issue.again
    <2>1. issue.again \cup (issue.posted \cap {This}) = issue.again
      BY <1>2
    <2>2. CASE Posts(This)
      BY <2>1, <2>2 DEF Posts, SpecOK
    <2>3. CASE UNCHANGED issue
      BY <2>3
    <2> QED
      BY <2>2, <2>3
  <1>4. SpecOK'
    BY <1>3 DEF SpecOK
  <1> QED
    BY <1>3, <1>4, PrunerSettles

LEMMA ReadBackKeeps == ASSUME PruneInv, ReadBack PROVE PruneInv'
  <1> USE DEF ReadBack, PruneInv
  <1>0. UNCHANGED <<spec, issue>> /\ SpecOK'
    BY DEF SpecOK
  <1>1. CASE pruner' = NotRunning
    BY <1>0, <1>1, PrunerSettles
  <1>2. CASE pruner' # NotRunning
    <2>1. /\ pruner' = [at |-> "next", mode |-> pruner.mode, still |-> pruner.still,
                        todo |-> Tail(pruner.todo)]
          /\ CommentsOf(pruner.mode, Head(pruner.todo), pruner.text) \subseteq issue.posted
      BY <1>2
    <2>2. /\ pruner # NotRunning /\ pruner.todo \in Seq(SpecFile) /\ pruner.todo # <<>>
          /\ pruner.mode \in {"prune", "stage"} /\ pruner.still \in BOOLEAN
      BY DEF PrunerOK, NotRunning
    <2>3. /\ Tail(pruner.todo) \in Seq(SpecFile)
          /\ \A i \in DOMAIN pruner.todo :
                \/ pruner.todo[i] = Head(pruner.todo)
                \/ i - 1 \in DOMAIN Tail(pruner.todo) /\ Tail(pruner.todo)[i - 1] = pruner.todo[i]
      BY <2>2
    <2>4. /\ pruner'.at = "next" /\ pruner'.mode = pruner.mode /\ pruner'.still = pruner.still
          /\ pruner'.todo = Tail(pruner.todo) /\ DOMAIN pruner' = {"at", "mode", "still", "todo"}
      BY <2>1
    <2>5. PrunerOK'
      BY <2>2, <2>3, <2>4 DEF PrunerOK
    <2>6. ASSUME pruner.still, pruner.mode = "prune"
          PROVE  \A f \in SpecFile : Published(f) \/ \E i \in DOMAIN pruner'.todo : f = pruner'.todo[i]
      <3>1. Published(Head(pruner.todo))
        BY <2>1, <2>2, <2>6 DEF PrunerInv, Published
      <3>2. \A f \in SpecFile : Published(f) \/ \E i \in DOMAIN pruner.todo : f = pruner.todo[i]
        BY <2>2, <2>6 DEF PrunerInv
      <3>3. ASSUME NEW f \in SpecFile, ~Published(f)
            PROVE  \E i \in DOMAIN pruner'.todo : f = pruner'.todo[i]
        <4>1. PICK i \in DOMAIN pruner.todo : f = pruner.todo[i]
          BY <3>2, <3>3
        <4>2. f # Head(pruner.todo)
          BY <3>1, <3>3
        <4>3. i - 1 \in DOMAIN Tail(pruner.todo) /\ Tail(pruner.todo)[i - 1] = f
          BY <2>3, <4>1, <4>2
        <4> QED
          BY <2>4, <4>3
      <3> QED
        BY <3>3
    <2>7. PrunerInv'
      BY <1>0, <2>2, <2>4, <2>6 DEF PrunerInv, Settled, SpecBlocked, SpecDirty, Published
    <2> QED
      BY <1>0, <2>5, <2>7
  <1> QED
    BY <1>1, <1>2

LEMMA KeepPlanKeeps == ASSUME PruneInv, KeepPlan PROVE PruneInv'
  <1> USE DEF KeepPlan, PruneInv
  <1>1. pruner # NotRunning /\ pruner.still \in BOOLEAN
    BY DEF PrunerOK, NotRunning
  <1>2. CASE pruner.mode = "prune"
    <2>1. /\ spec' = [spec EXCEPT !.kept = TRUE] /\ UNCHANGED issue
          /\ pruner' = [at |-> "remove", still |-> pruner.still]
      BY <1>2
    <2>2. SpecOK' /\ spec'.kept /\ spec'.disk = spec.disk /\ spec'.head = spec.head
             /\ spec'.lacks = spec.lacks /\ spec'.named = spec.named
      BY <2>1 DEF SpecOK, Specification
    <2>3. PrunerOK'
      BY <1>1, <2>1 DEF PrunerOK
    <2>4. pruner.still => Settled /\ \A f \in SpecFile : Published(f)
      BY <1>1, <1>2 DEF PrunerInv
    <2>5. PrunerInv'
      BY <2>1, <2>2, <2>4 DEF PrunerInv, Settled, SpecBlocked, SpecDirty, Published
    <2> QED
      BY <2>2, <2>3, <2>5
  <1>3. CASE pruner.mode # "prune"
    BY <1>3, PrunerSettles DEF SpecOK
  <1> QED
    BY <1>2, <1>3

LEMMA RemoveSpecKeeps == ASSUME PruneInv, RemoveSpec \/ PruneDies PROVE PruneInv'
  <1>1. SpecOK'
    BY DEF PruneInv, RemoveSpec, PruneDies, SpecOK, Specification
  <1> QED
    BY <1>1, PrunerSettles DEF PruneInv, RemoveSpec, PruneDies

(* The people: nothing the run knows is certain any more, but what was      *)
(* posted by whom.                                                          *)
LEMMA WritesKeep ==
    ASSUME PruneInv, Writes
    PROVE  PruneInv' /\ issue'.again = issue.again /\ spec'.there = spec.there
  <1> USE DEF PruneInv
  <1>1. /\ spec'.there = spec.there /\ spec'.kept = spec.kept
        /\ issue'.again = issue.again /\ issue'.posted \subseteq issue.posted
        /\ pruner' = Unsettled
    BY DEF Writes, WriteSpec, CommitSpec, CompletePlan, NameSpec, DropComment, SpecOK, Specification
  <1>2. SpecOK'
    <2>1. DOMAIN issue' = DOMAIN issue
      BY DEF Writes, WriteSpec, CommitSpec, CompletePlan, NameSpec, DropComment
    <2>2. spec' \in Specification
      <3>1. ASSUME NEW f \in SpecFile, WriteSpec(f) PROVE spec' \in Specification
        <4>1. [spec.disk EXCEPT ![f] = 2] \in [SpecFile -> Nat]
          BY DEF SpecOK, Specification
        <4> QED
          BY <3>1, <4>1 DEF WriteSpec, SpecOK, Specification
      <3>2. CommitSpec \/ CompletePlan \/ NameSpec => spec' \in Specification
        BY DEF CommitSpec, CompletePlan, NameSpec, SpecOK, Specification
      <3>3. ASSUME NEW c \in issue.posted, DropComment(c) PROVE spec' \in Specification
        BY <3>3 DEF DropComment, SpecOK
      <3> QED
        BY <3>1, <3>2, <3>3 DEF Writes
    <2> QED
      BY <2>1, <2>2 DEF SpecOK
  <1>3. CASE pruner = NotRunning
    BY <1>1, <1>2, <1>3, PrunerSettles DEF Unsettled
  <1>4. CASE pruner # NotRunning
    <2>1. pruner' = [pruner EXCEPT !.still = FALSE]
      BY <1>1, <1>4 DEF Unsettled
    <2>2. PrunerOK' /\ ~pruner'.still /\ pruner'.at = pruner.at
      BY <1>4, <2>1 DEF PrunerOK, NotRunning
    <2>3. pruner.at = "post" =>
             /\ pruner'.held = pruner.held /\ pruner'.part = pruner.part /\ pruner'.mode = pruner.mode
             /\ pruner'.todo = pruner.todo /\ pruner'.text = pruner.text
      BY <1>4, <2>1 DEF PrunerOK
    <2>4. PrunerInv'
      BY <1>1, <1>4, <2>2, <2>3 DEF PrunerInv
    <2> QED
      BY <1>1, <1>2, <2>2, <2>4
  <1> QED
    BY <1>3, <1>4

LEMMA PruneStays == PruneInv /\ UNCHANGED pruning => PruneInv'
  BY DEF pruning, PruneInv, SpecOK, PrunerOK, PrunerInv, Settled, SpecBlocked, SpecDirty, Published

(* Who touches the specification, its issue or its run.                     *)
LEMMA PruningSteps ==
    ASSUME Next
    PROVE  Judged("prune") \/ Judged("stage") \/ Prunes \/ Writes \/ UNCHANGED pruning
  <1>1. Apply => UNCHANGED pruning
    BY DEF Apply, Start, Archive, Fetch, Rebase, Recheck, Test, Tested, GateLocally, MergeThere,
           CheckOut, MergeHere, Push, Arrive, Refresh, Delete, around, records
  <1>2. People => UNCHANGED pruning
    BY DEF People, Edit, CommitEdit, SwitchBack, Review, EndSession, StartSession, EditThere, PushBranch, LandOther,
           around, records
  <1>3. Tidies \/ Kill => UNCHANGED pruning \/ Judged("prune")
    BY DEF Tidies, Look, TidyDelete, TidyPrune, TidyFold, TidyPlans, TidyReports, TidyRecheck, TidyRemove, KillTidy, Kill,
           around, records
  <1>4. PruneByHand("prune") \/ PruneByHand("stage") \/ PruneGoesOn \/ OnTheRecords
           => Judged("prune") \/ Judged("stage") \/ Prunes \/ Writes \/ UNCHANGED pruning
    BY DEF PruneByHand, PruneGoesOn, OnTheRecords
  <1> QED
    BY <1>1, <1>2, <1>3, <1>4 DEF Next

Kept ==
    /\ spec.there /\ ~spec'.there =>
          /\ ~SpecDirty /\ spec.kept
          /\ pruner.still =>
                /\ ~SpecBlocked
                /\ \A f \in SpecFile : CommentsOf("prune", f, spec.head[f]) \subseteq issue.posted
    /\ issue'.again = issue.again

LEMMA PruneStep == PruneInv /\ Next => PruneInv' /\ Kept
  <1> SUFFICES ASSUME PruneInv, Next PROVE PruneInv' /\ Kept
    OBVIOUS
  <1>1. CASE Judged("prune") \/ Judged("stage")
    <2>1. PruneInv'
      BY <1>1, JudgedKeeps
    <2> QED
      BY <1>1, <2>1 DEF Judged, Kept
  <1>2. CASE ReadText \/ ReadBack \/ KeepPlan \/ PruneDies
    <2>1. PruneInv'
      BY <1>2, ReadTextKeeps, ReadBackKeeps, KeepPlanKeeps, RemoveSpecKeeps
    <2>2. spec'.there = spec.there /\ UNCHANGED issue
      BY <1>2 DEF ReadText, ReadBack, KeepPlan, PruneDies, PruneInv, SpecOK, Specification
    <2> QED
      BY <2>1, <2>2 DEF Kept
  <1>3. CASE PostPart \/ PostFails
    <2>1. PruneInv' /\ issue'.again = issue.again
      BY <1>3, PostKeeps, FailsKeeps
    <2>2. UNCHANGED spec
      BY <1>3 DEF PostPart, PostFails
    <2> QED
      BY <2>1, <2>2 DEF Kept
  <1>4. CASE RemoveSpec
    <2>1. PruneInv' /\ UNCHANGED issue
      BY <1>4, RemoveSpecKeeps DEF RemoveSpec
    <2>2. pruner # NotRunning /\ pruner.at = "remove"
      BY <1>4 DEF RemoveSpec, NotRunning
    <2>3. spec.kept /\ (pruner.still => Settled /\ \A f \in SpecFile : Published(f))
      BY <2>2 DEF PruneInv, PrunerInv
    <2>4. spec.there /\ ~spec'.there => ~SpecDirty
      BY <1>4 DEF RemoveSpec
    <2> QED
      BY <2>1, <2>3, <2>4 DEF Kept, Settled, SpecDirty, Published
  <1>5. CASE Writes
    BY <1>5, WritesKeep DEF Kept
  <1>6. CASE UNCHANGED pruning
    BY <1>6, PruneStays DEF Kept, pruning
  <1> QED
    BY <1>1, <1>2, <1>3, <1>4, <1>5, <1>6, PruningSteps DEF Prunes

LEMMA PruneInvariant == Spec => []PruneInv
  <1>1. PruneInv /\ [Next]_vars => PruneInv'
    <2>1. UNCHANGED vars => UNCHANGED pruning
      BY DEF vars, around, records, pruning
    <2> QED
      BY <2>1, PruneStep, PruneStays
  <1> QED
    BY <1>1, InitPrune, PTL DEF Spec

(* A spec directory goes only as HEAD and the archive have it and, where    *)
(* nobody touched it or the issue on the way, with every file of it on the  *)
(* issue; and no run posts what it could have seen there: for any files,    *)
(* parts, denylist, kills and failed posts.                                 *)
THEOREM PruneLosesNothing == Spec => PublishedThenPruned
  <1>1. PruneInv /\ [Next]_vars => [Kept]_pruning
    <2>1. UNCHANGED vars => UNCHANGED pruning
      BY DEF vars, around, records, pruning
    <2> QED
      BY <2>1, PruneStep
  <1> QED
    BY PruneInvariant, <1>1, PTL DEF Spec, PublishedThenPruned, Kept

-----------------------------------------------------------------------------
(* The mode log of the gates: what a fold over any rows can say, by         *)
(* induction over them, and what merges do to them.                         *)
StateFields == {"mode", "since", "record", "locked", "armed", "observe"}

Folds(rows, g, shielded, defaults, n, f) ==
  f = [i \in 0..n |-> IF i = 0 THEN AtFirst(g, shielded, defaults)
                      ELSE Replays(f[i - 1], rows[i], g, shielded)]

LEMMA FoldExists ==
    ASSUME NEW rows, NEW g, NEW sh, NEW df, NEW n \in Nat
    PROVE  \E f : Folds(rows, g, sh, df, n, f)
  <1> DEFINE T == {i \in Nat : \E f : Folds(rows, g, sh, df, i, f)}
  <1>1. 0 \in T
    <2> DEFINE f == [i \in 0..0 |-> AtFirst(g, sh, df)]
    <2>1. Folds(rows, g, sh, df, 0, f)
      BY DEF Folds
    <2> QED
      BY <2>1
  <1>2. ASSUME NEW i \in T PROVE i + 1 \in T
    <2>1. PICK f : Folds(rows, g, sh, df, i, f)
      OBVIOUS
    <2> DEFINE h == [j \in 0..i + 1 |-> IF j \in 0..i THEN f[j] ELSE Replays(f[i], rows[j], g, sh)]
    <2>2. ASSUME NEW j \in 0..i + 1
          PROVE  h[j] = IF j = 0 THEN AtFirst(g, sh, df) ELSE Replays(h[j - 1], rows[j], g, sh)
      <3>1. CASE j = 0
        BY <2>1, <3>1 DEF Folds
      <3>2. CASE j \in 0..i /\ j # 0
        <4>1. j - 1 \in 0..i /\ j - 1 \in 0..i + 1
          BY <3>2
        <4>2. h[j] = f[j] /\ h[j - 1] = f[j - 1]
          BY <3>2, <4>1
        <4>3. f[j] = Replays(f[j - 1], rows[j], g, sh)
          BY <2>1, <3>2 DEF Folds
        <4> QED
          BY <3>2, <4>2, <4>3
      <3>3. CASE j = i + 1
        <4>1. j \notin 0..i /\ j # 0 /\ j - 1 = i /\ i \in 0..i /\ i \in 0..i + 1
          BY <3>3
        <4>2. h[j] = Replays(f[i], rows[j], g, sh) /\ h[j - 1] = f[i]
          BY <4>1
        <4> QED
          BY <4>1, <4>2
      <3> QED
        BY <3>1, <3>2, <3>3
    <2>3. Folds(rows, g, sh, df, i + 1, h)
      BY <2>2 DEF Folds
    <2> QED
      BY <2>3
  <1>3. T = Nat
    BY <1>1, <1>2, Induction
  <1> QED
    BY <1>3

(* What the rows up to the n-th say: a lock that stands is known, and a     *)
(* gate that does not block was weakened where no lock stood and not        *)
(* restored since, or observes and was never restored.                      *)
Restores(row, g) == row.gate = g /\ row.action = "restore"

WeakenedIn(rows, g, n) ==
  \E i \in 1..n : /\ rows[i].gate = g /\ rows[i].action = "weaken" /\ rows[i].ok
                  /\ ~LockedAt(rows, g, i)
                  /\ \A j \in i + 1..n : ~Restores(rows[j], g)

ObservedIn(rows, g, sh, df, n) == g \in df \ sh /\ \A i \in 1..n : ~Restores(rows[i], g)

Says(st, rows, g, sh, df, n) ==
  /\ DOMAIN st = StateFields
  /\ LockedAt(rows, g, n + 1) => st.locked
  /\ st.mode # "block" => g \notin sh /\ (WeakenedIn(rows, g, n) \/ ObservedIn(rows, g, sh, df, n))

LEMMA ReplayedIs ==
    ASSUME NEW st, DOMAIN st = StateFields, NEW row
    PROVE  /\ DOMAIN Replayed(st, row) = StateFields
           /\ row.action = "restore" => Replayed(st, row).mode = "block" /\ Replayed(st, row).locked = row.lock
           /\ row.action # "restore" =>
                /\ Replayed(st, row).mode = st.mode
                   \/ (row.action = "weaken" /\ row.ok /\ ~st.locked)
                /\ Replayed(st, row).locked = st.locked
                   \/ (row.action = "unlock" /\ row.ok)
  BY DEF Replayed, Lawful, StateFields

(* A lock that stands behind a row stood before it, or is the row's.        *)
LEMMA LockedBefore ==
    ASSUME NEW rows, NEW g, NEW n \in Nat, LockedAt(rows, g, n + 2)
    PROVE  \/ Restores(rows[n + 1], g) /\ rows[n + 1].lock
           \/ /\ LockedAt(rows, g, n + 1) /\ ~Restores(rows[n + 1], g)
              /\ ~(rows[n + 1].gate = g /\ rows[n + 1].action = "unlock" /\ rows[n + 1].ok)
  <1>1. PICK j \in 1..(n + 2) - 1 :
          /\ rows[j].gate = g /\ rows[j].action = "restore" /\ rows[j].lock
          /\ ~TriagedBetween(rows, g, j, n + 2)
          /\ \A k \in j + 1..(n + 2) - 1 : ~(rows[k].gate = g /\ rows[k].action = "restore")
    BY DEF LockedAt
  <1>2. CASE j = n + 1
    BY <1>1, <1>2 DEF Restores
  <1>3. CASE j # n + 1
    <2>1. j \in 1..(n + 1) - 1 /\ n + 1 \in j + 1..(n + 2) - 1
          /\ \A k \in j + 1..(n + 1) - 1 : k \in j + 1..(n + 2) - 1
      BY <1>3
    <2>2. ~TriagedBetween(rows, g, j, n + 1)
      BY <1>1, <2>1 DEF TriagedBetween
    <2>3. ~(rows[n + 1].gate = g /\ rows[n + 1].action = "unlock" /\ rows[n + 1].ok)
      BY <1>1, <2>1 DEF TriagedBetween
    <2>4. LockedAt(rows, g, n + 1)
      BY <1>1, <2>1, <2>2 DEF LockedAt
    <2> QED
      BY <1>1, <2>1, <2>3, <2>4 DEF Restores
  <1> QED
    BY <1>2, <1>3

LEMMA ReplaySays ==
    ASSUME NEW rows, NEW g, NEW sh, NEW df, NEW n \in Nat, NEW st, Says(st, rows, g, sh, df, n)
    PROVE  Says(Replays(st, rows[n + 1], g, sh), rows, g, sh, df, n + 1)
  <1> DEFINE row == rows[n + 1]
             new == Replays(st, row, g, sh)
  <1>1. (n + 1) + 1 = n + 2
    OBVIOUS
  <1>2. DOMAIN st = StateFields
    BY DEF Says
  <1>3. new = Replayed(st, row) \/ (new = st /\ ~(row.gate = g /\ row.action # "weaken"))
    BY DEF Replays
  <1>4. row.gate # g => new = st
    BY DEF Replays
  <1>5. row.gate = g /\ row.action # "weaken" => new = Replayed(st, row)
    BY DEF Replays
  <1>6. new # st /\ row.action = "weaken" => g \notin sh
    BY DEF Replays
  <1>0. /\ DOMAIN Replayed(st, row) = StateFields
        /\ row.action = "restore" => Replayed(st, row).mode = "block" /\ Replayed(st, row).locked = row.lock
        /\ row.action # "restore" =>
             /\ Replayed(st, row).mode = st.mode
                \/ (row.action = "weaken" /\ row.ok /\ ~st.locked)
             /\ Replayed(st, row).locked = st.locked
                \/ (row.action = "unlock" /\ row.ok)
    BY <1>2, ReplayedIs
  <1> HIDE DEF new
  <1>7. DOMAIN new = StateFields
    BY <1>0, <1>2, <1>3
  <1>8. ASSUME LockedAt(rows, g, n + 2) PROVE new.locked
    <2>1. CASE Restores(row, g) /\ row.lock
      BY <1>0, <1>5, <2>1 DEF Restores
    <2>2. CASE /\ LockedAt(rows, g, n + 1) /\ ~Restores(row, g)
               /\ ~(row.gate = g /\ row.action = "unlock" /\ row.ok)
      <3>1. st.locked
        BY <2>2 DEF Says
      <3>2. row.gate = g \/ new = st
        BY <1>4
      <3>3. CASE new = st
        BY <3>1, <3>3
      <3>4. CASE new = Replayed(st, row) /\ row.gate = g
        <4>1. row.action # "restore" /\ ~(row.action = "unlock" /\ row.ok)
          BY <2>2, <3>4 DEF Restores
        <4>2. Replayed(st, row).locked = st.locked
          BY <1>0, <4>1
        <4> QED
          BY <3>1, <3>4, <4>2
      <3> QED
        BY <1>3, <3>2, <3>3, <3>4
    <2> QED
      BY <1>8, <2>1, <2>2, LockedBefore
  <1>9. ASSUME new.mode # "block"
        PROVE  g \notin sh /\ (WeakenedIn(rows, g, n + 1) \/ ObservedIn(rows, g, sh, df, n + 1))
    <2>1. ~Restores(row, g)
      BY <1>0, <1>5, <1>9 DEF Restores
    <2>2. CASE new.mode = st.mode
      <3>1. g \notin sh /\ (WeakenedIn(rows, g, n) \/ ObservedIn(rows, g, sh, df, n))
        BY <1>9, <2>2 DEF Says
      <3>2. CASE WeakenedIn(rows, g, n)
        <4>1. PICK i \in 1..n : /\ rows[i].gate = g /\ rows[i].action = "weaken" /\ rows[i].ok
                                /\ ~LockedAt(rows, g, i)
                                /\ \A j \in i + 1..n : ~Restores(rows[j], g)
          BY <3>2 DEF WeakenedIn
        <4>2. i \in 1..n + 1 /\ \A j \in i + 1..n + 1 : j \in i + 1..n \/ j = n + 1
          OBVIOUS
        <4>3. \A j \in i + 1..n + 1 : ~Restores(rows[j], g)
          BY <2>1, <4>1, <4>2
        <4> QED
          BY <3>1, <4>1, <4>2, <4>3 DEF WeakenedIn
      <3>3. CASE ObservedIn(rows, g, sh, df, n)
        <4>1. \A j \in 1..n + 1 : j \in 1..n \/ j = n + 1
          OBVIOUS
        <4> QED
          BY <2>1, <3>1, <3>3, <4>1 DEF ObservedIn
      <3> QED
        BY <3>1, <3>2, <3>3
    <2>3. CASE new.mode # st.mode
      <3>1. new # st /\ new = Replayed(st, row) /\ row.gate = g
        BY <1>3, <1>4, <2>3
      <3>2. row.action # "restore"
        BY <2>1, <3>1 DEF Restores
      <3>3. row.action = "weaken" /\ row.ok /\ ~st.locked
        BY <1>0, <2>3, <3>1, <3>2
      <3>4. g \notin sh /\ ~LockedAt(rows, g, n + 1)
        BY <1>6, <3>1, <3>3 DEF Says
      <3>5. n + 1 \in 1..n + 1 /\ (n + 1) + 1..n + 1 = {}
        OBVIOUS
      <3>6. WeakenedIn(rows, g, n + 1)
        BY <3>1, <3>3, <3>4, <3>5 DEF WeakenedIn
      <3> QED
        BY <3>4, <3>6
    <2> QED
      BY <2>2, <2>3
  <1> QED
    BY <1>1, <1>7, <1>8, <1>9 DEF Says, new

LEMMA FoldSays ==
    ASSUME NEW rows, Len(rows) \in Nat, NEW g, NEW sh, NEW df
    PROVE  Says(Fold(rows, g, sh, df), rows, g, sh, df, Len(rows))
  <1> DEFINE N == Len(rows)
             f == CHOOSE h : Folds(rows, g, sh, df, N, h)
             T == {i \in Nat : i <= N => Says(f[i], rows, g, sh, df, i)}
  <1>1. Folds(rows, g, sh, df, N, f)
    BY FoldExists
  <1>2. Fold(rows, g, sh, df) = f[N]
    BY DEF Fold, Folds
  <1> HIDE DEF f, N
  <1>3. N \in Nat
    BY DEF N
  <1>4. f[0] = AtFirst(g, sh, df) /\ \A i \in 0..N : i # 0 => f[i] = Replays(f[i - 1], rows[i], g, sh)
    BY <1>1, <1>3 DEF Folds
  <1>5. 0 \in T
    <2>1. DOMAIN f[0] = StateFields
      BY <1>4 DEF AtFirst, Observing, Fresh, StateFields
    <2>2. ~LockedAt(rows, g, 0 + 1)
      BY DEF LockedAt
    <2>3. f[0].mode # "block" => g \in df \ sh
      BY <1>4 DEF AtFirst, Fresh
    <2>4. f[0].mode # "block" => ObservedIn(rows, g, sh, df, 0)
      BY <2>3 DEF ObservedIn
    <2> QED
      BY <2>1, <2>2, <2>3, <2>4 DEF Says
  <1>6. ASSUME NEW i \in T PROVE i + 1 \in T
    <2>1. SUFFICES ASSUME i + 1 <= N PROVE Says(f[i + 1], rows, g, sh, df, i + 1)
      OBVIOUS
    <2>2. i \in Nat /\ i + 1 \in 0..N /\ i + 1 # 0 /\ (i + 1) - 1 = i /\ i <= N
      BY <1>3, <2>1
    <2>3. Says(f[i], rows, g, sh, df, i)
      BY <2>2
    <2>4. f[i + 1] = Replays(f[i], rows[i + 1], g, sh)
      BY <1>4, <2>2
    <2> QED
      BY <2>2, <2>3, <2>4, ReplaySays
  <1>7. T = Nat
    BY <1>5, <1>6, Induction
  <1>8. Says(f[N], rows, g, sh, df, N)
    BY <1>3, <1>7
  <1> QED
    BY <1>2, <1>8 DEF N

(* Every row of the log is one its writers can write: a restore carries no  *)
(* reason to be skipped, and the sentinel's locks. A branch has every row   *)
(* of the integration branch it holds.                                      *)
LogRows == {row \in Row : /\ row.action = "restore" => row.ok
                          /\ row.by = "sentinel" => row.action = "restore" /\ row.lock}
Logs == Seq(LogRows)
Trees == [rows : Logs, own : SUBSET Gates, prot : SUBSET Gates]

ModesInv ==
  /\ base \in Trees /\ tree \in [Branches -> Trees] /\ fork \in [Branches -> Trees] /\ now \in Nat
  /\ \A b \in Branches : ToSet(fork[b].rows) \subseteq ToSet(tree[b].rows)

LEMMA LogLines ==
    ASSUME NEW rows \in Logs
    PROVE  /\ Len(rows) \in Nat /\ DOMAIN rows = 1..Len(rows) /\ rows \in [1..Len(rows) -> LogRows]
           /\ \A i \in 1..Len(rows) : rows[i] \in LogRows /\ rows[i] \in ToSet(rows)
           /\ \A row \in ToSet(rows) : \E i \in 1..Len(rows) : row = rows[i]
           /\ ToSet(rows) \subseteq LogRows /\ IsFiniteSet(ToSet(rows))
  <1>1. Len(rows) \in Nat /\ DOMAIN rows = 1..Len(rows) /\ rows \in [1..Len(rows) -> LogRows]
    BY DEF Logs
  <1>2. /\ \A i \in 1..Len(rows) : rows[i] \in LogRows /\ rows[i] \in ToSet(rows)
        /\ \A row \in ToSet(rows) : \E i \in 1..Len(rows) : row = rows[i]
    BY <1>1 DEF ToSet
  <1>3. rows \in [1..Len(rows) -> ToSet(rows)]
    BY <1>1, <1>2
  <1>4. rows \in Surjection(1..Len(rows), ToSet(rows))
    BY <1>2, <1>3 DEF Surjection
  <1>5. IsFiniteSet(1..Len(rows))
    BY <1>1, FS_Interval
  <1>6. IsFiniteSet(ToSet(rows))
    BY <1>4, <1>5, FS_Surjection
  <1> QED
    BY <1>1, <1>2, <1>6

(* A sequence given place by place.                                         *)
LEMMA LogOfPlaces ==
    ASSUME NEW n \in Nat, NEW rows \in [1..n -> LogRows]
    PROVE  rows \in Logs
  BY SeqDef DEF Logs

(* Whoever resolves a conflict loses no row and adds none.                  *)
LEMMA JoinsKeep ==
    ASSUME NEW ours \in Logs, NEW others \in Logs, NEW joined \in Joins(ours, others)
    PROVE  joined \in Logs /\ ToSet(joined) = ToSet(ours) \cup ToSet(others)
  <1> DEFINE lines == ToSet(ours) \cup ToSet(others)
             n == Cardinality(lines)
             rest == OnlyIn(others, ours)
  <1>1. lines \subseteq LogRows /\ IsFiniteSet(lines)
    BY LogLines, FS_Union
  <1>2. n \in Nat
    BY <1>1, FS_CardinalityType
  <1>3. PICK at \in kSubset(Len(ours), 1..n) : joined = Shuffled(ours, rest, at, 1..n)
    BY DEF Joins
  <1>4. ToSet(joined) = lines
    BY DEF Joins
  <1> HIDE DEF lines, n, rest
  <1>5. DOMAIN joined = 1..n /\ joined = [i \in 1..n |-> joined[i]]
    BY <1>3 DEF Shuffled
  <1>6. \A i \in 1..n : joined[i] \in LogRows
    BY <1>1, <1>4, <1>5 DEF ToSet
  <1>7. joined \in [1..n -> LogRows]
    BY <1>5, <1>6
  <1> QED
    BY <1>2, <1>4, <1>7, LogOfPlaces DEF lines

LEMMA AppendsKeep ==
    ASSUME NEW rows \in Logs, NEW row \in LogRows
    PROVE  Append(rows, row) \in Logs /\ ToSet(rows) \subseteq ToSet(Append(rows, row))
  <1> DEFINE new == Append(rows, row)
  <1>1. /\ new \in Logs /\ Len(new) = Len(rows) + 1
        /\ \A i \in 1..Len(rows) : new[i] = rows[i]
    BY DEF Logs
  <1> HIDE DEF new
  <1>2. \A i \in 1..Len(rows) : i \in 1..Len(new)
    BY <1>1, LogLines
  <1>3. \A i \in 1..Len(rows) : rows[i] \in ToSet(new)
    BY <1>1, <1>2, LogLines
  <1> QED
    BY <1>1, <1>3, LogLines DEF new

LEMMA SentinelsKeep ==
    ASSUME NEW rows \in Logs, NEW due \in SUBSET Gates, now \in Nat
    PROVE  LET more == SetToSeq({Restoring(g, TRUE, "sentinel") : g \in due})
           IN  rows \o more \in Logs /\ ToSet(rows) \subseteq ToSet(rows \o more)
  <1> DEFINE S == {Restoring(g, TRUE, "sentinel") : g \in due}
             more == SetToSeq(S)
             n == Cardinality(S)
             f == [g \in due |-> Restoring(g, TRUE, "sentinel")]
  <1>1. IsFiniteSet(due)
    BY GatesAssumption, FS_Subset
  <1>2. f \in Surjection(due, S)
    <2>1. f \in [due -> S] /\ \A r \in S : \E g \in due : f[g] = r
      OBVIOUS
    <2> QED
      BY <2>1 DEF Surjection
  <1>3. IsFiniteSet(S)
    <2> HIDE DEF f, S
    <2> QED
      BY <1>1, <1>2, FS_Surjection
  <1>4. S \subseteq LogRows
    <2>1. \A g \in Gates : Restoring(g, TRUE, "sentinel") \in LogRows
      BY DEF Restoring, LogRows, Row, Modes, Weak
    <2> QED
      BY <2>1
  <1> HIDE DEF S
  <1>5. n \in Nat /\ ExistsBijection(1..n, S)
    BY <1>3, FS_CardinalityType
  <1>6. \E h \in [1..n -> S] : IsInjective(h)
    BY <1>5 DEF ExistsBijection, Bijection, Injection
  <1>7. more \in [1..n -> S]
    BY <1>6 DEF SetToSeq
  <1> HIDE DEF more, n
  <1>8. more \in Logs
    <2>1. more \in [1..n -> LogRows]
      BY <1>4, <1>7
    <2> QED
      BY <1>5, <2>1, LogOfPlaces
  <1> DEFINE new == rows \o more
  <1>9. /\ new \in Logs /\ Len(new) = Len(rows) + Len(more)
        /\ \A i \in 1..Len(rows) : new[i] = rows[i]
    BY <1>8 DEF Logs
  <1> HIDE DEF new
  <1>10. \A i \in 1..Len(rows) : i \in 1..Len(new)
    BY <1>8, <1>9, LogLines
  <1>11. \A i \in 1..Len(rows) : rows[i] \in ToSet(new)
    BY <1>9, <1>10, LogLines
  <1> QED
    BY <1>9, <1>11, LogLines DEF new, more, S

LEMMA ModesStart == ModesInit => ModesInv
  <1>1. SUFFICES ASSUME ModesInit PROVE ModesInv
    OBVIOUS
  <1>2. PICK own \in SUBSET {g \in Gates : kind[g] = "observed"},
             prot \in SUBSET {g \in Gates : kind[g] = "template"} :
          base = [rows |-> <<>>, prot |-> prot, own |-> own \cup {g \in Gates : kind[g] = "local"}]
    BY <1>1 DEF ModesInit
  <1>3. base \in Trees
    BY <1>2 DEF Trees, Logs
  <1> QED
    BY <1>1, <1>3 DEF ModesInit, ModesInv

(* A branch's tree becomes another that has its rows.                       *)
LEMMA TreeMoves ==
    ASSUME ModesInv, NEW b \in Branches, NEW new \in Trees, ToSet(tree[b].rows) \subseteq ToSet(new.rows),
           tree' = [tree EXCEPT ![b] = new], base' = base, fork' = fork, now' \in Nat
    PROVE  ModesInv'
  <1>1. tree' \in [Branches -> Trees]
    BY DEF ModesInv
  <1>2. \A c \in Branches : ToSet(fork'[c].rows) \subseteq ToSet(tree'[c].rows)
    <2>1. SUFFICES ASSUME NEW c \in Branches PROVE ToSet(fork[c].rows) \subseteq ToSet(tree'[c].rows)
      OBVIOUS
    <2>2. CASE c = b
      BY <2>2 DEF ModesInv
    <2>3. CASE c # b
      BY <2>3 DEF ModesInv
    <2> QED
      BY <2>2, <2>3
  <1> QED
    BY <1>1, <1>2 DEF ModesInv

LEMMA RowAppended ==
    ASSUME ModesInv, NEW b \in Branches, NEW row \in LogRows, AppendRow(b, row)
    PROVE  ModesInv'
  <1> DEFINE new == [tree[b] EXCEPT !.rows = Append(tree[b].rows, row)]
  <1>1. tree[b] \in Trees /\ tree[b].rows \in Logs
    BY DEF ModesInv, Trees
  <1>2. Append(tree[b].rows, row) \in Logs /\ ToSet(tree[b].rows) \subseteq ToSet(Append(tree[b].rows, row))
    BY <1>1, AppendsKeep
  <1>3. new \in Trees /\ new.rows = Append(tree[b].rows, row)
    BY <1>1, <1>2 DEF Trees
  <1>4. tree' = [tree EXCEPT ![b] = new] /\ base' = base /\ fork' = fork /\ now' \in Nat
    BY DEF AppendRow, ModesInv
  <1> HIDE DEF new
  <1> QED
    BY <1>2, <1>3, <1>4, TreeMoves

LEMMA ModesStep == ModesInv /\ [ModesNext]_modesVars => ModesInv'
  <1> SUFFICES ASSUME ModesInv, [ModesNext]_modesVars PROVE ModesInv'
    OBVIOUS
  <1>1. CASE UNCHANGED modesVars
    BY <1>1 DEF ModesInv, modesVars
  <1>2. ASSUME NEW b \in Branches, NEW g \in Gates,
               \/ \E to \in {"shadow", "off"} : Weaken(b, g, to, FALSE)
               \/ Weaken(b, g, "shadow", TRUE)
               \/ \E lock \in BOOLEAN : Restore(b, g, lock)
               \/ Unlock(b, g) \/ ByHand(b, g)
        PROVE  ModesInv'
    <2>1. PICK row \in LogRows : AppendRow(b, row)
      <3>1. now + 1 \in Nat
        BY DEF ModesInv
      <3>2. ASSUME NEW to \in {"shadow", "off"}, NEW ok \in BOOLEAN, NEW observe \in BOOLEAN
            PROVE  Weakening(g, to, ok, observe) \in LogRows
        BY <3>1 DEF Weakening, LogRows, Row, Modes, Weak
      <3>3. ASSUME NEW lock \in BOOLEAN PROVE Restoring(g, lock, "manual") \in LogRows
        BY <3>1 DEF Restoring, LogRows, Row, Modes, Weak
      <3>4. ASSUME NEW ok \in BOOLEAN PROVE Unlocking(g, ok) \in LogRows
        BY <3>1 DEF Unlocking, LogRows, Row, Modes, Weak
      <3> QED
        BY <1>2, <3>2, <3>3, <3>4 DEF Weaken, Restore, Unlock, ByHand
    <2> QED
      BY <2>1, RowAppended
  <1>3. ASSUME NEW b \in Branches, NEW g \in Gates, Unprotect(b, g) \/ DropLocal(b, g)
        PROVE  ModesInv'
    <2>1. tree[b] \in Trees
      BY DEF ModesInv
    <2>2. PICK new \in Trees : tree' = [tree EXCEPT ![b] = new] /\ new.rows = tree[b].rows
      <3>1. CASE Unprotect(b, g)
        <4> DEFINE new == [tree[b] EXCEPT !.prot = @ \ {g}]
        <4>1. new \in Trees /\ new.rows = tree[b].rows
          BY <2>1 DEF Trees
        <4>2. tree' = [tree EXCEPT ![b] = new]
          BY <3>1 DEF Unprotect
        <4> QED
          BY <4>1, <4>2
      <3>2. CASE DropLocal(b, g)
        <4> DEFINE new == [tree[b] EXCEPT !.own = @ \ {g}]
        <4>1. new \in Trees /\ new.rows = tree[b].rows
          BY <2>1 DEF Trees
        <4>2. tree' = [tree EXCEPT ![b] = new]
          BY <3>2 DEF DropLocal
        <4> QED
          BY <4>1, <4>2
      <3> QED
        BY <1>3, <3>1, <3>2
    <2>3. base' = base /\ fork' = fork /\ now' \in Nat
      BY <1>3 DEF Unprotect, DropLocal, ModesInv
    <2> QED
      BY <2>2, <2>3, TreeMoves
  <1>4. ASSUME NEW b \in Branches, NEW breach \in BOOLEAN, Sentinel(b, breach)
        PROVE  ModesInv'
    <2> DEFINE due == Due(b, breach)
               more == SetToSeq({Restoring(g, TRUE, "sentinel") : g \in due})
               rows == tree[b].rows \o more
               new == [tree[b] EXCEPT !.rows = rows]
    <2>1. tree[b] \in Trees /\ tree[b].rows \in Logs /\ now \in Nat /\ due \in SUBSET Gates
      BY DEF ModesInv, Trees, Due
    <2>2. /\ tree' = [tree EXCEPT ![b].rows = @ \o more]
          /\ base' = base /\ fork' = fork /\ now' \in Nat
      BY <1>4, <2>1 DEF Sentinel
    <2> HIDE DEF due
    <2>3. rows \in Logs /\ ToSet(tree[b].rows) \subseteq ToSet(rows)
      BY <2>1, SentinelsKeep
    <2> HIDE DEF more
    <2>4. tree' = [tree EXCEPT ![b] = new]
      BY <2>2
    <2> HIDE DEF rows
    <2>5. new \in Trees /\ new.rows = rows
      BY <2>1, <2>3 DEF Trees
    <2> HIDE DEF new
    <2> QED
      BY <2>2, <2>3, <2>4, <2>5, TreeMoves
  <1>5. ASSUME NEW b \in Branches, Merge(b)
        PROVE  ModesInv'
    <2>1. PICK joined \in Joins(tree[b].rows, base.rows) :
            tree' = [tree EXCEPT ![b] =
                       [rows |-> joined, own |-> Both(tree[b].own, base.own, fork[b].own),
                        prot |-> Both(tree[b].prot, base.prot, fork[b].prot)]]
      BY <1>5 DEF Merge
    <2>2. tree[b] \in Trees /\ fork[b] \in Trees /\ base \in Trees
      BY DEF ModesInv
    <2> DEFINE new == [rows |-> joined, own |-> Both(tree[b].own, base.own, fork[b].own),
                       prot |-> Both(tree[b].prot, base.prot, fork[b].prot)]
    <2>3. joined \in Logs /\ ToSet(joined) = ToSet(tree[b].rows) \cup ToSet(base.rows)
      BY <2>1, <2>2, JoinsKeep DEF Trees
    <2>4. /\ Both(tree[b].own, base.own, fork[b].own) \in SUBSET Gates
          /\ Both(tree[b].prot, base.prot, fork[b].prot) \in SUBSET Gates
      BY <2>2 DEF Both, Trees
    <2>5. new \in Trees /\ new.rows = joined
      BY <2>3, <2>4 DEF Trees
    <2>6. tree' = [tree EXCEPT ![b] = new] /\ fork' = [fork EXCEPT ![b] = base]
          /\ base' = base /\ now' = now
      BY <1>5, <2>1 DEF Merge
    <2> HIDE DEF new
    <2>7. tree' \in [Branches -> Trees] /\ fork' \in [Branches -> Trees]
      BY <2>2, <2>5, <2>6 DEF ModesInv
    <2>8. ASSUME NEW c \in Branches PROVE ToSet(fork'[c].rows) \subseteq ToSet(tree'[c].rows)
      <3>1. CASE c = b
        <4>1. fork'[c] = base /\ tree'[c] = new
          BY <2>6, <3>1 DEF ModesInv
        <4> QED
          BY <2>3, <2>5, <4>1
      <3>2. CASE c # b
        BY <2>6, <3>2 DEF ModesInv
      <3> QED
        BY <3>1, <3>2
    <2> QED
      BY <2>2, <2>6, <2>7, <2>8 DEF ModesInv
  <1>6. ASSUME NEW b \in Branches, NEW bad \in SUBSET Gates, Run(b, bad)
        PROVE  ModesInv'
    BY <1>6 DEF Run, ModesInv
  <1>7. ASSUME NEW b \in Branches, NEW bad \in SUBSET Gates, Land(b, bad)
        PROVE  ModesInv'
    <2>1. base' = tree[b] /\ fork' = [fork EXCEPT ![b] = tree[b]] /\ tree' = tree /\ now' = now
      BY <1>7 DEF Land
    <2>2. base' \in Trees /\ fork' \in [Branches -> Trees]
      BY <2>1 DEF ModesInv
    <2>3. ASSUME NEW c \in Branches PROVE ToSet(fork'[c].rows) \subseteq ToSet(tree'[c].rows)
      <3>1. CASE c = b
        BY <2>1, <3>1 DEF ModesInv
      <3>2. CASE c # b
        BY <2>1, <3>2 DEF ModesInv
      <3> QED
        BY <3>1, <3>2
    <2> QED
      BY <2>1, <2>2, <2>3 DEF ModesInv
  <1> QED
    BY <1>1, <1>2, <1>3, <1>4, <1>5, <1>6, <1>7 DEF ModesNext

LEMMA ModesInvariant == ModesSpec => []ModesInv
  BY ModesStart, ModesStep, PTL DEF ModesSpec

(* What the sentinel locked stays locked: a weakening behind it is refused  *)
(* by every replay, wherever merges put the rows.                           *)
THEOREM LocksOutlive == ModesSpec => []LockOutlivesMerges
<1>1. ASSUME ModesInv, NEW t \in {base} \cup {tree[b] : b \in Branches}, NEW g \in Gates,
             NEW i \in DOMAIN t.rows, t.rows[i].gate = g, t.rows[i].by = "sentinel",
             \A j \in i + 1 .. Len(t.rows) :
               t.rows[j].gate = g => t.rows[j].action = "weaken" \/ ~t.rows[j].ok
      PROVE  Fold(t.rows, g, Core, ObserveFirst).mode = "block"
  <2> DEFINE rows == t.rows
             N == Len(rows)
  <2>1. rows \in Logs
    BY <1>1 DEF ModesInv, Trees
  <2>2. i \in 1..N /\ N \in Nat /\ \A k \in 1..N : rows[k] \in LogRows
    BY <1>1, <2>1, LogLines
  <2>3. \A k \in 1..N : rows[k].action = "restore" => rows[k].ok
    BY <2>2 DEF LogRows
  <2>4. rows[i].action = "restore" /\ rows[i].lock
    BY <1>1, <2>2 DEF LogRows
  <2>5. Says(Fold(rows, g, Core, ObserveFirst), rows, g, Core, ObserveFirst, N)
    BY <2>2, FoldSays
  <2> HIDE DEF rows, N
  <2>6. ASSUME NEW j \in i + 1..N, rows[j].gate = g PROVE rows[j].action = "weaken" \/ ~rows[j].ok
    BY <1>1, <2>6 DEF rows, N
  <2>7. rows[i].gate = g
    BY <1>1 DEF rows
  <2>8. ~ObservedIn(rows, g, Core, ObserveFirst, N)
    BY <2>2, <2>4, <2>7 DEF ObservedIn, Restores
  <2>9. ASSUME WeakenedIn(rows, g, N) PROVE FALSE
    <3>1. PICK k \in 1..N : /\ rows[k].gate = g /\ rows[k].action = "weaken" /\ rows[k].ok
                            /\ ~LockedAt(rows, g, k)
                            /\ \A j \in k + 1..N : ~Restores(rows[j], g)
      BY <2>9 DEF WeakenedIn
    <3>2. i \notin k + 1..N /\ i # k
      BY <2>4, <2>7, <3>1 DEF Restores
    <3>3. i \in 1..k - 1
      BY <2>2, <3>2
    <3>4. ASSUME NEW l \in i + 1..k - 1, rows[l].gate = g
          PROVE  rows[l].action # "restore" /\ ~(rows[l].action = "unlock" /\ rows[l].ok)
      <4>1. l \in i + 1..N /\ l \in 1..N
        BY <2>2
      <4> QED
        BY <2>3, <2>6, <3>4, <4>1
    <3>5. LockedAt(rows, g, k)
      BY <2>4, <2>7, <3>3, <3>4 DEF LockedAt, TriagedBetween
    <3> QED
      BY <3>1, <3>5
  <2> QED
    BY <2>5, <2>8, <2>9 DEF Says, rows
<1>2. ModesInv => LockOutlivesMerges
  BY <1>1 DEF LockOutlivesMerges
<1> QED
  BY <1>2, ModesInvariant, PTL

(* A branch that lands past a failing gate was let by the integration       *)
(* branch: what is in force there is said by rows the branch has too.       *)
THEOREM NobodyWeakensItsOwn == ModesSpec => NoBranchWeakensItsOwn
<1>1. ASSUME NEW t, NEW rows \in Logs, NEW g, NEW sh, NEW df, rows = t.rows,
             Fold(rows, g, sh, df).mode # "block", df \subseteq ObserveFirst \ t.own
      PROVE  g \notin sh /\ (WeakenedByOwner(rows, g) \/ NeverArmed(t, g))
  <2>1. Len(rows) \in Nat /\ DOMAIN rows = 1..Len(rows)
    BY LogLines
  <2>2. g \notin sh /\ (WeakenedIn(rows, g, Len(rows)) \/ ObservedIn(rows, g, sh, df, Len(rows)))
    BY <1>1, <2>1, FoldSays DEF Says
  <2>3. WeakenedIn(rows, g, Len(rows)) => WeakenedByOwner(rows, g)
    BY <2>1 DEF WeakenedIn, WeakenedByOwner, Restores
  <2>4. ObservedIn(rows, g, sh, df, Len(rows)) => NeverArmed(t, g)
    BY <1>1, <2>1 DEF ObservedIn, NeverArmed, Restores, ObserveFirst
  <2> QED
    BY <2>2, <2>3, <2>4
<1>2. ASSUME ModesInv, NEW b \in Branches, NEW bad \in SUBSET Gates, Land(b, bad), NEW g \in bad
      PROVE  /\ g \notin Core \cup base.prot
             /\ WeakenedByOwner(base.rows, g) \/ NeverArmed(base, g)
             /\ WeakenedByOwner(base'.rows, g) \/ NeverArmed(base', g)
  <2> DEFINE sh == Shielded(b)
             df == Defaults(b)
  <2>1. fork[b] = base /\ base' = tree[b] /\ Effective(b, g).mode # "block"
    BY <1>2 DEF Land, Blocks
  <2>2. tree[b].rows \in Logs /\ base.rows \in Logs
    BY <1>2 DEF ModesInv, Trees
  <2>3. df \subseteq ObserveFirst \ tree[b].own /\ df \subseteq ObserveFirst \ base.own
        /\ Core \cup base.prot \subseteq sh
    BY <2>1 DEF Defaults, Shielded
  <2>4. /\ ~(Names(tree[b].rows, g, sh, df) /\ Here(b, g).mode = "block")
        /\ Names(base.rows, g, sh, df) /\ There(b, g).mode # "block"
    BY <2>1 DEF Effective, Fresh
  <2>5. There(b, g) = Fold(base.rows, g, sh, df) /\ Here(b, g) = Fold(tree[b].rows, g, sh, df)
    BY <2>1 DEF There, Here
  <2> HIDE DEF sh, df
  <2>6. g \notin sh /\ (WeakenedByOwner(base.rows, g) \/ NeverArmed(base, g))
    BY <1>1, <2>2, <2>3, <2>4, <2>5
  <2>7. CASE Here(b, g).mode # "block"
    <3>1. WeakenedByOwner(tree[b].rows, g) \/ NeverArmed(tree[b], g)
      BY <1>1, <2>2, <2>3, <2>5, <2>7
    <3> QED
      BY <2>1, <2>3, <2>6, <3>1
  <2>8. CASE Here(b, g).mode = "block"
    <3>1. ~Names(tree[b].rows, g, sh, df)
      BY <2>4, <2>8
    <3>2. PICK i \in DOMAIN base.rows : base.rows[i].gate = g
      BY <2>4, <3>1 DEF Names
    <3>3. base.rows[i] \in ToSet(tree[b].rows)
      BY <1>2, <2>1, <2>2, LogLines DEF ModesInv
    <3>4. PICK k \in DOMAIN tree[b].rows : tree[b].rows[k] = base.rows[i]
      BY <3>3 DEF ToSet
    <3> QED
      BY <3>1, <3>2, <3>4 DEF Names
  <2> QED
    BY <2>7, <2>8
<1>3. ModesInv /\ [ModesNext]_modesVars =>
        [base' # base =>
          \A b \in Branches, bad \in SUBSET Gates : Land(b, bad) =>
            \A g \in bad :
              /\ g \notin Core \cup base.prot
              /\ WeakenedByOwner(base.rows, g) \/ NeverArmed(base, g)
              /\ WeakenedByOwner(base'.rows, g) \/ NeverArmed(base', g)]_modesVars
  BY <1>2
<1> QED
  BY <1>3, ModesInvariant, PTL DEF ModesSpec, NoBranchWeakensItsOwn
=============================================================================
