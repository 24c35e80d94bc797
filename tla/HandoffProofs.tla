---------------------------- MODULE HandoffProofs ----------------------------
(***************************************************************************)
(* What holds of attests beside each other, a user and the handoffs of     *)
(* Codex runs, for any number of them: no commit is lost, no foreign work  *)
(* is overwritten, no unseen block is passed over; what is committed of a  *)
(* run is what it showed, in one line, and that commit is what is pushed.  *)
(***************************************************************************)
EXTENDS Handoff, TLAPS

-----------------------------------------------------------------------------
(* Places of an attest: before it has decided, and with a round of its own. *)
Early == {"head", "shard", "report", "plan", "decide"}
Late == {"lock", "w1", "open", "append", "after", "rename", "hooks", "ref"}
Places == {"uncalled"} \cup Early \cup Late \cup Ends

(* Of the lines there are, one by an attest is the line it would write now. *)
Authentic ==
    {l \in AnyLine : l.kind = "review" /\ l.by \in Procs =>
                         pc[l.by] \in Late \cup Ends /\ l = Line(l.by)}

(* What a file, an index entry or a commit holds: the rounds of its blocks  *)
(* have no gap.                                                             *)
Rounds(lines) == {l.round : l \in Blocks(lines)}
Content == {c \in Seq(Authentic) : \E m \in Nat : Rounds(c) = 1..m}
Tree == [Paths -> Content \cup {NoFile}]
Commits == [tree : Tree, parent : Nat]
Fixed == [old : Nat, data : Tree, ino : [Paths -> Nat], index : Tree]

CallsOK ==
    /\ {"calls", "touches"} \subseteq DOMAIN scene /\ scene.touches \subseteq Paths
    /\ Called \subseteq Procs /\ job \in [Called -> Job]
PlaceOK ==
    /\ pc \in [Procs -> Places] /\ \A p \in Procs : pc[p] # "uncalled" => p \in Called
    /\ round \in [Procs -> Nat]
    /\ fd \in [Procs -> Nat]
    /\ lock \in Procs \cup {NoFile}
    /\ moves \in Nat
StoreOK ==
    /\ bytes \in Seq(Content)
    /\ index \in Tree
    /\ log \in Seq(Commits) /\ Len(log) >= 1
    /\ snap \in [Procs -> Fixed]
    /\ laid \in [Procs -> Tree]
NameOK ==
    /\ Len(bytes) >= 3
    /\ name \in [Paths -> 0..Len(bytes)] /\ name[Shard] # 3
TypeOK == CallsOK /\ PlaceOK /\ StoreOK /\ NameOK

-----------------------------------------------------------------------------
(* The index lock, and what an attest knows of the entries it will replace: *)
(* nothing but what HEAD had, what the file holds, or nothing.              *)
Mine(p, f) == {NoFile, snap[p].data[f], Old(p)[f]}

LockInv ==
    \A p \in Procs :
        /\ pc[p] \in {"lock", "w1", "rename"} => Staging(p)
        /\ pc[p] \in {"w1", "open", "append", "after", "rename"} /\ Staging(p) => lock = p
SnapInv ==
    \A p \in Procs :
        /\ pc[p] \in (Early \cup Late) \ {"head"} => snap[p].old \in DOMAIN log
        /\ pc[p] \in {"lock", "w1"} => \A f \in Carried(p) : snap[p].index[f] \in Mine(p, f)
LaidInv ==
    \A p \in Procs :
        pc[p] \in {"open", "append", "after", "rename"} /\ Staging(p) =>
            /\ laid[p] = Over(index, p)
            /\ \A f \in Carried(p) : index[f] \in Mine(p, f)

(* A round is counted on the blocks the attest knew.                        *)
RoundInv ==
    \A p \in Procs :
        /\ \A m \in Nat : Rounds(Known(p)) = 1..m => round[p] <= m + 1
        /\ pc[p] \in {"uncalled"} \cup Early => round[p] = 0
        /\ pc[p] \in Late => round[p] >= 1

(* The file that is appended to has those blocks.                           *)
FdInv ==
    \A p \in Procs :
        pc[p] = "append" =>
            IF fd[p] = 0 THEN Known(p) = <<>>
            ELSE /\ fd[p] \in DOMAIN bytes \ {3}
                 /\ Rounds(Known(p)) \subseteq Rounds(bytes[fd[p]])

HandoffInv ==
    TypeOK /\ NoCommitIsLost /\ LockInv /\ SnapInv /\ LaidInv /\ RoundInv /\ FdInv

-----------------------------------------------------------------------------
(* Lemmas about the contents of files.                                      *)
LEMMA LinesAreContent ==
    ASSUME NEW d \in Content \cup {NoFile}
    PROVE  Lines(d) \in Content
  <1>1. <<>> \in Content
    <2>1. Blocks(<<>>) = {}
      BY DEF Blocks
    <2>2. Rounds(<<>>) = 1..0
      BY <2>1 DEF Rounds
    <2> QED
      BY <2>2 DEF Content
  <1> QED
    BY <1>1 DEF Lines

LEMMA BlocksOfAppend ==
    ASSUME NEW S, NEW c \in Seq(S), NEW l
    PROVE  Blocks(Append(c, l)) =
               Blocks(c) \cup (IF l.kind = "review" /\ l.verdict = "block" THEN {l} ELSE {})
  <1>1. {Append(c, l)[i] : i \in DOMAIN Append(c, l)} = {c[i] : i \in DOMAIN c} \cup {l}
    OBVIOUS
  <1> QED
    BY <1>1 DEF Blocks

LEMMA RoundsOfAppend ==
    ASSUME NEW S, NEW c \in Seq(S), NEW l
    PROVE  Rounds(Append(c, l)) =
               Rounds(c) \cup (IF l.kind = "review" /\ l.verdict = "block" THEN {l.round} ELSE {})
  BY BlocksOfAppend DEF Rounds

(* A user's words leave the rounds alone.                                   *)
LEMMA WordsAreContent ==
    ASSUME NEW c \in Content, NEW n \in Nat
    PROVE  /\ Append(c, Words(n)) \in Content
           /\ Rounds(Append(c, Words(n))) = Rounds(c)
  <1>1. Words(n) \in Authentic /\ Words(n).kind = "words"
    BY DEF Words, Authentic, AnyLine
  <1>2. Rounds(Append(c, Words(n))) = Rounds(c)
    BY <1>1, RoundsOfAppend DEF Content
  <1> QED
    BY <1>1, <1>2 DEF Content

(* The highest round, where there is no gap.                                *)
LEMMA HighestIs ==
    ASSUME NEW c, NEW m \in Nat, Rounds(c) = 1..m
    PROVE  Highest(c) = m
  <1>1. CASE m = 0
    BY <1>1 DEF Rounds, Highest
  <1>2. CASE m > 0
    <2>1. Blocks(c) # {}
      BY <1>2 DEF Rounds
    <2>2. m \in Rounds(c) /\ \A l \in Blocks(c) : l.round \in 1..m
      BY <1>2 DEF Rounds
    <2>3. \A r \in Rounds(c) : (\A l \in Blocks(c) : l.round <= r) => r = m
      BY <2>2 DEF Rounds
    <2>4. Highest(c) = CHOOSE r \in Rounds(c) : \A l \in Blocks(c) : l.round <= r
      BY <2>1 DEF Highest, Rounds
    <2> QED
      BY <2>2, <2>3, <2>4
  <1> QED
    BY <1>1, <1>2

LEMMA RoundForIs ==
    ASSUME NEW c, NEW m \in Nat, Rounds(c) = 1..m, NEW claim \in Nat
    PROVE  RoundFor(claim, c) \in 1..(m + 1)
  BY HighestIs DEF RoundFor, Counted

(* An attest's line is content on top of any file that has the blocks it    *)
(* knew, and adds its own round at most.                                    *)
LEMMA LineIsContent ==
    ASSUME CallsOK, PlaceOK, RoundInv, NEW p \in Procs, pc[p] \in Late,
           Known(p) \in Content, NEW c \in Content, Rounds(Known(p)) \subseteq Rounds(c)
    PROVE  /\ Append(c, Line(p)) \in Content
           /\ Rounds(c) \subseteq Rounds(Append(c, Line(p)))
  <1>1. PICK m \in Nat : Rounds(c) = 1..m
    BY DEF Content
  <1>2. PICK k \in Nat : Rounds(Known(p)) = 1..k
    BY DEF Content
  <1>3. k <= m
    <2>1. k = 0 \/ k \in 1..m
      BY <1>1, <1>2
    <2> QED
      BY <2>1
  <1>4. round[p] \in 1..(m + 1)
    BY <1>2, <1>3 DEF RoundInv, PlaceOK
  <1>5. p \in Called /\ job[p] \in Job
    BY DEF CallsOK, PlaceOK, Late
  <1>6. Line(p) \in Authentic /\ Line(p).round = round[p]
    BY <1>4, <1>5 DEF Line, Review, Authentic, AnyLine, Job
  <1>7. Rounds(Append(c, Line(p))) \in {Rounds(c), Rounds(c) \cup {round[p]}}
    BY <1>6, RoundsOfAppend DEF Content
  <1>8. 1..m \cup {round[p]} \in {1..m, 1..(m + 1)}
    BY <1>4
  <1>9. \E j \in Nat : Rounds(Append(c, Line(p))) = 1..j
    <2>1. m + 1 \in Nat
      OBVIOUS
    <2> QED
      BY <1>1, <1>7, <1>8, <2>1
  <1> QED
    BY <1>6, <1>7, <1>9 DEF Content

-----------------------------------------------------------------------------
(* What is stored stays content while every attest that has decided keeps   *)
(* its round and its call.                                                  *)
LEMMA ContentGrows ==
    ASSUME CallsOK, PlaceOK,
           \A p \in Procs : pc[p] \in Late \cup Ends =>
               /\ pc'[p] \in Late \cup Ends
               /\ round'[p] = round[p] /\ job'[p].verdict = job[p].verdict
    PROVE  Content \subseteq Content'
  <1>1. Authentic \subseteq Authentic'
    BY DEF Authentic, Line, Review
  <1>2. \A c : Rounds(c)' = Rounds(c)
    BY DEF Rounds, Blocks
  <1>3. \A c \in Seq(Authentic) : c \in Seq(Authentic')
    BY <1>1
  <1> QED
    BY <1>2, <1>3 DEF Content, Rounds, Blocks

LEMMA StoreGrows ==
    ASSUME Content \subseteq Content',
           bytes' \in Seq(Content), index' \in Tree, log' \in Seq(Commits), Len(log') >= 1,
           snap' \in [Procs -> Fixed], laid' \in [Procs -> Tree]
    PROVE  StoreOK'
  <1>1. Tree \subseteq Tree'
    BY DEF Tree
  <1>2. Commits \subseteq Commits' /\ Fixed \subseteq Fixed'
    BY <1>1 DEF Commits, Fixed
  <1>3. bytes' \in Seq(Content') /\ log' \in Seq(Commits')
    BY <1>2
  <1> QED
    BY <1>1, <1>2, <1>3 DEF StoreOK

LEMMA FixedFields ==
    ASSUME NEW s \in Fixed
    PROVE  /\ \A n \in Nat : [s EXCEPT !.old = n] \in Fixed
           /\ \A n \in Nat, f \in Paths, e \in Content \cup {NoFile} :
                  [s EXCEPT !.data[f] = e, !.ino[f] = n] \in Fixed
           /\ \A t \in Tree : [s EXCEPT !.index = t] \in Fixed
  <1>1. \A n \in Nat, f \in Paths, e \in Content \cup {NoFile} :
            [s.data EXCEPT ![f] = e] \in Tree /\ [s.ino EXCEPT ![f] = n] \in [Paths -> Nat]
    BY DEF Fixed, Tree
  <1> QED
    BY <1>1 DEF Fixed

LEMMA NothingMoves == HandoffInv /\ UNCHANGED vars => HandoffInv'
  <1> SUFFICES ASSUME HandoffInv, UNCHANGED vars PROVE HandoffInv'
    OBVIOUS
  <1> USE DEF vars, attest, files, git
  <1>1. CallsOK' /\ PlaceOK' /\ NameOK'
    BY DEF HandoffInv, TypeOK, CallsOK, PlaceOK, NameOK, Called, job
  <1>2. StoreOK'
    <2>1. Content \subseteq Content'
      BY ContentGrows DEF HandoffInv, TypeOK, job
    <2> QED
      BY <2>1, StoreGrows DEF HandoffInv, TypeOK, StoreOK
  <1>3. NoCommitIsLost'
    BY DEF HandoffInv, NoCommitIsLost
  <1>4. LockInv' /\ SnapInv' /\ LaidInv'
    BY DEF HandoffInv, LockInv, SnapInv, LaidInv, Staging, Carried, Mine, Old, Over, Laid,
           Target, Known, Line, job
  <1>5. RoundInv' /\ FdInv'
    BY DEF HandoffInv, RoundInv, FdInv, Known
  <1> QED
    BY <1>1, <1>2, <1>3, <1>4, <1>5 DEF HandoffInv, TypeOK

-----------------------------------------------------------------------------
(* The steps of an attest.                                                  *)
LEMMA ReadHeadStep ==
    ASSUME HandoffInv, NEW p \in Called, ReadHead(p)
    PROVE  HandoffInv'
  <1> USE DEF HandoffInv, TypeOK
  <1>0. /\ p \in Procs /\ pc[p] = "head" /\ pc' = [pc EXCEPT ![p] = "shard"]
        /\ snap' = [snap EXCEPT ![p].old = Len(log)]
        /\ UNCHANGED <<scene, round, laid, fd, files, git, moves>>
    BY DEF ReadHead, Goes, OnlyAt, CallsOK
  <1> USE <1>0 DEF files, git
  <1>1. CallsOK' /\ PlaceOK' /\ NameOK'
    BY DEF CallsOK, PlaceOK, NameOK, Called, job, Places, Early
  <1>2. StoreOK'
    <2>1. Content \subseteq Content'
      BY ContentGrows DEF PlaceOK, job, Late, Ends
    <2>2. snap' \in [Procs -> Fixed]
      <3>1. Len(log) \in Nat /\ snap[p] \in Fixed
        BY DEF StoreOK
      <3>2. [snap[p] EXCEPT !.old = Len(log)] \in Fixed
        BY <3>1, FixedFields
      <3> QED
        BY <3>2 DEF StoreOK
    <2> QED
      BY <2>1, <2>2, StoreGrows DEF StoreOK
  <1>3. NoCommitIsLost'
    BY DEF NoCommitIsLost
  <1>4. \A q \in Procs : snap'[q].data = snap[q].data
    BY DEF StoreOK, Fixed
  <1>5. LockInv' /\ SnapInv'
    BY DEF LockInv, SnapInv, Staging, Carried, Mine, Old, job, PlaceOK, StoreOK, Early, Late
  <1>6. LaidInv'
    BY <1>4 DEF LaidInv, Staging, Carried, Mine, Old, Over, Laid, Target, Known, Line, job, PlaceOK, StoreOK
  <1>7. RoundInv' /\ FdInv'
    BY <1>4 DEF RoundInv, FdInv, Known, PlaceOK, Early, Late
  <1> QED
    BY <1>1, <1>2, <1>3, <1>5, <1>6, <1>7

LEMMA ReadFileStep ==
    ASSUME HandoffInv, NEW p \in Called, NEW f \in Paths, NEW next \in Early, ReadFile(p, f, next)
    PROVE  HandoffInv'
  <1> USE DEF HandoffInv, TypeOK
  <1>0. /\ p \in Procs /\ pc[p] = f /\ f \in Early /\ f # "head"
        /\ UNCHANGED <<scene, round, laid, fd, files, index, log, moves>>
    BY DEF ReadFile, OnlyAt, CallsOK, Paths, Shard, Report, Plan, Early
  <1> USE <1>0 DEF files
  <1>a. /\ \/ pc' = [pc EXCEPT ![p] = next] /\ lock' = lock
           \/ pc' = [pc EXCEPT ![p] = "refused"] /\ lock' \in {lock, NoFile}
        /\ lock' # lock => lock = p
    BY DEF ReadFile, Goes, Refuses
  <1>b. \/ snap' = snap
        \/ snap' = [snap EXCEPT ![p].data[f] = Held(f), ![p].ino[f] = name[f]]
    BY DEF ReadFile
  <1>c. /\ \A q \in Procs : pc[q] \in Late \cup Ends => pc'[q] = pc[q]
        /\ \A q \in Procs \ {p} : pc'[q] = pc[q] /\ snap'[q] = snap[q]
        /\ pc'[p] \in Early \cup {"refused"}
        /\ snap'[p].old = snap[p].old
    BY <1>a, <1>b DEF PlaceOK, StoreOK, Early, Late, Ends, Fixed
  <1>d. Held(f) \in Content \cup {NoFile} /\ name[f] \in Nat
    BY DEF Held, NameOK, StoreOK
  <1>1. CallsOK' /\ PlaceOK' /\ NameOK'
    BY <1>a DEF CallsOK, PlaceOK, NameOK, Called, job, Places, Early, Ends
  <1>2. StoreOK'
    <2>1. Content \subseteq Content'
      BY <1>c, ContentGrows DEF PlaceOK, job
    <2>2. snap' \in [Procs -> Fixed]
      <3>1. [snap[p] EXCEPT !.data[f] = Held(f), !.ino[f] = name[f]] \in Fixed
        BY <1>d, FixedFields DEF StoreOK
      <3> QED
        BY <1>b, <3>1 DEF StoreOK
    <2> QED
      BY <2>1, <2>2, StoreGrows DEF StoreOK
  <1>3. NoCommitIsLost'
    BY DEF NoCommitIsLost
  <1>4. LockInv' /\ SnapInv'
    BY <1>a, <1>c DEF LockInv, SnapInv, Staging, Carried, Mine, Old, job, Early, Late
  <1>5. LaidInv'
    BY <1>c DEF LaidInv, Staging, Carried, Mine, Old, Over, Laid, Target, Known, Line, job, Early
  <1>6. RoundInv'
    <2>1. round[p] = 0
      BY DEF RoundInv, Early
    <2> QED
      BY <1>c, <2>1 DEF RoundInv, Known, Early, Late, PlaceOK
  <1>7. FdInv'
    BY <1>c DEF FdInv, Known, Early
  <1> QED
    BY <1>1, <1>2, <1>3, <1>4, <1>5, <1>6, <1>7

(* A pass through Decide finds nothing foreign: what is staged is then what *)
(* HEAD had, what the file holds, or nothing.                               *)
LEMMA DecideStep ==
    ASSUME HandoffInv, NEW p \in Called, Decide(p)
    PROVE  HandoffInv'
  <1> USE DEF HandoffInv, TypeOK
  <1>0. /\ p \in Procs /\ pc[p] = "decide" /\ job[p] \in Job
        /\ snap' = [snap EXCEPT ![p].index = index]
        /\ round' = [round EXCEPT ![p] = RoundFor(job[p].claim, Known(p))]
        /\ UNCHANGED <<scene, laid, fd, files, git, moves>>
    BY DEF Decide, OnlyAt, CallsOK
  <1> USE <1>0 DEF files, git
  <1>a. \/ pc' = [pc EXCEPT ![p] = "refused"]
        \/ /\ pc' = [pc EXCEPT ![p] = IF Staging(p) THEN "lock" ELSE "open"]
           /\ \A f \in Carried(p) : ~Foreign(snap[p].data[f], Old(p)[f], index[f])
    BY DEF Decide, Goes
  <1>b. /\ \A q \in Procs \ {p} : pc'[q] = pc[q] /\ snap'[q] = snap[q] /\ round'[q] = round[q]
        /\ pc'[p] \in {"lock", "open", "refused"}
        /\ pc'[p] = "lock" => Staging(p)
        /\ pc'[p] = "open" => ~Staging(p)
    BY <1>a DEF PlaceOK, StoreOK
  <1>s. snap'[p].old = snap[p].old /\ snap'[p].data = snap[p].data /\ snap'[p].index = index
    BY DEF StoreOK, Fixed
  <1>c. Known(p) \in Content
    BY LinesAreContent, Shard \in Paths DEF Known, StoreOK, Fixed, Tree, Paths
  <1>d. PICK m \in Nat : Rounds(Known(p)) = 1..m
    BY <1>c DEF Content
  <1>e. round'[p] \in 1..(m + 1)
    BY <1>d, RoundForIs DEF PlaceOK, Job
  <1>1. CallsOK' /\ PlaceOK' /\ NameOK'
    <2>1. round' \in [Procs -> Nat]
      BY <1>e DEF PlaceOK
    <2> QED
      BY <1>a, <2>1 DEF CallsOK, PlaceOK, NameOK, Called, job, Places, Late, Ends
  <1>2. StoreOK'
    <2>1. Content \subseteq Content'
      BY <1>b, ContentGrows DEF PlaceOK, job, Late, Ends
    <2>2. snap' \in [Procs -> Fixed]
      <3>1. [snap[p] EXCEPT !.index = index] \in Fixed
        BY FixedFields DEF StoreOK
      <3> QED
        BY <3>1 DEF StoreOK
    <2> QED
      BY <2>1, <2>2, StoreGrows DEF StoreOK
  <1>3. NoCommitIsLost'
    BY DEF NoCommitIsLost
  <1>4. LockInv'
    BY <1>s, <1>b DEF LockInv, Staging, job
  <1>5. SnapInv'
    <2>1. pc'[p] = "lock" => \A f \in Carried(p) : index[f] \in Mine(p, f)
      BY <1>a DEF Foreign, Mine, PlaceOK
    <2>2. snap[p].old \in DOMAIN log
      BY DEF SnapInv, Early
    <2> QED
      BY <1>s, <1>s, <1>b, <2>1, <2>2 DEF SnapInv, Carried, Mine, Old, job, Early, Late
  <1>6. LaidInv'
    BY <1>s, <1>b DEF LaidInv, Staging, Carried, Mine, Old, Over, Laid, Target, Known, Line, job
  <1>7. RoundInv'
    <2>1. \A k \in Nat : Rounds(Known(p)) = 1..k => k = m
      BY <1>d
    <2> QED
      BY <1>s, <1>b, <1>e, <2>1 DEF RoundInv, Known, Early, Late
  <1>8. FdInv'
    BY <1>s, <1>b DEF FdInv, Known
  <1> QED
    BY <1>1, <1>2, <1>3, <1>4, <1>5, <1>6, <1>7, <1>8

(* An attest goes on, refuses or dies: what such a step must respect.       *)
GoesOn(p, to) ==
    /\ pc' = [pc EXCEPT ![p] = to]
    /\ fd' \in [Procs -> Nat] /\ \A q \in Procs \ {p} : fd'[q] = fd[q]
    /\ UNCHANGED <<scene, snap, round, laid, name, bytes, index, log, moves>>
    /\ \/ to = "w1" /\ pc[p] = "lock" /\ lock = NoFile /\ lock' = p
       \/ /\ to = "append" /\ pc[p] = "open" /\ lock' = lock
          /\ IF fd'[p] = 0 THEN Known(p) = <<>>
             ELSE fd'[p] \in DOMAIN bytes \ {3} /\ Known(p) = bytes[fd'[p]]
       \/ to = "rename" /\ pc[p] = "after" /\ lock' = lock /\ Staging(p)
       \/ to = "ref" /\ pc[p] = "hooks" /\ lock' = lock
       \/ to \in Ends /\ lock' \in (IF lock = p THEN {lock, NoFile} ELSE {lock})

LEMMA GoesOnStep ==
    ASSUME HandoffInv, NEW p \in Called, NEW to, GoesOn(p, to)
    PROVE  HandoffInv'
  <1> USE DEF HandoffInv, TypeOK
  <1>0. p \in Procs
    BY DEF CallsOK
  <1> USE <1>0 DEF GoesOn
  <1>a. /\ \A q \in Procs \ {p} : pc'[q] = pc[q] /\ fd'[q] = fd[q]
        /\ pc'[p] = to
    BY DEF PlaceOK
  <1>1. CallsOK' /\ PlaceOK' /\ NameOK'
    BY DEF CallsOK, PlaceOK, NameOK, Called, job, Places, Late, Ends
  <1>2. StoreOK'
    <2>1. Content \subseteq Content'
      BY <1>a, ContentGrows DEF PlaceOK, job, Late, Ends
    <2> QED
      BY <2>1, StoreGrows DEF StoreOK
  <1>3. NoCommitIsLost'
    BY DEF NoCommitIsLost
  <1>4. LockInv'
    BY <1>a, NoFileAssumption DEF LockInv, Staging, job, Ends
  <1>s. \A q \in Procs : Staging(q)' = Staging(q) /\ Carried(q)' = Carried(q) /\ Over(index, q)' = Over(index, q)
    BY DEF Staging, Carried, Over, Laid, Target, Known, Line, job
  <1>5. SnapInv' /\ LaidInv'
    <2>2. SnapInv'
      BY <1>a DEF SnapInv, Carried, Mine, Old, job, Early, Late, Ends
    <2>3. LaidInv'
      BY <1>a, <1>s DEF LaidInv, Mine, Old, Ends
    <2> QED
      BY <2>2, <2>3
  <1>6. RoundInv'
    BY <1>a DEF RoundInv, Known, Early, Late, Ends
  <1>7. FdInv'
    BY <1>a DEF FdInv, Known, Ends
  <1> QED
    BY <1>1, <1>2, <1>3, <1>4, <1>5, <1>6, <1>7

LEMMA TakeLockGoesOn ==
    ASSUME HandoffInv, NEW p \in Called, TakeLock(p)
    PROVE  \E to : GoesOn(p, to)
  <1>1. CASE lock = NoFile
    <2>1. GoesOn(p, "w1")
      BY <1>1 DEF TakeLock, GoesOn, Goes, OnlyAt, files, HandoffInv, TypeOK, PlaceOK
    <2> QED
      BY <2>1
  <1>2. CASE lock # NoFile
    <2>1. Refuses(p) /\ UNCHANGED <<snap, round, laid, fd, index, log>> /\ OnlyAt(p)
      BY <1>2 DEF TakeLock
    <2>3. GoesOn(p, "refused")
      BY <2>1 DEF GoesOn, Goes, Refuses, OnlyAt, files, HandoffInv, TypeOK, PlaceOK, Ends
    <2> QED
      BY <2>3
  <1> QED
    BY <1>1, <1>2

LEMMA OpenShardGoesOn ==
    ASSUME HandoffInv, NEW p \in Called, OpenShard(p)
    PROVE  \E to : GoesOn(p, to)
  <1> USE DEF HandoffInv, TypeOK
  <1>0. pc[p] = "open" /\ p \in Procs /\ name[Shard] \in 0..Len(bytes) /\ name[Shard] # 3
    BY DEF OpenShard, CallsOK, NameOK, Paths
  <1>1. CASE pc' = [pc EXCEPT ![p] = "refused"]
    <2>1. GoesOn(p, "refused")
      BY <1>0, <1>1 DEF OpenShard, GoesOn, Goes, Refuses, OnlyAt, files, PlaceOK, Ends
    <2> QED
      BY <2>1
  <1>2. CASE pc' = [pc EXCEPT ![p] = "append"]
    <2>1. PICK n \in {0, name[Shard]} :
              /\ fd' = [fd EXCEPT ![p] = n]
              /\ n = 0 => snap[p].data[Shard] = NoFile
              /\ n # 0 => bytes[n] = snap[p].data[Shard] /\ snap[p].data[Shard] # NoFile
      BY <1>0, <1>2 DEF OpenShard, Goes, Refuses, PlaceOK, Held
    <2>2. lock' = lock
      BY <1>0, <1>2 DEF OpenShard, Goes, Refuses, PlaceOK
    <2>3. GoesOn(p, "append")
      BY <1>0, <1>2, <2>1, <2>2 DEF OpenShard, GoesOn, OnlyAt, files, PlaceOK, StoreOK, Known, Lines
    <2> QED
      BY <2>3
  <1> QED
    BY <1>1, <1>2 DEF OpenShard, Goes, Refuses

LEMMA OtherGoesOn ==
    ASSUME HandoffInv, NEW p \in Called, SameFile(p) \/ Hooks(p) \/ Die(p)
    PROVE  \E to : GoesOn(p, to)
  <1> USE DEF HandoffInv, TypeOK, GoesOn, OnlyAt, files, git, PlaceOK, Goes, Ends
  <1>1. CASE SameFile(p)
    <2>1. GoesOn(p, "rename") \/ GoesOn(p, "written") \/ GoesOn(p, "refused")
      BY <1>1 DEF SameFile, Refuses
    <2> QED
      BY <2>1
  <1>2. CASE Hooks(p)
    <2>1. GoesOn(p, "ref") \/ GoesOn(p, "written")
      BY <1>2 DEF Hooks
    <2> QED
      BY <2>1
  <1>3. CASE Die(p)
    <2>1. GoesOn(p, "killed")
      BY <1>3 DEF Die
    <2> QED
      BY <2>1
  <1> QED
    BY <1>1, <1>2, <1>3

(* What an attest lays down is content, and goes by what it snapshotted.    *)
LEMMA KnownIsContent ==
    ASSUME StoreOK, NEW p \in Procs
    PROVE  Known(p) \in Content
  BY LinesAreContent DEF Known, StoreOK, Fixed, Tree, Paths

LEMMA OverIsTree ==
    ASSUME TypeOK, RoundInv, NEW p \in Procs, pc[p] \in Late, NEW t \in Tree
    PROVE  Over(t, p) \in Tree
  <1> USE DEF TypeOK
  <1>1. Target(p) \in Content
    BY KnownIsContent, LineIsContent DEF Target
  <1>2. \A f \in Paths : Laid(p, f) \in Content \cup {NoFile}
    BY <1>1 DEF Laid, StoreOK, Fixed, Tree
  <1> QED
    BY <1>2 DEF Over, Tree

LEMMA CheckIndexStep ==
    ASSUME HandoffInv, NEW p \in Called, CheckIndex(p)
    PROVE  HandoffInv'
  <1> USE DEF HandoffInv, TypeOK
  <1>0. /\ p \in Procs /\ pc[p] = "w1" /\ Staging(p) /\ lock = p
        /\ snap[p].old \in DOMAIN log /\ \A f \in Carried(p) : snap[p].index[f] \in Mine(p, f)
        /\ UNCHANGED <<scene, snap, round, fd, name, bytes, index, log, moves>>
    BY DEF CheckIndex, OnlyAt, CallsOK, files, LockInv, SnapInv, Late
  <1> USE <1>0
  <1>1. CASE Refuses(p) /\ UNCHANGED laid
    <2>1. GoesOn(p, "refused")
      BY <1>1 DEF GoesOn, Refuses, Goes, PlaceOK, Ends
    <2> QED
      BY <2>1, GoesOnStep
  <1>2. CASE /\ \A f \in Carried(p) : EntryAllowed(p, f)
             /\ laid' = [laid EXCEPT ![p] = Over(index, p)]
             /\ pc' = [pc EXCEPT ![p] = "open"] /\ lock' = lock
    <2> USE <1>2
    <2>a. /\ \A q \in Procs \ {p} : pc'[q] = pc[q] /\ laid'[q] = laid[q]
          /\ pc'[p] = "open" /\ laid'[p] = Over(index, p)
      BY DEF PlaceOK, StoreOK
    <2>b. Over(index, p) \in Tree
      BY OverIsTree DEF StoreOK, Late
    <2>1. CallsOK' /\ PlaceOK' /\ NameOK'
      BY DEF CallsOK, PlaceOK, NameOK, Called, job, Places, Late
    <2>2. StoreOK'
      <3>1. Content \subseteq Content'
        BY <2>a, ContentGrows DEF PlaceOK, job, Late, Ends
      <3> QED
        BY <2>b, <3>1, StoreGrows DEF StoreOK
    <2>3. NoCommitIsLost'
      BY DEF NoCommitIsLost
    <2>4. LockInv' /\ SnapInv'
      BY <2>a DEF LockInv, SnapInv, Staging, Carried, Mine, Old, job, Early, Late
    <2>5. LaidInv'
      <3>1. \A f \in Carried(p) : index[f] \in Mine(p, f)
        BY DEF EntryAllowed, Mine
      <3>2. \A q \in Procs \ {p} : pc[q] \in {"open", "append", "after", "rename"} => ~Staging(q)
        BY DEF LockInv
      <3>3. Over(index, p)' = Over(index, p)
        BY DEF Over, Carried, Laid, Target, Known, Line, job
      <3>4. \A f \in Paths : Mine(p, f)' = Mine(p, f)
        BY DEF Mine, Old
      <3>5. Carried(p)' = Carried(p) /\ Carried(p) \subseteq Paths
        BY DEF Carried, job, CallsOK, PlaceOK, Job, Paths
      <3>6. \A q \in Procs : Staging(q)' = Staging(q)
        BY DEF Staging, job
      <3> QED
        BY <2>a, <3>1, <3>2, <3>3, <3>4, <3>5, <3>6 DEF LaidInv
    <2>6. RoundInv' /\ FdInv'
      BY <2>a DEF RoundInv, FdInv, Known, Early, Late
    <2> QED
      BY <2>1, <2>2, <2>3, <2>4, <2>5, <2>6
  <1> QED
    BY <1>1, <1>2 DEF CheckIndex, Goes

LEMMA RenameIndexStep ==
    ASSUME HandoffInv, NEW p \in Called, RenameIndex(p)
    PROVE  HandoffInv'
  <1> USE DEF HandoffInv, TypeOK
  <1>0. /\ p \in Procs /\ pc[p] = "rename" /\ Staging(p) /\ lock = p
        /\ index' = laid[p] /\ lock' = NoFile
        /\ UNCHANGED <<scene, snap, round, laid, fd, name, bytes, log, moves>>
    BY DEF RenameIndex, Release, OnlyAt, CallsOK, files, LockInv
  <1> USE <1>0
  <1>a. /\ \A q \in Procs \ {p} : pc'[q] = pc[q]
        /\ pc' = [pc EXCEPT ![p] = IF job[p].commit THEN "hooks" ELSE "written"]
        /\ pc'[p] \in {"hooks", "written"}
    BY DEF RenameIndex, Goes, PlaceOK
  <1>1. CallsOK' /\ PlaceOK' /\ NameOK'
    BY <1>a DEF CallsOK, PlaceOK, NameOK, Called, job, Places, Late, Ends
  <1>2. StoreOK'
    <2>1. Content \subseteq Content'
      BY <1>a, ContentGrows DEF PlaceOK, job, Late, Ends
    <2> QED
      BY <2>1, StoreGrows DEF StoreOK
  <1>3. NoCommitIsLost'
    BY DEF NoCommitIsLost
  <1>b. \A q \in Procs \ {p} : pc[q] \in {"w1", "open", "append", "after", "rename"} => ~Staging(q)
    BY DEF LockInv
  <1>4. LockInv' /\ SnapInv'
    BY <1>a, <1>b DEF LockInv, SnapInv, Staging, Carried, Mine, Old, job, Early, Late
  <1>5. LaidInv'
    BY <1>a, <1>b DEF LaidInv, Staging, job
  <1>6. RoundInv' /\ FdInv'
    BY <1>a DEF RoundInv, FdInv, Known, Early, Late
  <1> QED
    BY <1>1, <1>2, <1>3, <1>4, <1>5, <1>6

(* update-ref moves HEAD from `old` only, so the parent is the last commit. *)
LEMMA UpdateRefStep ==
    ASSUME HandoffInv, NEW p \in Called, UpdateRef(p)
    PROVE  HandoffInv'
  <1> USE DEF HandoffInv, TypeOK
  <1>0. /\ p \in Procs /\ pc[p] = "ref" /\ snap[p].old \in DOMAIN log
        /\ UNCHANGED <<scene, snap, round, laid, fd, name, bytes, index, lock, moves>>
    BY DEF UpdateRef, OnlyAt, CallsOK, files, SnapInv, Late
  <1> USE <1>0
  <1>1. CASE pc' = [pc EXCEPT ![p] = "written"] /\ log' = log
    <2>1. GoesOn(p, "written")
      BY <1>1 DEF GoesOn, PlaceOK, Ends
    <2> QED
      BY <2>1, GoesOnStep
  <1>2. CASE /\ pc' = [pc EXCEPT ![p] = "committed"] /\ Len(log) = snap[p].old
             /\ log' = Append(log, [tree |-> Over(Old(p), p), parent |-> snap[p].old])
    <2> USE <1>2
    <2>a. (\A q \in Procs \ {p} : pc'[q] = pc[q]) /\ pc'[p] = "committed"
      BY DEF PlaceOK
    <2>b. Over(Old(p), p) \in Tree
      <3>1. log[snap[p].old] \in Commits
        BY DEF StoreOK
      <3> QED
        BY <3>1, OverIsTree DEF Old, Commits, Late
    <2>c. /\ log' \in Seq(Commits) /\ Len(log') = Len(log) + 1
          /\ \A i \in DOMAIN log : log'[i] = log[i]
          /\ log'[Len(log) + 1].parent = Len(log)
      BY <2>b DEF StoreOK, Commits
    <2>1. CallsOK' /\ PlaceOK' /\ NameOK'
      BY DEF CallsOK, PlaceOK, NameOK, Called, job, Places, Ends
    <2>2. StoreOK'
      <3>1. Content \subseteq Content'
        BY <2>a, ContentGrows DEF PlaceOK, job, Late, Ends
      <3> QED
        BY <2>c, <3>1, StoreGrows DEF StoreOK
    <2>3. NoCommitIsLost'
      BY <2>c DEF NoCommitIsLost, StoreOK
    <2>4. LockInv'
      BY <2>a DEF LockInv, Staging, job
    <2>5. SnapInv' /\ LaidInv'
      <3>1. \A q \in Procs, f \in Paths :
                pc[q] \in (Early \cup Late) \ {"head"} => Mine(q, f)' = Mine(q, f)
        BY <2>c DEF SnapInv, Mine, Old
      <3>2. \A q \in Procs : Over(index, q)' = Over(index, q)
        BY DEF Over, Carried, Laid, Target, Known, Line, job
      <3>3. \A q \in Called : Carried(q)' = Carried(q) /\ Carried(q) \subseteq Paths
        BY DEF Carried, job, CallsOK, Job, Paths
      <3>4. \A q \in Procs : Staging(q)' = Staging(q) /\ (pc[q] \in Early \cup Late => q \in Called)
        BY DEF Staging, job, PlaceOK, Early, Late
      <3>5. SnapInv'
        BY <2>a, <2>c, <3>1, <3>3, <3>4 DEF SnapInv, StoreOK, Early, Late
      <3>6. LaidInv'
        BY <2>a, <3>1, <3>2, <3>3, <3>4 DEF LaidInv, Early, Late
      <3> QED
        BY <3>5, <3>6
    <2>6. RoundInv' /\ FdInv'
      BY <2>a DEF RoundInv, FdInv, Known, Early, Late
    <2> QED
      BY <2>1, <2>2, <2>3, <2>4, <2>5, <2>6
  <1> QED
    BY <1>1, <1>2 DEF UpdateRef, Goes, AtOld

(* Files come and grow; no inode but the report's loses a block.            *)
FilesGrow ==
    /\ bytes' \in Seq(Content) /\ Len(bytes) <= Len(bytes') /\ DOMAIN bytes \subseteq DOMAIN bytes'
    /\ \A k \in DOMAIN bytes \ {3} : Rounds(bytes[k]) \subseteq Rounds(bytes'[k])
    /\ name' \in [Paths -> 0..Len(bytes')] /\ name'[Shard] # 3

LEMMA AppendedContent ==
    ASSUME StoreOK, NameOK, NEW c \in Content
    PROVE  /\ Append(bytes, c) \in Seq(Content) /\ Len(Append(bytes, c)) = Len(bytes) + 1
           /\ \A k \in DOMAIN bytes : Append(bytes, c)[k] = bytes[k]
           /\ Append(bytes, c)[Len(bytes) + 1] = c
           /\ DOMAIN bytes \subseteq DOMAIN Append(bytes, c)
  BY DEF StoreOK, NameOK

LEMMA ReplacedContent ==
    ASSUME StoreOK, NameOK, NEW n \in DOMAIN bytes, NEW c \in Content
    PROVE  /\ [bytes EXCEPT ![n] = c] \in Seq(Content)
           /\ Len([bytes EXCEPT ![n] = c]) = Len(bytes)
           /\ DOMAIN [bytes EXCEPT ![n] = c] = DOMAIN bytes
           /\ \A k \in DOMAIN bytes : [bytes EXCEPT ![n] = c][k] = IF k = n THEN c ELSE bytes[k]
  BY DEF StoreOK, NameOK

LEMMA AppendLineStep ==
    ASSUME HandoffInv, NEW p \in Called, AppendLine(p)
    PROVE  HandoffInv'
  <1> USE DEF HandoffInv, TypeOK
  <1>0. /\ p \in Procs /\ pc[p] = "append"
        /\ UNCHANGED <<scene, snap, round, laid, index, log, moves>>
    BY DEF AppendLine, CallsOK
  <1> USE <1>0
  <1>1. CASE fd[p] = 0 /\ name[Shard] # 0
    <2>1. GoesOn(p, "refused")
      BY <1>1 DEF AppendLine, files, GoesOn, Refuses, Goes, PlaceOK, Ends
    <2> QED
      BY <2>1, GoesOnStep
  <1>2. CASE fd[p] # 0 \/ name[Shard] = 0
    <2>1. pc' = [pc EXCEPT ![p] = "after"] /\ lock' = lock
      BY <1>2 DEF AppendLine, Goes, PlaceOK
    <2>2. (\A q \in Procs \ {p} : pc'[q] = pc[q]) /\ pc'[p] = "after"
      BY <2>1 DEF PlaceOK
    <2>3. /\ FilesGrow /\ Len(bytes') >= 3
          /\ fd' \in [Procs -> Nat] /\ \A q \in Procs \ {p} : fd'[q] = fd[q]
      <3>1. CASE fd[p] # 0
        <4>1. /\ fd[p] \in DOMAIN bytes \ {3} /\ bytes[fd[p]] \in Content
              /\ Rounds(Known(p)) \subseteq Rounds(bytes[fd[p]])
          BY <3>1 DEF FdInv, StoreOK
        <4>2. /\ Append(bytes[fd[p]], Line(p)) \in Content
              /\ Rounds(bytes[fd[p]]) \subseteq Rounds(Append(bytes[fd[p]], Line(p)))
          BY <4>1, KnownIsContent, LineIsContent DEF Late
        <4>3. /\ bytes' = [bytes EXCEPT ![fd[p]] = Append(bytes[fd[p]], Line(p))]
              /\ name' = name /\ fd' = fd
          BY <3>1 DEF AppendLine, Appended
        <4> QED
          BY <4>1, <4>2, <4>3, ReplacedContent DEF FilesGrow, NameOK, PlaceOK
      <3>2. CASE fd[p] = 0
        <4>1. Known(p) = <<>> /\ Known(p) \in Content
          BY <3>2, KnownIsContent DEF FdInv
        <4>2. Append(Known(p), Line(p)) \in Content
          BY <4>1, LineIsContent DEF Late
        <4>3. <<Line(p)>> \in Content
          <5>1. Append(Known(p), Line(p)) = <<Line(p)>>
            BY <4>1
          <5> QED
            BY <4>2, <5>1
        <4>4. /\ bytes' = Append(bytes, <<Line(p)>>) /\ name' = [name EXCEPT ![Shard] = Len(bytes')]
              /\ fd' = [fd EXCEPT ![p] = Len(bytes')]
          BY <3>2, <1>2 DEF AppendLine
        <4>5. /\ bytes' \in Seq(Content) /\ Len(bytes') = Len(bytes) + 1
              /\ DOMAIN bytes \subseteq DOMAIN bytes'
              /\ \A k \in DOMAIN bytes : bytes'[k] = bytes[k]
          BY <4>3, <4>4, AppendedContent
        <4>6. Len(bytes) \in Nat /\ Len(bytes) >= 3 /\ Shard \in Paths
          BY DEF StoreOK, NameOK, Paths
        <4>7. name' \in [Paths -> 0..Len(bytes')] /\ name'[Shard] # 3
          BY <4>4, <4>5, <4>6 DEF NameOK
        <4>8. fd' \in [Procs -> Nat] /\ \A q \in Procs \ {p} : fd'[q] = fd[q]
          BY <4>4, <4>5, <4>6 DEF PlaceOK
        <4> QED
          BY <4>5, <4>6, <4>7, <4>8 DEF FilesGrow
      <3> QED
        BY <3>1, <3>2
    <2>4. CallsOK' /\ PlaceOK' /\ NameOK'
      BY <2>1, <2>3 DEF CallsOK, PlaceOK, NameOK, Called, job, Places, Late, FilesGrow
    <2>5. StoreOK'
      <3>1. Content \subseteq Content'
        BY <2>2, ContentGrows DEF PlaceOK, job, Late, Ends
      <3> QED
        BY <2>3, <3>1, StoreGrows DEF StoreOK, FilesGrow
    <2>6. NoCommitIsLost'
      BY DEF NoCommitIsLost
    <2>7. LockInv' /\ SnapInv' /\ LaidInv'
      BY <2>1, <2>2 DEF LockInv, SnapInv, LaidInv, Staging, Carried, Mine, Old, Over, Laid, Target, Known,
         Line, job, Early, Late
    <2>8. RoundInv'
      BY <2>2 DEF RoundInv, Known, Early, Late
    <2>9. FdInv'
      BY <2>2, <2>3 DEF FdInv, Known, FilesGrow
    <2> QED
      BY <2>4, <2>5, <2>6, <2>7, <2>8, <2>9
  <1> QED
    BY <1>1, <1>2

-----------------------------------------------------------------------------
(* What others do to the files, the index and HEAD: the last two only while *)
(* nobody holds the lock.                                                   *)
Outside ==
    /\ UNCHANGED <<scene, pc, snap, round, laid, fd>> /\ moves' \in Nat
    /\ FilesGrow
    /\ index' \in Tree /\ (lock # NoFile => index' = index)
    /\ \/ log' = log
       \/ \E t \in Tree : log' = Append(log, [tree |-> t, parent |-> Len(log)])
    /\ \/ lock' = lock
       \/ lock # NoFile /\ pc[lock] = "killed" /\ lock' = NoFile

LEMMA OutsideStep == HandoffInv /\ Outside => HandoffInv'
  <1> SUFFICES ASSUME HandoffInv, Outside PROVE HandoffInv'
    OBVIOUS
  <1> USE DEF HandoffInv, TypeOK, Outside
  <1>1. CallsOK' /\ PlaceOK' /\ NameOK'
    BY DEF CallsOK, PlaceOK, NameOK, Called, job, FilesGrow
  <1>2. /\ log' \in Seq(Commits) /\ Len(log') >= 1
        /\ \A i \in DOMAIN log : i \in DOMAIN log' /\ log'[i] = log[i]
        /\ \A i \in DOMAIN log' \ DOMAIN log : log'[i].parent = i - 1
    <2>1. CASE log' = log
      BY <2>1 DEF StoreOK
    <2>2. ASSUME NEW t \in Tree, log' = Append(log, [tree |-> t, parent |-> Len(log)])
          PROVE  <1>2!:
      <3>1. [tree |-> t, parent |-> Len(log)] \in Commits
        BY DEF StoreOK, Commits
      <3> QED
        BY <2>2, <3>1 DEF StoreOK
    <2> QED
      BY <2>1, <2>2
  <1>3. StoreOK'
    <2>1. Content \subseteq Content'
      BY ContentGrows DEF PlaceOK, job
    <2> QED
      BY <1>2, <2>1, StoreGrows DEF StoreOK, FilesGrow
  <1>4. NoCommitIsLost'
    BY <1>2 DEF NoCommitIsLost
  <1>5. LockInv'
    BY DEF LockInv, Staging, job
  <1>6. SnapInv' /\ LaidInv'
    <2>1. \A q \in Procs, f \in Paths :
              pc[q] \in (Early \cup Late) \ {"head"} => Mine(q, f)' = Mine(q, f)
      BY <1>2 DEF SnapInv, Mine, Old
    <2>2. \A q \in Procs : index' = index => Over(index, q)' = Over(index, q)
      BY DEF Over, Carried, Laid, Target, Known, Line, job
    <2>3. \A q \in Called : Carried(q)' = Carried(q) /\ Carried(q) \subseteq Paths
      BY DEF Carried, job, CallsOK, Job, Paths
    <2>4. \A q \in Procs : Staging(q)' = Staging(q) /\ (pc[q] \in Early \cup Late => q \in Called)
      BY DEF Staging, job, PlaceOK, Early, Late
    <2>5. SnapInv'
      BY <1>2, <2>1, <2>3, <2>4 DEF SnapInv, Early, Late
    <2>6. LaidInv'
      BY <2>1, <2>2, <2>3, <2>4, NoFileAssumption DEF LaidInv, LockInv, Early, Late
    <2> QED
      BY <2>5, <2>6
  <1>7. RoundInv'
    BY DEF RoundInv, Known
  <1>8. FdInv'
    BY DEF FdInv, Known, FilesGrow
  <1> QED
    BY <1>1, <1>3, <1>4, <1>5, <1>6, <1>7, <1>8

LEMMA UserStep == HandoffInv /\ User => HandoffInv'
  <1> SUFFICES ASSUME HandoffInv, User PROVE Outside
    BY OutsideStep
  <1> USE DEF HandoffInv, TypeOK
  <1>0. /\ UNCHANGED <<scene, pc, snap, round, laid, fd>> /\ moves' \in Nat /\ moves' = moves + 1
    BY DEF User, Commit, Unlock, Edit, Save, Remove, Stage, StagePart, Moves, attest, PlaceOK
  <1>a. /\ \A f \in Paths : Held(f) \in Content \cup {NoFile} /\ Lines(Held(f)) \in Content
        /\ \A f \in Paths : Lines(index[f]) \in Content
    BY LinesAreContent DEF Held, StoreOK, NameOK, Tree
  <1>b. name' = name /\ bytes' = bytes => FilesGrow
    BY DEF FilesGrow, NameOK, StoreOK
  <1>1. CASE Commit
    BY <1>0, <1>1, <1>b DEF Outside, Commit, files, StoreOK
  <1>2. CASE Unlock
    BY <1>0, <1>2, <1>b DEF Outside, Unlock, Release, files, StoreOK
  <1>3. ASSUME NEW f \in Paths, Edit(f) PROVE Outside
    <2>1. name[f] \in DOMAIN bytes /\ bytes[name[f]] \in Content
      BY <1>3 DEF Edit, NameOK, StoreOK
    <2>2. /\ Append(bytes[name[f]], Words(moves')) \in Content
          /\ Rounds(Append(bytes[name[f]], Words(moves'))) = Rounds(bytes[name[f]])
      BY <1>0, <2>1, WordsAreContent
    <2>3. FilesGrow
      BY <1>3, <2>1, <2>2, ReplacedContent DEF Edit, FilesGrow, NameOK
    <2> QED
      BY <1>0, <1>3, <2>3 DEF Outside, Edit, git, StoreOK
  <1>4. ASSUME NEW f \in Paths, Save(f) PROVE Outside
    <2>1. Append(Lines(Held(f)), Words(moves')) \in Content
      BY <1>0, <1>a, WordsAreContent
    <2>2. FilesGrow
      BY <1>4, <2>1, AppendedContent DEF Save, FilesGrow, NameOK
    <2> QED
      BY <1>0, <1>4, <2>2 DEF Outside, Save, git, StoreOK
  <1>5. ASSUME NEW f \in Paths, Remove(f) PROVE Outside
    <2>1. FilesGrow
      BY <1>5 DEF Remove, FilesGrow, NameOK, StoreOK
    <2> QED
      BY <1>0, <1>5, <2>1 DEF Outside, Remove, git, StoreOK
  <1>6. ASSUME NEW f \in Paths, Stage(f) PROVE Outside
    <2>1. index' \in Tree
      BY <1>6, <1>a DEF Stage, StoreOK, Tree
    <2> QED
      BY <1>0, <1>6, <1>b, <2>1 DEF Outside, Stage, files, StoreOK
  <1>7. ASSUME NEW f \in Paths, StagePart(f) PROVE Outside
    <2>1. Append(Lines(index[f]), Words(moves')) \in Content
      BY <1>0, <1>a, WordsAreContent
    <2>2. index' \in Tree
      BY <1>7, <2>1 DEF StagePart, StoreOK, Tree
    <2> QED
      BY <1>0, <1>7, <1>b, <2>2 DEF Outside, StagePart, files, StoreOK
  <1>8. scene.touches \subseteq Paths
    BY DEF CallsOK
  <1> QED
    BY <1>1, <1>2, <1>3, <1>4, <1>5, <1>6, <1>7, <1>8 DEF User

-----------------------------------------------------------------------------
(* The command that runs, and the record.                                   *)
Stations == {"idle", "launch", "record", "activate", "stopping", "recognise", "bind", "result", "report",
             "list", "dry", "call", "wait", "reset", "put back", "clean", "finish", "push", "receipt"}
OpType == [at : Stations, run : Runs \cup {0}, moves : Nat, before : SUBSET Paths, plans : SUBSET {Plan},
           left : SUBSET Paths, call : Procs \cup {NoFile}, verdict : Verdicts \cup {"none"},
           commit : Nat, pushed : BOOLEAN]
OpOK ==
    /\ op \in OpType /\ (op.at \in {"report", "list", "dry", "call"} => op.verdict \in Verdicts)
    /\ rec \in Runs \cup {0}
    /\ done \in [Runs -> [state : {"none", "attested", "refused"}, commit : Nat, pushed : BOOLEAN]]

Inv == HandoffInv /\ OpOK

LEMMA OpRunIsNat == OpOK => op.run \in Nat
  <1> SUFFICES ASSUME OpOK PROVE op.run \in Nat
    OBVIOUS
  <1>1. op.run \in Runs \cup {0}
    BY DEF OpOK, OpType
  <1>2. \A r \in Runs \cup {0} : r \in Nat
    BY CodexAssumption
  <1> QED
    BY <1>1, <1>2

LEMMA HandedInitInv == HandedInit => Inv
  <1> SUFFICES ASSUME HandedInit PROVE Inv
    OBVIOUS
  <1> USE ScenesAssumption, JournalAssumption, NoFileAssumption DEF HandedInit, Init
  <1>0. scene \in Scenes /\ \A p \in Procs : pc[p] \in {"head", "uncalled"}
    OBVIOUS
  <1>1. CallsOK /\ PlaceOK
    <2>1. PICK P \in SUBSET Procs : scene.calls \in [P -> Job]
      BY <1>0
    <2>2. CallsOK
      BY <1>0, <2>1 DEF CallsOK, Called, job
    <2>3. PlaceOK
      BY DEF PlaceOK, Places, Early
    <2> QED
      BY <2>2, <2>3
  <1>2. <<>> \in Content /\ <<Words(0)>> \in Content /\ Lines(scene.shard) \in Content
    <2>1. <<>> \in Content
      BY LinesAreContent DEF Lines
    <2>2. <<Words(0)>> \in Content
      <3>1. Append(<<>>, Words(0)) = <<Words(0)>>
        OBVIOUS
      <3>2. Append(<<>>, Words(0)) \in Content
        BY <2>1, WordsAreContent
      <3> QED
        BY <3>1, <3>2
    <2>3. ASSUME scene.shard # NoFile PROVE scene.shard \in Content
      <3> DEFINE c == scene.shard
      <3>1. c \in Seq(Earlier) /\ \A i \in DOMAIN c : c[i].by \notin Procs
        BY <2>3, <1>0
      <3>2. \A i \in DOMAIN c : c[i] \in Authentic /\ c[i].kind = "review"
        <4> SUFFICES ASSUME NEW l \in Earlier, l.by \notin Procs
                     PROVE  l \in Authentic /\ l.kind = "review"
          BY <3>1
        <4>1. l.kind = "review" /\ l \in AnyLine
          BY DEF Earlier, AnyLine
        <4> QED
          BY <4>1 DEF Authentic
      <3>3. c \in Seq(Authentic)
        <4>1. ASSUME NEW S, NEW T, NEW d \in Seq(S), \A i \in DOMAIN d : d[i] \in T
              PROVE  d \in Seq(T)
          BY <4>1
        <4> QED
          BY <3>1, <3>2, <4>1
      <3>4. Rounds(c) = {c[i].round : i \in {k \in DOMAIN c : c[k].verdict = "block"}}
        BY <3>2 DEF Rounds, Blocks
      <3>5. PICK m \in 0..Len(c) : Rounds(c) = 1..m
        BY <2>3, <1>0, <3>4
      <3>6. m \in Nat
        BY <3>1
      <3> QED
        BY <3>3, <3>5, <3>6 DEF Content
    <2> QED
      BY <2>1, <2>2, <2>3 DEF Lines
  <1>3. index \in Tree
    BY <1>2 DEF Tree, Lines, Paths, Shard, Plan, Report
  <1>4. Blank \in Fixed
    BY DEF Blank, Fixed, Tree
  <1>5. StoreOK
    <2>1. bytes \in Seq(Content)
      BY <1>2
    <2>2. log \in Seq(Commits) /\ Len(log) >= 1
      BY <1>3 DEF Commits
    <2>3. Blank.data \in Tree
      BY <1>4 DEF Fixed
    <2> QED
      BY <1>3, <1>4, <2>1, <2>2, <2>3 DEF StoreOK
  <1>6. NameOK
    BY DEF NameOK, Paths, Shard, Plan, Report
  <1>7. NoCommitIsLost
    BY DEF NoCommitIsLost
  <1>8. LockInv /\ SnapInv /\ LaidInv /\ FdInv
    BY <1>0 DEF LockInv, SnapInv, LaidInv, FdInv, Early, Late
  <1>9. RoundInv
    BY <1>0 DEF RoundInv, Late
  <1>10. OpOK
    <2>1. Idle \in OpType
      BY DEF OpType, Idle, Stations
    <2>3. NoHandoff \in [state : {"none", "attested", "refused"}, commit : Nat, pushed : BOOLEAN]
      BY DEF NoHandoff
    <2>2. op.at = "idle" /\ rec \in Runs \cup {0}
      BY <1>0, CodexAssumption DEF Idle
    <2> QED
      BY <2>1, <2>2, <2>3 DEF OpOK
  <1> QED
    BY <1>1, <1>5, <1>6, <1>7, <1>8, <1>9, <1>10 DEF Inv, HandoffInv, TypeOK

LEMMA AttestStep == HandoffInv /\ Next => HandoffInv'
  <1> SUFFICES ASSUME HandoffInv, NEW p \in Called, Attesting(p) PROVE HandoffInv'
    BY UserStep DEF Next
  <1>1. CASE ReadFile(p, Shard, Report) \/ ReadFile(p, Report, Plan) \/ ReadFile(p, Plan, "decide")
    BY <1>1, ReadFileStep DEF Paths, Early, Shard, Report, Plan
  <1>2. CASE TakeLock(p) \/ OpenShard(p) \/ SameFile(p) \/ Hooks(p) \/ Die(p)
    BY <1>2, TakeLockGoesOn, OpenShardGoesOn, OtherGoesOn, GoesOnStep
  <1> QED
    BY <1>1, <1>2, ReadHeadStep, DecideStep, CheckIndexStep, AppendLineStep, RenameIndexStep,
       UpdateRefStep DEF Attesting

LEMMA HeadTreeIsTree == StoreOK => HeadTree \in Tree
  <1> SUFFICES ASSUME StoreOK PROVE HeadTree \in Tree
    OBVIOUS
  <1>1. log[Len(log)] \in Commits
    BY DEF StoreOK
  <1> QED
    BY <1>1 DEF HeadTree, Commits

(* A handoff calls an attest: nobody else's call changes.                   *)
LEMMA CallAttestStep ==
    ASSUME Inv, NEW p \in Procs, CallAttest(p)
    PROVE  HandoffInv'
  <1> USE DEF Inv, HandoffInv, TypeOK
  <1>0. /\ pc[p] = "uncalled" /\ pc' = [pc EXCEPT ![p] = "head"]
        /\ UNCHANGED <<snap, round, laid, fd, name, bytes, index, lock, log, moves>>
    BY DEF CallAttest, files, git
  <1> USE <1>0
  <1>1. PICK claim \in {0, Highest(Lines(Held(Shard)))} :
            scene' = [scene EXCEPT !.calls =
               [c \in Called \cup {p} |->
                   IF c = p THEN [verdict |-> op.verdict, claim |-> claim, commit |-> TRUE,
                                  with |-> {Report} \cup op.plans]
                   ELSE scene.calls[c]]]
    BY DEF CallAttest
  <1>2. claim \in Nat
    <2>1. Lines(Held(Shard)) \in Content
      BY LinesAreContent DEF Held, StoreOK, NameOK, Paths
    <2>2. PICK m \in Nat : Rounds(Lines(Held(Shard))) = 1..m
      BY <2>1 DEF Content
    <2> QED
      BY <2>2, HighestIs
  <1>3. /\ Called' = Called \cup {p} /\ \A q \in Called \ {p} : job'[q] = job[q]
        /\ job'[p] = [verdict |-> op.verdict, claim |-> claim, commit |-> TRUE, with |-> {Report} \cup op.plans]
        /\ DOMAIN scene' = DOMAIN scene /\ scene'.touches = scene.touches
        /\ DOMAIN job' = Called'
    BY <1>1 DEF CallsOK, Called, job
  <1>4. job'[p] \in Job
    BY <1>2, <1>3 DEF CallAttest, During, OpOK, OpType, Job, Verdicts
  <1>a. \A q \in Procs \ {p} : pc'[q] = pc[q]
    BY DEF PlaceOK
  <1>b. pc'[p] = "head"
    BY DEF PlaceOK
  <1>5. CallsOK'
    <2>1. \A q \in Called' : job'[q] \in Job
      BY <1>3, <1>4 DEF CallsOK, job
    <2>2. job' \in [Called' -> Job]
      BY <1>1, <2>1 DEF CallsOK, Called, job
    <2> QED
      BY <1>3, <2>2 DEF CallsOK, Called
  <1>6. PlaceOK' /\ NameOK'
    BY <1>3, <1>a, <1>b DEF PlaceOK, NameOK, Places, Early
  <1>c. \A q \in Procs \ {p} : pc[q] # "uncalled" => q \in Called \ {p}
    BY DEF PlaceOK
  <1>7. StoreOK'
    <2>1. Content \subseteq Content'
      BY <1>3, <1>a, <1>b, <1>c, ContentGrows DEF Late, Ends, job
    <2> QED
      BY <2>1, StoreGrows DEF StoreOK
  <1>8. NoCommitIsLost'
    BY DEF NoCommitIsLost
  <1>9. LockInv' /\ SnapInv'
    BY <1>3, <1>a, <1>b, <1>c DEF LockInv, SnapInv, Staging, Carried, Mine, Old, Early, Late
  <1>10. LaidInv'
    BY <1>3, <1>a, <1>b, <1>c DEF LaidInv, Staging, Carried, Mine, Old, Over, Laid, Target, Known, Line
  <1>11. RoundInv' /\ FdInv'
    BY <1>a, <1>b DEF RoundInv, FdInv, Known, Early, Late
  <1> QED
    BY <1>5, <1>6, <1>7, <1>8, <1>9, <1>10, <1>11

(* What a handoff writes, puts back and removes.                            *)
LEMMA SameBytes ==
    ASSUME StoreOK, NameOK, bytes' = bytes, NEW f \in Paths, name' \in {name, [name EXCEPT ![f] = 0]}
    PROVE  FilesGrow
  <1>1. name' \in [Paths -> 0..Len(bytes)] /\ name'[Shard] # 3
    <2>1. Len(bytes) \in Nat /\ Shard \in Paths
      BY DEF StoreOK, Paths
    <2> QED
      BY <2>1 DEF NameOK
  <1> QED
    BY <1>1 DEF FilesGrow, StoreOK

LEMMA NewBytes ==
    ASSUME StoreOK, NameOK, NEW c \in Content, bytes' = Append(bytes, c), NEW f \in Paths,
           name' = [name EXCEPT ![f] = Len(bytes')]
    PROVE  FilesGrow
  <1>1. /\ bytes' \in Seq(Content) /\ Len(bytes') = Len(bytes) + 1 /\ Len(bytes) \in Nat
        /\ DOMAIN bytes \subseteq DOMAIN bytes' /\ \A k \in DOMAIN bytes : bytes'[k] = bytes[k]
    BY AppendedContent DEF StoreOK
  <1>2. name' \in [Paths -> 0..Len(bytes')] /\ name'[Shard] # 3
    BY <1>1 DEF NameOK
  <1> QED
    BY <1>1, <1>2 DEF FilesGrow

LEMMA RestoreStep ==
    ASSUME Inv, \/ WriteReport \/ Reset \/ Refuse
                \/ \E f \in Paths : PutBack(f)
    PROVE  HandoffInv'
  <1> SUFFICES Outside
    BY OutsideStep DEF Inv
  <1> USE DEF Inv, HandoffInv, TypeOK, Outside, OnlyFiles, attest, files, git
  <1>0. HeadTree \in Tree /\ moves \in Nat
    BY HeadTreeIsTree DEF PlaceOK
  <1>1. CASE WriteReport
    <2>1. <<ReportText(op.run)>> \in Content
      <3>1. ReportText(op.run) \in Authentic /\ ReportText(op.run).kind = "report"
        BY OpRunIsNat DEF ReportText, Authentic, AnyLine
      <3>2. <<>> \in Content
        BY LinesAreContent DEF Lines
      <3>3. Rounds(Append(<<>>, ReportText(op.run))) = Rounds(<<>>)
        BY <3>1, <3>2, RoundsOfAppend DEF Content
      <3>4. Append(<<>>, ReportText(op.run)) = <<ReportText(op.run)>>
        OBVIOUS
      <3> QED
        BY <3>1, <3>2, <3>3, <3>4 DEF Content
    <2>2. 3 \in DOMAIN bytes /\ Len(bytes) \in Nat
      BY DEF StoreOK, NameOK
    <2>3. FilesGrow
      BY <1>1, <2>1, <2>2, ReplacedContent DEF WriteReport, FilesGrow, NameOK, Paths, Shard, Report
    <2> QED
      BY <1>0, <1>1, <2>3 DEF WriteReport, StoreOK
  <1>2. CASE Reset
    <2>1. FilesGrow
      BY <1>2, SameBytes, Shard \in Paths DEF Reset, Paths
    <2> QED
      BY <1>0, <1>2, <2>1 DEF Reset, StoreOK
  <1>3. CASE Refuse
    <2>1. FilesGrow
      BY <1>3, SameBytes, Report \in Paths DEF Refuse, Paths
    <2> QED
      BY <1>0, <1>3, <2>1 DEF Refuse, StoreOK
  <1>4. ASSUME NEW f \in Paths, PutBack(f) PROVE Outside
    <2>1. CASE HeadTree[f] # NoFile /\ lock = NoFile
      <3>1. HeadTree[f] \in Content
        BY <1>0, <2>1 DEF Tree
      <3>2. FilesGrow
        BY <1>4, <2>1, <3>1, NewBytes DEF PutBack
      <3>3. index' \in Tree
        BY <1>4, <2>1, <3>1 DEF PutBack, StoreOK, Tree
      <3> QED
        BY <1>0, <1>4, <2>1, <3>2, <3>3 DEF PutBack
    <2>2. CASE ~(HeadTree[f] # NoFile /\ lock = NoFile)
      <3>1. FilesGrow
        BY <1>4, <2>2, SameBytes DEF PutBack, Unlinked
      <3> QED
        BY <1>0, <1>4, <2>2, <3>1 DEF PutBack, StoreOK
    <2> QED
      BY <2>1, <2>2
  <1> QED
    BY <1>1, <1>2, <1>3, <1>4

(* The command itself.                                                      *)
LEMMA OpStep == Inv /\ HandedNext => OpOK'
  <1> SUFFICES ASSUME Inv, HandedNext PROVE OpOK'
    OBVIOUS
  <1>0. Runs \subseteq Nat /\ moves \in Nat /\ Len(log) \in Nat
    BY CodexAssumption DEF Inv, HandoffInv, TypeOK, PlaceOK, StoreOK
  <1> USE <1>0 DEF OpOK, During, Goal, Rests
  <1>i. Idle \in OpType /\ Idle.at = "idle"
    BY DEF OpType, Idle, Stations
  <1>t. OpOK
    BY DEF Inv
  <1> USE <1>t
  <1>1. CASE Attested
    BY <1>1 DEF Attested, runs, handing
  <1>2. CASE Supervised /\ UNCHANGED <<rec, bound, handing>>
    BY <1>2 DEF handing
  <1>3. CASE KillCommand
    BY <1>3, <1>i DEF KillCommand, NoRunTouched, runs
  <1>4. ASSUME NEW r \in Runs, Start(r) PROVE OpOK'
    BY <1>4 DEF Start, OpType, Stations
  <1>5. ASSUME NEW force \in BOOLEAN, Stop(force) PROVE OpOK'
    <2>1. CASE Alive(rec)
      <3>1. op' = [op EXCEPT !.at = "stopping", !.run = rec] /\ rec' = rec /\ done' = done
        BY <1>5, <2>1 DEF Stop
      <3> QED
        BY <3>1 DEF OpType, Stations
    <2>2. CASE ~Alive(rec)
      BY <1>5, <2>2 DEF Stop
    <2> QED
      BY <2>1, <2>2
  <1>6. CASE Launch
    BY <1>6 DEF Launch, OpType, Stations
  <1>7. CASE Record
    BY <1>7 DEF Record, OpType, Stations
  <1>8. CASE Activate \/ Stopped
    BY <1>8, <1>i DEF Activate, Stopped
  <1>9. ASSUME HandOver PROVE OpOK'
    <2>0. rec' = rec
      BY <1>9 DEF HandOver, Look, Recognise, Bind, TakeResult, WriteReport, ListDirty, DryRun, Await, Reset,
         AllPutBack, Refuse, Name, PushHead, WriteReceipt, CallAttest, PutBack, NoRunTouched, runs
    <2> USE <2>0
    <2>1. CASE Look
      BY <2>1 DEF Look, OpType, Stations
    <2>2. CASE Recognise
      BY <2>2 DEF Recognise, OpType, Stations
    <2>3. CASE Bind
      <3>1. done' = done /\ (op' = [op EXCEPT !.at = "result"] \/ op' = Idle)
        BY <2>3 DEF Bind
      <3> QED
        BY <3>1, <1>i DEF OpType, Stations
    <2>4. CASE TakeResult
      <3>1. /\ done' = done
            /\ \/ op' = Idle
               \/ \E v \in Verdicts : op' = [op EXCEPT !.at = "report", !.verdict = v]
        BY <2>4 DEF TakeResult, ResultOk
      <3> QED
        BY <3>1, <1>i DEF OpType, Stations
    <2>5. CASE WriteReport
      BY <2>5 DEF WriteReport, OpType, Stations
    <2>6. CASE ListDirty
      BY <2>6 DEF ListDirty, OpType, Stations, Dirty, RecordsAppended
    <2>7. CASE DryRun
      BY <2>7 DEF DryRun, OpType, Stations
    <2>8. CASE Await
      BY <2>8 DEF Await, OpType, Stations
    <2>9. CASE Reset
      <3>1. Dirty' \subseteq Paths
        BY DEF Dirty
      <3> QED
        BY <2>9, <3>1 DEF Reset, OpType, Stations
    <2>10. CASE AllPutBack
      BY <2>10 DEF AllPutBack, OpType, Stations
    <2>11. CASE Refuse
      BY <2>11, <1>i DEF Refuse, OpType, NoHandoff
    <2>12. CASE Name
      BY <2>12 DEF Name, OpType, Stations
    <2>13. CASE PushHead
      BY <2>13 DEF PushHead, OpType, Stations
    <2>14. CASE WriteReceipt
      BY <2>14, <1>i DEF WriteReceipt, OpType
    <2>15. ASSUME NEW p \in Procs, CallAttest(p) PROVE OpOK'
      BY <2>15 DEF CallAttest, OpType, Stations
    <2>16. ASSUME NEW f \in Paths, PutBack(f) PROVE OpOK'
      BY <2>16 DEF PutBack, OpType, Stations
    <2> QED
      BY <1>9, <2>1, <2>2, <2>3, <2>4, <2>5, <2>6, <2>7, <2>8, <2>9, <2>10, <2>11, <2>12, <2>13, <2>14,
         <2>15, <2>16 DEF HandOver
  <1> QED
    BY <1>1, <1>2, <1>3, <1>4, <1>5, <1>6, <1>7, <1>8, <1>9 DEF HandedNext, Command

LEMMA InvStep == Inv /\ [HandedNext]_all => Inv'
  <1> SUFFICES ASSUME Inv, [HandedNext]_all PROVE Inv'
    OBVIOUS
  <1>1. CASE Attested
    <2>1. HandoffInv'
      BY <1>1, AttestStep DEF Attested, Inv
    <2> QED
      BY <1>1, <2>1, OpStep DEF HandedNext, Inv
  <1>2. CASE UNCHANGED all
    BY <1>2, NothingMoves DEF all, runs, handing, vars, Inv, OpOK
  <1>3. CASE KillCommand \/ (Supervised /\ NoFilesTouched /\ UNCHANGED <<rec, bound, handing>>)
    <2>1. UNCHANGED vars
      BY <1>3 DEF KillCommand, NoFilesTouched
    <2> QED
      BY <1>3, <2>1, NothingMoves, OpStep DEF HandedNext, Inv
  <1>4. CASE Command
    <2>1. \/ UNCHANGED vars \/ WriteReport \/ Reset \/ Refuse
          \/ (\E f \in Paths : PutBack(f)) \/ \E p \in Procs : CallAttest(p)
      BY <1>4 DEF Command, HandOver, Launch, Record, Activate, Stopped, Start, Stop, Look, Recognise, Bind,
         TakeResult, ListDirty, DryRun, Await, AllPutBack, Name, PushHead, WriteReceipt, NoFilesTouched
    <2>2. HandoffInv'
      BY <2>1, NothingMoves, RestoreStep, CallAttestStep DEF Inv
    <2> QED
      BY <1>4, <2>2, OpStep DEF HandedNext, Inv
  <1> QED
    BY <1>1, <1>2, <1>3, <1>4 DEF HandedNext

LEMMA Invariance == HandedSpec => []Inv
  BY HandedInitInv, InvStep, PTL DEF HandedSpec

-----------------------------------------------------------------------------
(* HEAD's history stays one line, whoever attests, commits or dies.         *)
THEOREM HistoryIsALine == HandedSpec => []NoCommitIsLost
  BY Invariance, PTL DEF Inv, HandoffInv

(* No pass that stands in the file, the index or HEAD outranks a block of a *)
(* round its attest had not seen blocked.                                   *)
THEOREM NoBlockIsPassedOver == HandedSpec => []PassesOverNoUnseenBlock
  <1>1. Inv => PassesOverNoUnseenBlock
    <2> SUFFICES ASSUME Inv, NEW lines \in Read, NEW l \in Standing(lines), NEW b \in Blocks(lines),
                        l.by \in Procs
                 PROVE  \E s \in Blocks(Known(l.by)) : s.round = b.round
      BY DEF PassesOverNoUnseenBlock
    <2> USE DEF Inv, HandoffInv, TypeOK
    <2>1. lines \in Content
      <3>1. Held(Shard) \in Content \cup {NoFile} /\ index[Shard] \in Content \cup {NoFile}
        BY DEF Held, StoreOK, NameOK, Tree, Paths
      <3>2. log[Len(log)].tree[Shard] \in Content \cup {NoFile}
        BY HeadTreeIsTree DEF HeadTree, Tree, Paths
      <3> QED
        BY <3>1, <3>2, LinesAreContent DEF Read
    <2>2. l \in Authentic /\ l.kind = "review"
      BY <2>1 DEF Standing, Content
    <2>3. l.round = round[l.by]
      BY <2>2 DEF Authentic, Line, Review
    <2>4. PICK k \in Nat : Rounds(Known(l.by)) = 1..k
      BY KnownIsContent DEF Content
    <2>5. round[l.by] <= k + 1 /\ round[l.by] \in Nat
      BY <2>4 DEF RoundInv, PlaceOK
    <2>6. PICK m \in Nat : Rounds(lines) = 1..m
      BY <2>1 DEF Content
    <2>7. b.round \in 1..m
      BY <2>6 DEF Rounds
    <2>8. b.round < round[l.by]
      BY <2>3 DEF Standing
    <2>9. b.round \in 1..k
      BY <2>5, <2>7, <2>8
    <2> QED
      BY <2>4, <2>9 DEF Rounds
  <1> QED
    BY Invariance, <1>1, PTL

(* What KeepsForeignWork says of a step.                                    *)
KeepsNow ==
    pc' # pc =>
        \A f \in Paths :
            /\ \/ Extends(index'[f], index[f])
               \/ \E i \in DOMAIN log : log[i].tree[f] = index[f]
            /\ name[f] # 0 => name'[f] = name[f] /\ Extends(bytes'[name[f]], bytes[name[f]])

LEMMA ExtendsItself ==
    ASSUME NEW S, NEW c \in Seq(S)
    PROVE  Extends(c, c) /\ \A l \in S : Extends(Append(c, l), c)
  BY DEF Extends

LEMMA IndexIsKept ==
    ASSUME Inv, NEW p \in Called, RenameIndex(p), NEW f \in Paths
    PROVE  Extends(index'[f], index[f]) \/ \E i \in DOMAIN log : log[i].tree[f] = index[f]
  <1> USE DEF Inv, HandoffInv, TypeOK
  <1>1. /\ p \in Procs /\ pc[p] = "rename" /\ Staging(p) /\ index' = Over(index, p)
        /\ \A g \in Carried(p) : index[g] \in Mine(p, g)
        /\ snap[p].old \in DOMAIN log
    BY DEF RenameIndex, CallsOK, LockInv, LaidInv, SnapInv, Late
  <1>2. index[f] # NoFile => index[f] \in Seq(Authentic)
    BY DEF StoreOK, Tree, Content
  <1>3. CASE f \notin Carried(p)
    BY <1>1, <1>2, <1>3, ExtendsItself DEF Over, Extends
  <1>4. CASE f \in Carried(p)
    <2>1. CASE index[f] = NoFile
      BY <2>1 DEF Extends
    <2>2. CASE index[f] = Old(p)[f]
      BY <1>1, <2>2 DEF Old
    <2>3. CASE index[f] = snap[p].data[f] /\ index[f] # NoFile
      <3>1. index'[f] = Laid(p, f)
        BY <1>1, <1>4 DEF Over
      <3>2. CASE f # Shard
        BY <1>2, <2>3, <3>1, <3>2, ExtendsItself DEF Laid
      <3>3. CASE f = Shard
        <4>1. index[f] = Known(p) /\ index'[f] = Append(Known(p), Line(p))
          BY <2>3, <3>1, <3>3 DEF Laid, Target, Known, Lines
        <4>2. Known(p) \in Content
          BY <1>1, KnownIsContent
        <4>3. Append(Known(p), Line(p)) \in Content
          BY <1>1, <4>2, LineIsContent DEF Late
        <4> QED
          BY <4>1, <4>2, <4>3, ExtendsItself DEF Content, Extends
      <3> QED
        BY <3>2, <3>3
    <2> QED
      BY <1>1, <1>4, <2>1, <2>2, <2>3 DEF Mine
  <1> QED
    BY <1>3, <1>4

(* No step of an attest throws away what somebody else staged or wrote.     *)
THEOREM ForeignWorkIsKept == HandedSpec => KeepsForeignWork
  <1>1. Inv /\ [HandedNext]_all => [KeepsNow]_vars
    <2> SUFFICES ASSUME Inv, HandedNext, pc' # pc, NEW f \in Paths
                 PROVE  /\ \/ Extends(index'[f], index[f])
                           \/ \E i \in DOMAIN log : log[i].tree[f] = index[f]
                        /\ name[f] # 0 => name'[f] = name[f] /\ Extends(bytes'[name[f]], bytes[name[f]])
      BY DEF KeepsNow, all, vars, attest, files, git
    <2> USE DEF Inv, HandoffInv, TypeOK
    <2>1. /\ Extends(index[f], index[f])
          /\ name[f] # 0 => bytes[name[f]] \in Seq(Authentic) /\ Extends(bytes[name[f]], bytes[name[f]])
      <3>1. index[f] = NoFile \/ index[f] \in Seq(Authentic)
        BY DEF StoreOK, Tree, Content
      <3>2. name[f] # 0 => name[f] \in DOMAIN bytes /\ bytes[name[f]] \in Seq(Authentic)
        BY DEF StoreOK, NameOK, Content
      <3> QED
        BY <3>1, <3>2, ExtendsItself DEF Extends
    <2>2. (\E p \in Called : Attesting(p)) \/ \E p \in Procs : CallAttest(p)
      BY DEF HandedNext, Attested, Next, User, Edit, Save, Remove, Stage, StagePart, Commit, Unlock, Moves, attest,
         Command, KillCommand, Supervised, HandOver, Launch, Record, Activate, Stopped, Start, Stop, Look,
         Recognise, Bind, TakeResult, ListDirty, DryRun, Await, AllPutBack, Name, PushHead, WriteReceipt,
         WriteReport, Reset, Refuse, PutBack, OnlyFiles, NoFilesTouched, vars
    <2>3. CASE \E p \in Procs : CallAttest(p)
      BY <2>1, <2>3 DEF CallAttest, files, git
    <2>4. ASSUME NEW p \in Called, RenameIndex(p)
          PROVE  Extends(index'[f], index[f]) \/ \E i \in DOMAIN log : log[i].tree[f] = index[f]
      BY <2>4, IndexIsKept
    <2>5. ASSUME NEW p \in Called, RenameIndex(p) PROVE UNCHANGED <<name, bytes>>
      BY <2>5 DEF RenameIndex, OnlyAt, files
    <2>6. ASSUME NEW p \in Called, AppendLine(p)
          PROVE  /\ index' = index
                 /\ name[f] # 0 => name'[f] = name[f] /\ Extends(bytes'[name[f]], bytes[name[f]])
      <3>1. index' = index /\ pc[p] = "append" /\ p \in Procs
        BY <2>6 DEF AppendLine, CallsOK
      <3>2. CASE bytes' = bytes /\ name' = name
        BY <2>1, <3>1, <3>2
      <3>3. CASE fd[p] # 0 /\ bytes' = [bytes EXCEPT ![fd[p]] = Append(bytes[fd[p]], Line(p))] /\ name' = name
        <4>1. fd[p] \in DOMAIN bytes /\ bytes[fd[p]] \in Content
          BY <3>1, <3>3 DEF FdInv, StoreOK
        <4>2. Append(bytes[fd[p]], Line(p)) \in Content
          BY <3>1, <3>3, <4>1, KnownIsContent, LineIsContent DEF FdInv, Late
        <4>3. Extends(Append(bytes[fd[p]], Line(p)), bytes[fd[p]])
          BY <4>1, <4>2, ExtendsItself DEF Content, Extends
        <4>4. \A k \in DOMAIN bytes : bytes'[k] = IF k = fd[p] THEN Append(bytes[fd[p]], Line(p)) ELSE bytes[k]
          BY <3>3, <4>1, <4>2, ReplacedContent
        <4>5. name[f] # 0 => name[f] \in DOMAIN bytes
          BY DEF NameOK, StoreOK
        <4> QED
          BY <2>1, <3>1, <3>3, <4>3, <4>4, <4>5
      <3>4. CASE /\ fd[p] = 0 /\ name[Shard] = 0 /\ bytes' = Append(bytes, <<Line(p)>>)
                 /\ name' = [name EXCEPT ![Shard] = Len(bytes')]
        <4>1. name[f] # 0 => name'[f] = name[f] /\ name[f] \in 1..Len(bytes)
          BY <3>4 DEF NameOK, StoreOK
        <4>2. \A k \in 1..Len(bytes) : bytes'[k] = bytes[k]
          BY <3>4 DEF StoreOK
        <4> QED
          BY <2>1, <3>1, <4>1, <4>2
      <3> QED
        BY <2>6, <3>2, <3>3, <3>4 DEF AppendLine, Appended, files
    <2>7. ASSUME NEW p \in Called, Attesting(p), ~RenameIndex(p), ~AppendLine(p)
          PROVE  UNCHANGED <<index, name, bytes>>
      BY <2>7 DEF Attesting, ReadHead, ReadFile, Decide, TakeLock, CheckIndex, OpenShard, SameFile, Hooks,
         UpdateRef, Die, OnlyAt, files, git
    <2> QED
      BY <2>1, <2>2, <2>3, <2>4, <2>5, <2>6, <2>7
  <1> QED
    BY Invariance, <1>1, PTL DEF HandedSpec, KeepsForeignWork, KeepsNow

-----------------------------------------------------------------------------
(* Runs and what was attested of them. A run that has ended keeps its       *)
(* receipt; an attest was called for one that completed, with the verdict   *)
(* its receipt seals; no run on record as unavailable is such a one; a line *)
(* of a run is committed after the head its review is bound to.             *)
RunType == [phase : {"review", "execute"},
            sup : {"none", "young", "barrier", "spawn", "watch", "judge", "leaving", "sealed", "gone", "killed"},
            go : BOOLEAN, signal : BOOLEAN, worker : {"none", "alive", "dead"}, tries : Nat,
            code : {"none", "zero", "other", "killed"}, result : Results,
            receipt : [outcome : {"none", "completed", "failed", "interrupted"}, seal : Results]]
Settled(r) == run[r].sup \in {"gone", "killed"}
Attestable(r, v) == v \in Verdicts /\ Settled(r) /\ run[r].receipt = [outcome |-> "completed", seal |-> v]

RunOK ==
    /\ run \in [Runs -> RunType] /\ bound \in [Runs -> Nat] /\ for \in [Procs -> Runs \cup {0}]
    /\ \A r \in Runs : /\ run[r].sup = "none" => run[r].receipt = NoReceipt
                       /\ bound[r] <= Len(log)
    /\ "phase" \in DOMAIN scene /\ scene.phase \in {"review", "execute"}
InHand ==
    /\ op.at = "launch" => run[op.run].sup = "none"
    /\ op.at \in {"launch", "record", "activate", "stopping", "recognise", "bind", "result", "report",
                  "list", "dry", "call"} => op.run \in Runs
    /\ op.at \in {"recognise", "bind", "result"} =>
           Settled(op.run) /\ run[op.run].receipt.outcome = "completed"
    /\ op.at \in {"report", "list", "dry", "call"} => Attestable(op.run, op.verdict)
RowsOK == \A r \in rows : r \in Runs /\ Settled(r) /\ \A v \in Verdicts : ~Attestable(r, v)
CalledFor ==
    \A p \in Procs : for[p] # 0 => /\ pc[p] # "uncalled" /\ for[p] \in Runs
                                   /\ Attestable(for[p], job[p].verdict)
AfterItsHead == \A i \in DOMAIN log : \A r \in Runs : LinesOf(i, r) # {} => bound[r] < i

TruthInv == RunOK /\ InHand /\ RowsOK /\ CalledFor /\ AfterItsHead

LEMMA TruthInit == HandedInit => TruthInv
  <1> SUFFICES ASSUME HandedInit PROVE TruthInv
    OBVIOUS
  <1> USE CodexAssumption, ScenesAssumption DEF HandedInit
  <1>0. scene \in Scenes /\ log = <<[tree |-> index, parent |-> 0]>>
    BY DEF Init
  <1>1. Unlaunched \in RunType /\ Unlaunched.receipt = NoReceipt
    BY DEF Unlaunched, RunType, NoReceipt, Results, Verdicts
  <1>2. AsEnded \in RunType /\ AsEnded.sup = "gone"
    <2>1. scene.ended \in Results
      BY <1>0
    <2> QED
      BY <1>1, <2>1 DEF AsEnded, RunType, Unlaunched
  <1>3. RunOK
    <2>1. Len(log) = 1
      BY <1>0
    <2> QED
      BY <1>0, <1>1, <1>2, <2>1 DEF RunOK
  <1>4. InHand
    BY DEF InHand, Idle
  <1>5. RowsOK /\ CalledFor
    BY DEF RowsOK, CalledFor
  <1>6. AfterItsHead
    BY DEF AfterItsHead, LinesOf, LinesFor
  <1> QED
    BY <1>3, <1>4, <1>5, <1>6 DEF TruthInv

(* What a run comes to: its receipt is final once it has ended.             *)
StaysEnded(r) ==
    /\ Settled(r) => run'[r].sup = run[r].sup /\ run'[r].receipt = run[r].receipt
    /\ run[r].sup # "none" => run'[r].sup # "none"

(* What is still to come of a run may change, or what neither counts.       *)
Sups == {"young", "barrier", "spawn", "watch", "judge", "leaving", "sealed", "gone", "killed"}
ComesTo(r, e) ==
    /\ e \in RunType /\ run' = [run EXCEPT ![r] = e]
    /\ \/ run[r].sup \notin {"none", "gone", "killed"} /\ e.sup \in Sups
       \/ e.sup = run[r].sup /\ e.receipt = run[r].receipt

Receipts == [outcome : {"none", "completed", "failed", "interrupted"}, seal : Results]
Alike(x, e) == x \in RunType /\ x.sup = e.sup /\ x.receipt = e.receipt

LEMMA RunFields ==
    ASSUME NEW e \in RunType
    PROVE  /\ \A x \in Sups : /\ [e EXCEPT !.sup = x] \in RunType /\ [e EXCEPT !.sup = x].sup = x
                              /\ [e EXCEPT !.sup = x].receipt = e.receipt
           /\ \A x \in Results : Alike([e EXCEPT !.result = x], e)
           /\ \A x \in BOOLEAN : Alike([e EXCEPT !.signal = x], e) /\ Alike([e EXCEPT !.go = x], e)
           /\ \A x \in {"review", "execute"} : Alike([e EXCEPT !.phase = x], e)
           /\ \A x \in {"none", "alive", "dead"} : Alike([e EXCEPT !.worker = x], e)
           /\ \A x \in {"none", "zero", "other", "killed"} : Alike([e EXCEPT !.code = x], e)
           /\ Alike([e EXCEPT !.tries = @ + 1], e)
           /\ \A x \in Receipts : [e EXCEPT !.receipt = x] \in RunType /\ [e EXCEPT !.receipt = x].sup = e.sup
  <1> USE DEF RunType, Alike
  <1>1. \A x \in Sups : /\ [e EXCEPT !.sup = x] \in RunType /\ [e EXCEPT !.sup = x].sup = x
                        /\ [e EXCEPT !.sup = x].receipt = e.receipt
    BY DEF Sups
  <1>2. \A x \in Results : Alike([e EXCEPT !.result = x], e)
    OBVIOUS
  <1>3. \A x \in BOOLEAN : Alike([e EXCEPT !.signal = x], e) /\ Alike([e EXCEPT !.go = x], e)
    OBVIOUS
  <1>4. \A x \in {"review", "execute"} : Alike([e EXCEPT !.phase = x], e)
    OBVIOUS
  <1>5. \A x \in {"none", "alive", "dead"} : Alike([e EXCEPT !.worker = x], e)
    OBVIOUS
  <1>6. \A x \in {"none", "zero", "other", "killed"} : Alike([e EXCEPT !.code = x], e)
    OBVIOUS
  <1>7. Alike([e EXCEPT !.tries = @ + 1], e)
    OBVIOUS
  <1>8. \A x \in Receipts : [e EXCEPT !.receipt = x] \in RunType /\ [e EXCEPT !.receipt = x].sup = e.sup
    BY DEF Receipts
  <1> QED
    BY <1>1, <1>2, <1>3, <1>4, <1>5, <1>6, <1>7, <1>8

LEMMA ComesToStep ==
    ASSUME RunOK, NEW r \in Runs, NEW e, ComesTo(r, e)
    PROVE  /\ run' \in [Runs -> RunType]
           /\ \A s \in Runs : StaysEnded(s) /\ (run[s].sup = "none" => run'[s].sup = "none")
           /\ \A s \in Runs : run'[s].sup = "none" => run'[s].receipt = NoReceipt
  <1>1. /\ run' \in [Runs -> RunType] /\ run'[r] = e /\ \A s \in Runs \ {r} : run'[s] = run[s]
    BY DEF RunOK, ComesTo
  <1>2. e.sup \in Sups => e.sup # "none"
    BY DEF Sups
  <1> QED
    BY <1>1, <1>2 DEF RunOK, ComesTo, StaysEnded, Settled

LEMMA RunComesTo ==
    ASSUME RunOK, NEW r \in Runs, Supervise(r) \/ Work(r) \/ Kill(r) \/ Meddle(r)
    PROVE  \E e : ComesTo(r, e)
  <1> DEFINE e == run[r]
  <1>0. e \in RunType /\ e.receipt \in Receipts
    BY DEF RunOK, RunType, Receipts
  <1>a. e.sup \in Sups \ {"gone", "killed"} => e.sup \notin {"none", "gone", "killed"}
    BY DEF Sups
  <1>1. ASSUME NEW place \in {"barrier", "spawn", "gone"},
               ToPlace(r, place), e.sup \in {"young", "barrier", "judge", "sealed"}
        PROVE  \E x : ComesTo(r, x)
    <2> DEFINE x == [e EXCEPT !.sup = place]
    <2>1. x \in RunType /\ x.sup = place
      <3>1. place \in Sups
        BY <1>1 DEF Sups
      <3> QED
        BY <1>0, <3>1, RunFields
    <2>2. run' = [run EXCEPT ![r] = x]
      BY <1>1 DEF ToPlace
    <2>3. ComesTo(r, x)
      BY <1>1, <2>1, <2>2 DEF ComesTo, Sups
    <2> QED
      BY <2>3
  <1>2. ASSUME NEW status \in {"completed", "failed", "interrupted"},
               Ended(r, status), e.sup \in {"barrier", "judge"}
        PROVE  \E x : ComesTo(r, x)
    <2> DEFINE w == [e.receipt EXCEPT !.outcome = status]
               y == [e EXCEPT !.sup = "leaving"]
               x == [y EXCEPT !.receipt = w]
    <2>1. w \in Receipts
      BY <1>0 DEF Receipts
    <2>2. y \in RunType /\ y.sup = "leaving" /\ y.receipt = e.receipt
      BY <1>0, RunFields DEF Sups
    <2>3. x \in RunType /\ x.sup = "leaving"
      BY <2>1, <2>2, RunFields DEF Alike
    <2>4. run' = [run EXCEPT ![r] = x]
      BY <1>2 DEF Ended
    <2>5. ComesTo(r, x)
      BY <1>2, <2>3, <2>4 DEF ComesTo, Sups
    <2> QED
      BY <2>5
  <1>3. CASE Ready(r) \/ PassBarrier(r) \/ Leave(r)
    BY <1>1, <1>3 DEF Ready, PassBarrier, Leave, At
  <1>4. CASE GiveUp(r)
    BY <1>2, <1>4 DEF GiveUp, At
  <1>5. CASE Judge(r)
    <2>1. Status(r) \in {"completed", "failed", "interrupted"}
      BY DEF Status
    <2> QED
      BY <1>1, <1>2, <1>5, <2>1 DEF Judge, At
  <1>6. CASE Spawn(r)
    <2> DEFINE x1 == [e EXCEPT !.sup = "watch"]
               x2 == [x1 EXCEPT !.worker = "alive"]
               x3 == [x2 EXCEPT !.code = "none"]
               x == [x3 EXCEPT !.tries = @ + 1]
    <2>1. x1 \in RunType /\ x1.sup = "watch"
      BY <1>0, RunFields DEF Sups
    <2>2. x2 \in RunType /\ x2.sup = "watch"
      BY <2>1, RunFields DEF Alike
    <2>3. x3 \in RunType /\ x3.sup = "watch"
      BY <2>2, RunFields DEF Alike
    <2>4. x \in RunType /\ x.sup = "watch"
      BY <2>3, RunFields DEF Alike
    <2>5. run' = [run EXCEPT ![r] = x]
      BY <1>6 DEF Spawn
    <2>6. ComesTo(r, x)
      BY <1>6, <2>4, <2>5 DEF ComesTo, Sups, Spawn, At
    <2> QED
      BY <2>6
  <1>7. CASE Reap(r)
    <2> DEFINE c == IF e.worker = "alive" THEN "killed" ELSE e.code
               x1 == [e EXCEPT !.sup = "judge"]
               x2 == [x1 EXCEPT !.worker = "dead"]
               x == [x2 EXCEPT !.code = c]
    <2>0. c \in {"none", "zero", "other", "killed"}
      BY <1>0 DEF RunType
    <2>1. x1 \in RunType /\ x1.sup = "judge"
      BY <1>0, RunFields DEF Sups
    <2>2. x2 \in RunType /\ x2.sup = "judge"
      BY <2>1, RunFields DEF Alike
    <2>3. x \in RunType /\ x.sup = "judge"
      BY <2>0, <2>2, RunFields DEF Alike
    <2>4. run' = [run EXCEPT ![r] = x]
      BY <1>7 DEF Reap
    <2>5. ComesTo(r, x)
      BY <1>7, <2>3, <2>4 DEF ComesTo, Sups, Reap, At
    <2> QED
      BY <2>5
  <1>8. CASE Seal(r)
    <2> DEFINE w == [e.receipt EXCEPT !.seal = e.result]
               y == [e EXCEPT !.sup = "sealed"]
               x == [y EXCEPT !.receipt = w]
    <2>1. w \in Receipts
      BY <1>0 DEF RunType, Receipts
    <2>2. y \in RunType /\ y.sup = "sealed" /\ y.receipt = e.receipt
      BY <1>0, RunFields DEF Sups
    <2>3. x \in RunType /\ x.sup = "sealed"
      BY <2>1, <2>2, RunFields DEF Alike
    <2>4. run' = [run EXCEPT ![r] = x]
      BY <1>8 DEF Seal
    <2>5. ComesTo(r, x)
      BY <1>8, <2>3, <2>4 DEF ComesTo, Sups, Seal, At
    <2> QED
      BY <2>5
  <1>9. CASE Kill(r)
    <2> DEFINE w == IF e.sup = "sealed" THEN e.receipt ELSE NoReceipt
               y == [e EXCEPT !.sup = "killed"]
               x == [y EXCEPT !.receipt = w]
    <2>1. w \in Receipts
      BY <1>0 DEF NoReceipt, Results, Receipts
    <2>2. y \in RunType /\ y.sup = "killed" /\ y.receipt = e.receipt
      BY <1>0, RunFields DEF Sups
    <2>3. x \in RunType /\ x.sup = "killed"
      BY <2>1, <2>2, RunFields DEF Alike
    <2>4. run' = [run EXCEPT ![r] = x]
      BY <1>9 DEF Kill
    <2>5. ComesTo(r, x)
      BY <1>9, <2>3, <2>4 DEF ComesTo, Sups, Kill, Alive
    <2> QED
      BY <2>5
  <1>10. CASE Overdue(r)
    <2> DEFINE x == [e EXCEPT !.signal = TRUE]
    <2>1. x \in RunType /\ x.sup = e.sup /\ x.receipt = e.receipt
      BY <1>0, RunFields DEF Alike
    <2>2. run' = [run EXCEPT ![r] = x]
      BY <1>10 DEF Overdue
    <2>3. ComesTo(r, x)
      BY <2>1, <2>2 DEF ComesTo
    <2> QED
      BY <2>3
  <1>11. ASSUME NEW v \in Results, run' = [run EXCEPT ![r].result = v]
         PROVE  \E x : ComesTo(r, x)
    <2> DEFINE x == [e EXCEPT !.result = v]
    <2>1. x \in RunType /\ x.sup = e.sup /\ x.receipt = e.receipt
      BY <1>0, <1>11, RunFields DEF Alike
    <2>2. run' = [run EXCEPT ![r] = x]
      BY <1>11
    <2>3. ComesTo(r, x)
      BY <2>1, <2>2 DEF ComesTo
    <2> QED
      BY <2>3
  <1>12. ASSUME NEW c \in {"zero", "other"}, Exit(r, c)
         PROVE  \E x : ComesTo(r, x)
    <2> DEFINE y == [e EXCEPT !.worker = "dead"]
               x == [y EXCEPT !.code = c]
    <2>1. y \in RunType /\ y.sup = e.sup /\ y.receipt = e.receipt
      BY <1>0, RunFields DEF Alike
    <2>2. x \in RunType /\ x.sup = e.sup /\ x.receipt = e.receipt
      <3>1. c \in {"none", "zero", "other", "killed"}
        BY <1>12
      <3> QED
        BY <2>1, <3>1, RunFields DEF Alike
    <2>3. run' = [run EXCEPT ![r] = x]
      BY <1>12 DEF Exit
    <2>4. ComesTo(r, x)
      BY <2>2, <2>3 DEF ComesTo
    <2> QED
      BY <2>4
  <1>13. CASE Work(r)
    BY <1>11, <1>12, <1>13 DEF Work, WriteResult
  <1>14. CASE Meddle(r)
    BY <1>11, <1>14 DEF Meddle
  <1> QED
    BY <1>3, <1>4, <1>5, <1>6, <1>7, <1>8, <1>9, <1>10, <1>13, <1>14 DEF Supervise

(* What a step leaves: the commits there are, who was called for what.      *)
LogKeeps ==
    /\ Len(log) <= Len(log')
    /\ \A i \in DOMAIN log : i \in DOMAIN log' /\ log'[i] = log[i]
CallsKeep ==
    \A p \in Procs : pc[p] # "uncalled" =>
        pc'[p] # "uncalled" /\ job'[p].verdict = job[p].verdict /\ for'[p] = for[p]

LEMMA LogGrows ==
    ASSUME Inv, [HandedNext]_all
    PROVE  LogKeeps /\ Len(log) \in Nat /\ DOMAIN log = 1..Len(log) /\ DOMAIN log' = 1..Len(log')
  <1>0. log \in Seq(Commits)
    BY DEF Inv, HandoffInv, TypeOK, StoreOK
  <1>1. log' = log \/ \E c : log' = Append(log, c)
    <2>1. CASE Attested
      <3>1. CASE User
        BY <3>1 DEF User, Commit, Unlock, Edit, Save, Remove, Stage, StagePart, Moves, git
      <3>2. ASSUME NEW p \in Called, Attesting(p) PROVE log' = log \/ \E c : log' = Append(log, c)
        BY <3>2 DEF Attesting, ReadHead, ReadFile, Decide, TakeLock, CheckIndex, OpenShard, AppendLine, SameFile,
           RenameIndex, Hooks, UpdateRef, Die, OnlyAt, git, files
      <3> QED
        BY <2>1, <3>1, <3>2 DEF Attested, Next
    <2>2. CASE Command
      BY <2>2 DEF Command, HandOver, Launch, Record, Activate, Stopped, Start, Stop, Look, Recognise, Bind,
         TakeResult, ListDirty, DryRun, Await, AllPutBack, Name, PushHead, WriteReceipt, NoFilesTouched,
         WriteReport, Reset, Refuse, PutBack, CallAttest, OnlyFiles, vars, git, files
    <2>3. CASE KillCommand \/ (Supervised /\ NoFilesTouched /\ UNCHANGED <<rec, bound, handing>>) \/ UNCHANGED all
      BY <2>3 DEF KillCommand, NoFilesTouched, vars, git, all
    <2> QED
      BY <2>1, <2>2, <2>3 DEF HandedNext
  <1>2. ASSUME NEW c, log' = Append(log, c)
        PROVE  /\ DOMAIN log' = 1..Len(log') /\ Len(log') = Len(log) + 1
               /\ \A i \in DOMAIN log : log'[i] = log[i]
    BY <1>0, <1>2
  <1> QED
    BY <1>0, <1>1, <1>2 DEF LogKeeps

LEMMA CallsStay ==
    ASSUME Inv, [HandedNext]_all
    PROVE  /\ CallsKeep
           /\ DOMAIN scene' = DOMAIN scene /\ ("phase" \in DOMAIN scene => scene'.phase = scene.phase)
  <1> USE DEF Inv, HandoffInv, TypeOK, PlaceOK
  <1> DEFINE Stays == /\ CallsKeep
                      /\ DOMAIN scene' = DOMAIN scene /\ ("phase" \in DOMAIN scene => scene'.phase = scene.phase)
  <1>1. CASE UNCHANGED <<scene, for>> /\ \A p \in Procs : pc[p] # "uncalled" => pc'[p] # "uncalled"
    BY <1>1 DEF CallsKeep, job
  <1>2. ASSUME NEW p \in Procs, CallAttest(p) PROVE Stays
    <2>1. PICK c : /\ scene' = [scene EXCEPT !.calls = c]
                   /\ \A q \in Called \ {p} : c[q] = job[q]
      BY <1>2 DEF CallAttest, job
    <2>2. /\ job' = c /\ DOMAIN scene' = DOMAIN scene
          /\ "phase" \in DOMAIN scene => scene'.phase = scene.phase
      BY <2>1 DEF job, CallsOK
    <2>3. pc[p] = "uncalled" /\ \A q \in Procs \ {p} : pc'[q] = pc[q] /\ for'[q] = for[q]
      BY <1>2 DEF CallAttest
    <2> QED
      BY <2>1, <2>2, <2>3 DEF CallsKeep
  <1>3. CASE Attested
    <2>1. UNCHANGED <<scene, for>>
      BY <1>3 DEF Attested, Next, User, Commit, Unlock, Edit, Save, Remove, Stage, StagePart, Moves, attest, handing,
         Attesting, ReadHead, ReadFile, Decide, TakeLock, CheckIndex, OpenShard, AppendLine, SameFile,
         RenameIndex, Hooks, UpdateRef, Die, OnlyAt
    <2>2. CASE User
      BY <1>1, <2>1, <2>2 DEF User, Commit, Unlock, Edit, Save, Remove, Stage, StagePart, Moves, attest
    <2>3. ASSUME NEW p \in Called, Attesting(p) PROVE Stays
      <3>1. \E to \in Places \ {"uncalled"} : pc' = [pc EXCEPT ![p] = to]
        BY <2>3 DEF Attesting, ReadHead, ReadFile, Decide, TakeLock, CheckIndex, OpenShard, AppendLine, SameFile,
           RenameIndex, Hooks, UpdateRef, Die, Goes, Refuses, Places, Early, Late, Ends, Shard, Report, Plan
      <3> QED
        BY <1>1, <2>1, <3>1
    <2> QED
      BY <1>3, <2>2, <2>3 DEF Attested, Next
  <1>4. CASE Command
    <2>1. UNCHANGED <<scene, for, pc>> \/ \E p \in Procs : CallAttest(p)
      BY <1>4 DEF Command, HandOver, Launch, Record, Activate, Stopped, Start, Stop, Look, Recognise, Bind,
         TakeResult, ListDirty, DryRun, Await, AllPutBack, Name, PushHead, WriteReceipt, NoFilesTouched,
         WriteReport, Reset, Refuse, PutBack, OnlyFiles, vars, attest
    <2> QED
      BY <1>1, <1>2, <2>1
  <1>5. CASE KillCommand \/ (Supervised /\ NoFilesTouched /\ UNCHANGED <<rec, bound, handing>>) \/ UNCHANGED all
    <2>1. UNCHANGED <<scene, for, pc>>
      BY <1>5 DEF KillCommand, NoFilesTouched, vars, attest, handing, all
    <2> QED
      BY <1>1, <2>1
  <1> QED
    BY <1>3, <1>4, <1>5 DEF HandedNext

(* Runs stay ended and keep their receipts; only Launch begins one.         *)
LEMMA RunsStay ==
    ASSUME Inv, TruthInv, [HandedNext]_all
    PROVE  /\ run' \in [Runs -> RunType]
           /\ \A r \in Runs : StaysEnded(r)
           /\ \A r \in Runs : run[r].sup = "none" /\ ~Launch => run'[r].sup = "none"
           /\ \A r \in Runs : run'[r].sup = "none" => run'[r].receipt = NoReceipt
  <1> USE DEF TruthInv, RunOK
  <1>1. CASE UNCHANGED run
    BY <1>1 DEF StaysEnded
  <1>2. ASSUME NEW r \in Runs, Supervise(r) \/ Work(r) \/ Kill(r) \/ Meddle(r)
        PROVE  /\ run' \in [Runs -> RunType]
               /\ \A s \in Runs : StaysEnded(s) /\ (run[s].sup = "none" => run'[s].sup = "none")
               /\ \A s \in Runs : run'[s].sup = "none" => run'[s].receipt = NoReceipt
    BY <1>2, RunComesTo, ComesToStep
  <1>3. CASE Launch
    <2> DEFINE y == [run[op.run] EXCEPT !.phase = scene.phase]
               x == [y EXCEPT !.sup = "young"]
    <2>1. op.run \in Runs /\ run[op.run].sup = "none"
      BY <1>3 DEF Launch, During, InHand
    <2>2. scene.phase \in {"review", "execute"}
      OBVIOUS
    <2>3. y \in RunType /\ y.sup = "none"
      BY <2>1, <2>2, RunFields DEF Alike
    <2>4. x \in RunType /\ x.sup = "young"
      BY <2>3, RunFields DEF Sups
    <2>5. run' = [run EXCEPT ![op.run] = x]
      BY <1>3 DEF Launch, Launched
    <2>6. run'[op.run] = x /\ \A s \in Runs \ {op.run} : run'[s] = run[s]
      BY <2>1, <2>5
    <2> HIDE DEF x
    <2> QED
      BY <1>3, <2>1, <2>4, <2>5, <2>6 DEF StaysEnded, Settled
  <1>4. ASSUME NEW r \in Runs, Signalled(r), Alive(r)
        PROVE  \E e : ComesTo(r, e)
    <2>1. run[r] \in RunType /\ run[r].sup \notin {"none", "gone", "killed"}
      BY <1>4 DEF Alive
    <2>2. CASE run[r].sup = "young"
      <3> DEFINE x == [run[r] EXCEPT !.sup = "killed"]
      <3>1. x \in RunType /\ x.sup = "killed"
        BY <2>1, RunFields DEF Sups
      <3>2. run' = [run EXCEPT ![r] = x]
        BY <1>4, <2>2 DEF Signalled
      <3>3. ComesTo(r, x)
        BY <2>1, <3>1, <3>2 DEF ComesTo, Sups
      <3> QED
        BY <3>3
    <2>3. CASE run[r].sup # "young"
      <3> DEFINE x == [run[r] EXCEPT !.signal = TRUE]
      <3>1. x \in RunType /\ x.sup = run[r].sup /\ x.receipt = run[r].receipt
        BY <2>1, RunFields DEF Alike
      <3>2. run' = [run EXCEPT ![r] = x]
        BY <1>4, <2>3 DEF Signalled
      <3>3. ComesTo(r, x)
        BY <3>1, <3>2 DEF ComesTo
      <3> QED
        BY <3>3
    <2> QED
      BY <2>2, <2>3
  <1>5. CASE Activate
    <2> DEFINE x == [run[op.run] EXCEPT !.go = TRUE]
    <2>1. op.run \in Runs
      BY <1>5 DEF Activate, During, InHand
    <2>2. x \in RunType /\ x.sup = run[op.run].sup /\ x.receipt = run[op.run].receipt
      BY <2>1, RunFields DEF Alike
    <2>3. run' = [run EXCEPT ![op.run] = x]
      BY <1>5 DEF Activate, Activated
    <2>4. ComesTo(op.run, x)
      BY <2>2, <2>3 DEF ComesTo
    <2> QED
      BY <2>1, <2>4, ComesToStep
  <1>6. ASSUME NEW force \in BOOLEAN, Stop(force), ~UNCHANGED run
        PROVE  rec \in Runs /\ \E e : ComesTo(rec, e)
    <2>1. rec \in Runs /\ Alive(rec) /\ Signalled(rec)
      BY <1>6 DEF Stop, Inv, OpOK
    <2> QED
      BY <1>4, <2>1
  <1>7. \/ UNCHANGED run \/ Launch \/ Activate \/ \E force \in BOOLEAN : Stop(force)
        \/ \E r \in Runs : Supervise(r) \/ Work(r) \/ Kill(r) \/ Meddle(r)
    <2>1. CASE Attested \/ KillCommand \/ UNCHANGED all
      BY <2>1 DEF Attested, KillCommand, NoRunTouched, runs, all
    <2>2. CASE Command
      BY <2>2 DEF Command, HandOver, Record, Stopped, Start, Look, Recognise, Bind,
         TakeResult, ListDirty, DryRun, Await, AllPutBack, Name, PushHead, WriteReceipt, NoRunTouched, runs,
         WriteReport, Reset, Refuse, PutBack, CallAttest
    <2>3. CASE Supervised
      BY <2>3 DEF Supervised, Harm
    <2> QED
      BY <2>1, <2>2, <2>3 DEF HandedNext
  <1> QED
    BY <1>1, <1>2, <1>3, <1>5, <1>6, <1>7, ComesToStep

LEMMA LogLines ==
    ASSUME Inv, NEW i \in DOMAIN log, NEW k \in DOMAIN Lines(log[i].tree[Shard])
    PROVE  Lines(log[i].tree[Shard])[k] \in Authentic
  <1>1. log[i] \in Commits
    BY DEF Inv, HandoffInv, TypeOK, StoreOK
  <1>2. log[i].tree[Shard] \in Content \cup {NoFile}
    BY <1>1 DEF Commits, Tree, Paths
  <1> QED
    BY <1>2, LinesAreContent DEF Content

LEMMA TruthStep == Inv /\ TruthInv /\ [HandedNext]_all => TruthInv'
  <1> SUFFICES ASSUME Inv, TruthInv, [HandedNext]_all PROVE TruthInv'
    OBVIOUS
  <1> USE DEF TruthInv
  <1>0. /\ LogKeeps /\ Len(log) \in Nat /\ DOMAIN log = 1..Len(log) /\ DOMAIN log' = 1..Len(log')
        /\ Len(log') \in Nat
    <2>1. log' \in Seq(Commits')
      BY InvStep DEF Inv, HandoffInv, TypeOK, StoreOK
    <2> QED
      BY <2>1, LogGrows
  <1>1. /\ CallsKeep /\ "phase" \in DOMAIN scene' /\ scene'.phase \in {"review", "execute"}
    BY CallsStay DEF RunOK
  <1>2. /\ run' \in [Runs -> RunType]
        /\ \A r \in Runs : StaysEnded(r)
        /\ \A r \in Runs : run[r].sup = "none" /\ ~Launch => run'[r].sup = "none"
        /\ \A r \in Runs : run'[r].sup = "none" => run'[r].receipt = NoReceipt
    BY RunsStay
  <1>3. \A r \in Runs, v \in Verdicts :
            /\ Settled(r) => Settled(r)'
            /\ Attestable(r, v) => Attestable(r, v)'
            /\ Settled(r) /\ ~Attestable(r, v) => ~Attestable(r, v)'
    BY <1>2 DEF StaysEnded, Settled, Attestable
  <1>v. \A r \in Runs : Settled(r) => Settled(r)'
    BY <1>2 DEF StaysEnded, Settled
  (* What each step does to the rest.                                       *)
  <1>4. bound' = bound \/ \E r \in Runs : Start(r)
    BY DEF HandedNext, Attested, KillCommand, NoRunTouched, Supervised, runs, all, Command, HandOver, Launch,
       Record, Activate, Stop, Stopped, Look, Recognise, Bind, TakeResult, ListDirty, DryRun, Await, AllPutBack,
       Name, PushHead, WriteReceipt, WriteReport, Reset, Refuse, PutBack, CallAttest
  <1>5. for' = for \/ \E p \in Procs : CallAttest(p)
    BY DEF HandedNext, Attested, KillCommand, Supervised, handing, all, Command, HandOver, Launch,
       Record, Activate, Start, Stop, Stopped, Look, Recognise, Bind, TakeResult, ListDirty, DryRun, Await,
       AllPutBack, Name, PushHead, WriteReceipt, WriteReport, Reset, Refuse, PutBack
  <1>6. rows' = rows \/ Look \/ TakeResult
    BY DEF HandedNext, Attested, KillCommand, Supervised, handing, all, Command, HandOver, Launch,
       Record, Activate, Start, Stop, Stopped, Recognise, Bind, ListDirty, DryRun, Await, AllPutBack,
       Name, PushHead, WriteReceipt, WriteReport, Reset, Refuse, PutBack, CallAttest
  <1>7. ASSUME NEW r \in Runs, Start(r)
        PROVE  bound' = [bound EXCEPT ![r] = Len(log)] /\ log' = log /\ for' = for /\ run[r].sup = "none"
    BY <1>7 DEF Start, NoFilesTouched, vars, git
  <1>8. ASSUME NEW p \in Procs, CallAttest(p)
        PROVE  /\ for' = [for EXCEPT ![p] = op.run] /\ log' = log /\ bound' = bound
               /\ pc[p] = "uncalled" /\ op.run \in Runs /\ Attestable(op.run, op.verdict)
    BY <1>8 DEF CallAttest, git, NoRunTouched, runs, During, InHand
  <1>9. RunOK'
    <2>1. bound' \in [Runs -> Nat] /\ \A r \in Runs : bound'[r] <= Len(log')
      BY <1>0, <1>4, <1>7 DEF RunOK, LogKeeps
    <2>2. for' \in [Procs -> Runs \cup {0}]
      BY <1>5, <1>8 DEF RunOK
    <2> QED
      BY <1>1, <1>2, <2>1, <2>2 DEF RunOK
  <1>10. CalledFor'
    <2> SUFFICES ASSUME NEW p \in Procs, for'[p] # 0
                 PROVE  (pc[p] # "uncalled" /\ for[p] \in Runs /\ Attestable(for[p], job[p].verdict))'
      BY DEF CalledFor
    <2>1. ASSUME NEW r \in Runs, NEW v \in Verdicts, Attestable(r, v),
                 for'[p] = r, job'[p].verdict = v, pc'[p] # "uncalled"
          PROVE  (pc[p] # "uncalled" /\ for[p] \in Runs /\ Attestable(for[p], job[p].verdict))'
      <3>1. Attestable(r, v)'
        BY <1>3, <2>1
      <3> QED
        BY <2>1, <3>1
    <2>2. CASE for'[p] = for[p]
      <3>1. pc[p] # "uncalled" /\ for[p] \in Runs /\ Attestable(for[p], job[p].verdict)
        BY <2>2 DEF CalledFor
      <3>2. job'[p].verdict = job[p].verdict /\ pc'[p] # "uncalled" /\ job[p].verdict \in Verdicts
        BY <1>1, <3>1 DEF CallsKeep, Attestable
      <3> QED
        BY <2>1, <2>2, <3>1, <3>2
    <2>3. CASE for'[p] # for[p]
      <3>1. CallAttest(p)
        <4>1. ASSUME NEW q \in Procs \ {p}, CallAttest(q) PROVE for'[p] = for[p]
          BY <4>1 DEF CallAttest, RunOK
        <4> QED
          BY <1>5, <2>3, <4>1
      <3>2. for'[p] = op.run /\ op.run \in Runs /\ Attestable(op.run, op.verdict) /\ op.verdict \in Verdicts
        BY <1>8, <3>1 DEF RunOK, Attestable
      <3>3. pc'[p] = "head" /\ job'[p].verdict = op.verdict
        <4>1. PICK claim \in {0, Highest(Lines(Held(Shard)))} :
                  scene' = [scene EXCEPT !.calls =
                     [c \in Called \cup {p} |->
                         IF c = p THEN [verdict |-> op.verdict, claim |-> claim, commit |-> TRUE,
                                        with |-> {Report} \cup op.plans]
                         ELSE scene.calls[c]]]
          BY <3>1 DEF CallAttest
        <4>2. "calls" \in DOMAIN scene /\ pc \in [Procs -> Places]
          BY DEF Inv, HandoffInv, TypeOK, CallsOK, PlaceOK
        <4>3. job'[p] = [verdict |-> op.verdict, claim |-> claim, commit |-> TRUE, with |-> {Report} \cup op.plans]
          BY <4>1, <4>2 DEF job
        <4>4. pc' = [pc EXCEPT ![p] = "head"]
          BY <3>1 DEF CallAttest
        <4> QED
          BY <4>2, <4>3, <4>4
      <3> QED
        BY <2>1, <3>2, <3>3
    <2> QED
      BY <2>2, <2>3
  <1>11. RowsOK'
    <2>1. \A r \in rows : r \in Runs /\ Settled(r)' /\ \A v \in Verdicts : ~Attestable(r, v)'
      BY <1>3, <1>v DEF RowsOK
    <2>2. CASE rows' = rows
      BY <2>1, <2>2 DEF RowsOK
    <2>3. ASSUME NEW r \in Runs, rows' = rows \cup {r}, Settled(r), \A v \in Verdicts : ~Attestable(r, v)
          PROVE  RowsOK'
      BY <1>3, <1>v, <2>1, <2>3 DEF RowsOK
    <2>4. CASE Look /\ rows' # rows
      <3>1. rows' = rows \cup {rec} /\ NoResult(rec) /\ rec \in Runs
        BY <2>4 DEF Look, Inv, OpOK
      <3>2. Settled(rec) /\ run[rec].receipt.outcome # "completed"
        <4>1. ~Alive(rec) /\ run[rec].receipt # NoReceipt /\ run[rec].receipt.outcome \in {"failed", "interrupted"}
          BY <3>1 DEF NoResult, Outcome
        <4> QED
          BY <3>1, <4>1 DEF Alive, RunOK, RunType, Settled
      <3>3. \A v \in Verdicts : ~Attestable(rec, v)
        BY <3>2 DEF Attestable
      <3> QED
        BY <2>3, <3>1, <3>2, <3>3
    <2>5. CASE TakeResult /\ rows' # rows
      <3>1. rows' = rows \cup {op.run} /\ AsSealed(op.run) /\ ~ResultOk(op.run) /\ op.run \in Runs /\ Settled(op.run)
        BY <2>5 DEF TakeResult, During, InHand
      <3>2. \A v \in Verdicts : ~Attestable(op.run, v)
        BY <3>1 DEF AsSealed, ResultOk, Attestable
      <3> QED
        BY <2>3, <3>1, <3>2
    <2> QED
      BY <1>6, <2>2, <2>4, <2>5
  <1>12. AfterItsHead'
    <2> SUFFICES ASSUME NEW i \in DOMAIN log', NEW r \in Runs, NEW l \in LinesOf(i, r)'
                 PROVE  bound'[r] < i
      BY DEF AfterItsHead
    <2>1. l \in {Lines(log'[i].tree[Shard])[k] : k \in DOMAIN Lines(log'[i].tree[Shard])}
          /\ l.kind = "review" /\ l.by \in Procs /\ for'[l.by] = r
      BY DEF LinesOf, LinesFor
    <2>2. CASE i \notin DOMAIN log
      <3>1. log' # log
        BY <2>2
      <3>2. bound' = bound
        BY <1>4, <1>7, <3>1
      <3>3. bound[r] \in Nat /\ bound[r] <= Len(log) /\ i > Len(log)
        BY <1>0, <2>2 DEF RunOK
      <3> QED
        BY <1>0, <3>2, <3>3
    <2>3. CASE i \in DOMAIN log
      <3>1. log'[i] = log[i]
        BY <1>0, <2>3 DEF LogKeeps
      <3>2. l \in Authentic
        BY <2>1, <2>3, <3>1, LogLines
      <3>3. pc[l.by] # "uncalled"
        BY <2>1, <3>2 DEF Authentic, Late, Ends
      <3>4. for[l.by] = r
        BY <1>1, <2>1, <3>3 DEF CallsKeep
      <3>5. l \in LinesOf(i, r)
        BY <2>1, <3>1, <3>4 DEF LinesOf, LinesFor
      <3>6. bound[r] < i
        BY <2>3, <3>5 DEF AfterItsHead
      <3>7. bound'[r] = bound[r]
        <4>1. Settled(r)
          BY <2>1, <3>4, CodexAssumption DEF CalledFor, Attestable
        <4> QED
          BY <1>4, <1>7, <4>1 DEF Settled, RunOK
      <3> QED
        BY <3>6, <3>7
    <2> QED
      BY <2>2, <2>3
  <1>13. InHand'
    <2>1. op'.at \notin {"launch", "record", "activate", "stopping", "recognise", "bind", "result", "report",
                         "list", "dry", "call"} => InHand'
      BY DEF InHand
    <2>2. CASE op' = op
      <3>1. ~Launch
        BY <2>2 DEF Launch, During, Goal, Inv, OpOK, OpType
      <3>2. op.at \in {"report", "list", "dry", "call"} => Attestable(op.run, op.verdict)'
        <4> SUFFICES ASSUME op.at \in {"report", "list", "dry", "call"} PROVE Attestable(op.run, op.verdict)'
          OBVIOUS
        <4>1. PICK r \in Runs, v \in Verdicts : r = op.run /\ v = op.verdict /\ Attestable(r, v)
          BY DEF InHand, Attestable
        <4>2. Attestable(r, v)' /\ op'.run = r /\ op'.verdict = v
          BY <1>3, <2>2, <4>1
        <4> QED
          BY <4>2
      <3> QED
        BY <1>2, <2>2, <3>1, <3>2 DEF InHand, StaysEnded, Settled
    <2>3. ASSUME NEW r \in Runs, Start(r) PROVE InHand'
      <3>1. op'.at = "launch" /\ op'.run = r /\ run'[r].sup = "none"
        BY <2>3 DEF Start, Inv, OpOK, OpType
      <3> QED
        BY <3>1 DEF InHand
    <2>4. ASSUME NEW force \in BOOLEAN, Stop(force), op' # op PROVE InHand'
      <3>1. op'.at = "stopping" /\ op'.run = rec /\ rec \in Runs
        BY <2>4 DEF Stop, Inv, OpOK, OpType
      <3> QED
        BY <3>1 DEF InHand
    <2>5. CASE Launch \/ Record
      <3>1. op'.at \in {"record", "activate"} /\ op'.run = op.run /\ op.run \in Runs
        BY <2>5 DEF Launch, Record, During, Goal, InHand, Inv, OpOK, OpType
      <3> QED
        BY <3>1 DEF InHand
    <2>6. CASE Look
      <3>1. CASE op' = [op EXCEPT !.at = "recognise", !.run = rec, !.moves = moves] /\ Outcome(rec) = "completed"
        <4>1. op'.at = "recognise" /\ op'.run = rec /\ rec \in Runs
          BY <2>6, <3>1 DEF Look, Inv, OpOK, OpType
        <4>2. Settled(rec) /\ run[rec].receipt.outcome = "completed"
          <5>1. ~Alive(rec) /\ run[rec].receipt # NoReceipt /\ run[rec].receipt.outcome = "completed"
            BY <3>1 DEF Outcome
          <5> QED
            BY <4>1, <5>1 DEF Alive, RunOK, RunType, Settled
        <4> QED
          BY <1>2, <1>3, <4>1, <4>2 DEF InHand, StaysEnded, Settled
      <3>2. CASE op' = [op EXCEPT !.at = "push", !.run = rec, !.moves = moves, !.commit = done[rec].commit]
        BY <2>1, <3>2 DEF Inv, OpOK, OpType
      <3> QED
        BY <2>2, <2>6, <3>1, <3>2 DEF Look
    <2>7. CASE op.at \in {"recognise", "bind"} /\ op'.at \in {"bind", "result", "finish"} /\ op'.run = op.run
      BY <1>2, <2>1, <2>7 DEF InHand, StaysEnded, Settled
    <2>8. CASE TakeResult /\ op'.at = "report"
      <3>1. /\ op.at = "result" /\ run' = run /\ AsSealed(op.run) /\ ResultOk(op.run)
            /\ op' = [op EXCEPT !.at = "report", !.verdict = run[op.run].result]
        BY <2>8 DEF TakeResult, During, Rests, Idle, NoRunTouched, runs
      <3>2. op'.run = op.run /\ op'.verdict = run[op.run].result /\ op.run \in Runs
        BY <3>1 DEF InHand, Inv, OpOK, OpType
      <3>3. Attestable(op.run, run[op.run].result)
        <4>1. run[op.run].receipt = [outcome |-> "completed", seal |-> run[op.run].result]
          BY <3>1, <3>2 DEF InHand, AsSealed, RunOK, RunType
        <4> QED
          BY <3>1, <4>1 DEF Attestable, InHand, ResultOk
      <3>4. PICK r \in Runs, v \in Verdicts : r = op.run /\ v = run[op.run].result
        BY <3>1, <3>2 DEF ResultOk
      <3>5. Attestable(r, v)'
        BY <1>3, <3>3, <3>4
      <3>6. op'.run = r /\ op'.verdict = v /\ op'.at = "report"
        BY <2>8, <3>2, <3>4
      <3> QED
        BY <3>5, <3>6 DEF InHand
    <2>9. CASE /\ op.at \in {"report", "list", "dry"} /\ op'.at \in {"list", "dry", "call"}
               /\ op'.run = op.run /\ op'.verdict = op.verdict
      <3>1. PICK r \in Runs, v \in Verdicts : r = op.run /\ v = op.verdict /\ Attestable(r, v)
        BY <2>9 DEF InHand, Attestable
      <3>2. Attestable(r, v)' /\ op'.run = r /\ op'.verdict = v
        BY <1>3, <2>9, <3>1
      <3> QED
        BY <2>9, <3>2 DEF InHand
    <2>10. CASE HandOver
      <3>0. Idle.at = "idle"
        BY DEF Idle
      <3> USE DEF Inv, OpOK, OpType, During, Goal, Rests
      <3>1. CASE Recognise
        <4>1. op.at = "recognise" /\ op'.at \in {"bind", "finish"} /\ op'.run = op.run
          BY <3>1 DEF Recognise
        <4> QED
          BY <2>7, <4>1
      <3>2. CASE Bind
        <4>1. op' = Idle \/ (op.at = "bind" /\ op'.at = "result" /\ op'.run = op.run)
          BY <3>2 DEF Bind
        <4> QED
          BY <2>1, <2>7, <3>0, <4>1
      <3>3. CASE TakeResult
        <4>1. op' = Idle \/ op' = [op EXCEPT !.at = "report", !.verdict = run[op.run].result]
          BY <3>3 DEF TakeResult
        <4>2. op'.at \in {"idle", "report"}
          BY <3>0, <4>1
        <4> QED
          BY <2>1, <2>8, <3>3, <4>2
      <3>4. CASE WriteReport \/ ListDirty
        <4>1. /\ op.at \in {"report", "list"} /\ op'.at \in {"list", "dry"}
              /\ op'.run = op.run /\ op'.verdict = op.verdict
          BY <3>4 DEF WriteReport, ListDirty
        <4> QED
          BY <2>9, <4>1
      <3>5. CASE DryRun
        <4>1. /\ op.at = "dry" /\ op'.at \in {"call", "clean"}
              /\ op'.run = op.run /\ op'.verdict = op.verdict
          BY <3>5 DEF DryRun
        <4> QED
          BY <2>1, <2>9, <4>1
      <3>6. CASE Await \/ Reset \/ AllPutBack \/ Refuse \/ Name \/ PushHead \/ WriteReceipt
        <4>1. \/ op' = Idle
              \/ \E x \in {"finish", "reset", "clean"} : op' = [op EXCEPT !.at = x]
              \/ \E x : op' = [op EXCEPT !.at = "put back", !.left = x]
              \/ \E x : op' = [op EXCEPT !.at = "push", !.commit = x]
              \/ \E x : op' = [op EXCEPT !.at = "receipt", !.pushed = x]
          BY <3>6 DEF Await, Reset, AllPutBack, Refuse, Name, PushHead, WriteReceipt
        <4>2. op'.at \in {"finish", "reset", "put back", "clean", "idle", "push", "receipt"}
          BY <3>0, <4>1
        <4> QED
          BY <2>1, <4>2
      <3>7. ASSUME NEW p \in Procs, CallAttest(p) PROVE op'.at = "wait"
        <4>1. op' = [op EXCEPT !.at = "wait", !.call = p]
          BY <3>7 DEF CallAttest
        <4> QED
          BY <4>1
      <3>8. ASSUME NEW f \in Paths, PutBack(f) PROVE op'.at = "put back"
        BY <3>8 DEF PutBack
      <3> QED
        BY <2>1, <2>6, <2>10, <3>1, <3>2, <3>3, <3>4, <3>5, <3>6, <3>7, <3>8 DEF HandOver
    <2>11. CASE Activate \/ Stopped \/ KillCommand
      BY <2>1, <2>11 DEF Activate, Stopped, KillCommand, Rests, Idle
    <2> QED
      BY <2>2, <2>3, <2>4, <2>5, <2>10, <2>11
         DEF HandedNext, Attested, Supervised, handing, all, Command
  <1> QED
    BY <1>9, <1>10, <1>11, <1>12, <1>13

LEMMA TruthInvariance == HandedSpec => [](Inv /\ TruthInv)
  <1>1. HandedInit => Inv /\ TruthInv
    BY HandedInitInv, TruthInit
  <1>2. (Inv /\ TruthInv) /\ [HandedNext]_all => (Inv /\ TruthInv)'
    BY InvStep, TruthStep
  <1> QED
    BY <1>1, <1>2, PTL DEF HandedSpec

(* Whatever is committed as the review of a Codex run gives the verdict its *)
(* receipt sealed, of a review that completed on the head it was bound to,  *)
(* whoever died, meddled with the result or worked beside it.               *)
THEOREM AttestsTheTruth == HandedSpec => []LinesAreTrue
  <1>1. Inv /\ TruthInv => LinesAreTrue
    <2> SUFFICES ASSUME Inv, TruthInv, NEW i \in DOMAIN log, NEW r \in Runs, NEW l \in LinesOf(i, r)
                 PROVE  /\ run[r].receipt = [outcome |-> "completed", seal |-> l.verdict]
                        /\ bound[r] < i /\ r \notin rows
      BY DEF LinesAreTrue
    <2> USE DEF TruthInv
    <2>1. l \in Authentic /\ l.kind = "review" /\ l.by \in Procs /\ for[l.by] = r
      BY LogLines DEF LinesOf, LinesFor
    <2>2. l.verdict = job[l.by].verdict
      BY <2>1 DEF Authentic, Line, Review
    <2>3. Attestable(r, l.verdict)
      BY <2>1, <2>2, CodexAssumption DEF CalledFor
    <2>4. bound[r] < i
      BY DEF AfterItsHead
    <2>5. r \notin rows
      BY <2>3 DEF RowsOK, Attestable
    <2> QED
      BY <2>3, <2>4, <2>5 DEF Attestable
  <1> QED
    BY TruthInvariance, <1>1, PTL
-----------------------------------------------------------------------------
(* One line for each run. The attests of runs that go on, and the stations  *)
(* of a handoff whose bundle still bound.                                   *)
Unended(p) == for[p] # 0 /\ pc[p] \notin {"uncalled"} \cup Ends
Taken == {"result", "report", "list", "dry", "call"}
Bound == Taken \cup {"wait", "reset", "put back", "clean"}
Awaited(p) == op.at = "wait" /\ op.call = p
Reads(p) == for[p] # 0 /\ pc[p] \in {"head", "shard"}

(* The report and the shard are two files; who has not read the shard knows *)
(* nothing.                                                                 *)
Apart ==
    /\ name[Report] # 0 => name[Report] # name[Shard]
    /\ \A p \in Procs : pc[p] = "append" /\ fd[p] # 0 => fd[p] # name[Report]
Begun == \A p \in Called : pc[p] # "uncalled"
Unread == \A p \in Procs : pc[p] \in {"uncalled", "head", "shard"} => Known(p) = <<>>

(* Everything that is stored somewhere. Its reports are of runs that have   *)
(* ended, and committed after the head their review is bound to.            *)
Kept(c) ==
    \/ \E k \in DOMAIN bytes : c = bytes[k]
    \/ \E f \in Paths : c = index[f]
    \/ \E i \in DOMAIN log, f \in Paths : c = log[i].tree[f]
    \/ \E p \in Procs, f \in Paths : c = snap[p].data[f] \/ c = laid[p][f]
ReportsIn(lines) == {l.run : l \in {m \in {lines[i] : i \in DOMAIN lines} : m.kind = "report"}}
ReportsSettled == \A c : Kept(c) => \A r \in ReportsIn(Lines(c)) : r \in Runs /\ Settled(r)
ReportsAfter == \A i \in DOMAIN log, f \in Paths : \A r \in ReportsIn(Lines(log[i].tree[f])) : bound[r] < i

(* While no command was killed and nobody meddled, or the user did nothing, *)
(* a run has one attest at a time. One that no handoff waits for was left   *)
(* by a killed one: its report still lies about, or something was committed.*)
Calm == harm = 0 \/ moves = 0
Single(lines) == \A r \in Runs : \A l, m \in LinesFor(r, lines) : l.by = m.by
AllSingle == \A c : Kept(c) => Single(Lines(c))
OneAtATime ==
    /\ \A p, s \in Procs : Unended(p) /\ Unended(s) /\ for[p] = for[s] => p = s
    /\ op.at \in Bound => \A p \in Procs : Unended(p) /\ for[p] = op.run => Awaited(p)
    /\ op.at = "wait" => for[op.call] = op.run /\ op.run \in Runs
Left ==
    \A p \in Procs : Unended(p) /\ ~Awaited(p) =>
        /\ harm # 0
        /\ \/ Len(log) > bound[for[p]]
           \/ op.at \notin Bound /\ Held(Report) # HeadTree[Report]
ReportLies ==
    moves = 0 /\ op.at \in {"list", "dry", "call", "wait"} =>
        Len(log) > bound[op.run] \/ Held(Report) # HeadTree[Report]

(* While a run is to be attested, no line of it is where the attest will    *)
(* read, and who knows of one read it before the head it is bound to moved. *)
Opening(r) == (op.at \in Taken /\ op.run = r) \/ \E p \in Procs : Reads(p) /\ for[p] = r
NoLineYet ==
    \A r \in Runs : Opening(r) =>
        /\ LinesFor(r, Lines(Held(Shard))) = {}
        /\ \A s \in Procs : pc[s] \notin Ends /\ LinesFor(r, Known(s)) # {} => snap[s].old <= bound[r]
NoneAtHead ==
    \A p \in Procs : Reads(p) /\ ~Awaited(p) /\ op.at \in Bound => LinesFor(for[p], Lines(HeadTree[Shard])) = {}
OnlyIts(p, lines) == \A l \in LinesFor(for[p], lines) : l.by = p
OwnLine ==
    \A p \in Procs : for[p] # 0 =>
        /\ pc[p] \in {"report", "plan", "decide"} \cup Late => OnlyIts(p, Known(p))
        /\ pc[p] = "append" /\ fd[p] # 0 => OnlyIts(p, bytes[fd[p]])

CalmInv ==
    /\ harm \in Nat /\ Apart /\ Begun /\ Unread /\ ReportsSettled /\ ReportsAfter
    /\ Calm => AllSingle /\ OneAtATime /\ Left /\ ReportLies /\ NoLineYet /\ NoneAtHead /\ OwnLine

-----------------------------------------------------------------------------
(* Which lines are of which run.                                            *)
LEMMA LinesForAppend ==
    ASSUME NEW S, NEW c \in Seq(S), NEW l, NEW r
    PROVE  LinesFor(r, Append(c, l)) =
               LinesFor(r, c) \cup (IF l.kind = "review" /\ l.by \in Procs /\ for[l.by] = r THEN {l} ELSE {})
  <1>1. {Append(c, l)[i] : i \in DOMAIN Append(c, l)} = {c[i] : i \in DOMAIN c} \cup {l}
    OBVIOUS
  <1> QED
    BY <1>1 DEF LinesFor

LEMMA WordsOfNoRun ==
    ASSUME NEW c \in Content, NEW n, NEW r
    PROVE  LinesFor(r, Append(c, Words(n))) = LinesFor(r, c)
  <1>1. Words(n).kind # "review"
    BY DEF Words
  <1>2. c \in Seq(Authentic)
    BY DEF Content
  <1>3. ASSUME NEW l, l.kind # "review"
        PROVE  LinesFor(r, Append(c, l)) = LinesFor(r, c)
    <2>1. LinesFor(r, Append(c, l)) =
              LinesFor(r, c) \cup (IF l.kind = "review" /\ l.by \in Procs /\ for[l.by] = r THEN {l} ELSE {})
      BY <1>2, LinesForAppend
    <2> QED
      BY <1>3, <2>1
  <1> QED
    BY <1>1, <1>3

LEMMA LineOfItsRun ==
    ASSUME NEW c \in Content, NEW p \in Procs, NEW r
    PROVE  LinesFor(r, Append(c, Line(p))) = LinesFor(r, c) \cup (IF for[p] = r THEN {Line(p)} ELSE {})
  <1>1. Line(p).kind = "review" /\ Line(p).by = p
    BY DEF Line, Review
  <1>2. c \in Seq(Authentic)
    BY DEF Content
  <1> QED
    BY <1>1, <1>2, LinesForAppend

LEMMA NoLines == \A r : LinesFor(r, <<>>) = {}
  BY DEF LinesFor

(* A call is not made twice: what is a run's stays its.                     *)
Spoken(c) == \A i \in DOMAIN c : c[i].kind = "review" /\ c[i].by \in Procs => pc[c[i].by] # "uncalled"

LEMMA ContentIsSpoken ==
    ASSUME NEW c \in Content
    PROVE  Spoken(c)
  <1> SUFFICES ASSUME NEW i \in DOMAIN c, c[i].kind = "review", c[i].by \in Procs
               PROVE  pc[c[i].by] # "uncalled"
    BY DEF Spoken
  <1>1. c[i] \in Authentic
    BY DEF Content
  <1> QED
    BY <1>1 DEF Authentic, Late, Ends

LEMMA LinesForStays ==
    ASSUME CallsKeep, NEW c, Spoken(c), NEW r
    PROVE  LinesFor(r, c)' = LinesFor(r, c)
  BY DEF LinesFor, CallsKeep, Spoken

LEMMA StoredContent ==
    ASSUME Inv
    PROVE  /\ \A f \in Paths : Held(f) \in Content \cup {NoFile} /\ Lines(Held(f)) \in Content
           /\ \A p \in Procs : Known(p) \in Content /\ snap[p] \in Fixed
           /\ \A f \in Paths : HeadTree[f] \in Content \cup {NoFile} /\ Lines(HeadTree[f]) \in Content
           /\ \A k \in DOMAIN bytes : bytes[k] \in Content
           /\ Shard \in Paths /\ Report \in Paths
  <1> USE DEF Inv, HandoffInv, TypeOK
  <1>1. Shard \in Paths /\ Report \in Paths
    BY DEF Paths
  <1>2. \A f \in Paths : Held(f) \in Content \cup {NoFile}
    BY DEF Held, StoreOK, NameOK
  <1>3. \A p \in Procs : snap[p] \in Fixed /\ snap[p].data[Shard] \in Content \cup {NoFile}
    BY <1>1 DEF StoreOK, Fixed, Tree
  <1>4. \A f \in Paths : HeadTree[f] \in Content \cup {NoFile}
    BY HeadTreeIsTree DEF Tree
  <1>5. \A k \in DOMAIN bytes : bytes[k] \in Content
    BY DEF StoreOK
  <1> QED
    BY <1>1, <1>2, <1>3, <1>4, <1>5, LinesAreContent DEF Known

LEMMA KeptIsContent ==
    ASSUME Inv, NEW c, Kept(c)
    PROVE  c \in Content \cup {NoFile}
  <1> USE DEF Inv, HandoffInv, TypeOK, StoreOK
  <1>1. \A t \in Tree, f \in Paths : t[f] \in Content \cup {NoFile}
    BY DEF Tree
  <1>2. \A i \in DOMAIN log : log[i].tree \in Tree
    <2>1. \A i \in DOMAIN log : log[i] \in Commits
      OBVIOUS
    <2> QED
      BY <2>1 DEF Commits
  <1>3. \A p \in Procs : snap[p].data \in Tree /\ laid[p] \in Tree
    BY DEF Fixed
  <1>4. \A k \in DOMAIN bytes : bytes[k] \in Content
    OBVIOUS
  <1> QED
    BY <1>1, <1>2, <1>3, <1>4 DEF Kept

-----------------------------------------------------------------------------
(* The steps, as they are looked at here, and what an attest's step leaves. *)
Restores == WriteReport \/ Reset \/ Refuse \/ \E f \in Paths : PutBack(f)
Attests(p) == p \in Called /\ Attesting(p) /\ UNCHANGED <<runs, handing, harm>>

LEMMA Steps ==
    ASSUME [HandedNext]_all
    PROVE  \/ \E p \in Called : Attests(p)
           \/ User /\ UNCHANGED <<runs, handing, harm>>
           \/ UNCHANGED vars
           \/ Restores
           \/ \E p \in Procs : CallAttest(p)
  <1>1. CASE Attested
    BY <1>1 DEF Attested, Next, Attests
  <1>2. CASE Command
    BY <1>2 DEF Command, HandOver, Launch, Record, Activate, Stopped, Start, Stop, Look, Recognise, Bind,
       TakeResult, ListDirty, DryRun, Await, AllPutBack, Name, PushHead, WriteReceipt, NoFilesTouched, Restores
  <1>3. CASE KillCommand \/ (Supervised /\ NoFilesTouched /\ UNCHANGED <<rec, bound, handing>>) \/ UNCHANGED all
    BY <1>3 DEF KillCommand, NoFilesTouched, all
  <1> QED
    BY <1>1, <1>2, <1>3 DEF HandedNext

AttestMoves(p) ==
    /\ pc[p] \notin {"uncalled"} \cup Ends /\ pc'[p] \in Places \ {"uncalled", "head"}
    /\ \A q \in Procs \ {p} : pc'[q] = pc[q] /\ snap'[q] = snap[q] /\ fd'[q] = fd[q] /\ laid'[q] = laid[q]
    /\ UNCHANGED <<scene, moves>>
    /\ pc'[p] = "shard" => pc[p] = "head"
    /\ pc'[p] \in {"report", "plan", "decide"} => pc[p] \in {"shard", "report", "plan"}
    /\ pc'[p] \in Late => pc[p] \in {"decide"} \cup Late
    /\ pc'[p] = "append" => OpenShard(p)
    /\ (name' = name /\ bytes' = bytes) \/ AppendLine(p)
    /\ log' = log \/ UpdateRef(p)
    /\ snap'[p].old = snap[p].old \/ pc[p] = "head"
    /\ \/ snap'[p].data[Shard] = snap[p].data[Shard]
       \/ pc[p] = "shard" /\ snap'[p].data[Shard] = Held(Shard)
    /\ pc[p] = "shard" /\ pc'[p] \notin Ends => snap'[p].data[Shard] = Held(Shard)

LEMMA AttestingMoves ==
    ASSUME Inv, Begun, NEW p \in Called, Attesting(p)
    PROVE  AttestMoves(p)
  <1> USE DEF Inv, HandoffInv, TypeOK
  <1>0. /\ p \in Procs /\ pc \in [Procs -> Places] /\ fd \in [Procs -> Nat] /\ snap \in [Procs -> Fixed]
        /\ laid \in [Procs -> Tree] /\ Shard \in Paths
    BY DEF CallsOK, PlaceOK, StoreOK, Paths
  <1>1. CASE ReadHead(p)
    <2>1. /\ pc[p] = "head" /\ pc' = [pc EXCEPT ![p] = "shard"] /\ snap' = [snap EXCEPT ![p].old = Len(log)]
          /\ UNCHANGED <<scene, fd, laid, name, bytes, log, moves>>
      BY <1>1 DEF ReadHead, Goes, OnlyAt, files, git
    <2>2. snap'[p].data = snap[p].data /\ \A q \in Procs \ {p} : snap'[q] = snap[q]
      BY <1>0, <2>1 DEF Fixed
    <2> QED
      BY <1>0, <2>1, <2>2 DEF AttestMoves, Places, Early, Late, Ends
  <1>2. ASSUME NEW f \in Paths, NEW next \in {Report, Plan, "decide"}, ReadFile(p, f, next),
               f = Shard => next = Report, f # Shard => next \in {Plan, "decide"}
        PROVE  AttestMoves(p)
    <2>1. /\ pc[p] = f /\ f \in {"shard", "report", "plan"} /\ next \in {"report", "plan", "decide"}
          /\ pc' = [pc EXCEPT ![p] = next] \/ pc' = [pc EXCEPT ![p] = "refused"]
          /\ UNCHANGED <<scene, fd, laid, name, bytes, log, moves>>
      BY <1>2 DEF ReadFile, Goes, Refuses, OnlyAt, files, Paths, Shard, Report, Plan
    <2>2. snap' = snap \/ snap' = [snap EXCEPT ![p].data[f] = Held(f), ![p].ino[f] = name[f]]
      BY <1>2 DEF ReadFile
    <2>3. /\ \A q \in Procs \ {p} : snap'[q] = snap[q]
          /\ snap'[p].old = snap[p].old
          /\ \A g \in Paths \ {f} : snap'[p].data[g] = snap[p].data[g]
          /\ snap'[p].data[f] = snap[p].data[f] \/ snap'[p].data[f] = Held(f)
      BY <1>0, <2>2 DEF Fixed, Tree
    <2>4. f = Shard => snap'[p].data[Shard] = Held(Shard)
      <3>1. f = Shard => snap' = [snap EXCEPT ![p].data[f] = Held(f), ![p].ino[f] = name[f]]
        BY <1>2 DEF ReadFile, Carried
      <3> QED
        BY <1>0, <3>1 DEF Fixed, Tree
    <2> QED
      BY <1>0, <2>1, <2>3, <2>4 DEF AttestMoves, Places, Early, Late, Ends, Shard
  <1>3. CASE Decide(p)
    <2>1. /\ pc[p] = "decide" /\ snap' = [snap EXCEPT ![p].index = index]
          /\ UNCHANGED <<scene, fd, laid, name, bytes, log, moves>>
          /\ \E to \in {"lock", "open", "refused"} : pc' = [pc EXCEPT ![p] = to]
      BY <1>3 DEF Decide, Goes, OnlyAt, files, git
    <2>2. /\ \A q \in Procs \ {p} : snap'[q] = snap[q]
          /\ snap'[p].old = snap[p].old /\ snap'[p].data = snap[p].data
      BY <1>0, <2>1 DEF Fixed
    <2> QED
      BY <1>0, <2>1, <2>2 DEF AttestMoves, Places, Late, Ends
  <1>4. CASE TakeLock(p) \/ CheckIndex(p) \/ SameFile(p) \/ RenameIndex(p) \/ Hooks(p) \/ Die(p)
    <2>1. /\ UNCHANGED <<scene, fd, snap, name, bytes, log, moves>>
          /\ pc[p] \notin {"uncalled"} \cup Ends => \A q \in Procs \ {p} : laid'[q] = laid[q]
          /\ \E to \in {"w1", "open", "rename", "hooks", "ref"} \cup Ends :
                 pc' = [pc EXCEPT ![p] = to] /\ (to \notin Ends => pc[p] \in Late)
      BY <1>0, <1>4 DEF TakeLock, CheckIndex, SameFile, RenameIndex, Hooks, Die, Goes, Refuses, OnlyAt, files, git, Late, Ends
    <2>2. pc[p] \notin {"uncalled"} \cup Ends
      <3>1. pc[p] # "uncalled"
        BY DEF Begun
      <3> QED
        BY <1>4, <3>1 DEF TakeLock, CheckIndex, SameFile, RenameIndex, Hooks, Die, Ends
    <2> QED
      BY <1>0, <2>1, <2>2 DEF AttestMoves, Places, Late, Ends
  <1>5. CASE OpenShard(p)
    <2>1. /\ pc[p] = "open" /\ UNCHANGED <<scene, snap, laid, name, bytes, log, moves>>
          /\ pc' = [pc EXCEPT ![p] = "append"] \/ pc' = [pc EXCEPT ![p] = "refused"]
          /\ fd' = fd \/ \E k : fd' = [fd EXCEPT ![p] = k]
      BY <1>5 DEF OpenShard, Goes, Refuses, OnlyAt, files
    <2> QED
      BY <1>0, <1>5, <2>1 DEF AttestMoves, Places, Late, Ends
  <1>6. CASE AppendLine(p)
    <2>1. /\ pc[p] = "append" /\ UNCHANGED <<scene, snap, laid, log, moves>>
          /\ pc' = [pc EXCEPT ![p] = "after"] \/ pc' = [pc EXCEPT ![p] = "refused"]
          /\ fd' = fd \/ \E k : fd' = [fd EXCEPT ![p] = k]
      BY <1>6 DEF AppendLine, Goes, Refuses, files
    <2> QED
      BY <1>0, <1>6, <2>1 DEF AttestMoves, Places, Late, Ends
  <1>7. CASE UpdateRef(p)
    <2>1. /\ pc[p] = "ref" /\ UNCHANGED <<scene, snap, laid, fd, name, bytes, moves>>
          /\ pc' = [pc EXCEPT ![p] = "committed"] \/ pc' = [pc EXCEPT ![p] = "written"]
      BY <1>7 DEF UpdateRef, Goes, OnlyAt, files
    <2> QED
      BY <1>0, <1>7, <2>1 DEF AttestMoves, Places, Late, Ends
  <1> QED
    BY <1>1, <1>2, <1>3, <1>4, <1>5, <1>6, <1>7 DEF Attesting, Paths, Shard, Report, Plan

(* What a line is written to.                                               *)
AppendsLine(p) ==
    \/ UNCHANGED <<name, bytes>> /\ fd' = fd
    \/ /\ fd[p] \in DOMAIN bytes \ {3} /\ UNCHANGED <<name, fd>>
       /\ bytes' = [bytes EXCEPT ![fd[p]] = Append(@, Line(p))]
    \/ /\ name[Shard] = 0 /\ bytes' = Append(bytes, <<Line(p)>>)
       /\ name' = [name EXCEPT ![Shard] = Len(bytes) + 1] /\ fd' = [fd EXCEPT ![p] = Len(bytes) + 1]

LEMMA AppendLineWrites ==
    ASSUME Inv, NEW p \in Called, AppendLine(p)
    PROVE  AppendsLine(p) /\ pc[p] = "append" /\ pc'[p] \in {"after", "refused"}
  <1> USE DEF Inv, HandoffInv, TypeOK
  <1>0. p \in Procs /\ pc \in [Procs -> Places] /\ bytes \in Seq(Content)
    BY DEF CallsOK, PlaceOK, StoreOK
  <1>1. pc[p] = "append" /\ pc'[p] \in {"after", "refused"}
    BY <1>0 DEF AppendLine, Goes, Refuses
  <1>2. CASE fd[p] # 0
    <2>1. fd[p] \in DOMAIN bytes \ {3}
      BY <1>0, <1>1, <1>2 DEF FdInv
    <2> QED
      BY <1>1, <1>2, <2>1 DEF AppendLine, Appended, AppendsLine
  <1>3. CASE fd[p] = 0 /\ name[Shard] = 0
    <2>1. Len(bytes') = Len(bytes) + 1 /\ bytes' = Append(bytes, <<Line(p)>>)
      BY <1>0, <1>3 DEF AppendLine
    <2> QED
      BY <1>1, <1>3, <2>1 DEF AppendLine, AppendsLine
  <1>4. CASE fd[p] = 0 /\ name[Shard] # 0
    BY <1>1, <1>4 DEF AppendLine, files, AppendsLine
  <1> QED
    BY <1>2, <1>3, <1>4

(* The report is a file of its own: no line lands in it.                    *)
LEMMA ReportUntouched ==
    ASSUME Inv, Apart, NEW p \in Called, AppendLine(p)
    PROVE  Held(Report)' = Held(Report)
  <1> USE DEF Inv, HandoffInv, TypeOK, Held
  <1>0. /\ p \in Procs /\ bytes \in Seq(Content) /\ name \in [Paths -> 0..Len(bytes)] /\ Report \in Paths
        /\ Shard \in Paths /\ Shard # Report /\ Len(bytes) \in Nat /\ pc[p] = "append" /\ fd \in [Procs -> Nat]
    BY AppendLineWrites DEF CallsOK, StoreOK, NameOK, Paths, Shard, Report, PlaceOK
  <1>1. CASE UNCHANGED <<name, bytes>>
    BY <1>1
  <1>2. CASE /\ fd[p] \in DOMAIN bytes \ {3} /\ UNCHANGED <<name, fd>>
             /\ bytes' = [bytes EXCEPT ![fd[p]] = Append(@, Line(p))]
    <2>1. fd[p] # 0 /\ fd[p] # name[Report]
      BY <1>0, <1>2 DEF Apart
    <2> QED
      BY <1>0, <1>2, <2>1
  <1>3. CASE /\ name[Shard] = 0 /\ bytes' = Append(bytes, <<Line(p)>>)
             /\ name' = [name EXCEPT ![Shard] = Len(bytes) + 1] /\ fd' = [fd EXCEPT ![p] = Len(bytes) + 1]
    <2>1. name'[Report] = name[Report] /\ name[Report] \in 0..Len(bytes)
      BY <1>0, <1>3
    <2>2. \A k \in 1..Len(bytes) : bytes'[k] = bytes[k]
      BY <1>0, <1>3
    <2> QED
      BY <1>0, <2>1, <2>2
  <1> QED
    BY <1>1, <1>2, <1>3, AppendLineWrites DEF AppendsLine

LEMMA OpenShardOpens ==
    ASSUME Inv, NEW p \in Called, OpenShard(p), pc'[p] = "append"
    PROVE  /\ pc[p] = "open" /\ UNCHANGED <<name, bytes>>
           /\ \/ fd'[p] = 0
              \/ /\ fd'[p] = name[Shard] /\ name[Shard] # 0
                 /\ bytes[name[Shard]] = Known(p)
  <1> USE DEF Inv, HandoffInv, TypeOK
  <1>0. p \in Procs /\ pc \in [Procs -> Places] /\ fd \in [Procs -> Nat]
    BY DEF CallsOK, PlaceOK
  <1>1. pc[p] = "open" /\ UNCHANGED <<name, bytes>>
    BY DEF OpenShard, OnlyAt, files
  <1>2. CASE snap[p].data[Shard] = NoFile
    <2>1. fd' = [fd EXCEPT ![p] = 0]
      BY <1>2 DEF OpenShard
    <2> QED
      BY <1>0, <1>1, <2>1
  <1>3. CASE snap[p].data[Shard] # NoFile
    <2>1. name[Shard] # 0 /\ Held(Shard) = snap[p].data[Shard] /\ fd' = [fd EXCEPT ![p] = name[Shard]]
      <3>1. name[Shard] # 0 /\ name[Shard] = snap[p].ino[Shard] /\ Held(Shard) = snap[p].data[Shard]
        BY <1>0, <1>3 DEF OpenShard, Refuses, Goes
      <3> QED
        BY <1>0, <1>3, <3>1 DEF OpenShard
    <2>2. bytes[name[Shard]] = Known(p)
      BY <1>3, <2>1 DEF Held, Known, Lines
    <2> QED
      BY <1>0, <1>1, <2>1, <2>2
  <1> QED
    BY <1>2, <1>3

(* What others do to the names of files: a new inode, the report's, or none.*)
Renames ==
    \/ name' = name /\ Len(bytes) <= Len(bytes')
    \/ \E f \in Paths : /\ name' = [name EXCEPT ![f] = Len(bytes) + 1] /\ Len(bytes') = Len(bytes) + 1
    \/ \E f \in Paths : name' = [name EXCEPT ![f] = 0] /\ bytes' = bytes
    \/ name' = [name EXCEPT ![Report] = 3] /\ Len(bytes) <= Len(bytes')

LEMMA OthersRename ==
    ASSUME Inv, User \/ UNCHANGED vars \/ Restores \/ \E p \in Procs : CallAttest(p)
    PROVE  Renames
  <1> USE DEF Inv, HandoffInv, TypeOK
  <1>0. bytes \in Seq(Content) /\ Len(bytes) \in Nat /\ scene.touches \subseteq Paths /\ Report \in Paths
    BY DEF StoreOK, CallsOK, Paths
  <1>1. CASE User
    <2>1. CASE \E f \in Paths : Save(f)
      <3>1. PICK f \in Paths : Save(f)
        BY <2>1
      <3>2. Len(bytes') = Len(bytes) + 1
        BY <1>0, <3>1 DEF Save
      <3> QED
        BY <3>1, <3>2 DEF Save, Renames
    <2>2. CASE \E f \in Paths : Edit(f)
      <3>1. PICK f \in Paths : Edit(f)
        BY <2>2
      <3>2. Len(bytes') = Len(bytes) /\ name' = name
        BY <1>0, <3>1 DEF Edit
      <3> QED
        BY <1>0, <3>2 DEF Renames
    <2>3. CASE \E f \in Paths : Remove(f)
      BY <2>3 DEF Remove, Renames
    <2>4. CASE Commit \/ Unlock \/ \E f \in Paths : Stage(f) \/ StagePart(f)
      BY <1>0, <2>4 DEF Commit, Unlock, Stage, StagePart, files, Renames
    <2> QED
      BY <1>0, <1>1, <2>1, <2>2, <2>3, <2>4 DEF User
  <1>2. CASE UNCHANGED vars
    BY <1>0, <1>2 DEF vars, files, Renames
  <1>3. CASE Restores
    <2>1. CASE WriteReport
      <3>1. Len(bytes') = Len(bytes) /\ name' = [name EXCEPT ![Report] = 3]
        BY <1>0, <2>1 DEF WriteReport
      <3> QED
        BY <1>0, <3>1 DEF Renames
    <2>2. CASE Reset
      BY <1>0, <2>2 DEF Reset, files, Renames
    <2>3. CASE Refuse
      BY <1>0, <2>3 DEF Refuse, Renames
    <2>4. ASSUME NEW f \in Paths, PutBack(f) PROVE Renames
      <3>1. CASE HeadTree[f] # NoFile /\ lock = NoFile
        <4>1. bytes' = Append(bytes, HeadTree[f]) /\ name' = [name EXCEPT ![f] = Len(bytes')]
          BY <2>4, <3>1 DEF PutBack
        <4>2. Len(bytes') = Len(bytes) + 1
          BY <1>0, <4>1
        <4> QED
          BY <4>1, <4>2 DEF Renames
      <3>2. CASE ~(HeadTree[f] # NoFile /\ lock = NoFile)
        BY <2>4, <3>2 DEF PutBack, Unlinked, Renames
      <3> QED
        BY <3>1, <3>2
    <2> QED
      BY <1>3, <2>1, <2>2, <2>3, <2>4 DEF Restores
  <1>4. CASE \E p \in Procs : CallAttest(p)
    <2>1. UNCHANGED <<name, bytes>>
      BY <1>4 DEF CallAttest, files
    <2> QED
      BY <1>0, <2>1 DEF Renames
  <1> QED
    BY <1>1, <1>2, <1>3, <1>4

(* And to the attests: at most a new one is called.                         *)
LEMMA OthersLeaveAttests ==
    ASSUME Inv, User \/ UNCHANGED vars \/ Restores
    PROVE  UNCHANGED attest
  BY DEF User, Commit, Unlock, Edit, Save, Remove, Stage, StagePart, Moves, vars, Restores,
         WriteReport, Reset, Refuse, PutBack, OnlyFiles

LEMMA CallAttestBegins ==
    ASSUME Inv, TruthInv, NEW p \in Procs, CallAttest(p)
    PROVE  /\ pc[p] = "uncalled" /\ pc'[p] = "head" /\ for'[p] = op.run
           /\ \A q \in Procs \ {p} : pc'[q] = pc[q]
           /\ Called' = Called \cup {p}
           /\ op.at = "call" /\ op'.at = "wait" /\ op'.call = p /\ op'.run = op.run
           /\ UNCHANGED <<snap, round, laid, fd, files, git, moves, runs, done, rows, origin, harm>>
  <1> USE DEF Inv, HandoffInv, TypeOK
  <1>1. /\ pc[p] = "uncalled" /\ pc' = [pc EXCEPT ![p] = "head"] /\ for' = [for EXCEPT ![p] = op.run]
        /\ op.at = "call" /\ op' = [op EXCEPT !.at = "wait", !.call = p]
        /\ UNCHANGED <<snap, round, laid, fd, files, git, moves, runs, done, rows, origin, harm>>
    BY DEF CallAttest, During, NoRunTouched
  <1>2. pc \in [Procs -> Places] /\ op \in OpType
    BY DEF PlaceOK, OpOK
  <1>3. PICK c : scene' = [scene EXCEPT !.calls = [s \in Called \cup {p} |-> c[s]]]
    <2>1. PICK claim \in {0, Highest(Lines(Held(Shard)))} :
              scene' = [scene EXCEPT !.calls =
                 [c \in Called \cup {p} |->
                     IF c = p THEN [verdict |-> op.verdict, claim |-> claim, commit |-> TRUE,
                                    with |-> {Report} \cup op.plans]
                     ELSE scene.calls[c]]]
      BY DEF CallAttest
    <2> DEFINE c == [s \in Called \cup {p} |->
                     IF s = p THEN [verdict |-> op.verdict, claim |-> claim, commit |-> TRUE,
                                    with |-> {Report} \cup op.plans]
                     ELSE scene.calls[s]]
    <2>2. c = [s \in Called \cup {p} |-> c[s]]
      OBVIOUS
    <2>3. scene' = [scene EXCEPT !.calls = c]
      BY <2>1
    <2> HIDE DEF c
    <2> QED
      BY <2>2, <2>3
  <1>4. Called' = Called \cup {p}
    BY <1>3 DEF Called, job, CallsOK
  <1>5. for'[p] = op.run
    <2>1. DOMAIN for = Procs
      BY DEF TruthInv, RunOK
    <2> QED
      BY <1>1, <2>1
  <1> QED
    BY <1>1, <1>2, <1>4, <1>5 DEF OpType

LEMMA FilesStayApart ==
    ASSUME Inv, TruthInv, [HandedNext]_all, Apart, Begun, Unread
    PROVE  Apart' /\ Begun' /\ Unread'
  <1> USE DEF Inv, HandoffInv, TypeOK
  <1>0. /\ Len(bytes) \in Nat /\ Len(bytes) >= 3 /\ name \in [Paths -> 0..Len(bytes)] /\ name[Shard] # 3
        /\ Shard \in Paths /\ Report \in Paths /\ Shard # Report /\ fd \in [Procs -> Nat]
        /\ DOMAIN bytes = 1..Len(bytes) /\ Called \subseteq Procs
    BY DEF StoreOK, NameOK, Paths, Shard, Report, PlaceOK, CallsOK
  <1>1. ASSUME NEW p \in Called, Attests(p) PROVE Apart' /\ Begun' /\ Unread'
    <2>1. AttestMoves(p)
      BY <1>1, AttestingMoves DEF Attests
    <2>2. Begun'
      <3>1. Called' = Called
        BY <2>1 DEF AttestMoves, Called, job
      <3>2. \A q \in Called : pc'[q] # "uncalled"
        BY <1>0, <2>1 DEF Begun, AttestMoves
      <3> QED
        BY <3>1, <3>2 DEF Begun
    <2>3. Unread'
      <3> SUFFICES ASSUME NEW q \in Procs, pc'[q] \in {"uncalled", "head", "shard"}
                   PROVE  Known(q)' = <<>>
        BY DEF Unread
      <3>1. CASE q # p
        BY <2>1, <3>1 DEF AttestMoves, Unread, Known
      <3>2. CASE q = p
        <4>1. pc[p] = "head" /\ snap'[p].data[Shard] = snap[p].data[Shard]
          BY <2>1, <3>2 DEF AttestMoves
        <4> QED
          BY <3>2, <4>1 DEF Unread, Known
      <3> QED
        BY <3>1, <3>2
    <2>4. CASE AppendLine(p)
      <3>1. AppendsLine(p) /\ pc'[p] \in {"after", "refused"}
        BY <2>4, AppendLineWrites
      <3>2. \/ UNCHANGED <<name, fd>>
            \/ name' = [name EXCEPT ![Shard] = Len(bytes) + 1] /\ fd' = [fd EXCEPT ![p] = Len(bytes) + 1]
        BY <3>1 DEF AppendsLine
      <3>3. name'[Report] = name[Report] /\ name'[Shard] \in {name[Shard], Len(bytes) + 1} /\ name[Report] <= Len(bytes)
        BY <1>0, <3>2
      <3>4. name'[Report] # 0 => name'[Report] # name'[Shard]
        BY <1>0, <3>3 DEF Apart
      <3>5. \A q \in Procs : pc'[q] = "append" => pc[q] = "append" /\ fd'[q] = fd[q]
        BY <2>1, <3>1, <1>0 DEF AttestMoves
      <3> QED
        BY <2>2, <2>3, <3>3, <3>4, <3>5 DEF Apart
    <2>5. CASE name' = name /\ bytes' = bytes
      <3>1. \A q \in Procs \ {p} : pc'[q] = pc[q] /\ fd'[q] = fd[q]
        BY <2>1 DEF AttestMoves
      <3>2. pc'[p] = "append" /\ fd'[p] # 0 => fd'[p] = name[Shard]
        BY <2>1, OpenShardOpens DEF AttestMoves
      <3> QED
        BY <1>0, <2>2, <2>3, <2>5, <3>1, <3>2 DEF Apart
    <2> QED
      BY <2>1, <2>4, <2>5 DEF AttestMoves
  <1>2. ASSUME Renames, fd' = fd, snap' = snap, \A q \in Procs : pc'[q] = "append" => pc[q] = "append"
        PROVE  Apart'
    <2>1. \A q \in Procs : pc[q] = "append" /\ fd[q] # 0 => fd[q] \in DOMAIN bytes \ {3}
      BY DEF FdInv
    <2>2. name'[Report] \in {name[Report], Len(bytes) + 1, 0, 3} /\ name'[Shard] \in {name[Shard], Len(bytes) + 1, 0}
      BY <1>0, <1>2 DEF Renames
    <2>3. name'[Report] # 0 => name'[Report] # name'[Shard]
      BY <1>0, <1>2 DEF Renames, Apart
    <2>4. \A q \in Procs : pc'[q] = "append" /\ fd'[q] # 0 => fd'[q] # name'[Report]
      BY <1>0, <1>2, <2>1, <2>2 DEF Apart
    <2> QED
      BY <2>3, <2>4 DEF Apart
  <1>3. CASE User \/ UNCHANGED vars \/ Restores
    <2>1. Renames /\ UNCHANGED attest
      BY <1>3, OthersRename, OthersLeaveAttests
    <2> QED
      BY <1>2, <2>1 DEF attest, Begun, Unread, Called, job, Known
  <1>4. ASSUME NEW p \in Procs, CallAttest(p) PROVE Apart' /\ Begun' /\ Unread'
    <2>1. Renames
      BY <1>4, OthersRename
    <2>2. /\ pc[p] = "uncalled" /\ pc'[p] = "head" /\ \A q \in Procs \ {p} : pc'[q] = pc[q]
          /\ Called' = Called \cup {p} /\ UNCHANGED <<snap, fd>>
      BY <1>4, CallAttestBegins
    <2>3. Apart'
      BY <1>2, <2>1, <2>2
    <2>4. Begun' /\ Unread'
      BY <1>0, <2>2 DEF Begun, Unread, Known
    <2> QED
      BY <2>3, <2>4
  <1> QED
    BY <1>1, <1>3, <1>4, Steps

(* A run that has ended is started no more: it stays bound to its head.     *)
LEMMA BoundStays ==
    ASSUME Inv, TruthInv, [HandedNext]_all, NEW r \in Runs, Settled(r)
    PROVE  bound'[r] = bound[r]
  <1>1. bound' = bound \/ \E s \in Runs : Start(s)
    BY DEF HandedNext, Attested, KillCommand, NoRunTouched, Supervised, runs, all, Command, HandOver, Launch,
       Record, Activate, Stop, Stopped, Look, Recognise, Bind, TakeResult, ListDirty, DryRun, Await, AllPutBack,
       Name, PushHead, WriteReceipt, WriteReport, Reset, Refuse, PutBack, CallAttest
  <1>2. ASSUME NEW s \in Runs, Start(s) PROVE bound' = [bound EXCEPT ![s] = Len(log)] /\ s # r
    BY <1>2 DEF Start, Settled
  <1> QED
    BY <1>1, <1>2 DEF TruthInv, RunOK

LEMMA CalledRuns ==
    ASSUME TruthInv
    PROVE  \A p \in Procs : for[p] # 0 => for[p] \in Runs /\ Settled(for[p]) /\ pc[p] # "uncalled"
  BY DEF TruthInv, CalledFor, Attestable

LEMMA BoundMoves ==
    ASSUME Inv, [HandedNext]_all, op.at # "idle"
    PROVE  bound' = bound
  BY DEF HandedNext, Attested, KillCommand, NoRunTouched, Supervised, runs, all, Command, HandOver, Launch, Start,
         Record, Activate, Stop, Stopped, Look, Recognise, Bind, TakeResult, ListDirty, DryRun, Await, AllPutBack,
         Name, PushHead, WriteReceipt, WriteReport, Reset, Refuse, PutBack, CallAttest, During

-----------------------------------------------------------------------------
(* What is stored after a step was stored before, or is made of it.         *)
Base(b) == b = <<>> \/ (Kept(b) /\ b # NoFile)
Writes(p, b) == b = <<>> \/ b = Known(p) \/ (pc[p] = "append" /\ fd[p] # 0 /\ b = bytes[fd[p]])
Made(c) ==
    \/ c = NoFile
    \/ \E b : \E n \in Nat : Base(b) /\ c = Append(b, Words(n))
    \/ \E r \in Runs : Settled(r) /\ c = <<ReportText(r)>>
    \/ \E p \in Procs : \E b : pc[p] \in Late /\ Writes(p, b) /\ Base(b) /\ c = Append(b, Line(p))
Sourced(c) == Kept(c) \/ Made(c)

LEMMA KeptBytes == \A k \in DOMAIN bytes : Kept(bytes[k])
  BY DEF Kept
LEMMA KeptIndex == \A f \in Paths : Kept(index[f])
  BY DEF Kept
LEMMA KeptLog == \A i \in DOMAIN log, f \in Paths : Kept(log[i].tree[f])
  BY DEF Kept
LEMMA KeptSnap == \A p \in Procs, f \in Paths : Kept(snap[p].data[f]) /\ Kept(laid[p][f])
  BY DEF Kept
LEMMA BaseOfKept == \A c : Kept(c) => Base(Lines(c))
  BY DEF Base, Lines

LEMMA NoFileIsNoContent == NoFile \notin Content
  <1>1. Authentic \subseteq AnyLine
    BY DEF Authentic
  <1>2. \A c \in Seq(Authentic) : c \in Seq(AnyLine)
    BY <1>1
  <1> QED
    BY <1>2, NoContentAssumption DEF Content

LEMMA BaseOfBytes ==
    ASSUME Inv
    PROVE  \A k \in DOMAIN bytes : Base(bytes[k]) /\ Lines(bytes[k]) = bytes[k]
  BY StoredContent, NoFileIsNoContent, KeptBytes DEF Base, Lines

LEMMA BaseIsContent ==
    ASSUME Inv, NEW b, Base(b)
    PROVE  b \in Content
  BY KeptIsContent, LinesAreContent DEF Base, Lines

LEMMA HeldIsKept ==
    ASSUME Inv, NEW f \in Paths
    PROVE  (Kept(Held(f)) \/ Held(f) = NoFile) /\ Base(Lines(Held(f)))
  <1>1. name[f] # 0 => name[f] \in DOMAIN bytes
    BY DEF Inv, HandoffInv, TypeOK, NameOK, StoreOK
  <1>2. Kept(Held(f)) \/ Held(f) = NoFile
    BY <1>1, KeptBytes DEF Held
  <1> QED
    BY <1>2, BaseOfKept DEF Base, Lines

LEMMA HeadIsKept ==
    ASSUME Inv, NEW f \in Paths
    PROVE  Kept(HeadTree[f])
  <1>1. Len(log) \in DOMAIN log
    BY DEF Inv, HandoffInv, TypeOK, StoreOK
  <1> QED
    BY <1>1, KeptLog DEF HeadTree

(* What an attest puts into an index or a tree.                             *)
LEMMA OverMakes ==
    ASSUME Inv, NEW p \in Procs, pc[p] \in Late, NEW t, \A f \in Paths : Kept(t[f])
    PROVE  \A f \in Paths : Sourced(Over(t, p)[f])
  <1> SUFFICES ASSUME NEW f \in Paths PROVE Sourced(Over(t, p)[f])
    OBVIOUS
  <1>1. CASE f = Shard
    <2>1. Over(t, p)[f] = Append(Known(p), Line(p))
      BY <1>1 DEF Over, Carried, Laid, Target
    <2>2. Base(Known(p)) /\ Writes(p, Known(p))
      BY KeptSnap, BaseOfKept, Shard \in Paths DEF Known, Writes, Paths
    <2> QED
      BY <2>1, <2>2 DEF Sourced, Made
  <1>2. CASE f # Shard
    <2>1. Over(t, p)[f] = snap[p].data[f] \/ Over(t, p)[f] = t[f]
      BY <1>2 DEF Over, Laid
    <2> QED
      BY <2>1, KeptSnap DEF Sourced
  <1> QED
    BY <1>1, <1>2

LEMMA KeptPieces ==
    ASSUME NEW c, Kept(c)',
           \A k \in DOMAIN bytes' : Sourced(bytes'[k]),
           \A f \in Paths : Sourced(index'[f]),
           \A i \in DOMAIN log', f \in Paths : Sourced(log'[i].tree[f]),
           \A p \in Procs, f \in Paths : Sourced(snap'[p].data[f]),
           \A p \in Procs, f \in Paths : Sourced(laid'[p][f])
    PROVE  Sourced(c)
  BY DEF Kept

LEMMA SamePieces ==
    ASSUME Inv
    PROVE  /\ bytes' = bytes => \A k \in DOMAIN bytes' : Sourced(bytes'[k])
           /\ index' = index => \A f \in Paths : Sourced(index'[f])
           /\ log' = log => \A i \in DOMAIN log', f \in Paths : Sourced(log'[i].tree[f])
           /\ snap' = snap => \A p \in Procs, f \in Paths : Sourced(snap'[p].data[f])
           /\ laid' = laid => \A p \in Procs, f \in Paths : Sourced(laid'[p][f])
  BY KeptBytes, KeptIndex, KeptLog, KeptSnap DEF Sourced

LEMMA OneMoreFile ==
    ASSUME Inv, NEW c, Sourced(c), bytes' = Append(bytes, c)
    PROVE  \A k \in DOMAIN bytes' : Sourced(bytes'[k])
  <1>1. bytes \in Seq(Content)
    BY DEF Inv, HandoffInv, TypeOK, StoreOK
  <1>2. \A k \in DOMAIN bytes' : bytes'[k] = c \/ (k \in DOMAIN bytes /\ bytes'[k] = bytes[k])
    BY <1>1
  <1> QED
    BY <1>2, KeptBytes DEF Sourced

LEMMA OneFileChanged ==
    ASSUME Inv, NEW c, Sourced(c), NEW n, bytes' = [bytes EXCEPT ![n] = c]
    PROVE  \A k \in DOMAIN bytes' : Sourced(bytes'[k])
  <1>1. \A k \in DOMAIN bytes' : bytes'[k] = c \/ (k \in DOMAIN bytes /\ bytes'[k] = bytes[k])
    OBVIOUS
  <1> QED
    BY <1>1, KeptBytes DEF Sourced

LEMMA OneMoreCommit ==
    ASSUME Inv, NEW t, \A f \in Paths : Sourced(t[f]), NEW n, log' = Append(log, [tree |-> t, parent |-> n])
    PROVE  \A i \in DOMAIN log', f \in Paths : Sourced(log'[i].tree[f])
  <1> DEFINE e == [tree |-> t, parent |-> n]
  <1>1. log \in Seq(Commits)
    BY DEF Inv, HandoffInv, TypeOK, StoreOK
  <1>2. \A i \in DOMAIN log' : log'[i] = e \/ (i \in DOMAIN log /\ log'[i] = log[i])
    BY <1>1
  <1>3. e.tree = t
    OBVIOUS
  <1> HIDE DEF e
  <1> QED
    BY <1>2, <1>3, KeptLog DEF Sourced

LEMMA AttestStores ==
    ASSUME Inv, Begun, NEW p \in Called, Attesting(p), NEW c, Kept(c)'
    PROVE  Sourced(c)
  <1> USE DEF Inv, HandoffInv, TypeOK
  <1>0. /\ p \in Procs /\ pc \in [Procs -> Places] /\ snap \in [Procs -> Fixed] /\ laid \in [Procs -> Tree]
        /\ Shard \in Paths /\ bytes \in Seq(Content)
    BY DEF CallsOK, PlaceOK, StoreOK, Paths
  <1>1. AttestMoves(p)
    BY AttestingMoves
  <1>2. \A k \in DOMAIN bytes' : Sourced(bytes'[k])
    <2>1. CASE bytes' = bytes
      BY <2>1, SamePieces
    <2>2. CASE AppendLine(p)
      <3>1. AppendsLine(p) /\ pc[p] = "append" /\ fd \in [Procs -> Nat]
        BY <2>2, AppendLineWrites DEF PlaceOK
      <3>2. CASE fd[p] \in DOMAIN bytes \ {3} /\ bytes' = [bytes EXCEPT ![fd[p]] = Append(@, Line(p))]
        <4>1. bytes' = [bytes EXCEPT ![fd[p]] = Append(bytes[fd[p]], Line(p))]
          BY <3>2
        <4>2. fd[p] # 0
          BY <3>2, <1>0
        <4>3. Base(bytes[fd[p]]) /\ Writes(p, bytes[fd[p]])
          BY <3>1, <3>2, <4>2, BaseOfBytes DEF Writes
        <4>4. Sourced(Append(bytes[fd[p]], Line(p)))
          BY <1>0, <3>1, <4>3 DEF Sourced, Made, Late
        <4> QED
          BY <4>1, <4>4, OneFileChanged
      <3>3. CASE bytes' = Append(bytes, <<Line(p)>>)
        <4>1. Base(<<>>) /\ Writes(p, <<>>) /\ <<Line(p)>> = Append(<<>>, Line(p))
          BY DEF Base, Writes
        <4>2. Sourced(<<Line(p)>>)
          BY <1>0, <3>1, <4>1 DEF Sourced, Made, Late
        <4> QED
          BY <3>3, <4>2, OneMoreFile
      <3>4. CASE bytes' = bytes
        BY <3>4, SamePieces
      <3> QED
        BY <3>1, <3>2, <3>3, <3>4 DEF AppendsLine
    <2> QED
      BY <1>1, <2>1, <2>2 DEF AttestMoves
  <1>3. \A f \in Paths : Sourced(index'[f])
    <2>1. CASE index' = index
      BY <2>1, SamePieces
    <2>2. CASE index' = laid[p]
      BY <1>0, <2>2, KeptSnap DEF Sourced
    <2>3. index' = index \/ index' = laid[p]
      BY DEF Attesting, ReadHead, ReadFile, Decide, TakeLock, CheckIndex, OpenShard, AppendLine, SameFile,
         RenameIndex, Hooks, UpdateRef, Die, OnlyAt, git
    <2> QED
      BY <2>1, <2>2, <2>3
  <1>4. \A i \in DOMAIN log', f \in Paths : Sourced(log'[i].tree[f])
    <2>1. CASE log' = log
      BY <2>1, SamePieces
    <2>2. CASE UpdateRef(p) /\ log' # log
      <3>1. pc[p] = "ref" /\ log' = Append(log, [tree |-> Over(Old(p), p), parent |-> snap[p].old])
        BY <2>2 DEF UpdateRef
      <3>2. snap[p].old \in DOMAIN log
        BY <1>0, <3>1 DEF SnapInv, Late, Early
      <3>3. \A f \in Paths : Kept(Old(p)[f])
        BY <3>2, KeptLog DEF Old
      <3>4. \A f \in Paths : Sourced(Over(Old(p), p)[f])
        BY <1>0, <3>1, <3>3, OverMakes DEF Late
      <3> QED
        BY <3>1, <3>4, OneMoreCommit
    <2> QED
      BY <1>1, <2>1, <2>2 DEF AttestMoves
  <1>5. \A q \in Procs, f \in Paths : Sourced(snap'[q].data[f])
    <2>1. CASE snap' = snap
      BY <2>1, SamePieces
    <2>2. ASSUME NEW f \in Paths, snap' = [snap EXCEPT ![p].data[f] = Held(f), ![p].ino[f] = name[f]]
          PROVE  <1>5!:
      <3>1. \A q \in Procs, g \in Paths : snap'[q].data[g] = snap[q].data[g] \/ (snap'[q].data[g] = Held(f))
        BY <1>0, <2>2 DEF Fixed, Tree
      <3>2. Sourced(Held(f))
        BY HeldIsKept DEF Sourced, Made
      <3> QED
        BY <3>1, <3>2, KeptSnap DEF Sourced
    <2>3. CASE snap' = [snap EXCEPT ![p].old = Len(log)] \/ snap' = [snap EXCEPT ![p].index = index]
      <3>1. \A q \in Procs : snap'[q].data = snap[q].data
        <4>1. snap[p].data = [snap[p] EXCEPT !.old = Len(log)].data /\ snap[p].data = [snap[p] EXCEPT !.index = index].data
          BY <1>0 DEF Fixed
        <4>2. snap'[p].data = snap[p].data
          BY <1>0, <2>3, <4>1
        <4>3. \A q \in Procs \ {p} : snap'[q] = snap[q]
          BY <1>0, <2>3
        <4> QED
          BY <4>2, <4>3
      <3> QED
        BY <3>1, KeptSnap DEF Sourced
    <2>4. \/ snap' = snap
          \/ \E f \in Paths : snap' = [snap EXCEPT ![p].data[f] = Held(f), ![p].ino[f] = name[f]]
          \/ snap' = [snap EXCEPT ![p].old = Len(log)] \/ snap' = [snap EXCEPT ![p].index = index]
      BY DEF Attesting, ReadHead, ReadFile, Decide, TakeLock, CheckIndex, OpenShard, AppendLine, SameFile,
         RenameIndex, Hooks, UpdateRef, Die, Paths
    <2> QED
      BY <2>1, <2>2, <2>3, <2>4
  <1>6. \A q \in Procs, f \in Paths : Sourced(laid'[q][f])
    <2>1. CASE laid' = laid
      BY <2>1, SamePieces
    <2>2. CASE CheckIndex(p) /\ laid' # laid
      <3>1. pc[p] = "w1" /\ laid' = [laid EXCEPT ![p] = Over(index, p)]
        BY <2>2 DEF CheckIndex
      <3>2. \A f \in Paths : Sourced(Over(index, p)[f])
        BY <1>0, <3>1, KeptIndex, OverMakes DEF Late
      <3>3. \A q \in Procs : laid'[q] = laid[q] \/ laid'[q] = Over(index, p)
        BY <1>0, <3>1
      <3> QED
        BY <3>2, <3>3, KeptSnap DEF Sourced
    <2>3. laid' = laid \/ CheckIndex(p)
      BY DEF Attesting, ReadHead, ReadFile, Decide, TakeLock, CheckIndex, OpenShard, AppendLine, SameFile,
         RenameIndex, Hooks, UpdateRef, Die
    <2> QED
      BY <2>1, <2>2, <2>3
  <1> HIDE DEF Inv, HandoffInv, TypeOK
  <1> QED
    BY <1>2, <1>3, <1>4, <1>5, <1>6, KeptPieces

LEMMA UserStores ==
    ASSUME Inv, User, NEW c, Kept(c)'
    PROVE  Sourced(c)
  <1>0. /\ UNCHANGED <<snap, laid>> /\ moves' \in Nat /\ scene.touches \subseteq Paths
    BY DEF User, Commit, Unlock, Edit, Save, Remove, Stage, StagePart, Moves, attest,
           Inv, HandoffInv, TypeOK, PlaceOK, CallsOK
  <1>1. ASSUME NEW b, Base(b) PROVE Sourced(Append(b, Words(moves')))
    BY <1>0, <1>1 DEF Sourced, Made
  <1>2. \A k \in DOMAIN bytes' : Sourced(bytes'[k])
    <2>1. CASE bytes' = bytes
      BY <2>1, SamePieces
    <2>2. ASSUME NEW f \in Paths, Edit(f) PROVE <1>2!:
      <3>1. name[f] \in DOMAIN bytes
        BY <2>2 DEF Edit, Inv, HandoffInv, TypeOK, NameOK, StoreOK
      <3>2. bytes' = [bytes EXCEPT ![name[f]] = Append(bytes[name[f]], Words(moves'))]
        BY <2>2 DEF Edit
      <3>3. Sourced(Append(bytes[name[f]], Words(moves')))
        BY <1>1, <3>1, BaseOfBytes
      <3> QED
        BY <3>2, <3>3, OneFileChanged
    <2>3. ASSUME NEW f \in Paths, Save(f) PROVE <1>2!:
      <3>1. bytes' = Append(bytes, Append(Lines(Held(f)), Words(moves')))
        BY <2>3 DEF Save
      <3>2. Sourced(Append(Lines(Held(f)), Words(moves')))
        BY <1>1, HeldIsKept
      <3> QED
        BY <3>1, <3>2, OneMoreFile
    <2>4. bytes' = bytes \/ \E f \in Paths : Edit(f) \/ Save(f)
      BY <1>0 DEF User, Commit, Unlock, Remove, Stage, StagePart, files
    <2> QED
      BY <2>1, <2>2, <2>3, <2>4
  <1>3. \A f \in Paths : Sourced(index'[f])
    <2>1. CASE index' = index
      BY <2>1, SamePieces
    <2>2. ASSUME NEW f \in Paths, NEW e, Sourced(e), index' = [index EXCEPT ![f] = e]
          PROVE  <1>3!:
      <3>1. \A g \in Paths : index'[g] = index[g] \/ index'[g] = e
        BY <2>2 DEF Inv, HandoffInv, TypeOK, StoreOK, Tree
      <3> QED
        BY <2>2, <3>1, KeptIndex DEF Sourced
    <2>3. ASSUME NEW f \in Paths, Stage(f) PROVE <1>3!:
      <3>1. Sourced(Held(f)) /\ index' = [index EXCEPT ![f] = Held(f)]
        BY <2>3, HeldIsKept DEF Stage, Sourced, Made
      <3> QED
        BY <2>2, <3>1
    <2>4. ASSUME NEW f \in Paths, StagePart(f) PROVE <1>3!:
      <3>1. Sourced(Append(Lines(index[f]), Words(moves')))
        BY <1>1, KeptIndex, BaseOfKept
      <3>2. index' = [index EXCEPT ![f] = Append(Lines(index[f]), Words(moves'))]
        BY <2>4 DEF StagePart
      <3> QED
        BY <2>2, <3>1, <3>2
    <2>5. index' = index \/ \E f \in Paths : Stage(f) \/ StagePart(f)
      BY <1>0 DEF User, Commit, Unlock, Remove, Edit, Save, git
    <2> QED
      BY <2>1, <2>3, <2>4, <2>5
  <1>4. \A i \in DOMAIN log', f \in Paths : Sourced(log'[i].tree[f])
    <2>1. CASE log' = log
      BY <2>1, SamePieces
    <2>2. CASE log' = Append(log, [tree |-> index, parent |-> Len(log)])
      <3>1. \A f \in Paths : Sourced(index[f])
        BY KeptIndex DEF Sourced
      <3> QED
        BY <2>2, <3>1, OneMoreCommit
    <2>3. log' = log \/ log' = Append(log, [tree |-> index, parent |-> Len(log)])
      BY DEF User, Commit, Unlock, Remove, Edit, Save, Stage, StagePart, git
    <2> QED
      BY <2>1, <2>2, <2>3
  <1> QED
    BY <1>0, <1>2, <1>3, <1>4, SamePieces, KeptPieces

LEMMA RestoreStores ==
    ASSUME Inv, TruthInv, Restores, NEW c, Kept(c)'
    PROVE  Sourced(c)
  <1>0. UNCHANGED <<snap, laid, log>>
    BY DEF Restores, WriteReport, Reset, Refuse, PutBack, OnlyFiles, attest, git
  <1>1. \A k \in DOMAIN bytes' : Sourced(bytes'[k])
    <2>1. CASE bytes' = bytes
      BY <2>1, SamePieces
    <2>2. CASE WriteReport
      <3>1. op.at = "report" /\ bytes' = [bytes EXCEPT ![3] = <<ReportText(op.run)>>]
        BY <2>2 DEF WriteReport, During
      <3>2. op.run \in Runs /\ Settled(op.run)
        BY <3>1 DEF TruthInv, InHand, Attestable
      <3>3. Sourced(<<ReportText(op.run)>>)
        BY <3>2 DEF Sourced, Made
      <3> QED
        BY <3>1, <3>3, OneFileChanged
    <2>3. ASSUME NEW f \in Paths, PutBack(f), bytes' # bytes PROVE <1>1!:
      <3>1. bytes' = Append(bytes, HeadTree[f])
        BY <2>3 DEF PutBack
      <3>2. Sourced(HeadTree[f])
        BY HeadIsKept DEF Sourced
      <3> QED
        BY <3>1, <3>2, OneMoreFile
    <2>4. bytes' = bytes \/ WriteReport \/ \E f \in Paths : PutBack(f)
      BY DEF Restores, Reset, Refuse, files
    <2> QED
      BY <2>1, <2>2, <2>3, <2>4
  <1>2. \A f \in Paths : Sourced(index'[f])
    <2>1. CASE index' = index
      BY <2>1, SamePieces
    <2>2. CASE index' = HeadTree
      BY <2>2, HeadIsKept DEF Sourced
    <2>3. ASSUME NEW f \in Paths, index' = [index EXCEPT ![f] = HeadTree[f]] PROVE <1>2!:
      <3>1. \A g \in Paths : index'[g] = index[g] \/ index'[g] = HeadTree[g]
        BY <2>3 DEF Inv, HandoffInv, TypeOK, StoreOK, Tree
      <3> QED
        BY <3>1, HeadIsKept, KeptIndex DEF Sourced
    <2>4. index' = index \/ index' = HeadTree \/ \E f \in Paths : index' = [index EXCEPT ![f] = HeadTree[f]]
      BY DEF Restores, WriteReport, Reset, Refuse, PutBack, OnlyFiles, git
    <2> QED
      BY <2>1, <2>2, <2>3, <2>4
  <1> QED
    BY <1>0, <1>1, <1>2, SamePieces, KeptPieces

LEMMA StepStores ==
    ASSUME Inv, TruthInv, Begun, [HandedNext]_all, NEW c, Kept(c)'
    PROVE  Sourced(c)
  <1>1. CASE UNCHANGED vars \/ \E p \in Procs : CallAttest(p)
    <2>1. UNCHANGED <<bytes, index, log, snap, laid>>
      BY <1>1 DEF CallAttest, vars, attest, files, git
    <2> QED
      BY <2>1, SamePieces, KeptPieces
  <1> QED
    BY <1>1, Steps, AttestStores, UserStores, RestoreStores DEF Attests

-----------------------------------------------------------------------------
(* The reports that are stored.                                             *)
LEMMA ReportsOfAppend ==
    ASSUME NEW c \in Content, NEW l
    PROVE  ReportsIn(Append(c, l)) = ReportsIn(c) \cup (IF l.kind = "report" THEN {l.run} ELSE {})
  <1>1. c \in Seq(Authentic)
    BY DEF Content
  <1>2. {Append(c, l)[i] : i \in DOMAIN Append(c, l)} = {c[i] : i \in DOMAIN c} \cup {l}
    BY <1>1
  <1> QED
    BY <1>2 DEF ReportsIn

LEMMA ReportsMade ==
    ASSUME Inv, ReportsSettled, NEW c, Sourced(c), NEW r \in ReportsIn(Lines(c))
    PROVE  r \in Runs /\ Settled(r)
  <1>0. ReportsIn(<<>>) = {}
    BY DEF ReportsIn
  <1>1. \A b : Base(b) => \A s \in ReportsIn(b) : s \in Runs /\ Settled(s)
    BY <1>0 DEF Base, ReportsSettled, Lines
  <1>2. CASE Kept(c)
    BY <1>2 DEF ReportsSettled
  <1>3. CASE c = NoFile
    BY <1>0, <1>3 DEF Lines
  <1>4. CASE c # NoFile /\ \E b, l : Base(b) /\ l.kind # "report" /\ c = Append(b, l)
    <2>1. PICK b, l : Base(b) /\ l.kind # "report" /\ c = Append(b, l)
      BY <1>4
    <2>2. ReportsIn(c) = ReportsIn(b)
      <3>1. b \in Content
        BY <2>1, BaseIsContent
      <3>2. ReportsIn(Append(b, l)) = ReportsIn(b) \cup (IF l.kind = "report" THEN {l.run} ELSE {})
        BY <3>1, ReportsOfAppend
      <3> QED
        BY <2>1, <3>2
    <2> QED
      BY <1>1, <1>4, <2>1, <2>2 DEF Lines
  <1>5. ASSUME NEW s \in Runs, Settled(s), c = <<ReportText(s)>>, c # NoFile
        PROVE  r \in Runs /\ Settled(r)
    <2>1. ReportsIn(c) = {s}
      BY <1>5 DEF ReportsIn, ReportText
    <2> QED
      BY <1>5, <2>1 DEF Lines
  <1>6. \A n : Words(n).kind # "report"
    BY DEF Words
  <1>7. \A p : Line(p).kind # "report"
    BY DEF Line, Review
  <1> QED
    BY <1>2, <1>3, <1>4, <1>5, <1>6, <1>7 DEF Sourced, Made

(* A review binds its head before it has ended; its report comes after.     *)
LEMMA ReportsStep ==
    ASSUME Inv, TruthInv, Begun, ReportsSettled, ReportsAfter, [HandedNext]_all
    PROVE  ReportsSettled' /\ ReportsAfter'
  <1>1. \A r \in Runs : Settled(r) => Settled(r)'
    BY RunsStay DEF StaysEnded, Settled
  <1>2. ReportsSettled'
    <2> SUFFICES ASSUME NEW c, Kept(c)', NEW r \in ReportsIn(Lines(c))'
                 PROVE  r \in Runs /\ Settled(r)'
      BY DEF ReportsSettled
    <2>1. r \in ReportsIn(Lines(c))
      BY DEF ReportsIn, Lines
    <2> QED
      BY <1>1, <2>1, StepStores, ReportsMade
  <1>3. ReportsAfter'
    <2> SUFFICES ASSUME NEW i \in DOMAIN log', NEW f \in Paths, NEW r \in ReportsIn(Lines(log'[i].tree[f]))
                 PROVE  bound'[r] < i
      BY DEF ReportsAfter, ReportsIn, Lines
    <2> DEFINE t == log'[i].tree[f]
    <2>0. ASSUME NEW e, e = t PROVE r \in Runs /\ Settled(r)
      <3>1. Kept(e)' /\ r \in ReportsIn(Lines(e))
        BY <2>0 DEF Kept
      <3> QED
        BY <3>1, StepStores, ReportsMade
    <2>1. r \in Runs /\ Settled(r)
      BY <2>0
    <2>2. bound'[r] = bound[r] /\ bound[r] \in Nat /\ bound[r] <= Len(log)
      BY <2>1, BoundStays DEF TruthInv, RunOK
    <2>3. LogKeeps /\ Len(log) \in Nat /\ DOMAIN log = 1..Len(log) /\ DOMAIN log' = 1..Len(log')
      BY LogGrows
    <2>4. CASE i \in DOMAIN log
      BY <2>2, <2>3, <2>4 DEF LogKeeps, ReportsAfter
    <2>5. CASE i \notin DOMAIN log
      BY <2>2, <2>3, <2>5
    <2> QED
      BY <2>4, <2>5
  <1> QED
    BY <1>2, <1>3

-----------------------------------------------------------------------------
(* One line for each run.                                                   *)
LEMMA SpokenAppend ==
    ASSUME NEW c \in Content, NEW l, l.kind = "review" /\ l.by \in Procs => pc[l.by] # "uncalled"
    PROVE  Spoken(Append(c, l))
  <1>1. Spoken(c) /\ c \in Seq(Authentic)
    BY ContentIsSpoken DEF Content
  <1>2. \A i \in DOMAIN Append(c, l) : Append(c, l)[i] = l \/ (i \in DOMAIN c /\ Append(c, l)[i] = c[i])
    BY <1>1
  <1> QED
    BY <1>1, <1>2 DEF Spoken

LEMMA SourcedIsSpoken ==
    ASSUME Inv, NEW c, Sourced(c)
    PROVE  Spoken(Lines(c))
  <1>0. Spoken(<<>>)
    BY DEF Spoken
  <1>1. CASE Kept(c)
    BY <1>1, KeptIsContent, LinesAreContent, ContentIsSpoken
  <1>2. CASE c = NoFile
    BY <1>0, <1>2 DEF Lines
  <1>3. ASSUME NEW b, Base(b), NEW n, c = Append(b, Words(n)) PROVE Spoken(c)
    <2>1. Words(n).kind # "review"
      BY DEF Words
    <2>2. b \in Content
      BY <1>3, BaseIsContent
    <2>3. Spoken(Append(b, Words(n)))
      BY <2>1, <2>2, SpokenAppend
    <2> QED
      BY <1>3, <2>3
  <1>4. ASSUME NEW r, c = <<ReportText(r)>> PROVE Spoken(c)
    BY <1>4 DEF Spoken, ReportText
  <1>5. ASSUME NEW p \in Procs, pc[p] \in Late, NEW b, Base(b), c = Append(b, Line(p)) PROVE Spoken(c)
    <2>1. Line(p).by = p /\ pc[p] # "uncalled"
      BY <1>5 DEF Line, Review, Late
    <2>2. b \in Content
      BY <1>5, BaseIsContent
    <2>3. Spoken(Append(b, Line(p)))
      BY <2>1, <2>2, SpokenAppend
    <2> QED
      BY <1>5, <2>3
  <1>6. Lines(c) = c \/ Lines(c) = <<>>
    BY DEF Lines
  <1>7. Kept(c) \/ c = NoFile \/ Spoken(c)
    BY <1>3, <1>4, <1>5 DEF Sourced, Made
  <1> QED
    BY <1>0, <1>1, <1>2, <1>6, <1>7

LEMMA SourcedIsSingle ==
    ASSUME Inv, TruthInv, AllSingle, OwnLine, NEW c, Sourced(c)
    PROVE  Single(Lines(c))
  <1>0. Single(<<>>)
    BY NoLines DEF Single
  <1>1. \A b : Base(b) => Single(b)
    BY <1>0 DEF Base, AllSingle, Lines
  <1>2. CASE Kept(c)
    BY <1>2 DEF AllSingle
  <1>3. ASSUME NEW b, Base(b), NEW n, c = Append(b, Words(n)) PROVE Single(c)
    <2>1. b \in Content
      BY <1>3, BaseIsContent
    <2>2. \A r : LinesFor(r, c) = LinesFor(r, b)
      BY <1>3, <2>1, WordsOfNoRun
    <2> QED
      BY <1>1, <1>3, <2>2 DEF Single
  <1>4. ASSUME NEW r, c = <<ReportText(r)>> PROVE Single(c)
    <2>1. \A s : LinesFor(s, c) = {}
      BY <1>4 DEF LinesFor, ReportText
    <2> QED
      BY <2>1 DEF Single
  <1>5. ASSUME NEW p \in Procs, pc[p] \in Late, NEW b, Base(b), Writes(p, b), c = Append(b, Line(p))
        PROVE  Single(c)
    <2>1. b \in Content
      BY <1>5, BaseIsContent
    <2>2. \A r : LinesFor(r, c) = LinesFor(r, b) \cup (IF for[p] = r THEN {Line(p)} ELSE {})
      BY <1>5, <2>1, LineOfItsRun
    <2>3. for[p] # 0 => \A l \in LinesFor(for[p], b) : l.by = p
      <3>1. for[p] # 0 => OnlyIts(p, Known(p)) /\ (pc[p] = "append" /\ fd[p] # 0 => OnlyIts(p, bytes[fd[p]]))
        BY <1>5 DEF OwnLine
      <3> QED
        BY <1>5, <3>1, NoLines DEF OnlyIts, Writes
    <2>4. Line(p).by = p
      BY DEF Line, Review
    <2>5. 0 \notin Runs
      BY CodexAssumption
    <2> SUFFICES ASSUME NEW r \in Runs, NEW l \in LinesFor(r, c), NEW m \in LinesFor(r, c) PROVE l.by = m.by
      BY DEF Single
    <2>6. CASE for[p] = r
      BY <2>2, <2>3, <2>4, <2>5, <2>6
    <2>7. CASE for[p] # r
      BY <1>1, <1>5, <2>2, <2>7 DEF Single
    <2> QED
      BY <2>6, <2>7
  <1>6. Lines(c) = c \/ Lines(c) = <<>>
    BY DEF Lines
  <1>7. Kept(c) \/ c = NoFile \/ Single(c)
    BY <1>3, <1>4, <1>5 DEF Sourced, Made
  <1>8. CASE c = NoFile
    BY <1>0, <1>8 DEF Lines
  <1> QED
    BY <1>0, <1>2, <1>6, <1>7, <1>8

LEMMA SingleStep ==
    ASSUME Inv, TruthInv, Begun, AllSingle, OwnLine, [HandedNext]_all
    PROVE  AllSingle'
  <1> SUFFICES ASSUME NEW c, Kept(c)' PROVE Single(Lines(c))'
    BY DEF AllSingle
  <1>1. Single(Lines(c)) /\ Spoken(Lines(c))
    BY StepStores, SourcedIsSingle, SourcedIsSpoken
  <1>2. CallsKeep
    BY CallsStay
  <1>3. \A r : LinesFor(r, Lines(c))' = LinesFor(r, Lines(c))
    <2> SUFFICES ASSUME NEW r PROVE LinesFor(r, Lines(c))' = LinesFor(r, Lines(c))
      OBVIOUS
    <2>1. ASSUME NEW e, e = Lines(c) PROVE LinesFor(r, e)' = LinesFor(r, e)
      BY <1>1, <1>2, <2>1, LinesForStays
    <2>2. Lines(c)' = Lines(c)
      BY DEF Lines
    <2> QED
      BY <2>1, <2>2 DEF LinesFor
  <1> QED
    BY <1>1, <1>3 DEF Single

-----------------------------------------------------------------------------
(* Where the command goes.                                                  *)
WithinBound ==
    /\ op.at \in Bound /\ op'.at \in Bound \ {"wait"} /\ op'.run = op.run
    /\ op'.at \in Taken => op.at \in Taken
    /\ op'.at \in {"list", "dry", "call"} => op.at \in {"list", "dry"} \/ WriteReport
    /\ op.at = "wait" => pc[op.call] \in Ends
Unbinds == op'.at \notin Bound /\ (op.at = "wait" => harm' # 0 \/ pc[op.call] \in Ends)
Binds == op.at = "bind" /\ op'.at = "result" /\ op'.run = op.run /\ Clean /\ Len(log) = bound[op.run]

LEMMA RestoreMoves ==
    ASSUME Inv, Restores
    PROVE  /\ UNCHANGED <<for, bound, harm, log, moves, attest>>
           /\ op.at \in Bound \ {"wait", "call"}
           /\ Unbinds \/ WithinBound
           /\ op'.at \in Taken => WriteReport
  <1> USE DEF Inv, OpOK, During, Goal, Rests, OpType, Bound, Taken, Unbinds, WithinBound
  <1>0. UNCHANGED <<for, bound, harm, log, moves, attest>>
    BY DEF Restores, WriteReport, Reset, Refuse, PutBack, OnlyFiles, git, NoRunTouched, runs
  <1>1. CASE WriteReport
    <2>1. op.at = "report" /\ op' = [op EXCEPT !.at = "list"]
      BY <1>1 DEF WriteReport
    <2> QED
      BY <1>0, <1>1, <2>1
  <1>2. CASE Reset
    <2>1. op.at = "reset" /\ op'.at = "put back" /\ op'.run = op.run
      BY <1>2 DEF Reset
    <2> QED
      BY <1>0, <2>1
  <1>3. CASE Refuse
    <2>1. op.at = "clean" /\ op'.at = "idle"
      BY <1>3 DEF Refuse, Idle
    <2> QED
      BY <1>0, <2>1
  <1>4. ASSUME NEW f \in Paths, PutBack(f)
        PROVE  op.at = "put back" /\ op'.at = "put back" /\ op'.run = op.run
    BY <1>4 DEF PutBack
  <1> QED
    BY <1>0, <1>1, <1>2, <1>3, <1>4 DEF Restores

LEMMA OpMoves ==
    ASSUME Inv, harm \in Nat, [HandedNext]_all, UNCHANGED vars
    PROVE  for' = for /\ (op' = op \/ Unbinds \/ Binds \/ WithinBound)
  <1> USE DEF Inv, OpOK, During, Goal, Rests
  <1>i. Idle.at = "idle" /\ op \in OpType
    BY DEF Idle
  <1>c. \A p \in Procs : ~CallAttest(p)
    BY DEF CallAttest, vars, attest, HandoffInv, TypeOK, PlaceOK
  <1>f. for' = for
    BY <1>c DEF HandedNext, Attested, KillCommand, Supervised, handing, all, Command, HandOver, Launch,
       Record, Activate, Start, Stop, Stopped, Look, Recognise, Bind, TakeResult, ListDirty, DryRun, Await,
       AllPutBack, Name, PushHead, WriteReceipt, WriteReport, Reset, Refuse, PutBack
  <1>r. CASE Restores
    BY <1>f, <1>r, RestoreMoves
  <1>1. CASE Attested \/ (Supervised /\ NoFilesTouched /\ UNCHANGED <<rec, bound, handing>>) \/ UNCHANGED all
    BY <1>1, <1>f DEF Attested, handing, all
  <1>2. CASE KillCommand
    <2>1. op' = Idle /\ harm' # 0
      BY <1>2 DEF KillCommand, Harms
    <2> QED
      BY <1>f, <1>i, <2>1 DEF Unbinds, Bound, Taken
  <1>3. CASE Await
    <2>1. op.at = "wait" /\ pc[op.call] \in Ends /\ op' = [op EXCEPT !.at = IF pc[op.call] = "committed" THEN "finish" ELSE "reset"]
      BY <1>3 DEF Await
    <2>2. op'.at \in {"finish", "reset"} /\ op'.run = op.run
      BY <1>i, <2>1 DEF OpType
    <2> QED
      BY <1>f, <2>1, <2>2 DEF Unbinds, WithinBound, Bound, Taken
  <1>4. CASE Bind
    <2>1. CASE Clean /\ Len(log) = bound[op.run]
      <3>1. op.at = "bind" /\ op' = [op EXCEPT !.at = "result"]
        BY <1>4, <2>1 DEF Bind
      <3> QED
        BY <1>f, <1>i, <2>1, <3>1 DEF OpType, Binds
    <2>2. CASE ~(Clean /\ Len(log) = bound[op.run])
      <3>1. op.at = "bind" /\ op' = Idle
        BY <1>4, <2>2 DEF Bind
      <3> QED
        BY <1>f, <1>i, <3>1 DEF Unbinds, Bound, Taken
    <2> QED
      BY <2>1, <2>2
  <1>5. CASE TakeResult
    <2>1. op.at = "result" /\ (op' = Idle \/ op' = [op EXCEPT !.at = "report", !.verdict = run[op.run].result])
      BY <1>5 DEF TakeResult
    <2>2. op'.at = "idle" \/ (op'.at = "report" /\ op'.run = op.run)
      BY <1>i, <2>1 DEF OpType
    <2> QED
      BY <1>f, <2>1, <2>2 DEF Unbinds, WithinBound, Bound, Taken
  <1>6. CASE ListDirty
    <2>1. op.at = "list" /\ op'.at = "dry" /\ op'.run = op.run
      BY <1>i, <1>6 DEF ListDirty, OpType
    <2> QED
      BY <1>f, <2>1 DEF WithinBound, Bound, Taken
  <1>7. CASE DryRun
    <2>1. op.at = "dry" /\ op'.at \in {"call", "clean"} /\ op'.run = op.run
      BY <1>i, <1>7 DEF DryRun, OpType
    <2> QED
      BY <1>f, <2>1 DEF WithinBound, Bound, Taken
  <1>8. CASE AllPutBack
    <2>1. op.at = "put back" /\ op'.at = "clean" /\ op'.run = op.run
      BY <1>i, <1>8 DEF AllPutBack, OpType
    <2> QED
      BY <1>f, <2>1 DEF WithinBound, Bound, Taken
  <1>9. ASSUME op.at # "wait",
               op' = op \/ op'.at \in {"idle", "launch", "stopping", "recognise", "push", "record", "activate",
                                       "finish", "bind", "receipt"}
        PROVE  op' = op \/ Unbinds
    BY <1>9 DEF Unbinds, Bound, Taken
  <1>10. CASE \/ Launch \/ Record \/ Activate \/ Stopped \/ Look \/ Recognise \/ Name \/ PushHead \/ WriteReceipt
              \/ (\E s \in Runs : Start(s)) \/ \E force \in BOOLEAN : Stop(force)
    <2>1. op.at # "wait"
      BY <1>10 DEF Launch, Record, Activate, Stopped, Look, Recognise, Name, PushHead, WriteReceipt, Start, Stop
    <2>2. CASE Launch \/ Record \/ Recognise
      <3>1. op'.at \in {"record", "activate", "finish", "bind"}
        BY <1>i, <2>2 DEF Launch, Record, Recognise, OpType
      <3> QED
        BY <1>9, <1>f, <2>1, <3>1
    <2>3. CASE Activate \/ Stopped \/ WriteReceipt
      <3>1. op'.at = "idle"
        BY <1>i, <2>3 DEF Activate, Stopped, WriteReceipt
      <3> QED
        BY <1>9, <1>f, <2>1, <3>1
    <2>4. CASE Look
      <3>1. op' = op \/ op'.at \in {"push", "recognise"}
        BY <1>i, <2>4 DEF Look, OpType
      <3> QED
        BY <1>9, <1>f, <2>1, <3>1
    <2>5. CASE Name \/ PushHead
      <3>1. op'.at \in {"push", "receipt"}
        BY <1>i, <2>5 DEF Name, PushHead, OpType
      <3> QED
        BY <1>9, <1>f, <2>1, <3>1
    <2>6. ASSUME NEW s \in Runs, Start(s) PROVE op'.at = "launch"
      BY <1>i, <2>6 DEF Start, OpType
    <2>7. ASSUME NEW force \in BOOLEAN, Stop(force) PROVE op' = op \/ op'.at = "stopping"
      <3>1. op' = [op EXCEPT !.at = "stopping", !.run = rec] \/ op' = op
        BY <2>7 DEF Stop
      <3> QED
        BY <1>i, <3>1 DEF OpType
    <2> QED
      BY <1>9, <1>10, <1>f, <2>1, <2>2, <2>3, <2>4, <2>5, <2>6, <2>7
  <1> QED
    BY <1>c, <1>r, <1>1, <1>2, <1>3, <1>4, <1>5, <1>6, <1>7, <1>8, <1>10
       DEF HandedNext, Command, HandOver, Restores

-----------------------------------------------------------------------------
(* The calm lasts from the start, if it lasts.                              *)
LEMMA CalmBefore ==
    ASSUME Inv, harm \in Nat, [HandedNext]_all
    PROVE  /\ harm' \in Nat /\ harm' >= harm /\ moves \in Nat
           /\ User => moves' # 0
           /\ Calm' => Calm
  <1>1. harm' = harm \/ harm' = harm + 1
    BY DEF HandedNext, Attested, KillCommand, Supervised, Harm, Harms, all, Command, HandOver, Launch,
       Record, Activate, Start, Stop, Stopped, Look, Recognise, Bind, TakeResult, ListDirty, DryRun, Await,
       AllPutBack, Name, PushHead, WriteReceipt, WriteReport, Reset, Refuse, PutBack, CallAttest, During
  <1>2. moves \in Nat
    BY DEF Inv, HandoffInv, TypeOK, PlaceOK
  <1>3. User => moves' = moves + 1
    BY DEF User, Commit, Unlock, Edit, Save, Remove, Stage, StagePart, Moves
  <1>4. ~User => moves' = moves
    <2>1. ASSUME NEW p \in Called, Attests(p) PROVE moves' = moves
      BY <2>1 DEF Attests, Attesting, ReadHead, ReadFile, Decide, TakeLock, CheckIndex, OpenShard, AppendLine,
         SameFile, RenameIndex, Hooks, UpdateRef, Die, OnlyAt
    <2>2. UNCHANGED vars \/ Restores \/ (\E p \in Procs : CallAttest(p)) => moves' = moves
      BY RestoreMoves DEF vars, CallAttest
    <2> QED
      BY <2>1, <2>2, Steps
  <1> QED
    BY <1>1, <1>2, <1>3, <1>4 DEF Calm

LEMMA LogFacts ==
    ASSUME Inv, TruthInv
    PROVE  /\ Len(log) \in Nat /\ Len(log) \in DOMAIN log /\ 0 \notin Runs
           /\ \A r \in Runs : bound[r] \in Nat /\ bound[r] <= Len(log)
           /\ \A p \in Procs : for[p] # 0 => for[p] \in Runs /\ Settled(for[p]) /\ pc[p] # "uncalled"
  <1>1. Len(log) \in Nat /\ Len(log) \in DOMAIN log
    BY DEF Inv, HandoffInv, TypeOK, StoreOK
  <1> QED
    BY <1>1, CalledRuns, CodexAssumption DEF TruthInv, RunOK

-----------------------------------------------------------------------------
(* A run has one attest at a time.                                          *)
Crew == OneAtATime /\ Left /\ ReportLies

LEMMA OpRunIsRun ==
    ASSUME TruthInv, Crew, op.at \in {"result", "report", "list", "dry", "call", "wait"}
    PROVE  op.run \in Runs
  BY DEF TruthInv, InHand, Crew, OneAtATime

LEMMA CrewAttest ==
    ASSUME Inv, TruthInv, Apart, Begun, Crew, NEW p \in Called, Attests(p), LogKeeps, Len(log') \in Nat
    PROVE  Crew'
  <1>0. UNCHANGED <<op, for, bound, harm>> /\ AttestMoves(p) /\ p \in Procs
    BY AttestingMoves DEF Attests, runs, handing, Inv, HandoffInv, TypeOK, CallsOK
  <1>1. \A q \in Procs : Unended(q)' => Unended(q)
    BY <1>0 DEF AttestMoves, Unended
  <1>2. \A q \in Procs : Awaited(q)' = Awaited(q)
    BY <1>0 DEF Awaited
  <1>3. OneAtATime'
    BY <1>0, <1>1, <1>2 DEF Crew, OneAtATime
  <1>4. Held(Report)' = Held(Report)
    <2>1. CASE name' = name /\ bytes' = bytes
      BY <2>1 DEF Held
    <2> QED
      BY <1>0, <2>1, ReportUntouched DEF AttestMoves
  <1>5. log' = log \/ Len(log') = Len(log) + 1
    <2>1. CASE UpdateRef(p)
      <3>1. log \in Seq(Commits)
        BY DEF Inv, HandoffInv, TypeOK, StoreOK
      <3> QED
        BY <2>1, <3>1 DEF UpdateRef
    <2> QED
      BY <1>0, <2>1 DEF AttestMoves
  <1>6. log' = log => HeadTree' = HeadTree
    BY DEF HeadTree
  <1>7. Left'
    <2> SUFFICES ASSUME NEW q \in Procs, Unended(q)', ~Awaited(q)'
                 PROVE  /\ harm' # 0
                        /\ \/ Len(log') > bound'[for'[q]]
                           \/ op'.at \notin Bound /\ Held(Report)' # HeadTree'[Report]
      BY DEF Left
    <2>1. harm # 0 /\ (Len(log) > bound[for[q]] \/ (op.at \notin Bound /\ Held(Report) # HeadTree[Report]))
      BY <1>1, <1>2 DEF Crew, Left
    <2>2. for[q] \in Runs /\ bound[for[q]] \in Nat /\ bound[for[q]] <= Len(log) /\ Len(log) \in Nat
      BY <1>1, LogFacts DEF Unended
    <2>3. CASE log' = log
      BY <1>0, <1>4, <1>6, <2>1, <2>3
    <2>4. CASE Len(log') = Len(log) + 1
      BY <1>0, <2>1, <2>2, <2>4
    <2> QED
      BY <1>5, <2>3, <2>4
  <1>8. ReportLies'
    <2> SUFFICES ASSUME moves' = 0, op'.at \in {"list", "dry", "call", "wait"}
                 PROVE  Len(log') > bound'[op'.run] \/ Held(Report)' # HeadTree'[Report]
      BY DEF ReportLies
    <2>1. Len(log) > bound[op.run] \/ Held(Report) # HeadTree[Report]
      BY <1>0 DEF Crew, ReportLies, AttestMoves
    <2>2. op.run \in Runs
      BY <1>0, OpRunIsRun
    <2>3. bound[op.run] \in Nat /\ bound[op.run] <= Len(log) /\ Len(log) \in Nat
      BY <2>2, LogFacts
    <2>4. CASE log' = log
      BY <1>0, <1>4, <1>6, <2>1, <2>4
    <2>5. CASE Len(log') = Len(log) + 1
      BY <1>0, <2>1, <2>3, <2>5
    <2> QED
      BY <1>5, <2>4, <2>5
  <1> QED
    BY <1>3, <1>7, <1>8 DEF Crew

LEMMA CrewUser ==
    ASSUME Inv, TruthInv, Crew, User, UNCHANGED <<runs, handing, harm>>, harm' = 0, moves' # 0
    PROVE  Crew'
  <1>0. UNCHANGED <<op, for, bound, pc>>
    BY OthersLeaveAttests DEF attest, runs, handing
  <1>1. \A q \in Procs : Unended(q)' = Unended(q) /\ Awaited(q)' = Awaited(q)
    BY <1>0 DEF Unended, Awaited
  <1>2. \A q \in Procs : Unended(q) => Awaited(q)
    BY DEF Crew, Left
  <1> QED
    BY <1>0, <1>1, <1>2 DEF Crew, OneAtATime, Left, ReportLies

LEMMA CrewMoves ==
    ASSUME Inv, TruthInv, Crew, [HandedNext]_all, harm \in Nat, UNCHANGED vars, ~Restores, Calm'
    PROVE  Crew'
  <1>0. /\ for' = for /\ (op' = op \/ Unbinds \/ Binds \/ WithinBound)
        /\ UNCHANGED <<pc, log, name, bytes, moves>>
    BY OpMoves DEF vars, attest, files, git
  <1>1. /\ \A q \in Procs : Unended(q)' = Unended(q)
        /\ Held(Report)' = Held(Report) /\ HeadTree' = HeadTree
    BY <1>0 DEF Unended, Held, HeadTree
  <1>2. harm \in Nat /\ harm' \in Nat /\ harm' >= harm
    BY CalmBefore
  <1>3. \A q \in Procs : Unended(q) => bound'[for[q]] = bound[for[q]]
    BY LogFacts, BoundStays DEF Unended
  <1>4. /\ op.at \in {"result", "report", "list", "dry", "call", "wait"} => op.run \in Runs
    BY OpRunIsRun
  <1> USE DEF Crew, OneAtATime, Left, ReportLies
  <1>5. CASE op' = op
    <2>1. \A q \in Procs : Awaited(q)' = Awaited(q)
      BY <1>5 DEF Awaited
    <2>2. OneAtATime'
      BY <1>0, <1>1, <1>5, <2>1
    <2>3. Left'
      BY <1>0, <1>1, <1>2, <1>3, <1>5, <2>1
    <2>4. ReportLies'
      <3>1. op.at \in {"list", "dry", "call", "wait"} => bound'[op.run] = bound[op.run]
        <4>1. CASE op.at = "wait"
          <5>1. bound' = bound
            BY <4>1, <1>5, BoundMoves
          <5> QED
            BY <5>1
        <4>2. op.at \in {"list", "dry", "call"} => op.run \in Runs /\ Settled(op.run)
          BY DEF TruthInv, InHand, Attestable
        <4> QED
          BY <4>1, <4>2, BoundStays
      <3> QED
        BY <1>0, <1>1, <1>5, <3>1
    <2> QED
      BY <2>2, <2>3, <2>4
  <1>6. CASE Unbinds
    <2>1. op'.at \notin Bound /\ op'.at \notin {"list", "dry", "call", "wait"}
      BY <1>6 DEF Unbinds, Bound, Taken
    <2>2. OneAtATime'
      BY <1>0, <1>1, <2>1
    <2>3. Left'
      <3> SUFFICES ASSUME NEW q \in Procs, Unended(q)
                   PROVE  /\ harm' # 0
                          /\ Len(log') > bound'[for'[q]] \/ Held(Report)' # HeadTree'[Report]
        BY <1>1, <2>1 DEF Left
      <3>1. CASE ~Awaited(q)
        BY <1>0, <1>1, <1>2, <1>3, <3>1
      <3>2. CASE Awaited(q)
        <4>1. op.at = "wait" /\ op.call = q /\ pc[q] \notin Ends /\ for[q] = op.run
          BY <3>2 DEF Awaited, Unended
        <4>2. harm' # 0 /\ moves = 0
          BY <1>0, <1>6, <4>1 DEF Unbinds, Calm
        <4>3. Len(log) > bound[for[q]] \/ Held(Report) # HeadTree[Report]
          BY <4>1, <4>2
        <4> QED
          BY <1>0, <1>1, <1>3, <4>2, <4>3
      <3> QED
        BY <3>1, <3>2
    <2>4. ReportLies'
      BY <2>1
    <2> QED
      BY <2>2, <2>3, <2>4
  <1>7. CASE Binds
    <2>1. Held(Report) = HeadTree[Report]
      BY <1>7 DEF Binds, Clean, Dirty, RecordsAppended, Paths, Report, Plan
    <2>2. \A q \in Procs : Unended(q) => ~Awaited(q) /\ Len(log) > bound[for[q]]
      BY <1>7, <2>1 DEF Binds, Awaited
    <2>3. \A q \in Procs : Unended(q) => for[q] # op.run
      <3> SUFFICES ASSUME NEW q \in Procs, Unended(q), for[q] = op.run PROVE FALSE
        OBVIOUS
      <3>1. Len(log) > Len(log)
        BY <1>7, <2>2 DEF Binds
      <3> QED
        BY <3>1, LogFacts
    <2>4. op'.at = "result" /\ op'.run = op.run
      BY <1>7 DEF Binds
    <2>5. OneAtATime'
      BY <1>0, <1>1, <2>3, <2>4
    <2>6. Left'
      BY <1>0, <1>1, <1>2, <1>3, <2>2
    <2>7. ReportLies'
      BY <2>4
    <2> QED
      BY <2>5, <2>6, <2>7
  <1>8. CASE WithinBound
    <2>1. ~WriteReport
      BY DEF Restores
    <2>2. /\ op.at \in Bound /\ op'.at \in Bound \ {"wait"} /\ op'.run = op.run
          /\ op'.at \in {"list", "dry", "call", "wait"} => op.at \in {"list", "dry"}
          /\ op.at = "wait" => pc[op.call] \in Ends
      BY <1>8, <2>1 DEF WithinBound
    <2>3. \A q \in Procs : Unended(q) => ~Awaited(q) /\ ~Awaited(q)'
      BY <2>2 DEF Awaited, Unended
    <2>4. \A q \in Procs : Unended(q) => for[q] # op.run
      BY <2>2, <2>3
    <2>5. OneAtATime'
      BY <1>0, <1>1, <2>2, <2>4
    <2>6. Left'
      BY <1>0, <1>1, <1>2, <1>3, <2>2, <2>3
    <2>7. ReportLies'
      <3>1. op.at \in {"list", "dry"} => op.run \in Runs /\ Settled(op.run)
        BY DEF TruthInv, InHand, Attestable
      <3>2. op.at \in {"list", "dry"} => bound'[op'.run] = bound[op.run]
        BY <2>2, <3>1, BoundStays
      <3> QED
        BY <1>0, <1>1, <2>2, <3>2
    <2> QED
      BY <2>5, <2>6, <2>7
  <1> QED
    BY <1>0, <1>5, <1>6, <1>7, <1>8

LEMMA CrewRestores ==
    ASSUME Inv, TruthInv, Apart, ReportsAfter, Crew, Restores
    PROVE  Crew'
  <1>0. /\ UNCHANGED <<for, bound, harm, log, moves, attest>>
        /\ op.at \in Bound \ {"wait", "call"} /\ (Unbinds \/ WithinBound)
        /\ op'.at \in Taken => WriteReport
    BY RestoreMoves
  <1>1. \A q \in Procs : Unended(q)' = Unended(q)
    BY <1>0 DEF Unended, attest
  <1>2. /\ op'.at \notin Bound \/ (op'.at \in Bound \ {"wait"} /\ op'.run = op.run)
        /\ "wait" \in Bound
    BY <1>0 DEF Unbinds, WithinBound, Bound
  <1>3. \A q \in Procs : Unended(q) => ~Awaited(q) /\ ~Awaited(q)' /\ for[q] # op.run
    BY <1>0, <1>2 DEF Awaited, Crew, OneAtATime
  <1>4. OneAtATime'
    BY <1>0, <1>1, <1>2, <1>3 DEF Crew, OneAtATime
  <1>5. Left'
    BY <1>0, <1>1, <1>3 DEF Crew, Left
  <1>6. ReportLies'
    <2>1. CASE WriteReport
      <3>1. op.at = "report" /\ op.run \in Runs /\ op'.run = op.run
        <4>1. op.at = "report" /\ op' = [op EXCEPT !.at = "list"] /\ op \in OpType
          BY <2>1 DEF WriteReport, During, Goal, Inv, OpOK
        <4> QED
          BY <4>1, OpRunIsRun DEF OpType
      <3>2. Held(Report)' = <<ReportText(op.run)>>
        <4>1. 3 \in DOMAIN bytes /\ name \in [Paths -> 0..Len(bytes)] /\ Report \in Paths
          BY DEF Inv, HandoffInv, TypeOK, NameOK, StoreOK, Paths
        <4>2. name' = [name EXCEPT ![Report] = 3] /\ bytes' = [bytes EXCEPT ![3] = <<ReportText(op.run)>>]
          BY <2>1 DEF WriteReport
        <4>3. name'[Report] = 3 /\ bytes'[3] = <<ReportText(op.run)>>
          BY <4>1, <4>2
        <4> QED
          BY <4>3 DEF Held
      <3>3. HeadTree' = HeadTree
        BY <1>0 DEF HeadTree
      <3>4. ASSUME HeadTree[Report] = <<ReportText(op.run)>> PROVE bound[op.run] < Len(log)
        <4>1. Lines(HeadTree[Report]) = <<ReportText(op.run)>>
          <5>1. HeadTree[Report] # NoFile
            <6>1. ReportText(op.run) \in AnyLine
              BY OpRunIsNat DEF ReportText, AnyLine, Inv
            <6>2. <<ReportText(op.run)>> \in Seq(AnyLine)
              BY <6>1
            <6> QED
              BY <3>4, <6>2, NoContentAssumption
          <5> QED
            BY <3>4, <5>1 DEF Lines
        <4>2. op.run \in ReportsIn(Lines(HeadTree[Report]))
          <5>1. ReportsIn(<<ReportText(op.run)>>) = {op.run}
            BY DEF ReportsIn, ReportText
          <5> QED
            BY <4>1, <5>1
        <4> QED
          BY <4>2, LogFacts, Report \in Paths DEF ReportsAfter, HeadTree, Paths
      <3> QED
        BY <1>0, <3>1, <3>2, <3>3, <3>4, LogFacts DEF ReportLies
    <2>2. CASE ~WriteReport
      BY <1>0, <1>2, <2>2 DEF ReportLies, Taken, Bound
    <2> QED
      BY <2>1, <2>2
  <1> QED
    BY <1>4, <1>5, <1>6 DEF Crew

LEMMA CrewCall ==
    ASSUME Inv, TruthInv, Crew, NEW p \in Procs, CallAttest(p)
    PROVE  Crew'
  <1>0. /\ pc[p] = "uncalled" /\ pc'[p] = "head" /\ for'[p] = op.run
        /\ \A q \in Procs \ {p} : pc'[q] = pc[q]
        /\ op.at = "call" /\ op'.at = "wait" /\ op'.call = p /\ op'.run = op.run
        /\ UNCHANGED <<name, bytes, log, moves, bound, harm>>
    BY CallAttestBegins DEF files, git, runs
  <1>1. for' = [for EXCEPT ![p] = op.run] /\ for \in [Procs -> Runs \cup {0}]
    BY DEF CallAttest, TruthInv, RunOK
  <1>2. \A q \in Procs \ {p} : for'[q] = for[q] /\ Unended(q)' = Unended(q)
    BY <1>0, <1>1 DEF Unended
  <1>3. op.run \in Runs /\ "call" \in Bound
    BY <1>0, OpRunIsRun DEF Bound, Taken
  <1>4. \A q \in Procs : Unended(q) => ~Awaited(q) /\ for[q] # op.run /\ q # p
    BY <1>0, <1>3 DEF Awaited, Crew, OneAtATime, Unended
  <1>5. OneAtATime'
    BY <1>0, <1>2, <1>3, <1>4 DEF Crew, OneAtATime, Awaited
  <1>6. Left'
    <2> SUFFICES ASSUME NEW q \in Procs, Unended(q)', ~Awaited(q)'
                 PROVE  harm' # 0 /\ Len(log') > bound'[for'[q]]
      BY DEF Left
    <2>1. q # p /\ Unended(q) /\ ~Awaited(q) /\ for'[q] = for[q]
      BY <1>0, <1>2, <1>4 DEF Awaited
    <2> QED
      BY <1>0, <1>3, <2>1 DEF Crew, Left
  <1>7. ReportLies'
    BY <1>0 DEF Crew, ReportLies, Held, HeadTree
  <1> QED
    BY <1>5, <1>6, <1>7 DEF Crew

-----------------------------------------------------------------------------
(* What the shard holds of a run after a step.                              *)
LEMMA LinesOrNone == \A c, r : LinesFor(r, Lines(c)) \subseteq LinesFor(r, c)
  BY NoLines DEF Lines

LEMMA ShardAfterLine ==
    ASSUME Inv, for' = for, NEW p \in Called, AppendLine(p), NEW r, for[p] # r
    PROVE  LinesFor(r, Lines(Held(Shard)))' \subseteq LinesFor(r, Lines(Held(Shard)))
  <1> USE DEF Inv, HandoffInv, TypeOK
  <1>0. /\ p \in Procs /\ bytes \in Seq(Content) /\ name \in [Paths -> 0..Len(bytes)] /\ Shard \in Paths
        /\ Len(bytes) \in Nat
    BY DEF CallsOK, StoreOK, NameOK, Paths
  <1>1. CASE Held(Shard)' = Held(Shard)
    BY <1>1 DEF LinesFor, Lines
  <1>2. ASSUME NEW b \in Content, Held(Shard)' = Append(b, Line(p)), LinesFor(r, b) \subseteq LinesFor(r, Lines(Held(Shard)))
        PROVE  LinesFor(r, Lines(Held(Shard)))' \subseteq LinesFor(r, Lines(Held(Shard)))
    <2>1. LinesFor(r, Append(b, Line(p))) = LinesFor(r, b)
      <3>1. LinesFor(r, Append(b, Line(p))) = LinesFor(r, b) \cup (IF for[p] = r THEN {Line(p)} ELSE {})
        BY <1>0, LineOfItsRun
      <3> QED
        BY <3>1
    <2>2. LinesFor(r, Lines(Append(b, Line(p)))) \subseteq LinesFor(r, Append(b, Line(p)))
      BY LinesOrNone
    <2>3. LinesFor(r, Lines(Held(Shard)))' = LinesFor(r, Lines(Append(b, Line(p))))
      <3>1. Lines(Held(Shard))' = Lines(Append(b, Line(p)))
        BY <1>2 DEF Lines
      <3> QED
        BY <3>1 DEF LinesFor
    <2> QED
      BY <1>2, <2>1, <2>2, <2>3
  <1>3. CASE fd[p] \in DOMAIN bytes \ {3} /\ UNCHANGED <<name, fd>> /\ bytes' = [bytes EXCEPT ![fd[p]] = Append(@, Line(p))]
    <2>1. CASE name[Shard] # fd[p]
      <3>1. Held(Shard)' = Held(Shard)
        BY <1>0, <1>3, <2>1 DEF Held
      <3> QED
        BY <1>1, <3>1
    <2>2. CASE name[Shard] = fd[p]
      <3>1. Held(Shard) = bytes[fd[p]] /\ Held(Shard)' = Append(bytes[fd[p]], Line(p)) /\ bytes[fd[p]] \in Content
        BY <1>0, <1>3, <2>2 DEF Held
      <3>2. Lines(Held(Shard)) = bytes[fd[p]]
        BY <1>3, <3>1, BaseOfBytes
      <3> QED
        BY <1>2, <3>1, <3>2
    <2> QED
      BY <2>1, <2>2
  <1>4. CASE /\ name[Shard] = 0 /\ bytes' = Append(bytes, <<Line(p)>>)
             /\ name' = [name EXCEPT ![Shard] = Len(bytes) + 1] /\ fd' = [fd EXCEPT ![p] = Len(bytes) + 1]
    <2>1. name'[Shard] = Len(bytes) + 1 /\ bytes'[Len(bytes) + 1] = <<Line(p)>> /\ Len(bytes) + 1 # 0
      BY <1>0, <1>4
    <2>2. Held(Shard)' = Append(<<>>, Line(p))
      BY <2>1 DEF Held
    <2>3. <<>> \in Content /\ LinesFor(r, <<>>) = {}
      BY NoLines, LinesAreContent DEF Lines
    <2> QED
      BY <1>2, <2>2, <2>3
  <1>5. UNCHANGED <<name, bytes>> => Held(Shard)' = Held(Shard)
    BY DEF Held
  <1> QED
    BY <1>1, <1>3, <1>4, <1>5, AppendLineWrites DEF AppendsLine

LEMMA FilesAfterUser ==
    ASSUME Inv, for' = for, User, NEW r
    PROVE  /\ LinesFor(r, Lines(Held(Shard)))' \subseteq LinesFor(r, Lines(Held(Shard)))
           /\ \A k \in DOMAIN bytes : LinesFor(r, bytes'[k]) \subseteq LinesFor(r, bytes[k])
  <1> USE DEF Inv, HandoffInv, TypeOK
  <1>0. /\ bytes \in Seq(Content) /\ name \in [Paths -> 0..Len(bytes)] /\ Shard \in Paths
        /\ Len(bytes) \in Nat /\ \A k \in DOMAIN bytes : bytes[k] \in Content
    BY DEF CallsOK, StoreOK, NameOK, Paths
  <1>w. ASSUME NEW b \in Content, NEW n
        PROVE  LinesFor(r, Lines(Append(b, Words(n)))) \subseteq LinesFor(r, b)
    BY WordsOfNoRun, LinesOrNone
  <1>1. ASSUME NEW e, Held(Shard)' = e, LinesFor(r, Lines(e)) \subseteq LinesFor(r, Lines(Held(Shard)))
        PROVE  LinesFor(r, Lines(Held(Shard)))' \subseteq LinesFor(r, Lines(Held(Shard)))
    <2>1. Lines(Held(Shard))' = Lines(e)
      BY <1>1 DEF Lines
    <2> QED
      BY <1>1, <2>1 DEF LinesFor
  <1>2. CASE UNCHANGED <<name, bytes>>
    BY <1>1, <1>2 DEF Held
  <1>3. ASSUME NEW f \in Paths, Edit(f)
        PROVE  /\ LinesFor(r, Lines(Held(Shard)))' \subseteq LinesFor(r, Lines(Held(Shard)))
               /\ \A k \in DOMAIN bytes : LinesFor(r, bytes'[k]) \subseteq LinesFor(r, bytes[k])
    <2>1. name' = name /\ name[f] # 0 /\ bytes' = [bytes EXCEPT ![name[f]] = Append(bytes[name[f]], Words(moves'))]
      BY <1>3 DEF Edit
    <2>2. name[f] \in DOMAIN bytes
      BY <1>0, <2>1
    <2>3. \A k \in DOMAIN bytes : bytes'[k] = bytes[k] \/ bytes'[k] = Append(bytes[k], Words(moves'))
      BY <2>1, <2>2
    <2>4. \A k \in DOMAIN bytes : LinesFor(r, bytes'[k]) \subseteq LinesFor(r, bytes[k])
      BY <1>0, <2>3, WordsOfNoRun
    <2>5. CASE name[Shard] = 0
      BY <1>1, <2>1, <2>4, <2>5 DEF Held
    <2>6. CASE name[Shard] # 0
      <3>1. name[Shard] \in DOMAIN bytes /\ Held(Shard) = bytes[name[Shard]] /\ Held(Shard)' = bytes'[name[Shard]]
        BY <1>0, <2>1, <2>6 DEF Held
      <3>2. LinesFor(r, Lines(bytes'[name[Shard]])) \subseteq LinesFor(r, bytes[name[Shard]])
        BY <2>4, <3>1, LinesOrNone
      <3>3. Lines(Held(Shard)) = bytes[name[Shard]]
        BY <3>1, BaseOfBytes
      <3> QED
        BY <1>1, <2>4, <3>1, <3>2, <3>3
    <2> QED
      BY <2>4, <2>5, <2>6
  <1>4. ASSUME NEW f \in Paths, Save(f)
        PROVE  /\ LinesFor(r, Lines(Held(Shard)))' \subseteq LinesFor(r, Lines(Held(Shard)))
               /\ \A k \in DOMAIN bytes : LinesFor(r, bytes'[k]) \subseteq LinesFor(r, bytes[k])
    <2>1. /\ bytes' = Append(bytes, Append(Lines(Held(f)), Words(moves')))
          /\ name' = [name EXCEPT ![f] = Len(bytes')]
      BY <1>4 DEF Save
    <2>2. /\ \A k \in DOMAIN bytes : bytes'[k] = bytes[k]
          /\ Len(bytes') = Len(bytes) + 1 /\ bytes'[Len(bytes) + 1] = Append(Lines(Held(f)), Words(moves'))
      BY <1>0, <2>1
    <2>3. CASE f = Shard
      <3>1. Held(Shard)' = Append(Lines(Held(Shard)), Words(moves'))
        BY <1>0, <2>1, <2>2, <2>3 DEF Held
      <3> QED
        BY <1>1, <1>w, <2>2, <3>1, StoredContent
    <2>4. CASE f # Shard
      <3>1. Held(Shard)' = Held(Shard)
        BY <1>0, <2>1, <2>2, <2>4 DEF Held
      <3> QED
        BY <1>1, <2>2, <3>1
    <2> QED
      BY <2>3, <2>4
  <1>5. ASSUME NEW f \in Paths, Remove(f)
        PROVE  LinesFor(r, Lines(Held(Shard)))' \subseteq LinesFor(r, Lines(Held(Shard))) /\ bytes' = bytes
    <2>1. bytes' = bytes /\ name' = [name EXCEPT ![f] = 0]
      BY <1>5 DEF Remove
    <2>2. Held(Shard)' = Held(Shard) \/ Held(Shard)' = NoFile
      BY <1>0, <2>1 DEF Held
    <2>3. LinesFor(r, Lines(NoFile)) = {}
      BY NoLines DEF Lines
    <2> QED
      BY <1>1, <2>1, <2>2, <2>3
  <1>6. UNCHANGED <<name, bytes>> \/ \E f \in Paths : Edit(f) \/ Save(f) \/ Remove(f)
    BY DEF User, Commit, Unlock, Stage, StagePart, files, CallsOK
  <1> QED
    BY <1>2, <1>3, <1>4, <1>5, <1>6

-----------------------------------------------------------------------------
(* No line of a run is where its attest will read, and what an attest has   *)
(* read or writes to has no line of its run but its own.                    *)
Bare == NoLineYet /\ NoneAtHead /\ OwnLine

LEMMA WritesBeforeIt ==
    ASSUME TruthInv, Crew, NEW p \in Procs, pc[p] = "append", NEW r \in Runs, Opening(r)
    PROVE  for[p] # r
  <1> SUFFICES ASSUME for[p] = r PROVE FALSE
    OBVIOUS
  <1>1. Unended(p)
    BY CodexAssumption DEF Unended, Ends
  <1>2. CASE op.at \in Taken /\ op.run = r
    BY <1>1, <1>2 DEF Crew, OneAtATime, Bound, Taken, Awaited
  <1>3. CASE \E q \in Procs : Reads(q) /\ for[q] = r
    <2>1. PICK q \in Procs : Reads(q) /\ for[q] = r
      BY <1>3
    <2>2. q = p
      BY <1>1, <2>1 DEF Crew, OneAtATime, Reads, Unended, Ends
    <2> QED
      BY <2>1, <2>2 DEF Reads
  <1> QED
    BY <1>2, <1>3 DEF Opening

LEMMA ReadsUnended ==
    \A p \in Procs : Reads(p) => Unended(p)
  BY DEF Reads, Unended, Ends

LEMMA BareAttest ==
    ASSUME Inv, TruthInv, Begun, Unread, Crew, Bare, NEW p \in Called, Attests(p)
    PROVE  Bare'
  <1>0. UNCHANGED <<op, for, bound, harm>> /\ AttestMoves(p) /\ p \in Procs
    BY AttestingMoves DEF Attests, runs, handing, Inv, HandoffInv, TypeOK, CallsOK
  <1>1. \A q \in Procs : Awaited(q)' = Awaited(q) /\ (Reads(q)' => Reads(q))
    BY <1>0 DEF Awaited, Reads, AttestMoves
  <1>2. \A r \in Runs : Opening(r)' => Opening(r)
    BY <1>0, <1>1 DEF Opening
  <1>3. \A r, e : LinesFor(r, e)' = LinesFor(r, e)
    BY <1>0 DEF LinesFor
  <1>4. AppendLine(p) => pc[p] = "append" /\ AppendsLine(p)
    BY AppendLineWrites
  <1>5. NoLineYet'
    <2> SUFFICES ASSUME NEW r \in Runs, Opening(r)'
                 PROVE  /\ LinesFor(r, Lines(Held(Shard)))' = {}
                        /\ \A s \in Procs : pc'[s] \notin Ends /\ LinesFor(r, Known(s))' # {} => snap'[s].old <= bound'[r]
      BY DEF NoLineYet, Ends
    <2>1. Opening(r)
      BY <1>2
    <2>2. /\ LinesFor(r, Lines(Held(Shard))) = {}
          /\ \A s \in Procs : pc[s] \notin Ends /\ LinesFor(r, Known(s)) # {} => snap[s].old <= bound[r]
      BY <2>1 DEF Bare, NoLineYet
    <2>3. LinesFor(r, Lines(Held(Shard)))' = {}
      <3>1. CASE name' = name /\ bytes' = bytes
        <4>1. Held(Shard)' = Held(Shard)
          BY <3>1 DEF Held
        <4>2. Lines(Held(Shard))' = Lines(Held(Shard))
          BY <4>1 DEF Lines
        <4> QED
          BY <1>0, <2>2, <4>2 DEF LinesFor
      <3>2. CASE AppendLine(p)
        <4>1. for[p] # r
          BY <1>0, <1>4, <2>1, <3>2, WritesBeforeIt
        <4> QED
          BY <1>0, <2>2, <3>2, <4>1, ShardAfterLine
      <3> QED
        BY <1>0, <3>1, <3>2 DEF AttestMoves
    <2>4. ASSUME NEW s \in Procs, pc'[s] \notin Ends, LinesFor(r, Known(s))' # {}
          PROVE  snap'[s].old <= bound'[r]
      <3>1. CASE s # p
        <4>1. pc'[s] = pc[s] /\ snap'[s] = snap[s]
          BY <1>0, <3>1 DEF AttestMoves
        <4>2. LinesFor(r, Known(s)) # {}
          BY <1>0, <2>4, <4>1 DEF LinesFor, Known, Lines
        <4> QED
          BY <1>0, <2>2, <2>4, <4>1, <4>2
      <3>2. CASE s = p /\ snap'[p].data[Shard] = snap[p].data[Shard]
        <4>1. LinesFor(r, Known(p)) # {}
          BY <1>0, <2>4, <3>2 DEF LinesFor, Known, Lines
        <4>2. pc[p] # "head"
          BY <1>0, <4>1, NoLines DEF Unread
        <4> QED
          BY <1>0, <2>2, <3>2, <4>1, <4>2 DEF AttestMoves
      <3>3. CASE s = p /\ snap'[p].data[Shard] = Held(Shard)
        <4>1. Known(p)' = Lines(Held(Shard))
          BY <3>3 DEF Known, Lines
        <4> QED
          BY <1>0, <2>2, <2>4, <3>3, <4>1 DEF LinesFor
      <3> QED
        BY <1>0, <3>1, <3>2, <3>3 DEF AttestMoves
    <2> QED
      BY <2>3, <2>4
  <1>6. NoneAtHead'
    <2> SUFFICES ASSUME NEW q \in Procs, Reads(q)', ~Awaited(q)', op'.at \in Bound
                 PROVE  LinesFor(for[q], Lines(HeadTree[Shard]))' = {}
      BY DEF NoneAtHead, Bound, Taken
    <2>1. Reads(q) /\ ~Awaited(q) /\ op.at \in Bound
      BY <1>0, <1>1
    <2>2. LinesFor(for[q], Lines(HeadTree[Shard])) = {} /\ for'[q] = for[q]
      BY <1>0, <2>1 DEF Bare, NoneAtHead
    <2>3. CASE log' = log
      BY <1>0, <2>2, <2>3 DEF HeadTree, LinesFor, Lines
    <2>4. CASE UpdateRef(p) /\ log' # log
      <3>1. /\ pc[p] = "ref" /\ Len(log) = snap[p].old
            /\ log' = Append(log, [tree |-> Over(Old(p), p), parent |-> snap[p].old])
        BY <2>4 DEF UpdateRef, AtOld
      <3>2. for[q] # for[p] /\ for[q] \in Runs /\ bound[for[q]] \in Nat /\ Len(log) \in Nat
        <4>1. for[q] = for[p] => Unended(p)
          BY <2>1, <3>1 DEF Unended, Reads, Ends
        <4>2. for[q] = for[p] => q = p
          BY <1>0, <2>1, <4>1, ReadsUnended DEF Crew, OneAtATime
        <4> QED
          BY <2>1, <3>1, <4>2, LogFacts DEF Reads
      <3>3. HeadTree'[Shard] = Append(Known(p), Line(p))
        <4>1. log \in Seq(Commits)
          BY DEF Inv, HandoffInv, TypeOK, StoreOK
        <4>2. HeadTree' = Over(Old(p), p)
          BY <3>1, <4>1 DEF HeadTree
        <4> QED
          BY <4>2 DEF Over, Carried, Laid, Target, Paths
      <3>4. Opening(for[q])
        BY <2>1 DEF Opening
      <3>5. LinesFor(for[q], Known(p)) = {}
        <4>1. LinesFor(for[q], Known(p)) # {} => snap[p].old <= bound[for[q]]
          BY <1>0, <3>1, <3>2, <3>4 DEF Bare, NoLineYet, Ends
        <4>2. Len(log) > bound[for[q]]
          BY <2>1, ReadsUnended DEF Crew, Left
        <4> QED
          BY <3>1, <3>2, <4>1, <4>2
      <3>6. LinesFor(for[q], Append(Known(p), Line(p))) = {}
        <4>1. Known(p) \in Content
          BY <1>0, StoredContent
        <4> QED
          BY <1>0, <3>2, <3>5, <4>1, LineOfItsRun
      <3>7. LinesFor(for[q], Lines(Append(Known(p), Line(p)))) = {}
        BY <3>6, LinesOrNone
      <3> QED
        BY <1>0, <3>3, <3>7 DEF LinesFor, Lines
    <2> QED
      BY <1>0, <2>3, <2>4 DEF AttestMoves
  <1>7. OwnLine'
    <2> SUFFICES ASSUME NEW q \in Procs, for[q] # 0
                 PROVE  /\ pc'[q] \in {"report", "plan", "decide"} \cup Late => OnlyIts(q, Known(q))'
                        /\ pc'[q] = "append" /\ fd'[q] # 0 => OnlyIts(q, bytes[fd[q]])'
      BY <1>0 DEF OwnLine, Late
    <2>1. /\ pc[q] \in {"report", "plan", "decide"} \cup Late => OnlyIts(q, Known(q))
          /\ pc[q] = "append" /\ fd[q] # 0 => OnlyIts(q, bytes[fd[q]])
      BY DEF Bare, OwnLine
    <2>2. \A e : OnlyIts(q, e)' = OnlyIts(q, e)
      BY <1>0 DEF OnlyIts, LinesFor
    <2>3. CASE q # p
      <3>1. pc'[q] = pc[q] /\ snap'[q] = snap[q] /\ fd'[q] = fd[q]
        BY <1>0, <2>3 DEF AttestMoves
      <3>2. Known(q)' = Known(q)
        BY <3>1 DEF Known, Lines
      <3>3. pc[q] \in {"report", "plan", "decide"} \cup Late => OnlyIts(q, Known(q))'
        BY <1>0, <2>1, <3>2 DEF OnlyIts, LinesFor
      <3>4. ASSUME pc[q] = "append", fd[q] # 0 PROVE OnlyIts(q, bytes[fd[q]])'
        <4>1. fd[q] \in DOMAIN bytes
          BY <3>4 DEF FdInv, Inv, HandoffInv
        <4>2. CASE bytes' = bytes
          BY <1>0, <2>1, <3>1, <3>4, <4>2 DEF OnlyIts, LinesFor
        <4>3. CASE AppendLine(p)
          <5>1. for[p] # for[q]
            <6>1. Unended(q) /\ (for[p] = for[q] => Unended(p))
              BY <1>4, <3>4, <4>3 DEF Unended, Ends
            <6> QED
              BY <1>0, <2>3, <6>1 DEF Crew, OneAtATime
          <5>2. bytes \in Seq(Content)
            BY DEF Inv, HandoffInv, TypeOK, StoreOK
          <5>3. bytes'[fd[q]] = bytes[fd[q]] \/ bytes'[fd[q]] = Append(bytes[fd[q]], Line(p))
            <6>1. CASE bytes' = bytes
              BY <6>1
            <6>2. CASE bytes' = Append(bytes, <<Line(p)>>)
              BY <4>1, <5>2, <6>2
            <6>3. CASE bytes' = [bytes EXCEPT ![fd[p]] = Append(bytes[fd[p]], Line(p))]
              BY <4>1, <6>3
            <6> QED
              BY <1>4, <4>3, <6>1, <6>2, <6>3 DEF AppendsLine
          <5>4. LinesFor(for[q], Append(bytes[fd[q]], Line(p))) = LinesFor(for[q], bytes[fd[q]])
            <6>1. bytes[fd[q]] \in Content
              BY <4>1, <5>2
            <6>2. \A r : LinesFor(r, Append(bytes[fd[q]], Line(p))) =
                             LinesFor(r, bytes[fd[q]]) \cup (IF for[p] = r THEN {Line(p)} ELSE {})
              BY <1>0, <6>1, LineOfItsRun
            <6> QED
              BY <5>1, <6>2
          <5>5. OnlyIts(q, bytes'[fd[q]])
            BY <2>1, <3>4, <5>3, <5>4 DEF OnlyIts
          <5> QED
            BY <1>0, <3>1, <5>5 DEF OnlyIts, LinesFor
        <4> QED
          BY <1>0, <4>2, <4>3 DEF AttestMoves
      <3> QED
        BY <3>1, <3>3, <3>4
    <2>4. CASE q = p
      <3>1. ASSUME pc'[p] \in {"report", "plan", "decide"} \cup Late PROVE OnlyIts(p, Known(p))'
        <4>1. pc'[p] \notin Ends /\ pc[p] \in {"shard", "report", "plan", "decide"} \cup Late
          BY <1>0, <3>1 DEF AttestMoves, Late, Ends
        <4>2. CASE pc[p] = "shard"
          <5>1. Known(p)' = Lines(Held(Shard))
            BY <1>0, <4>1, <4>2 DEF AttestMoves, Known, Lines
          <5>2. Reads(p) /\ for[p] \in Runs
            BY <2>4, <4>2, LogFacts DEF Reads
          <5>3. LinesFor(for[p], Lines(Held(Shard))) = {}
            BY <1>0, <5>2 DEF Bare, NoLineYet, Opening
          <5> QED
            BY <1>0, <5>1, <5>3 DEF OnlyIts, LinesFor
        <4>3. CASE pc[p] # "shard"
          <5>1. Known(p)' = Known(p)
            BY <1>0, <4>3 DEF AttestMoves, Known, Lines
          <5> QED
            BY <1>0, <2>1, <2>4, <4>1, <4>3, <5>1 DEF OnlyIts, LinesFor
        <4> QED
          BY <4>2, <4>3
      <3>2. ASSUME pc'[p] = "append", fd'[p] # 0 PROVE OnlyIts(p, bytes[fd[p]])'
        <4>1. pc[p] = "open" /\ bytes'[fd'[p]] = Known(p)
          BY <1>0, <3>2, OpenShardOpens DEF AttestMoves
        <4> QED
          BY <1>0, <2>1, <2>4, <4>1 DEF OnlyIts, LinesFor, Late
      <3> QED
        BY <2>4, <3>1, <3>2
    <2> QED
      BY <2>3, <2>4
  <1> QED
    BY <1>5, <1>6, <1>7 DEF Bare

LEMMA BareUser ==
    ASSUME Inv, TruthInv, Crew, Bare, User, UNCHANGED <<runs, handing, harm>>, harm' = 0
    PROVE  Bare'
  <1>0. UNCHANGED <<op, for, bound, harm, pc, snap, fd>>
    BY OthersLeaveAttests DEF attest, runs, handing
  <1>1. \A q \in Procs : Reads(q)' = Reads(q) /\ Awaited(q)' = Awaited(q) /\ (Reads(q) => Awaited(q))
    BY <1>0, ReadsUnended DEF Reads, Awaited, Crew, Left
  <1>2. \A r \in Runs : Opening(r)' = Opening(r)
    BY <1>0, <1>1 DEF Opening
  <1>3. \A q \in Procs : Known(q)' = Known(q)
    BY <1>0 DEF Known, Lines
  <1>4. NoLineYet'
    <2> SUFFICES ASSUME NEW r \in Runs, Opening(r)
                 PROVE  /\ LinesFor(r, Lines(Held(Shard)))' = {}
                        /\ \A s \in Procs : pc[s] \notin Ends /\ LinesFor(r, Known(s))' # {} => snap[s].old <= bound[r]
      BY <1>0, <1>2 DEF NoLineYet, Ends
    <2>1. LinesFor(r, Lines(Held(Shard)))' \subseteq LinesFor(r, Lines(Held(Shard)))
      BY <1>0, FilesAfterUser
    <2>2. \A s \in Procs : LinesFor(r, Known(s))' = LinesFor(r, Known(s))
      BY <1>0, <1>3 DEF LinesFor
    <2> QED
      BY <2>1, <2>2 DEF Bare, NoLineYet
  <1>5. NoneAtHead'
    BY <1>1 DEF NoneAtHead
  <1>6. OwnLine'
    <2> SUFFICES ASSUME NEW q \in Procs, for[q] # 0
                 PROVE  /\ pc[q] \in {"report", "plan", "decide"} \cup Late => OnlyIts(q, Known(q))'
                        /\ pc[q] = "append" /\ fd[q] # 0 => OnlyIts(q, bytes[fd[q]])'
      BY <1>0 DEF OwnLine, Late
    <2>1. /\ pc[q] \in {"report", "plan", "decide"} \cup Late => OnlyIts(q, Known(q))
          /\ pc[q] = "append" /\ fd[q] # 0 => OnlyIts(q, bytes[fd[q]])
      BY DEF Bare, OwnLine
    <2>2. OnlyIts(q, Known(q))' = OnlyIts(q, Known(q))
      BY <1>0, <1>3 DEF OnlyIts, LinesFor
    <2>3. ASSUME pc[q] = "append", fd[q] # 0 PROVE OnlyIts(q, bytes[fd[q]])'
      <3>1. fd[q] \in DOMAIN bytes
        BY <2>3 DEF FdInv, Inv, HandoffInv
      <3>2. LinesFor(for[q], bytes'[fd[q]]) \subseteq LinesFor(for[q], bytes[fd[q]])
        BY <1>0, <3>1, FilesAfterUser
      <3>3. OnlyIts(q, bytes'[fd[q]])
        BY <2>1, <2>3, <3>2 DEF OnlyIts
      <3> QED
        BY <1>0, <3>3 DEF OnlyIts, LinesFor
    <2> QED
      BY <2>1, <2>2, <2>3
  <1> QED
    BY <1>4, <1>5, <1>6 DEF Bare

(* A bundle that binds is clean on the bound head: no line of the run yet.  *)
LEMMA BindsBare ==
    ASSUME Inv, TruthInv, Unread, Binds, op.run \in Runs
    PROVE  /\ LinesFor(op.run, Lines(Held(Shard))) = {} /\ Held(Shard) = HeadTree[Shard]
           /\ \A s \in Procs : pc[s] \notin Ends /\ LinesFor(op.run, Known(s)) # {} => snap[s].old <= bound[op.run]
  <1>1. Held(Shard) = HeadTree[Shard]
    BY DEF Binds, Clean, Dirty, RecordsAppended, Paths, Shard, Plan
  <1>2. LinesFor(op.run, Lines(HeadTree[Shard])) = {}
    <2>1. Len(log) = bound[op.run] /\ Len(log) \in DOMAIN log /\ Len(log) \in Nat
      BY LogFacts DEF Binds
    <2>2. LinesOf(Len(log), op.run) # {} => bound[op.run] < Len(log)
      BY <2>1 DEF TruthInv, AfterItsHead
    <2> QED
      BY <2>1, <2>2 DEF LinesOf, HeadTree
  <1>3. ASSUME NEW s \in Procs, pc[s] \notin Ends, LinesFor(op.run, Known(s)) # {}
        PROVE  snap[s].old <= bound[op.run]
    <2>1. pc[s] \notin {"uncalled", "head", "shard"}
      BY <1>3, NoLines DEF Unread
    <2>2. pc[s] \in (Early \cup Late) \ {"head"}
      <3>1. pc[s] \in Places
        BY DEF Inv, HandoffInv, TypeOK, PlaceOK
      <3> QED
        BY <1>3, <2>1, <3>1 DEF Places
    <2>3. snap[s].old \in DOMAIN log /\ DOMAIN log = 1..Len(log) /\ Len(log) \in Nat
      BY <2>2 DEF Inv, HandoffInv, TypeOK, StoreOK, SnapInv
    <2> QED
      BY <2>3 DEF Binds
  <1> QED
    BY <1>1, <1>2, <1>3

LEMMA BareMoves ==
    ASSUME Inv, TruthInv, Unread, Crew, Bare, [HandedNext]_all, harm \in Nat, UNCHANGED vars, ~Restores
    PROVE  Bare'
  <1>0. /\ for' = for /\ (op' = op \/ Unbinds \/ Binds \/ WithinBound)
        /\ UNCHANGED <<pc, snap, fd, log, name, bytes>>
    BY OpMoves DEF vars, attest, files, git
  <1>1. /\ \A q \in Procs : Reads(q)' = Reads(q) /\ Known(q)' = Known(q)
        /\ Held(Shard)' = Held(Shard) /\ HeadTree' = HeadTree
    BY <1>0 DEF Reads, Held, HeadTree, Known, Lines
  <1>2. \A r, e : LinesFor(r, e)' = LinesFor(r, e)
    BY <1>0 DEF LinesFor
  <1>3. \A q \in Procs : Reads(q) => bound'[for[q]] = bound[for[q]] /\ for[q] \in Runs
    BY LogFacts, BoundStays DEF Reads
  <1>b. Binds => op.run \in Runs /\ bound' = bound /\ \A q \in Procs : ~Awaited(q)
    BY BoundMoves DEF Binds, TruthInv, InHand, Awaited
  <1>4. NoLineYet'
    <2> SUFFICES ASSUME NEW r \in Runs, Opening(r)'
                 PROVE  /\ LinesFor(r, Lines(Held(Shard)))' = {}
                        /\ \A s \in Procs : pc[s] \notin Ends /\ LinesFor(r, Known(s))' # {} => snap[s].old <= bound'[r]
      BY <1>0 DEF NoLineYet, Ends
    <2>1. /\ LinesFor(r, Lines(Held(Shard)))' = LinesFor(r, Lines(Held(Shard)))
          /\ \A s \in Procs : LinesFor(r, Known(s))' = LinesFor(r, Known(s))
      BY <1>0, <1>1 DEF LinesFor, Lines
    <2>2. ASSUME Opening(r), bound'[r] = bound[r]
          PROVE  /\ LinesFor(r, Lines(Held(Shard)))' = {}
                 /\ \A s \in Procs : pc[s] \notin Ends /\ LinesFor(r, Known(s))' # {} => snap[s].old <= bound'[r]
      BY <2>1, <2>2 DEF Bare, NoLineYet
    <2>3. CASE \E q \in Procs : Reads(q) /\ for[q] = r
      BY <1>3, <2>2, <2>3 DEF Opening
    <2>4. CASE op.at \in Taken /\ op.run = r
      <3>1. Settled(r)
        BY <2>4 DEF TruthInv, InHand, Attestable, Taken
      <3> QED
        BY <2>2, <2>4, <3>1, BoundStays DEF Opening
    <2>5. CASE op'.at \in Taken /\ op'.run = r /\ ~(op.at \in Taken /\ op.run = r)
      <3>1. Binds
        BY <1>0, <2>5 DEF Unbinds, WithinBound, Bound
      <3>2. op.run = r
        BY <2>5, <3>1 DEF Binds
      <3> QED
        BY <1>b, <2>1, <3>1, <3>2, BindsBare
    <2> QED
      BY <1>0, <1>1, <2>3, <2>4, <2>5 DEF Opening
  <1>5. NoneAtHead'
    <2>0. \A q \in Procs : LinesFor(for[q], Lines(HeadTree[Shard]))' = LinesFor(for[q], Lines(HeadTree[Shard]))
      BY <1>0, <1>1 DEF LinesFor, Lines
    <2> SUFFICES ASSUME NEW q \in Procs, Reads(q), ~Awaited(q)', op'.at \in Bound
                 PROVE  LinesFor(for[q], Lines(HeadTree[Shard])) = {}
      BY <1>1, <2>0 DEF NoneAtHead, Bound, Taken
    <2>1. CASE op.at \in Bound /\ ~Awaited(q)
      BY <2>1 DEF Bare, NoneAtHead
    <2>2. CASE Binds
      <3>1. Opening(for[q]) /\ for[q] \in Runs
        BY <1>3 DEF Opening
      <3>2. LinesFor(for[q], Lines(Held(Shard))) = {}
        BY <3>1 DEF Bare, NoLineYet
      <3>3. Held(Shard) = HeadTree[Shard]
        BY <1>b, <2>2, BindsBare
      <3> QED
        BY <3>2, <3>3
    <2>3. CASE op' = op
      BY <2>1, <2>3 DEF Awaited
    <2>4. CASE WithinBound
      <3>1. op.at \in Bound /\ ~Awaited(q)
        BY <2>4 DEF WithinBound, Awaited, Reads, Ends
      <3> QED
        BY <2>1, <3>1
    <2> QED
      BY <1>0, <2>2, <2>3, <2>4 DEF Unbinds
  <1>6. OwnLine'
    <2>1. \A q \in Procs : OnlyIts(q, Known(q))' = OnlyIts(q, Known(q)) /\ OnlyIts(q, bytes[fd[q]])' = OnlyIts(q, bytes[fd[q]])
      BY <1>0, <1>1 DEF OnlyIts, LinesFor
    <2> QED
      BY <1>0, <2>1 DEF Bare, OwnLine, Late
  <1> QED
    BY <1>4, <1>5, <1>6 DEF Bare

LEMMA ShardPutBack ==
    ASSUME Inv, Restores
    PROVE  /\ \/ Held(Shard)' = Held(Shard) \/ Held(Shard)' = NoFile
              \/ op'.at = "put back" /\ Held(Shard)' = HeadTree[Shard]
           /\ \A k \in DOMAIN bytes \ {3} : bytes'[k] = bytes[k]
  <1> USE DEF Inv, HandoffInv, TypeOK
  <1>0. /\ bytes \in Seq(Content) /\ name \in [Paths -> 0..Len(bytes)] /\ Shard \in Paths /\ Report \in Paths
        /\ Shard # Report /\ Len(bytes) \in Nat /\ Len(bytes) >= 3 /\ name[Shard] # 3
    BY DEF StoreOK, NameOK, Paths, Shard, Report
  <1>1. CASE WriteReport
    <2>1. /\ name' = [name EXCEPT ![Report] = 3] /\ bytes' = [bytes EXCEPT ![3] = <<ReportText(op.run)>>]
      BY <1>1 DEF WriteReport
    <2>2. name'[Shard] = name[Shard] /\ \A k \in DOMAIN bytes \ {3} : bytes'[k] = bytes[k]
      BY <1>0, <2>1
    <2>3. name[Shard] = 0 \/ name[Shard] \in DOMAIN bytes \ {3}
      BY <1>0
    <2> QED
      BY <2>2, <2>3 DEF Held
  <1>2. CASE Reset \/ Refuse
    <2>1. bytes' = bytes /\ name'[Shard] = name[Shard]
      BY <1>0, <1>2 DEF Reset, Refuse, files
    <2> QED
      BY <2>1 DEF Held
  <1>3. ASSUME NEW f \in Paths, PutBack(f)
        PROVE  /\ \/ Held(Shard)' = Held(Shard) \/ Held(Shard)' = NoFile
                  \/ op'.at = "put back" /\ Held(Shard)' = HeadTree[Shard]
               /\ \A k \in DOMAIN bytes \ {3} : bytes'[k] = bytes[k]
    <2>1. CASE HeadTree[f] # NoFile /\ lock = NoFile
      <3>1. bytes' = Append(bytes, HeadTree[f]) /\ name' = [name EXCEPT ![f] = Len(bytes')]
        BY <1>3, <2>1 DEF PutBack
      <3>2. /\ \A k \in DOMAIN bytes : bytes'[k] = bytes[k]
            /\ Len(bytes') = Len(bytes) + 1 /\ bytes'[Len(bytes) + 1] = HeadTree[f]
        BY <1>0, <3>1
      <3>3. op'.at = "put back"
        BY <1>3 DEF PutBack, During, OpOK, OpType
      <3>4. CASE f = Shard
        BY <1>0, <3>1, <3>2, <3>3, <3>4 DEF Held
      <3>5. CASE f # Shard
        <4>1. name'[Shard] = name[Shard] /\ (name[Shard] # 0 => name[Shard] \in DOMAIN bytes)
          BY <1>0, <3>1, <3>5
        <4> QED
          BY <3>2, <4>1 DEF Held
      <3> QED
        BY <3>2, <3>4, <3>5
    <2>2. CASE ~(HeadTree[f] # NoFile /\ lock = NoFile)
      <3>1. bytes' = bytes /\ name' = [name EXCEPT ![f] = 0]
        BY <1>3, <2>2 DEF PutBack, Unlinked
      <3> QED
        BY <1>0, <3>1 DEF Held
    <2> QED
      BY <2>1, <2>2
  <1> QED
    BY <1>1, <1>2, <1>3 DEF Restores

LEMMA BareRestores ==
    ASSUME Inv, TruthInv, Crew, Bare, Restores
    PROVE  Bare'
  <1>0. /\ UNCHANGED <<for, bound, harm, log, pc, snap, fd>>
        /\ op.at \in Bound \ {"wait", "call"} /\ (Unbinds \/ WithinBound)
        /\ op'.at \in Taken => WriteReport
    BY RestoreMoves DEF attest
  <1>1. \A q \in Procs : Reads(q)' = Reads(q) /\ Known(q)' = Known(q) /\ ~Awaited(q)
    BY <1>0 DEF Reads, Known, Lines, Awaited
  <1>2. \A r, e : LinesFor(r, e)' = LinesFor(r, e)
    BY <1>0 DEF LinesFor
  <1>3. HeadTree' = HeadTree
    BY <1>0 DEF HeadTree
  <1>4. NoLineYet'
    <2> SUFFICES ASSUME NEW r \in Runs, Opening(r)'
                 PROVE  /\ LinesFor(r, Lines(Held(Shard)))' = {}
                        /\ \A s \in Procs : pc[s] \notin Ends /\ LinesFor(r, Known(s))' # {} => snap[s].old <= bound[r]
      BY <1>0 DEF NoLineYet, Ends
    <2>1. Opening(r)
      <3>1. CASE op'.at \in Taken /\ op'.run = r
        <4>1. op.at = "report"
          BY <1>0, <3>1 DEF WriteReport, During
        <4>2. op'.run = op.run
          BY <1>0, <3>1 DEF Unbinds, WithinBound, Bound
        <4> QED
          BY <3>1, <4>1, <4>2 DEF Opening, Taken
      <3> QED
        BY <1>0, <1>1, <3>1 DEF Opening
    <2>2. /\ LinesFor(r, Lines(Held(Shard))) = {}
          /\ \A s \in Procs : pc[s] \notin Ends /\ LinesFor(r, Known(s)) # {} => snap[s].old <= bound[r]
      BY <2>1 DEF Bare, NoLineYet
    <2>3. \A s \in Procs : LinesFor(r, Known(s))' = LinesFor(r, Known(s))
      BY <1>0, <1>1 DEF LinesFor
    <2>4. ASSUME NEW e, Held(Shard)' = e, LinesFor(r, Lines(e)) = {} PROVE LinesFor(r, Lines(Held(Shard)))' = {}
      <3>1. Lines(Held(Shard))' = Lines(e)
        BY <2>4 DEF Lines
      <3> QED
        BY <1>0, <2>4, <3>1 DEF LinesFor
    <2>5. LinesFor(r, Lines(Held(Shard)))' = {}
      <3>1. CASE Held(Shard)' = Held(Shard)
        BY <2>2, <2>4, <3>1
      <3>2. CASE Held(Shard)' = NoFile
        BY <2>4, <3>2, NoLines DEF Lines
      <3>3. CASE op'.at = "put back" /\ Held(Shard)' = HeadTree[Shard]
        <4>1. PICK q \in Procs : Reads(q) /\ for[q] = r
          BY <1>0, <1>1, <3>3 DEF Opening, Taken
        <4>2. LinesFor(r, Lines(HeadTree[Shard])) = {}
          BY <1>0, <1>1, <4>1 DEF Bare, NoneAtHead
        <4> QED
          BY <2>4, <3>3, <4>2
      <3> QED
        BY <3>1, <3>2, <3>3, ShardPutBack
    <2> QED
      BY <2>2, <2>3, <2>5
  <1>5. NoneAtHead'
    <2>0. \A q \in Procs : LinesFor(for[q], Lines(HeadTree[Shard]))' = LinesFor(for[q], Lines(HeadTree[Shard]))
      BY <1>0, <1>3 DEF LinesFor, Lines
    <2> SUFFICES ASSUME NEW q \in Procs, Reads(q)
                 PROVE  LinesFor(for[q], Lines(HeadTree[Shard])) = {}
      BY <1>1, <2>0 DEF NoneAtHead, Bound, Taken
    <2> QED
      BY <1>0, <1>1 DEF Bare, NoneAtHead
  <1>6. OwnLine'
    <2> SUFFICES ASSUME NEW q \in Procs, for[q] # 0
                 PROVE  /\ pc[q] \in {"report", "plan", "decide"} \cup Late => OnlyIts(q, Known(q))'
                        /\ pc[q] = "append" /\ fd[q] # 0 => OnlyIts(q, bytes[fd[q]])'
      BY <1>0 DEF OwnLine, Late
    <2>1. /\ pc[q] \in {"report", "plan", "decide"} \cup Late => OnlyIts(q, Known(q))
          /\ pc[q] = "append" /\ fd[q] # 0 => OnlyIts(q, bytes[fd[q]])
      BY DEF Bare, OwnLine
    <2>2. OnlyIts(q, Known(q))' = OnlyIts(q, Known(q))
      BY <1>0, <1>1 DEF OnlyIts, LinesFor
    <2>3. pc[q] = "append" /\ fd[q] # 0 => bytes'[fd[q]] = bytes[fd[q]]
      BY ShardPutBack DEF FdInv, Inv, HandoffInv
    <2>4. pc[q] = "append" /\ fd[q] # 0 => OnlyIts(q, bytes[fd[q]])'
      BY <1>0, <2>1, <2>3 DEF OnlyIts, LinesFor
    <2> QED
      BY <2>1, <2>2, <2>4
  <1> QED
    BY <1>4, <1>5, <1>6 DEF Bare

LEMMA BareCall ==
    ASSUME Inv, TruthInv, Crew, Bare, [HandedNext]_all, NEW p \in Procs, CallAttest(p)
    PROVE  Bare'
  <1>0. /\ pc[p] = "uncalled" /\ pc'[p] = "head" /\ for'[p] = op.run
        /\ \A q \in Procs \ {p} : pc'[q] = pc[q]
        /\ op.at = "call" /\ op'.at = "wait" /\ op'.call = p /\ op'.run = op.run
        /\ UNCHANGED <<snap, fd, name, bytes, log, bound>>
    BY CallAttestBegins DEF files, git, runs
  <1>1. \A q \in Procs \ {p} : for'[q] = for[q] /\ Reads(q)' = Reads(q)
    <2>1. for' = [for EXCEPT ![p] = op.run]
      BY DEF CallAttest
    <2> QED
      BY <1>0, <2>1 DEF TruthInv, RunOK, Reads
  <1>2. /\ Held(Shard)' = Held(Shard) /\ HeadTree' = HeadTree
        /\ \A q \in Procs : Known(q)' = Known(q)
    BY <1>0 DEF Held, HeadTree, Known, Lines
  <1>3. ASSUME NEW c \in Content, NEW r PROVE LinesFor(r, c)' = LinesFor(r, c)
    BY CallsStay, ContentIsSpoken, LinesForStays
  <1>4. NoLineYet'
    <2> SUFFICES ASSUME NEW r \in Runs, Opening(r)'
                 PROVE  /\ LinesFor(r, Lines(Held(Shard)))' = {}
                        /\ \A s \in Procs : pc'[s] \notin Ends /\ LinesFor(r, Known(s))' # {} => snap[s].old <= bound[r]
      BY <1>0 DEF NoLineYet, Ends
    <2>1. Opening(r)
      <3>1. PICK q \in Procs : Reads(q)' /\ for'[q] = r
        BY <1>0 DEF Opening, Taken
      <3> QED
        BY <1>0, <1>1, <3>1 DEF Opening, Taken
    <2>2. /\ LinesFor(r, Lines(Held(Shard))) = {}
          /\ \A s \in Procs : pc[s] \notin Ends /\ LinesFor(r, Known(s)) # {} => snap[s].old <= bound[r]
      BY <2>1 DEF Bare, NoLineYet
    <2>3. LinesFor(r, Lines(Held(Shard)))' = {}
      <3>1. ASSUME NEW e \in Content, e = Lines(Held(Shard)) PROVE LinesFor(r, e)' = {}
        BY <1>3, <2>2, <3>1
      <3>2. Lines(Held(Shard))' = Lines(Held(Shard)) /\ Lines(Held(Shard)) \in Content
        BY <1>2, StoredContent DEF Lines
      <3> QED
        BY <3>1, <3>2 DEF LinesFor
    <2>4. \A s \in Procs : LinesFor(r, Known(s))' = LinesFor(r, Known(s))
      <3>1. ASSUME NEW s \in Procs, NEW e \in Content, e = Known(s)
            PROVE  LinesFor(r, e)' = LinesFor(r, Known(s))
        BY <1>3, <3>1
      <3> QED
        BY <1>2, <3>1, StoredContent DEF LinesFor
    <2>5. \A s \in Procs : pc'[s] \notin Ends => pc[s] \notin Ends
      BY <1>0 DEF Ends
    <2> QED
      BY <2>2, <2>3, <2>4, <2>5
  <1>5. NoneAtHead'
    <2> SUFFICES ASSUME NEW q \in Procs, Reads(q)', ~Awaited(q)'
                 PROVE  LinesFor(for[q], Lines(HeadTree[Shard]))' = {}
      BY DEF NoneAtHead, Bound, Taken
    <2>1. q # p /\ Reads(q) /\ for'[q] = for[q] /\ ~Awaited(q) /\ op.at \in Bound
      BY <1>0, <1>1 DEF Awaited, Bound, Taken
    <2>2. LinesFor(for[q], Lines(HeadTree[Shard])) = {}
      BY <2>1 DEF Bare, NoneAtHead
    <2>3. ASSUME NEW e \in Content, e = Lines(HeadTree[Shard]), NEW r, r = for[q] PROVE LinesFor(r, e)' = {}
      BY <1>3, <2>2, <2>3
    <2>4. Lines(HeadTree[Shard])' = Lines(HeadTree[Shard]) /\ Lines(HeadTree[Shard]) \in Content
      BY <1>2, StoredContent DEF Lines
    <2> QED
      BY <2>1, <2>3, <2>4 DEF LinesFor
  <1>6. OwnLine'
    <2> SUFFICES ASSUME NEW q \in Procs, for'[q] # 0, q # p
                 PROVE  /\ pc[q] \in {"report", "plan", "decide"} \cup Late => OnlyIts(q, Known(q))'
                        /\ pc[q] = "append" /\ fd[q] # 0 => OnlyIts(q, bytes[fd[q]])'
      BY <1>0 DEF OwnLine, Late
    <2>1. /\ pc[q] \in {"report", "plan", "decide"} \cup Late => OnlyIts(q, Known(q))
          /\ pc[q] = "append" /\ fd[q] # 0 => OnlyIts(q, bytes[fd[q]])
      BY <1>1 DEF Bare, OwnLine
    <2>2. ASSUME NEW e \in Content, NEW r, r = for[q] PROVE LinesFor(r, e)' = LinesFor(r, e)
      BY <1>3
    <2>3. ASSUME NEW e \in Content PROVE OnlyIts(q, e)' = OnlyIts(q, e)
      <3>1. LinesFor(for[q], e)' = LinesFor(for[q], e)
        BY <1>1, <2>2 DEF LinesFor
      <3> QED
        BY <3>1 DEF OnlyIts
    <2>4. OnlyIts(q, Known(q))' = OnlyIts(q, Known(q))
      <3>1. \A e \in Content : e = Known(q) => OnlyIts(q, e)' = OnlyIts(q, e)
        BY <2>3
      <3> QED
        BY <1>2, <3>1, StoredContent DEF OnlyIts, LinesFor
    <2>5. pc[q] = "append" /\ fd[q] # 0 => OnlyIts(q, bytes[fd[q]])' = OnlyIts(q, bytes[fd[q]])
      <3>1. pc[q] = "append" /\ fd[q] # 0 => bytes[fd[q]] \in Content
        BY StoredContent DEF FdInv, Inv, HandoffInv
      <3>2. \A e \in Content : e = bytes[fd[q]] => OnlyIts(q, e)' = OnlyIts(q, e)
        BY <2>3
      <3> QED
        BY <1>0, <3>1, <3>2 DEF OnlyIts, LinesFor
    <2> QED
      BY <2>1, <2>4, <2>5
  <1> QED
    BY <1>4, <1>5, <1>6 DEF Bare

-----------------------------------------------------------------------------
LEMMA CalmInit == HandedInit => CalmInv
  <1> SUFFICES ASSUME HandedInit PROVE CalmInv
    OBVIOUS
  <1> USE DEF HandedInit, Init
  <1>0. /\ \A p \in Procs : for[p] = 0 /\ fd[p] = 0 /\ snap[p] = Blank /\ laid[p] = Blank.data
        /\ op.at = "idle" /\ harm = 0 /\ 0 \notin Runs
    BY CodexAssumption DEF Idle
  <1>1. Apart /\ Begun
    <2>1. name[Report] \in {0, 3} /\ name[Shard] \in {0, 1}
      BY DEF Paths, Shard, Report, Plan
    <2>2. Called \subseteq Procs
      BY HandedInitInv DEF Inv, HandoffInv, TypeOK, CallsOK
    <2> QED
      BY <1>0, <2>1, <2>2 DEF Apart, Begun
  <1>2. \A p \in Procs, f \in Paths : snap[p].data[f] = NoFile /\ laid[p][f] = NoFile
    BY <1>0 DEF Blank
  <1>3. Unread
    BY <1>2 DEF Unread, Known, Lines, Paths
  <1>4. \A f \in Paths : index[f] \in {scene.shard, <<Words(0)>>, NoFile}
    OBVIOUS
  <1>5. \A c : Kept(c) => c \in {Lines(scene.shard), scene.shard, <<Words(0)>>, NoFile}
    <2>1. \A k \in DOMAIN bytes : bytes[k] \in {Lines(scene.shard), <<Words(0)>>}
      OBVIOUS
    <2>2. \A i \in DOMAIN log : log[i].tree = index
      OBVIOUS
    <2> QED
      BY <1>2, <1>4, <2>1, <2>2 DEF Kept
  <1>6. \A c : Kept(c) => ReportsIn(Lines(c)) = {}
    <2>1. ReportsIn(<<>>) = {} /\ ReportsIn(<<Words(0)>>) = {}
      BY DEF ReportsIn, Words
    <2>2. scene.shard # NoFile => ReportsIn(scene.shard) = {}
      <3>1. scene.shard # NoFile => scene.shard \in Seq(Earlier)
        BY JournalAssumption
      <3>2. scene.shard # NoFile => \A i \in DOMAIN scene.shard : scene.shard[i] \in Earlier
        BY <3>1
      <3>3. \A l \in Earlier : l.kind = "review"
        BY DEF Earlier
      <3> QED
        BY <3>2, <3>3 DEF ReportsIn
    <2> QED
      BY <1>5, <2>1, <2>2 DEF Lines
  <1>7. ReportsSettled
    BY <1>6 DEF ReportsSettled
  <1>8. ReportsAfter
    BY <1>6, KeptLog DEF ReportsAfter
  <1>9. \A r \in Runs : \A c : LinesFor(r, c) = {}
    BY <1>0 DEF LinesFor
  <1>10. AllSingle
    BY <1>9 DEF AllSingle, Single
  <1>11. OneAtATime /\ Left /\ ReportLies
    BY <1>0 DEF OneAtATime, Left, ReportLies, Unended, Bound, Taken
  <1>12. NoLineYet /\ NoneAtHead /\ OwnLine
    BY <1>0 DEF NoLineYet, NoneAtHead, OwnLine, Opening, Reads, Taken
  <1> QED
    BY <1>0, <1>1, <1>3, <1>7, <1>8, <1>10, <1>11, <1>12 DEF CalmInv

LEMMA CalmStep == Inv /\ TruthInv /\ CalmInv /\ [HandedNext]_all => CalmInv'
  <1> SUFFICES ASSUME Inv, TruthInv, CalmInv, [HandedNext]_all PROVE CalmInv'
    OBVIOUS
  <1> USE DEF CalmInv
  <1>1. Apart' /\ Begun' /\ Unread'
    BY FilesStayApart
  <1>2. ReportsSettled' /\ ReportsAfter'
    BY ReportsStep
  <1>3. /\ harm' \in Nat /\ harm' >= harm /\ moves \in Nat
        /\ User => moves' # 0
        /\ Calm' => Calm
    BY CalmBefore
  <1>4. ASSUME Calm' PROVE AllSingle' /\ Crew' /\ Bare'
    <2>1. AllSingle /\ Crew /\ Bare
      BY <1>3, <1>4 DEF Crew, Bare
    <2>2. AllSingle'
      BY <2>1, SingleStep DEF Bare
    <2>3. ASSUME NEW p \in Called, Attests(p) PROVE Crew' /\ Bare'
      <3>1. LogKeeps /\ Len(log') \in Nat
        BY LogGrows, InvStep DEF Inv, HandoffInv, TypeOK, StoreOK
      <3> QED
        BY <2>1, <2>3, <3>1, CrewAttest, BareAttest
    <2>4. CASE User /\ UNCHANGED <<runs, handing, harm>>
      <3>1. harm' = 0 /\ moves' # 0
        BY <1>3, <1>4, <2>4 DEF Calm
      <3> QED
        BY <2>1, <2>2, <2>4, <3>1, CrewUser, BareUser
    <2>5. CASE Restores
      BY <2>1, <2>2, <2>5, CrewRestores, BareRestores
    <2>6. CASE UNCHANGED vars /\ ~Restores
      BY <1>4, <2>1, <2>2, <2>6, CrewMoves, BareMoves
    <2>7. ASSUME NEW p \in Procs, CallAttest(p) PROVE Crew' /\ Bare'
      BY <2>1, <2>7, CrewCall, BareCall
    <2> QED
      BY <2>2, <2>3, <2>4, <2>5, <2>6, <2>7, Steps
  <1>5. Calm' => AllSingle' /\ OneAtATime' /\ Left' /\ ReportLies' /\ NoLineYet' /\ NoneAtHead' /\ OwnLine'
    BY <1>4 DEF Crew, Bare
  <1> QED
    BY <1>1, <1>2, <1>3, <1>5

LEMMA CalmInvariance == HandedSpec => [](Inv /\ TruthInv /\ CalmInv)
  <1>1. HandedInit => Inv /\ TruthInv /\ CalmInv
    BY HandedInitInv, TruthInit, CalmInit
  <1>2. (Inv /\ TruthInv /\ CalmInv) /\ [HandedNext]_all => (Inv /\ TruthInv /\ CalmInv)'
    BY InvStep, TruthStep, CalmStep
  <1> QED
    BY <1>1, <1>2, PTL DEF HandedSpec

(* And it is one line for a run, wherever handoffs died, while the user put *)
(* nothing away; and whatever the user did, while none was killed and       *)
(* nobody meddled: a second handoff finds what the attest of the first left *)
(* lying about, staged or committed, and calls none of its own beside it.   *)
THEOREM AttestsOnceWhatRan == HandedSpec => []AttestsWhatRan
  <1>1. Inv /\ TruthInv /\ CalmInv => OneLineEach
    <2> SUFFICES ASSUME Inv, TruthInv, CalmInv, Calm, NEW i \in DOMAIN log, NEW r \in Runs,
                        NEW l \in LinesOf(i, r), NEW m \in LinesOf(i, r)
                 PROVE  m = l
      BY DEF OneLineEach, Calm
    <2>1. l \in Authentic /\ l.kind = "review" /\ l.by \in Procs
      BY LogLines DEF LinesOf, LinesFor
    <2>2. m \in Authentic /\ m.kind = "review" /\ m.by \in Procs
      BY LogLines DEF LinesOf, LinesFor
    <2>3. Single(Lines(log[i].tree[Shard]))
      BY KeptLog, Shard \in Paths DEF CalmInv, AllSingle, Paths
    <2>4. m.by = l.by
      BY <2>3 DEF Single, LinesOf
    <2> QED
      BY <2>1, <2>2, <2>4 DEF Authentic
  <1>2. HandedSpec => []OneLineEach
    BY CalmInvariance, <1>1, PTL
  <1> QED
    BY AttestsTheTruth, <1>2, PTL DEF AttestsWhatRan

-----------------------------------------------------------------------------
(* What a handoff brings to origin. The stations it passes before it is     *)
(* done; what it knows there; and that a run is bound to some commit.       *)
Done(r) == done[r].state = "attested"
Underway == Taken \cup {"recognise", "bind", "wait", "finish"}
OpKnows ==
    /\ op.moves <= moves
    /\ op.at \in Underway \cup {"push", "receipt"} => op.run \in Runs
    /\ op.at \in Underway => ~Done(op.run)
    /\ op.at = "wait" => op.call \in Procs
BoundSince == \A r \in Runs : run[r].sup # "none" \/ (op.at = "launch" /\ op.run = r) => bound[r] >= 1

(* An attest that committed did so after the head its run is bound to; no   *)
(* other one of its run goes on, and none is called. With no step of the    *)
(* user, a line of a run is committed by an attest only.                    *)
Committed(p) == for[p] # 0 /\ pc[p] = "committed"
CommitsAfter == \A p \in Procs : Committed(p) => Len(log) > bound[for[p]]
CalledOnce ==
    \A p \in Procs : Committed(p) =>
        /\ \A s \in Procs : Unended(s) => for[s] # for[p]
        /\ ~(op.at \in Taken /\ op.run = for[p])
Witnessed ==
    moves = 0 /\ (\/ \E i \in DOMAIN log, r \in Runs : LinesOf(i, r) # {}
                  \/ \E r \in Runs : Done(r)
                  \/ op.at \in {"finish", "push", "receipt"})
        => \E p \in Procs : pc[p] = "committed"

(* HEAD is the bound head until the attest commits, and its commit then.    *)
Fresh == bound[op.run] >= 1 /\ Len(log) = bound[op.run] + 1 /\ LinesOf(Len(log), op.run) # {}
AtBound == bound[op.run] >= 1 /\ Len(log) = bound[op.run]
Ahead ==
    Undisturbed(op.run) =>
        /\ op.at \in Taken => AtBound
        /\ op.at = "wait" => IF pc[op.call] = "committed" THEN Fresh ELSE AtBound
        /\ op.at = "finish" => Fresh
        /\ op.at = "push" => IF Done(op.run) THEN Len(log) = done[op.run].commit ELSE Fresh

PushInv ==
    /\ OpKnows /\ BoundSince /\ CommitsAfter /\ Witnessed
    /\ Calm => CalledOnce /\ Ahead

-----------------------------------------------------------------------------
(* How an attest commits.                                                   *)
LEMMA CommitIsRef ==
    ASSUME Inv, Begun, NEW p \in Called, Attesting(p)
    PROVE  pc'[p] = "committed" <=> UpdateRef(p) /\ log' # log
  <1> USE DEF Inv, HandoffInv, TypeOK
  <1>0. p \in Procs /\ pc \in [Procs -> Places] /\ log \in Seq(Commits)
    BY DEF CallsOK, PlaceOK, StoreOK
  <1>1. CASE UpdateRef(p)
    <2>1. AtOld(p) => Len(log') = Len(log) + 1 /\ pc' = [pc EXCEPT ![p] = "committed"]
      BY <1>0, <1>1 DEF UpdateRef, Goes
    <2>2. ~AtOld(p) => log' = log /\ pc' = [pc EXCEPT ![p] = "written"]
      BY <1>1 DEF UpdateRef, Goes
    <2> QED
      BY <1>0, <1>1, <2>1, <2>2
  <1>2. CASE ~UpdateRef(p)
    <2>1. \E to \in Places \ {"committed"} : pc' = [pc EXCEPT ![p] = to]
      BY <1>2 DEF Attesting, ReadHead, ReadFile, Decide, TakeLock, CheckIndex, OpenShard, AppendLine, SameFile,
         RenameIndex, Hooks, Die, Goes, Refuses, Places, Early, Late, Ends, Shard, Report, Plan
    <2> QED
      BY <1>0, <1>2, <2>1
  <1> QED
    BY <1>1, <1>2

(* Its commit is one more, straight on HEAD, and holds a line of its run.   *)
LEMMA CommitShows ==
    ASSUME Inv, TruthInv, NEW p \in Called, UpdateRef(p), log' # log, for' = for
    PROVE  /\ Len(log') = Len(log) + 1
           /\ for[p] # 0 => LinesOf(Len(log), for[p])' # {}
  <1> USE DEF Inv, HandoffInv, TypeOK
  <1>0. p \in Procs /\ pc[p] = "ref" /\ log \in Seq(Commits) /\ Shard \in Paths
    BY DEF CallsOK, StoreOK, UpdateRef, Paths
  <1>1. log' = Append(log, [tree |-> Over(Old(p), p), parent |-> snap[p].old])
    BY DEF UpdateRef
  <1>2. Len(log') = Len(log) + 1 /\ log'[Len(log')].tree = Over(Old(p), p)
    BY <1>0, <1>1
  <1>3. Over(Old(p), p)[Shard] = Append(Known(p), Line(p))
    BY <1>0 DEF Over, Carried, Laid, Target
  <1>4. Append(Known(p), Line(p)) \in Content
    <2>1. Known(p) \in Content
      BY <1>0, KnownIsContent
    <2> QED
      BY <1>0, <2>1, LineIsContent DEF Late
  <1>5. Lines(Append(Known(p), Line(p))) = Append(Known(p), Line(p))
    BY <1>4, NoFileIsNoContent DEF Lines
  <1>6. Line(p) \in LinesFor(for[p], Append(Known(p), Line(p)))
    BY <1>0, KnownIsContent, LineOfItsRun
  <1>7. LinesOf(Len(log), for[p])' = LinesFor(for[p], Lines(log'[Len(log')].tree[Shard]))
    BY DEF LinesOf, LinesFor
  <1> QED
    BY <1>2, <1>3, <1>5, <1>6, <1>7

(* Where a command goes that touches no files.                              *)
Aside == {"idle", "record", "activate", "stopping", "reset", "clean"}
Looks ==
    /\ rec \in Runs /\ op'.run = rec /\ op'.moves = moves
    /\ \/ op'.at = "push" /\ Done(rec) /\ ItsCommitIsHead(rec)
       \/ op'.at = "recognise" /\ ~Done(rec)
HandsOn ==
    /\ op'.run = op.run /\ op'.moves = op.moves /\ op'.call = op.call
    /\ \/ op.at = "recognise" /\ op'.at = "bind"
       \/ op.at = "recognise" /\ op'.at = "finish" /\ CommittedAttest(op.run)
       \/ Binds
       \/ op.at \in Taken /\ op'.at \in Taken
       \/ op.at = "wait" /\ op'.at = "finish" /\ pc[op.call] = "committed"
       \/ op.at = "finish" /\ op'.at = "push"
       \/ op.at = "push" /\ op'.at = "receipt"
OpGoes ==
    \/ done' = done /\ (op' = op \/ (op'.at \in Aside /\ op'.moves \in {0, op.moves}) \/ Looks \/ HandsOn)
    \/ done' = done /\ op'.at = "launch" /\ op'.moves = op.moves /\ \E s \in Runs : Start(s)
    \/ op.at = "receipt" /\ op' = Idle /\ \E h : done' = [done EXCEPT ![op.run] = h]

LEMMA CommandGoes ==
    ASSUME Inv, [HandedNext]_all, UNCHANGED vars, ~Restores
    PROVE  OpGoes
  <1> USE DEF Inv, OpOK, During, Goal, Rests
  <1>i. Idle.at = "idle" /\ Idle.moves = 0 /\ op \in OpType
    BY DEF Idle
  <1>c. \A p \in Procs : ~CallAttest(p)
    BY DEF CallAttest, vars, attest, HandoffInv, TypeOK, PlaceOK
  <1>1. CASE Attested \/ (Supervised /\ NoFilesTouched /\ UNCHANGED <<rec, bound, handing>>) \/ UNCHANGED all
    BY <1>1 DEF Attested, handing, all, OpGoes
  <1>2. CASE KillCommand
    BY <1>i, <1>2 DEF KillCommand, OpGoes, Aside
  <1>3. CASE Look
    <2>1. done' = done /\ rec \in Runs
      BY <1>3 DEF Look
    <2>2. CASE Done(rec) /\ ItsCommitIsHead(rec)
               /\ op' = [op EXCEPT !.at = "push", !.run = rec, !.moves = moves, !.commit = done[rec].commit]
      BY <1>i, <2>1, <2>2 DEF OpType, OpGoes, Looks
    <2>3. CASE ~Done(rec) /\ op' = [op EXCEPT !.at = "recognise", !.run = rec, !.moves = moves]
      BY <1>i, <2>1, <2>3 DEF OpType, OpGoes, Looks
    <2> QED
      BY <1>3, <2>1, <2>2, <2>3 DEF Look, Done, OpGoes
  <1>4. CASE Recognise
    <2>1. done' = done /\ op.at = "recognise"
      BY <1>4 DEF Recognise
    <2>2. op' = [op EXCEPT !.at = IF CommittedAttest(op.run) THEN "finish" ELSE "bind"]
      BY <1>4 DEF Recognise
    <2> QED
      BY <1>i, <2>1, <2>2 DEF OpType, OpGoes, HandsOn
  <1>5. CASE Bind
    <2>1. done' = done /\ op.at = "bind"
      BY <1>5 DEF Bind
    <2>2. CASE Clean /\ Len(log) = bound[op.run]
      <3>1. op' = [op EXCEPT !.at = "result"]
        BY <1>5, <2>2 DEF Bind
      <3> QED
        BY <1>i, <2>1, <2>2, <3>1 DEF OpType, OpGoes, HandsOn, Binds
    <2>3. CASE ~(Clean /\ Len(log) = bound[op.run])
      BY <1>i, <1>5, <2>1, <2>3 DEF Bind, OpGoes, Aside
    <2> QED
      BY <2>2, <2>3
  <1>6. CASE TakeResult
    <2>1. done' = done /\ op.at = "result"
      BY <1>6 DEF TakeResult
    <2>2. op' = Idle \/ op' = [op EXCEPT !.at = "report", !.verdict = run[op.run].result]
      BY <1>6 DEF TakeResult
    <2> QED
      BY <1>i, <2>1, <2>2 DEF OpType, OpGoes, HandsOn, Aside, Taken
  <1>7. CASE ListDirty
    <2>1. done' = done /\ op.at = "list"
          /\ op' = [op EXCEPT !.at = "dry", !.before = Dirty, !.plans = {f \in Dirty : RecordsAppended(f)}]
      BY <1>7 DEF ListDirty
    <2> QED
      BY <1>i, <2>1 DEF OpType, OpGoes, HandsOn, Taken
  <1>8. CASE DryRun
    <2>1. done' = done /\ op.at = "dry" /\ (op' = [op EXCEPT !.at = "call"] \/ op' = [op EXCEPT !.at = "clean"])
      BY <1>8 DEF DryRun
    <2> QED
      BY <1>i, <2>1 DEF OpType, OpGoes, HandsOn, Taken, Aside
  <1>9. CASE Await
    <2>1. done' = done /\ op.at = "wait"
          /\ op' = [op EXCEPT !.at = IF pc[op.call] = "committed" THEN "finish" ELSE "reset"]
      BY <1>9 DEF Await
    <2> QED
      BY <1>i, <2>1 DEF OpType, OpGoes, HandsOn, Aside
  <1>10. CASE Name
    <2>1. done' = done /\ op.at = "finish" /\ op' = [op EXCEPT !.at = "push", !.commit = Len(log)]
      BY <1>10 DEF Name
    <2> QED
      BY <1>i, <2>1 DEF OpType, OpGoes, HandsOn
  <1>11. CASE PushHead
    <2>1. done' = done /\ op.at = "push" /\ \E yes : op' = [op EXCEPT !.at = "receipt", !.pushed = yes]
      BY <1>11 DEF PushHead
    <2> QED
      BY <1>i, <2>1 DEF OpType, OpGoes, HandsOn
  <1>12. CASE WriteReceipt
    BY <1>12 DEF WriteReceipt, OpGoes
  <1>13. CASE Launch \/ Record \/ AllPutBack
    <2>1. done' = done /\ \E at \in Aside : op' = [op EXCEPT !.at = at]
      BY <1>13 DEF Launch, Record, AllPutBack, Aside
    <2> QED
      BY <1>i, <2>1 DEF OpType, OpGoes
  <1>14. CASE Activate \/ Stopped
    BY <1>i, <1>14 DEF Activate, Stopped, OpGoes, Aside
  <1>15. ASSUME NEW r \in Runs, Start(r) PROVE OpGoes
    <2>1. done' = done /\ op' = [op EXCEPT !.at = "launch", !.run = r]
      BY <1>15 DEF Start
    <2> QED
      BY <1>i, <1>15, <2>1 DEF OpType, OpGoes
  <1>16. ASSUME NEW force \in BOOLEAN, Stop(force) PROVE OpGoes
    <2>1. done' = done /\ (op' = op \/ op' = [op EXCEPT !.at = "stopping", !.run = rec])
      BY <1>16 DEF Stop
    <2> QED
      BY <1>i, <2>1 DEF OpType, OpGoes, Aside
  <1> QED
    BY <1>c, <1>1, <1>2, <1>3, <1>4, <1>5, <1>6, <1>7, <1>8, <1>9, <1>10, <1>11, <1>12, <1>13, <1>14, <1>15, <1>16
       DEF HandedNext, Command, HandOver, Restores

LEMMA RestoresMove ==
    ASSUME Inv, Restores
    PROVE  /\ UNCHANGED <<for, bound, run, harm, log, moves, scene, pc>>
           /\ op'.moves \in {0, op.moves} /\ \A r \in Runs : Done(r)' => Done(r)
           /\ \/ op'.at \in {"idle", "put back"}
              \/ op.at = "report" /\ op'.at = "list" /\ op'.run = op.run /\ op'.moves = op.moves /\ done' = done
  <1> USE DEF Inv, OpOK, During, Goal, Rests
  <1>i. Idle.at = "idle" /\ Idle.moves = 0 /\ op \in OpType
    BY DEF Idle
  <1>0. UNCHANGED <<for, bound, run, harm, log, moves, scene, pc>>
    BY RestoreMoves DEF attest, Restores, WriteReport, Reset, Refuse, PutBack, NoRunTouched, runs
  <1>1. CASE WriteReport
    <2>1. op.at = "report" /\ op' = [op EXCEPT !.at = "list"] /\ done' = done
      BY <1>1 DEF WriteReport
    <2> QED
      BY <1>0, <1>i, <2>1 DEF OpType, Done
  <1>2. CASE Reset
    <2>1. op' = [op EXCEPT !.at = "put back", !.left = Dirty' \ op.before] /\ done' = done
      BY <1>2 DEF Reset
    <2> QED
      BY <1>0, <1>i, <2>1 DEF OpType, Done
  <1>3. CASE Refuse
    <2>1. op' = Idle /\ done' = [done EXCEPT ![op.run] = [NoHandoff EXCEPT !.state = "refused"]]
      BY <1>3 DEF Refuse
    <2>2. \A r \in Runs : Done(r)' => Done(r)
      BY <2>1 DEF Done, NoHandoff
    <2> QED
      BY <1>0, <1>i, <2>1, <2>2
  <1>4. ASSUME NEW f \in Paths, PutBack(f)
        PROVE  op'.at = "put back" /\ op'.moves = op.moves /\ done' = done
    <2>1. op.at = "put back" /\ op' = [op EXCEPT !.left = op.left \ {f}] /\ done' = done
      BY <1>4 DEF PutBack
    <2> QED
      BY <1>i, <2>1 DEF OpType
  <1> QED
    BY <1>0, <1>1, <1>2, <1>3, <1>4 DEF Restores, Done

LEMMA CallMoves ==
    ASSUME Inv, NEW p \in Procs, CallAttest(p)
    PROVE  /\ op.at = "call" /\ op'.at = "wait" /\ op'.call = p /\ op'.run = op.run /\ op'.moves = op.moves
           /\ UNCHANGED <<run, bound, done, log, moves, harm>> /\ for' = [for EXCEPT ![p] = op.run]
  <1>1. op.at = "call" /\ op' = [op EXCEPT !.at = "wait", !.call = p] /\ op \in OpType
    BY DEF CallAttest, During, Inv, OpOK
  <1> QED
    BY <1>1 DEF CallAttest, During, NoRunTouched, runs, git, OpType

(* What a handoff knows where it is.                                        *)
LEMMA OpKnowsStep ==
    ASSUME Inv, OpKnows, [HandedNext]_all
    PROVE  OpKnows'
  <1>0. moves \in Nat /\ op.moves \in Nat /\ op.run \in Runs \cup {0} /\ op.at \in Stations /\ 0 <= moves
    BY DEF Inv, HandoffInv, TypeOK, PlaceOK, OpOK, OpType
  <1> USE DEF OpKnows, Underway, Taken
  <1>1. ASSUME NEW p \in Called, Attests(p) PROVE OpKnows'
    <2>1. UNCHANGED <<op, done, moves>>
      BY <1>1 DEF Attests, handing, Attesting, ReadHead, ReadFile, Decide, TakeLock, CheckIndex, OpenShard, AppendLine,
         SameFile, RenameIndex, Hooks, UpdateRef, Die, OnlyAt
    <2> QED
      BY <2>1 DEF Done
  <1>2. CASE User /\ UNCHANGED <<runs, handing, harm>>
    <2>1. UNCHANGED <<op, done>> /\ moves' = moves + 1
      BY <1>2 DEF handing, User, Commit, Unlock, Edit, Save, Remove, Stage, StagePart, Moves
    <2> QED
      BY <1>0, <2>1 DEF Done
  <1>3. CASE Restores
    <2>1. /\ moves' = moves /\ op'.moves \in {0, op.moves}
          /\ \/ op'.at \in {"idle", "put back"}
             \/ op.at = "report" /\ op'.at = "list" /\ op'.run = op.run /\ done' = done
      BY <1>3, RestoresMove
    <2>2. op'.moves <= moves'
      <3>1. op.moves <= moves
        OBVIOUS
      <3> HIDE DEF OpKnows
      <3> QED
        BY <1>0, <2>1, <3>1
    <2> QED
      BY <2>1, <2>2 DEF Done
  <1>4. ASSUME NEW p \in Procs, CallAttest(p) PROVE OpKnows'
    <2>1. /\ op.at = "call" /\ op'.at = "wait" /\ op'.call = p /\ op'.run = op.run /\ op'.moves = op.moves
          /\ moves' = moves /\ done' = done
      BY <1>4, CallMoves
    <2> QED
      BY <2>1 DEF Done
  <1>5. CASE UNCHANGED vars /\ ~Restores
    <2>0. moves' = moves /\ OpGoes
      BY <1>5, CommandGoes DEF vars
    <2>1. CASE op' = op /\ done' = done
      BY <2>0, <2>1 DEF Done
    <2>2. CASE op'.at \in Aside /\ op'.moves \in {0, op.moves}
      BY <1>0, <2>0, <2>2 DEF Aside
    <2>3. CASE Looks /\ done' = done
      BY <1>0, <2>0, <2>3 DEF Looks, Done
    <2>4. CASE HandsOn /\ done' = done
      BY <2>0, <2>4 DEF HandsOn, Done, Binds
    <2>5. CASE op' = Idle
      BY <1>0, <2>0, <2>5 DEF Idle
    <2>6. CASE op'.at = "launch" /\ op'.moves = op.moves
      BY <2>0, <2>6
    <2> QED
      BY <2>0, <2>1, <2>2, <2>3, <2>4, <2>5, <2>6 DEF OpGoes
  <1> QED
    BY <1>1, <1>2, <1>3, <1>4, <1>5, Steps

LEMMA BoundSinceStep ==
    ASSUME Inv, TruthInv, BoundSince, [HandedNext]_all
    PROVE  BoundSince'
  <1>0. Len(log) \in Nat /\ Len(log) >= 1 /\ bound \in [Runs -> Nat] /\ run \in [Runs -> RunType]
    BY DEF Inv, HandoffInv, TypeOK, StoreOK, TruthInv, RunOK
  <1>1. ASSUME NEW s \in Runs, Start(s) PROVE BoundSince'
    <2>1. run' = run /\ bound' = [bound EXCEPT ![s] = Len(log)] /\ op.at = "idle"
      BY <1>1 DEF Start, During
    <2>2. op' = [op EXCEPT !.at = "launch", !.run = s] /\ op \in OpType
      BY <1>1 DEF Start, Inv, OpOK
    <2> QED
      BY <1>0, <2>1, <2>2 DEF BoundSince, OpType
  <1>2. CASE Launch
    <2>1. op.at = "launch" /\ bound' = bound /\ op'.at = "record" /\ op \in OpType
          /\ run' = [run EXCEPT ![op.run].phase = scene.phase, ![op.run].sup = "young"]
      BY <1>2 DEF Launch, During, Goal, Launched, Inv, OpOK, OpType
    <2>2. \A r \in Runs : r # op.run => run'[r] = run[r]
      BY <1>0, <2>1
    <2> QED
      BY <2>1, <2>2 DEF BoundSince
  <1>3. CASE ~Launch /\ \A s \in Runs : ~Start(s)
    <2>1. bound' = bound
      BY <1>3 DEF HandedNext, Attested, KillCommand, NoRunTouched, Supervised, runs, all, Command, HandOver, Launch, Start,
         Record, Activate, Stop, Stopped, Look, Recognise, Bind, TakeResult, ListDirty, DryRun, Await, AllPutBack,
         Name, PushHead, WriteReceipt, WriteReport, Reset, Refuse, PutBack, CallAttest
    <2>2. \A r \in Runs : run'[r].sup # "none" => run[r].sup # "none"
      BY <1>3, RunsStay
    <2>3. op' = op \/ op'.at # "launch"
      <3>1. CASE UNCHANGED vars /\ ~Restores
        BY <1>3, <3>1, CommandGoes DEF OpGoes, Aside, Looks, HandsOn, Binds, Taken, Idle
      <3>2. CASE Restores
        BY <3>2, RestoresMove
      <3>3. ASSUME NEW p \in Procs, CallAttest(p) PROVE op'.at # "launch"
        BY <3>3, CallMoves
      <3> QED
        BY <3>1, <3>2, <3>3, Steps DEF Attests, handing
    <2> QED
      BY <2>1, <2>2, <2>3 DEF BoundSince
  <1> QED
    BY <1>1, <1>2, <1>3

(* Who has committed had done so, or does it now.                           *)
LEMMA AttestStays ==
    ASSUME Inv, Begun, NEW p \in Called, Attests(p)
    PROVE  /\ UNCHANGED <<scene, moves, op, for, done, bound, run, harm>> /\ p \in Procs
           /\ pc[p] \notin {"uncalled"} \cup Ends
           /\ \A q \in Procs \ {p} : pc'[q] = pc[q]
           /\ \/ log' = log /\ pc'[p] # "committed"
              \/ UpdateRef(p) /\ log' # log /\ pc'[p] = "committed"
  <1>1. p \in Procs /\ Attesting(p) /\ UNCHANGED <<op, for, done, bound, run, harm>>
    BY DEF Attests, runs, handing, Inv, HandoffInv, TypeOK, CallsOK
  <1>2. AttestMoves(p)
    BY <1>1, AttestingMoves
  <1> QED
    BY <1>1, <1>2, CommitIsRef DEF AttestMoves

LEMMA OthersStay ==
    ASSUME Inv, TruthInv, harm \in Nat, [HandedNext]_all
    PROVE  /\ User => UNCHANGED <<scene, pc>> /\ moves' = moves + 1
           /\ Restores \/ UNCHANGED vars => UNCHANGED <<scene, pc, log, moves, for>>
           /\ \A p \in Procs : CallAttest(p) =>
                  /\ pc[p] = "uncalled" /\ pc'[p] = "head" /\ for'[p] = op.run
                  /\ \A q \in Procs \ {p} : pc'[q] = pc[q] /\ for'[q] = for[q]
                  /\ Called' = Called \cup {p} /\ UNCHANGED <<log, moves, harm>>
  <1>1. User => UNCHANGED <<scene, pc>> /\ moves' = moves + 1
    BY DEF User, Commit, Unlock, Edit, Save, Remove, Stage, StagePart, Moves, attest
  <1>2. Restores => UNCHANGED <<scene, pc, log, moves, for>>
    BY RestoresMove
  <1>3. UNCHANGED vars => UNCHANGED <<scene, pc, log, moves, for>>
    BY OpMoves DEF vars, attest, git
  <1>4. ASSUME NEW p \in Procs, CallAttest(p)
        PROVE  /\ pc[p] = "uncalled" /\ pc'[p] = "head" /\ for'[p] = op.run
               /\ \A q \in Procs \ {p} : pc'[q] = pc[q] /\ for'[q] = for[q]
               /\ Called' = Called \cup {p} /\ UNCHANGED <<log, moves, harm>>
    BY <1>4, CallAttestBegins, CallMoves DEF TruthInv, RunOK
  <1> QED
    BY <1>1, <1>2, <1>3, <1>4

LEMMA CommittedNow ==
    ASSUME Inv, TruthInv, Begun, harm \in Nat, [HandedNext]_all, NEW q \in Procs, Committed(q)'
    PROVE  \/ Committed(q) /\ for'[q] = for[q]
           \/ q \in Called /\ Attests(q) /\ UpdateRef(q) /\ log' # log /\ for' = for /\ for[q] # 0
  <1>1. ASSUME NEW p \in Called, Attests(p), p # q PROVE Committed(q) /\ for'[q] = for[q]
    BY <1>1, AttestStays DEF Committed
  <1>2. ASSUME q \in Called, Attests(q) PROVE UpdateRef(q) /\ log' # log /\ for' = for /\ for[q] # 0
    BY <1>2, AttestStays DEF Committed
  <1>3. CASE User /\ UNCHANGED <<runs, handing, harm>>
    BY <1>3, OthersStay DEF Committed, handing
  <1>4. CASE Restores \/ UNCHANGED vars
    BY <1>4, OthersStay DEF Committed
  <1>5. ASSUME NEW p \in Procs, CallAttest(p) PROVE Committed(q) /\ for'[q] = for[q]
    BY <1>5, OthersStay DEF Committed
  <1> QED
    BY <1>1, <1>2, <1>3, <1>4, <1>5, Steps

LEMMA CommitsAfterStep ==
    ASSUME Inv, TruthInv, Begun, harm \in Nat, CommitsAfter, [HandedNext]_all
    PROVE  CommitsAfter'
  <1> SUFFICES ASSUME NEW q \in Procs, Committed(q)' PROVE Len(log') > bound'[for'[q]]
    BY DEF CommitsAfter
  <1>0. LogKeeps /\ Len(log) \in Nat /\ Len(log') \in Nat
    BY LogGrows, InvStep DEF Inv, HandoffInv, TypeOK, StoreOK
  <1>1. for[q] # 0 => bound'[for[q]] = bound[for[q]] /\ bound[for[q]] \in Nat /\ bound[for[q]] <= Len(log)
    BY LogFacts, BoundStays
  <1>2. CASE Committed(q) /\ for'[q] = for[q]
    BY <1>0, <1>1, <1>2 DEF CommitsAfter, Committed, LogKeeps
  <1>3. CASE q \in Called /\ UpdateRef(q) /\ log' # log /\ for' = for /\ for[q] # 0
    BY <1>0, <1>1, <1>3, CommitShows
  <1> QED
    BY <1>2, <1>3, CommittedNow

LEMMA WitnessedStep ==
    ASSUME Inv, TruthInv, Begun, harm \in Nat, OpKnows, Witnessed, [HandedNext]_all
    PROVE  Witnessed'
  <1> DEFINE Seen == \/ \E i \in DOMAIN log, r \in Runs : LinesOf(i, r) # {}
                     \/ \E r \in Runs : Done(r)
                     \/ op.at \in {"finish", "push", "receipt"}
             Some == \E q \in Procs : pc[q] = "committed"
  <1>0. Witnessed = (moves = 0 /\ Seen => Some)
    BY DEF Witnessed
  <1>l. for' = for /\ log' = log => \A i \in DOMAIN log, r \in Runs : LinesOf(i, r)' = LinesOf(i, r)
    BY DEF LinesOf, LinesFor
  <1> SUFFICES ASSUME moves' = 0, Seen' PROVE Some'
    BY DEF Witnessed
  <1>1. ASSUME NEW p \in Called, Attests(p) PROVE Some'
    <2>1. /\ moves' = moves /\ done' = done /\ op' = op /\ for' = for /\ p \in Procs
          /\ pc[p] \notin Ends /\ \A q \in Procs \ {p} : pc'[q] = pc[q]
          /\ log' = log \/ pc'[p] = "committed"
      BY <1>1, AttestStays
    <2>2. CASE log' = log
      BY <1>0, <1>l, <2>1, <2>2 DEF Done, Ends
    <2> QED
      BY <2>1, <2>2
  <1>2. ~User
    BY OthersStay DEF Inv, HandoffInv, TypeOK, PlaceOK
  <1>3. CASE Restores
    <2>1. UNCHANGED <<for, log, moves, pc>> /\ (\A r \in Runs : Done(r)' => Done(r)) /\ op'.at \notin {"finish", "push", "receipt"}
      BY <1>3, RestoresMove
    <2> QED
      BY <1>0, <1>l, <2>1
  <1>4. ASSUME NEW p \in Procs, CallAttest(p) PROVE Some'
    <2>1. /\ op'.at = "wait" /\ UNCHANGED <<done, log, moves>> /\ pc[p] = "uncalled"
          /\ \A q \in Procs \ {p} : pc'[q] = pc[q] /\ for'[q] = for[q]
      BY <1>4, CallMoves, OthersStay
    <2>2. ASSUME NEW i \in DOMAIN log, NEW r \in Runs PROVE LinesOf(i, r)' = LinesOf(i, r)
      <3> DEFINE c == Lines(log[i].tree[Shard])
      <3>1. c \in Content /\ Spoken(c)
        BY KeptLog, BaseOfKept, BaseIsContent, ContentIsSpoken, Shard \in Paths DEF Paths
      <3>2. \A j \in DOMAIN c : c[j].kind = "review" /\ c[j].by \in Procs => for'[c[j].by] = for[c[j].by]
        BY <2>1, <3>1 DEF Spoken
      <3> QED
        BY <2>1, <3>2 DEF LinesOf, LinesFor
    <2> QED
      BY <1>0, <2>1, <2>2 DEF Done
  <1>5. CASE UNCHANGED vars /\ ~Restores
    <2>1. UNCHANGED <<for, log, moves, pc>> /\ OpGoes
      BY <1>5, OthersStay, CommandGoes
    <2>2. Seen \/ Some
      <3>1. CASE \E i \in DOMAIN log, r \in Runs : LinesOf(i, r)' # {}
        BY <1>l, <2>1, <3>1
      <3>2. CASE \E r \in Runs : Done(r)'
        <4>1. PICK r \in Runs : Done(r)'
          BY <3>2
        <4>2. CASE done' = done
          BY <4>1, <4>2 DEF Done
        <4>3. CASE op.at = "receipt"
          BY <4>3
        <4> QED
          BY <2>1, <4>2, <4>3 DEF OpGoes
      <3>3. CASE op'.at \in {"finish", "push", "receipt"}
        <4>1. CASE op' = op
          BY <3>3, <4>1
        <4>2. CASE Looks
          BY <3>3, <4>2 DEF Looks
        <4>3. CASE HandsOn
          <5>1. CASE op.at = "recognise" /\ CommittedAttest(op.run)
            <6>1. op.run \in Runs /\ Len(log) \in DOMAIN log
              BY <5>1, LogFacts DEF OpKnows, Underway
            <6>2. LinesOf(Len(log), op.run) # {}
              BY <5>1 DEF CommittedAttest, LinesOf, HeadTree
            <6> QED
              BY <6>1, <6>2
          <5>2. CASE op.at = "wait" /\ pc[op.call] = "committed"
            BY <2>1, <5>2 DEF OpKnows
          <5> QED
            BY <3>3, <4>3, <5>1, <5>2 DEF HandsOn, Binds, Taken
        <4> QED
          BY <2>1, <3>3, <4>1, <4>2, <4>3 DEF OpGoes, Aside, Idle
      <3> QED
        BY <2>1, <3>1, <3>2, <3>3
    <2> QED
      BY <1>0, <2>1, <2>2
  <1> QED
    BY <1>1, <1>2, <1>3, <1>4, <1>5, Steps

(* No attest of a run is called or goes on beside the one that committed.   *)
LEMMA CalledOnceStep ==
    ASSUME Inv, TruthInv, CalmInv, CommitsAfter, CalledOnce, Calm, [HandedNext]_all
    PROVE  CalledOnce'
  <1>a. Begun /\ harm \in Nat /\ OneAtATime
    BY DEF CalmInv
  <1>1. ASSUME NEW p \in Called, Attests(p) PROVE CalledOnce'
    <2>1. /\ UNCHANGED <<op, for>> /\ p \in Procs /\ pc[p] \notin {"uncalled"} \cup Ends
          /\ \A q \in Procs \ {p} : pc'[q] = pc[q]
      BY <1>a, <1>1, AttestStays
    <2>2. \A s \in Procs : Unended(s)' => Unended(s)
      BY <2>1 DEF Unended
    <2>3. ASSUME for[p] # 0, pc'[p] = "committed"
          PROVE  (\A s \in Procs : Unended(s)' => for[s] # for[p]) /\ ~(op.at \in Taken /\ op.run = for[p])
      <3>1. Unended(p) /\ ~Unended(p)'
        BY <2>1, <2>3 DEF Unended, Ends
      <3>2. op.at \in Taken => op.at \in Bound /\ ~Awaited(p)
        BY DEF Bound, Awaited, Taken
      <3> QED
        BY <1>a, <2>1, <2>2, <3>1, <3>2 DEF OneAtATime
    <2> QED
      BY <2>1, <2>2, <2>3 DEF CalledOnce, Committed
  <1>2. CASE User /\ UNCHANGED <<runs, handing, harm>>
    <2>1. UNCHANGED <<pc, for, op>>
      BY <1>a, <1>2, OthersStay DEF handing
    <2> QED
      BY <2>1 DEF CalledOnce, Committed, Unended
  <1>3. CASE Restores
    <2>1. UNCHANGED <<pc, for>> /\ (op'.at \in Taken => op.at \in Taken /\ op'.run = op.run)
      BY <1>3, RestoresMove DEF Taken
    <2> QED
      BY <2>1 DEF CalledOnce, Committed, Unended
  <1>4. ASSUME NEW p \in Procs, CallAttest(p) PROVE CalledOnce'
    <2>1. /\ op.at \in Taken /\ op'.at \notin Taken /\ pc[p] = "uncalled" /\ pc'[p] = "head" /\ for'[p] = op.run
          /\ \A q \in Procs \ {p} : pc'[q] = pc[q] /\ for'[q] = for[q]
      BY <1>a, <1>4, OthersStay, CallMoves DEF Taken
    <2>2. \A q \in Procs : Committed(q)' => q # p /\ Committed(q) /\ for'[q] = for[q]
      BY <2>1 DEF Committed
    <2>3. \A s \in Procs \ {p} : Unended(s)' => Unended(s) /\ for'[s] = for[s]
      BY <2>1 DEF Unended
    <2> QED
      BY <2>1, <2>2, <2>3 DEF CalledOnce
  <1>5. CASE UNCHANGED vars /\ ~Restores
    <2>1. UNCHANGED <<pc, for>> /\ OpGoes
      BY <1>a, <1>5, OthersStay, CommandGoes
    <2>2. ASSUME NEW q \in Procs, Committed(q), op'.at \in Taken, op'.run = for[q] PROVE FALSE
      <3>1. CASE op.at \in Taken /\ op'.run = op.run
        BY <2>2, <3>1 DEF CalledOnce
      <3>2. CASE Binds
        <4>1. Len(log) > bound[for[q]] /\ Len(log) = bound[for[q]]
          BY <2>2, <3>2 DEF Binds, CommitsAfter
        <4> QED
          BY <4>1, LogFacts
      <3> QED
        BY <2>1, <2>2, <3>1, <3>2 DEF OpGoes, Aside, Looks, HandsOn, Taken, Idle
    <2> QED
      BY <2>1, <2>2 DEF CalledOnce, Committed, Unended
  <1> QED
    BY <1>1, <1>2, <1>3, <1>4, <1>5, Steps

(* Where a handoff stands, with nobody else at work: an attest of its run   *)
(* is the one it waits for, and none goes on once it has seen the commit.   *)
LEMMA AheadAttest ==
    ASSUME Inv, TruthInv, CalmInv, OpKnows, Witnessed, CalledOnce, Ahead, Calm, NEW p \in Called, Attests(p)
    PROVE  Ahead'
  <1>a. Begun /\ harm \in Nat /\ OneAtATime /\ Left
    BY DEF CalmInv
  <1>b. /\ UNCHANGED <<scene, moves, op, for, done, bound, harm>> /\ p \in Procs
        /\ pc[p] \notin {"uncalled"} \cup Ends /\ \A q \in Procs \ {p} : pc'[q] = pc[q]
    BY <1>a, AttestStays
  <1>c. CASE log' = log /\ pc'[p] # "committed"
    <2>1. \A q \in Procs : pc'[q] = "committed" <=> pc[q] = "committed"
      BY <1>b, <1>c DEF Ends
    <2>2. op.at = "wait" => op.call \in Procs
      BY DEF OpKnows
    <2>3. \A i, r : LinesOf(i, r)' = LinesOf(i, r)
      BY <1>b, <1>c DEF LinesOf, LinesFor
    <2> QED
      BY <1>b, <1>c, <2>1, <2>2, <2>3 DEF Ahead, AtBound, Fresh, Done, Undisturbed, Called, job
  <1>d. CASE UpdateRef(p) /\ log' # log /\ pc'[p] = "committed"
    <2> SUFFICES ASSUME Undisturbed(op.run), op.at \in Taken \cup {"wait", "finish", "push"}
                 PROVE  op.at = "wait" /\ op.call = p /\ Fresh'
      BY <1>b, <1>d DEF Ahead, Undisturbed, Called, job, Taken
    <2>1. for[p] = op.run /\ op.run \in Runs /\ op.run # 0
      BY CodexAssumption DEF Undisturbed, OpKnows, Underway
    <2>2. Unended(p)
      BY <1>b, <2>1 DEF Unended
    <2>3. op.at \notin Taken
      BY <1>a, <1>b, <2>1, <2>2 DEF OneAtATime, Bound, Awaited, Taken
    <2>4. op.at \notin {"finish", "push"}
      <3> SUFFICES ASSUME op.at \in {"finish", "push"} PROVE FALSE
        OBVIOUS
      <3>1. harm # 0
        BY <1>a, <1>b, <2>2 DEF Left, Awaited
      <3>2. PICK q \in Procs : pc[q] = "committed"
        BY <3>1 DEF Calm, Witnessed
      <3>3. q \in Called
        BY <3>2 DEF Inv, HandoffInv, TypeOK, PlaceOK
      <3>4. for[q] = op.run
        BY <3>3 DEF Undisturbed
      <3> QED
        BY <1>b, <2>1, <2>2, <3>2, <3>4 DEF CalledOnce, Committed
    <2>5. op.at = "wait" /\ Awaited(p)
      BY <1>a, <1>b, <2>1, <2>2, <2>3, <2>4 DEF OneAtATime, Bound
    <2>6. AtBound
      BY <1>b, <2>5 DEF Ahead, Awaited, Ends
    <2>7. Len(log') = Len(log) + 1 /\ LinesOf(Len(log), for[p])' # {}
      BY <1>b, <1>d, <2>1, CommitShows
    <2>8. Fresh'
      BY <1>b, <2>1, <2>6, <2>7 DEF Fresh, AtBound
    <2> QED
      BY <2>5, <2>8 DEF Awaited
  <1> QED
    BY <1>a, <1>c, <1>d, AttestStays

LEMMA AheadCall ==
    ASSUME Inv, TruthInv, CalmInv, Ahead, [HandedNext]_all, NEW p \in Procs, CallAttest(p)
    PROVE  Ahead'
  <1>1. /\ op.at \in Taken /\ op'.at = "wait" /\ op'.call = p /\ op'.run = op.run /\ op'.moves = op.moves
        /\ pc[p] = "uncalled" /\ pc'[p] = "head" /\ UNCHANGED <<bound, log, moves>>
        /\ \A q \in Procs \ {p} : for'[q] = for[q]
        /\ Called' = Called \cup {p}
    BY OthersStay, CallMoves DEF CalmInv, Taken
  <1>2. p \notin Called /\ Called \subseteq Procs
    BY <1>1 DEF CalmInv, Begun, Inv, HandoffInv, TypeOK, CallsOK
  <1>3. Undisturbed(op.run)' => Undisturbed(op.run)
    BY <1>1, <1>2 DEF Undisturbed
  <1>4. AtBound => AtBound'
    BY <1>1 DEF AtBound
  <1> QED
    BY <1>1, <1>3, <1>4 DEF Ahead, Taken

LEMMA AheadMoves ==
    ASSUME Inv, TruthInv, CalmInv, OpKnows, BoundSince, Ahead, [HandedNext]_all, UNCHANGED vars, ~Restores
    PROVE  Ahead'
  <1>0. UNCHANGED <<scene, pc, log, moves, for>> /\ OpGoes
    BY OthersStay, CommandGoes DEF CalmInv
  <1>1. op.at # "idle" => bound' = bound
    BY BoundMoves
  <1>2. \A i, r : LinesOf(i, r)' = LinesOf(i, r)
    BY <1>0 DEF LinesOf, LinesFor
  <1>3. op'.moves = op.moves /\ op'.run = op.run => Undisturbed(op.run)' = Undisturbed(op.run)
    BY <1>0 DEF Undisturbed, Called, job
  <1>4. /\ op'.run = op.run /\ op.at # "idle" /\ AtBound => AtBound'
        /\ op'.run = op.run /\ op.at # "idle" /\ Fresh => Fresh'
    BY <1>0, <1>1, <1>2 DEF AtBound, Fresh
  <1>5. op.at \in {"recognise", "bind"} => bound[op.run] >= 1
    BY DEF TruthInv, InHand, Settled, BoundSince
  <1>6. CASE op' = op /\ done' = done
    BY <1>0, <1>3, <1>4, <1>6 DEF Ahead, Done, Taken
  <1>7. CASE Looks /\ done' = done
    BY <1>0, <1>7 DEF Looks, Ahead, Done, Taken, ItsCommitIsHead
  <1>8. CASE HandsOn /\ done' = done
    <2>1. op'.run = op.run /\ op'.moves = op.moves
      BY <1>8 DEF HandsOn
    <2>2. CASE op'.at \in {"bind", "receipt"}
      BY <2>2 DEF Ahead, Taken
    <2>3. CASE op.at = "recognise" /\ op'.at = "finish" /\ CommittedAttest(op.run)
      <3>1. Fresh
        BY <1>5, <2>3 DEF Fresh, CommittedAttest, LinesOf, HeadTree
      <3> QED
        BY <1>4, <2>1, <2>3, <3>1 DEF Ahead, Taken
    <2>4. CASE Binds
      <3>1. AtBound /\ op.at = "bind" /\ op'.at = "result"
        BY <1>5, <2>4 DEF Binds, AtBound
      <3> QED
        BY <1>4, <2>1, <3>1 DEF Ahead, Taken
    <2>5. CASE op.at \in Taken /\ op'.at \in Taken
      BY <1>3, <1>4, <2>1, <2>5 DEF Ahead, Taken
    <2>6. CASE op.at = "wait" /\ op'.at = "finish" /\ pc[op.call] = "committed"
      BY <1>3, <1>4, <2>1, <2>6 DEF Ahead, Taken
    <2>7. CASE op.at = "finish" /\ op'.at = "push"
      BY <1>3, <1>4, <1>8, <2>1, <2>7 DEF Ahead, Taken, Done, OpKnows, Underway
    <2> QED
      BY <1>8, <2>2, <2>3, <2>4, <2>5, <2>6, <2>7 DEF HandsOn
  <1>9. CASE op'.at \in Aside \cup {"launch"}
    BY <1>9 DEF Ahead, Aside, Taken
  <1> QED
    BY <1>0, <1>6, <1>7, <1>8, <1>9 DEF OpGoes, Aside, Idle

LEMMA PushStep == Inv /\ TruthInv /\ CalmInv /\ PushInv /\ [HandedNext]_all => PushInv'
  <1> SUFFICES ASSUME Inv, TruthInv, CalmInv, PushInv, [HandedNext]_all PROVE PushInv'
    OBVIOUS
  <1> USE DEF PushInv
  <1>a. Begun /\ harm \in Nat /\ op.moves \in Nat /\ OpKnows /\ BoundSince
    BY DEF CalmInv, Inv, OpOK, OpType
  <1>1. OpKnows' /\ BoundSince' /\ CommitsAfter' /\ Witnessed'
    BY <1>a, OpKnowsStep, BoundSinceStep, CommitsAfterStep, WitnessedStep
  <1>2. ASSUME Calm' PROVE CalledOnce' /\ Ahead'
    <2>1. Calm /\ CalledOnce /\ Ahead /\ moves \in Nat
      BY <1>a, <1>2, CalmBefore
    <2>2. CalledOnce'
      BY <2>1, CalledOnceStep
    <2>3. ASSUME NEW p \in Called, Attests(p) PROVE Ahead'
      BY <2>1, <2>3, AheadAttest
    <2>4. CASE User /\ UNCHANGED <<runs, handing, harm>>
      <3>1. moves' = moves + 1 /\ op' = op /\ op.moves <= moves
        BY <1>a, <2>4, OthersStay DEF handing, OpKnows
      <3>2. ~Undisturbed(op.run)'
        BY <1>a, <2>1, <3>1 DEF Undisturbed
      <3> QED
        BY <2>2, <3>1, <3>2 DEF Ahead
    <2>5. CASE Restores
      <3>1. /\ UNCHANGED <<scene, moves, for, log, bound>>
            /\ \/ op'.at \in {"idle", "put back"}
               \/ op.at = "report" /\ op'.at = "list" /\ op'.run = op.run /\ op'.moves = op.moves
        BY <2>5, RestoresMove
      <3> QED
        BY <2>1, <2>2, <3>1 DEF Ahead, Undisturbed, AtBound, Taken, Called, job
    <2>6. ASSUME NEW p \in Procs, CallAttest(p) PROVE Ahead'
      BY <2>1, <2>6, AheadCall
    <2>7. CASE UNCHANGED vars /\ ~Restores
      BY <1>a, <2>1, <2>2, <2>7, AheadMoves
    <2> QED
      BY <2>2, <2>3, <2>4, <2>5, <2>6, <2>7, Steps
  <1> QED
    BY <1>1, <1>2

LEMMA PushInit == HandedInit => PushInv
  <1> SUFFICES ASSUME HandedInit PROVE PushInv
    OBVIOUS
  <1> USE DEF HandedInit, Init
  <1>0. /\ \A p \in Procs : for[p] = 0
        /\ op = Idle /\ op.at = "idle" /\ op.moves = 0 /\ 0 \notin Runs /\ moves = 0
        /\ \A r \in Runs : ~Done(r)
    BY CodexAssumption DEF Idle, Done, NoHandoff
  <1>1. OpKnows
    BY <1>0 DEF OpKnows, Underway, Taken
  <1>2. BoundSince
    BY <1>0 DEF BoundSince, Unlaunched
  <1>3. \A i, r : r \in Runs => LinesOf(i, r) = {}
    BY <1>0 DEF LinesOf, LinesFor
  <1>4. CommitsAfter /\ CalledOnce
    BY <1>0 DEF CommitsAfter, CalledOnce, Committed
  <1>5. Witnessed
    BY <1>0, <1>3 DEF Witnessed
  <1>6. Ahead
    BY <1>0 DEF Ahead, Taken
  <1> QED
    BY <1>1, <1>2, <1>4, <1>5, <1>6 DEF PushInv

(* Whatever else of handoffs and attests was killed, left behind or taken   *)
(* up again: as long as nobody else is at work in the worktree since it     *)
(* looked, a handoff pushes the commit right after the head its run was     *)
(* reviewed at, and that one attests the run; or the commit it named then.  *)
THEOREM PushesWhatItReviewed == HandedSpec => PushesOnlyItsReview
  <1> DEFINE Pushes ==
          origin' # origin /\ Undisturbed(op.run) /\ (harm = 0 \/ moves = 0) =>
              IF done[op.run].state = "attested" THEN origin' = done[op.run].commit
              ELSE AttestedBy(origin', op.run) /\ ~AttestedBy(origin' - 1, op.run)
  <1>1. HandedInit => Inv /\ TruthInv /\ CalmInv /\ PushInv
    BY HandedInitInv, TruthInit, CalmInit, PushInit
  <1>2. (Inv /\ TruthInv /\ CalmInv /\ PushInv) /\ [HandedNext]_all => (Inv /\ TruthInv /\ CalmInv /\ PushInv)'
    BY InvStep, TruthStep, CalmStep, PushStep
  <1>3. Inv /\ TruthInv /\ CalmInv /\ PushInv /\ [HandedNext]_all => Pushes
    <2> SUFFICES ASSUME Inv, TruthInv, PushInv, [HandedNext]_all, origin' # origin, Undisturbed(op.run), Calm
                 PROVE  IF done[op.run].state = "attested" THEN origin' = done[op.run].commit
                        ELSE AttestedBy(origin', op.run) /\ ~AttestedBy(origin' - 1, op.run)
      BY DEF Calm
    <2>1. op.at = "push" /\ origin' = Len(log)
      BY DEF HandedNext, Attested, KillCommand, Supervised, handing, all, Command, HandOver, Launch, Record,
         Activate, Start, Stop, Stopped, Look, Recognise, Bind, TakeResult, ListDirty, DryRun, Await, AllPutBack,
         Name, PushHead, WriteReceipt, WriteReport, Reset, Refuse, PutBack, CallAttest, During
    <2>2. IF Done(op.run) THEN Len(log) = done[op.run].commit ELSE Fresh
      BY <2>1 DEF PushInv, Ahead
    <2>3. CASE Done(op.run)
      BY <2>1, <2>2, <2>3 DEF Done
    <2>4. CASE ~Done(op.run)
      <3>1. op.run \in Runs
        BY <2>1 DEF PushInv, OpKnows
      <3>2. /\ bound[op.run] >= 1 /\ Len(log) = bound[op.run] + 1 /\ bound[op.run] \in Nat
            /\ LinesOf(Len(log), op.run) # {}
        BY <2>2, <2>4, <3>1, LogFacts DEF Fresh
      <3>3. Len(log) - 1 = bound[op.run] /\ bound[op.run] \in DOMAIN log
        BY <3>2 DEF Inv, HandoffInv, TypeOK, StoreOK
      <3>4. LinesOf(bound[op.run], op.run) = {}
        BY <3>1, <3>2, <3>3 DEF TruthInv, AfterItsHead
      <3> QED
        BY <2>1, <2>4, <3>2, <3>3, <3>4 DEF AttestedBy, Done
    <2> QED
      BY <2>3, <2>4
  <1> QED
    BY <1>1, <1>2, <1>3, PTL DEF HandedSpec, PushesOnlyItsReview
=============================================================================
