--------------------------- MODULE DispatchProofs ---------------------------
(***************************************************************************)
(* What holds of the workers of a host, for any number of processes,       *)
(* branches, sessions and queued lines. The invariant says where each kind *)
(* of command can be and what it has in hand there, who has which lock and *)
(* what a drain's copy of the queue is worth, which session a record may   *)
(* name - and, when nobody intervenes, that every live session is on       *)
(* record or about to be.                                                  *)
(***************************************************************************)
EXTENDS Dispatch, SequenceTheorems, FiniteSetTheorems, WellFoundedInduction, TLAPS

Said == {"none", "working", "done", "planned", "pushed", "review-pass", "blocked"}
Tips == [plan : Nat, passed : SUBSET Nat,
         open : BOOLEAN, code : BOOLEAN, fresh : BOOLEAN, seal : BOOLEAN]
Sessions == [branch : Branches, phase : Phases, live : BOOLEAN,
             heard : BOOLEAN, over : BOOLEAN, red : Tips]

(* Where a command of each kind may be.                                     *)
Draining == {"try", "spawn", "record", "save"}
Stopping == {"kill", "unlink"}
Chaining == {"judge", "gates", "recheck", "stop", "queue", "drain"} \cup Stopping
AtHand == {"gates", "recheck", "stop", "queue", "word"} \cup Stopping
Places(kind) ==
    {"idle", "ended"} \cup
    CASE kind = "tick"   -> Chaining \cup Draining
      [] kind = "drain"  -> Draining
      [] kind = "start"  -> {"spawn", "record", "save"}
      [] kind = "stop"   -> Stopping \cup {"word"}
      [] kind = "forget" -> {"forget"}
      [] OTHER           -> {}

TypeOK ==
    /\ setup \in Setups
    /\ session \in [Ids -> Sessions]
    /\ record \in [Branches -> Ids \cup {None}]
    /\ work \in [Branches -> [here : Tips, origin : Tips]]
    /\ word \in [Branches -> Said]
    /\ queue \in Seq(Line)
    /\ chainLock \in Procs \cup {None} /\ queueLock \in Procs \cup {None}
    /\ pc \in [Procs -> UNION {Places(kind) : kind \in {"tick", "drain", "start", "stop", "forget"}}]
    /\ \A p \in Procs : pc[p] \in Places(does(p))
    /\ judging \in [Procs -> SUBSET (Ids \X Said)]
    /\ cur \in [Procs -> Ids \cup {None}]
    /\ next \in [Procs -> Phases \cup {"end", "wait"}]
    /\ head \in [Procs -> Tips]
    /\ lines \in [Procs -> Seq(Line)] /\ entries \in [Procs -> Seq(Line)]
    /\ new \in [Procs -> Ids \cup {None}]

(* What a command has in hand where it is.                                  *)
HandInv ==
    \A p \in Procs :
        /\ pc[p] \in {"spawn", "record", "save"} => lines[p] # <<>>
        /\ new[p] # None <=> pc[p] = "record"
        /\ pc[p] \in AtHand => cur[p] # None
        /\ does(p) = "tick" /\ pc[p] \in AtHand => next[p] # "wait"
        /\ pc[p] = "queue" => next[p] # "end"

(* Who drains has the queue's lock, and holds what the queue says; a tick   *)
(* has the chain's from its first read to its last save.                    *)
LockInv ==
    \A p \in Procs :
        /\ does(p) # "start" /\ pc[p] \in Draining =>
               queueLock = p /\ entries[p] = queue
        /\ does(p) = "tick" /\ pc[p] \notin {"idle", "ended"} => chainLock = p

(* A record names a session of its own branch.                              *)
RecordInv == \A b \in Branches : record[b] # None => session[record[b]].branch = b

DispatchInv == TypeOK /\ HandInv /\ LockInv /\ RecordInv

(* Unattended, a live session is on record, or about to be; a branch whose  *)
(* line is about to start has none; and what a tick removes is the record   *)
(* of the session it has stopped.                                           *)
WorkerInv ==
    /\ \A n \in Live : record[session[n].branch] = n \/ \E p \in Procs : new[p] = n
    /\ \A p \in Procs, n \in Live :
          /\ pc[p] = "spawn" => session[n].branch # Head(lines[p]).branch
          /\ pc[p] = "record" /\ session[n].branch = session[new[p]].branch => n = new[p]
    /\ \A p \in Procs :
          /\ pc[p] \in Stopping => record[session[cur[p]].branch] = cur[p]
          /\ pc[p] = "unlink" => cur[p] \notin Live

Inv == DispatchInv /\ (Unattended => WorkerInv)

-----------------------------------------------------------------------------
(* Induction on a set of numbers, from the library's order on them.         *)

LEMMA Least ==
    ASSUME NEW T \in SUBSET Nat, T # {}
    PROVE  \E m \in T : \A k \in T : m <= k
  <1> DEFINE below == {pair \in Nat \X Nat : pair[1] < pair[2]}
  <1>1. OpToRel(<, Nat) = below
    BY Zenon DEF OpToRel
  <1>2. IsWellFoundedOn(below, Nat)
    BY <1>1, NatLessThanWellFounded, Zenon
  <1>3. \E m \in T : \A k \in T : <<k, m>> \notin below
    <2> HIDE DEF below
    <2> QED
      BY <1>2, WFMin
  <1>4. \A k, m \in Nat : <<k, m>> \notin below => m <= k
    OBVIOUS
  <1> HIDE DEF below
  <1> QED
    BY <1>3, <1>4

LEMMA Induction ==
    ASSUME NEW T \in SUBSET Nat, 0 \in T, \A i \in T : i + 1 \in T
    PROVE  T = Nat
  <1>1. SUFFICES ASSUME Nat \ T # {} PROVE FALSE
    OBVIOUS
  <1>2. PICK m \in Nat \ T : \A k \in Nat \ T : m <= k
    BY <1>1, Least
  <1>3. m - 1 \in T
    BY <1>2
  <1> QED
    BY <1>2, <1>3

(* What a drain saves once it has struck a line: the other lines.           *)
Kept(l, held, n, f) ==
    f = [i \in 0..n |-> IF i = 0 THEN <<>>
                        ELSE IF held[i] = l THEN f[i - 1] ELSE Append(f[i - 1], held[i])]

After(l, x, s) == IF x = l THEN s ELSE Append(s, x)

LEMMA KeptSteps ==
    ASSUME NEW l, NEW held, NEW n \in Nat, NEW f, Kept(l, held, n, f)
    PROVE  /\ f[0] = <<>>
           /\ \A i \in 0..n : i < n => f[i + 1] = After(l, held[i + 1], f[i])
  <1>1. f[0] = <<>>
    BY DEF Kept
  <1>2. ASSUME NEW i \in 0..n, i < n
        PROVE  f[i + 1] = After(l, held[i + 1], f[i])
    <2>1. i + 1 \in 0..n /\ i + 1 # 0 /\ (i + 1) - 1 = i
      BY <1>2
    <2> QED
      BY <2>1 DEF Kept, After
  <1> QED
    BY <1>1, <1>2

LEMMA KeptExists ==
    ASSUME NEW l, NEW held, NEW n \in Nat
    PROVE  \E f : Kept(l, held, n, f)
  <1> DEFINE T == {i \in Nat : \E f : Kept(l, held, i, f)}
  <1>1. 0 \in T
    <2> DEFINE f == [i \in 0..0 |-> <<>>]
    <2>1. Kept(l, held, 0, f)
      BY DEF Kept
    <2> QED
      BY <2>1
  <1>2. ASSUME NEW i \in T PROVE i + 1 \in T
    <2>1. PICK f : Kept(l, held, i, f)
      OBVIOUS
    <2> DEFINE g == [j \in 0..i + 1 |-> IF j \in 0..i THEN f[j] ELSE After(l, held[j], f[i])]
    <2>2. ASSUME NEW j \in 0..i + 1
          PROVE  g[j] = IF j = 0 THEN <<>>
                        ELSE IF held[j] = l THEN g[j - 1] ELSE Append(g[j - 1], held[j])
      <3>1. CASE j = 0
        BY <2>1, <3>1 DEF Kept
      <3>2. CASE j \in 0..i /\ j # 0
        <4>1. j - 1 \in 0..i /\ j - 1 \in 0..i + 1
          BY <3>2
        <4>2. g[j] = f[j] /\ g[j - 1] = f[j - 1]
          BY <3>2, <4>1
        <4>3. f[j] = IF held[j] = l THEN f[j - 1] ELSE Append(f[j - 1], held[j])
          BY <2>1, <3>2 DEF Kept
        <4> QED
          BY <3>2, <4>2, <4>3
      <3>3. CASE j = i + 1
        <4>1. /\ j \notin 0..i /\ j # 0 /\ j - 1 = i
              /\ i \in 0..i /\ i \in 0..i + 1
          BY <3>3
        <4>2. g[j] = After(l, held[j], f[i]) /\ g[j - 1] = f[i]
          BY <4>1
        <4> QED
          BY <4>1, <4>2 DEF After
      <3> QED
        BY <3>1, <3>2, <3>3
    <2>3. Kept(l, held, i + 1, g)
      BY <2>2 DEF Kept
    <2> QED
      BY <2>3
  <1>3. T = Nat
    BY <1>1, <1>2, Induction
  <1> QED
    BY <1>3

LEMMA WithoutIsTheRest ==
    ASSUME NEW S, NEW held \in Seq(S), NEW l
    PROVE  /\ Without(l, held) \in Seq(S)
           /\ \A i \in 1..Len(held) : held[i] # l =>
                 \E j \in 1..Len(Without(l, held)) : Without(l, held)[j] = held[i]
  <1> DEFINE N == Len(held)
             f == CHOOSE g : Kept(l, held, N, g)
             Good(i, s) == /\ s \in Seq(S)
                           /\ \A k \in 1..i : held[k] # l => \E j \in 1..Len(s) : s[j] = held[k]
             T == {i \in Nat : i <= N => Good(i, f[i])}
  <1>0. N \in Nat /\ \A i \in 1..N : held[i] \in S
    OBVIOUS
  <1>1. Kept(l, held, N, f)
    BY <1>0, KeptExists
  <1>2. Without(l, held) = f[N]
    BY DEF Without, Kept
  <1> HIDE DEF f, N
  <1>3. 0 \in T
    <2>1. f[0] = <<>>
      BY <1>0, <1>1, KeptSteps
    <2>2. <<>> \in Seq(S) /\ 1..0 = {}
      OBVIOUS
    <2>3. Good(0, f[0])
      BY <2>1, <2>2
    <2> QED
      BY <2>3
  <1>4. ASSUME NEW i \in T PROVE i + 1 \in T
    <2> HIDE DEF Good
    <2>0. i + 1 \in Nat
      OBVIOUS
    <2>1. SUFFICES ASSUME i + 1 <= N PROVE Good(i + 1, f[i + 1])
      BY <2>0
    <2> USE DEF Good
    <2>2. i \in Nat /\ i \in 0..N /\ i < N /\ i + 1 \in 1..N
      BY <1>0, <2>1
    <2>3. Good(i, f[i]) /\ held[i + 1] \in S
      BY <1>0, <2>2
    <2>4. f[i + 1] = After(l, held[i + 1], f[i])
      BY <1>0, <1>1, <2>2, KeptSteps
    <2>5. \A k \in 1..i + 1 : k \in 1..i \/ k = i + 1
      BY <2>2
    <2>6. CASE held[i + 1] = l
      BY <2>3, <2>4, <2>5, <2>6 DEF After
    <2>7. CASE held[i + 1] # l
      <3>1. /\ f[i + 1] \in Seq(S)
            /\ Len(f[i + 1]) = Len(f[i]) + 1
            /\ \A j \in 1..Len(f[i]) : f[i + 1][j] = f[i][j]
            /\ f[i + 1][Len(f[i]) + 1] = held[i + 1]
        BY <2>3, <2>4, <2>7, AppendProperties DEF After
      <3>2. Len(f[i]) \in Nat
        BY <2>3
      <3>3. /\ \A j \in 1..Len(f[i]) : j \in 1..Len(f[i + 1])
            /\ Len(f[i]) + 1 \in 1..Len(f[i + 1])
        BY <3>1, <3>2
      <3> QED
        BY <2>3, <2>5, <3>1, <3>3
    <2> QED
      BY <2>6, <2>7
  <1>5. T = Nat
    BY <1>3, <1>4, Induction
  <1>6. Good(N, f[N])
    BY <1>0, <1>5
  <1> QED
    BY <1>2, <1>6 DEF N

-----------------------------------------------------------------------------
(* Types.                                                                   *)

LEMMA SetupTypes ==
    ASSUME TypeOK
    PROVE  /\ setup \in Setup
           /\ \A p \in Procs : asks(p) \in Line /\ asks(p).branch \in Branches
           /\ \A p \in Procs : does(p) \in {"tick", "drain", "add", "start", "stop", "forget", "rest"}
           /\ setup.queue \in Seq(Line)
  BY SetupsAssumption DEF TypeOK, Setup, asks, does, Line

LEMMA CommitTypes ==
    ASSUME NEW t \in Tips, NEW open \in BOOLEAN
    PROVE  PlanOn(t) \in Tips /\ CodeOn(t, open) \in Tips /\ AttestOn(t) \in Tips /\ PassOn(t) \in Tips
  <1>1. t.plan \in Nat /\ t.passed \subseteq Nat /\ t.plan + 1 \in Nat
    BY DEF Tips
  <1>2. PlanOn(t) \in Tips /\ CodeOn(t, open) \in Tips
    BY <1>1 DEF Tips, PlanOn, CodeOn
  <1>3. AttestOn(t) \in Tips /\ AttestOn(t).passed = t.passed
    BY DEF Tips, AttestOn
  <1>4. t.passed \cup {t.plan} \in SUBSET Nat
    BY <1>1
  <1>5. \A s \in Tips, x \in SUBSET Nat : [s EXCEPT !.passed = x] \in Tips
    BY DEF Tips
  <1> QED
    BY <1>2, <1>3, <1>4, <1>5 DEF PassOn

LEMMA SessionTypes ==
    ASSUME TypeOK, NEW n \in Ids
    PROVE  /\ session[n] \in Sessions
           /\ session[n].branch \in Branches /\ session[n].phase \in Phases
           /\ session[n].live \in BOOLEAN
           /\ work[session[n].branch].here \in Tips /\ work[session[n].branch].origin \in Tips
           /\ ReportOf(n) \in Said
  BY DEF TypeOK, Sessions, ReportOf, Said

LEMMA HeadTypes ==
    ASSUME NEW s \in Seq(Line), s # <<>>
    PROVE  Head(s) \in Line /\ Head(s).branch \in Branches /\ Tail(s) \in Seq(Line)
  <1>1. Head(s) \in Line /\ Tail(s) \in Seq(Line)
    BY HeadTailProperties
  <1> QED
    BY <1>1 DEF Line

LEMMA NobodyTypes == \A n : Nobody(n) \in Sessions /\ ~Nobody(n).live
  <1>1. Bare \in Tips
    BY DEF Bare, Tips
  <1>2. (CHOOSE b \in Branches : TRUE) \in Branches
    BY BranchesAssumption
  <1> QED
    BY <1>1, <1>2 DEF Nobody, Sessions, Phases

LEMMA HeardTypes ==
    ASSUME TypeOK, NEW b, NEW w, NEW now
    PROVE  /\ Heard(b, w, now) \in [Ids -> Sessions]
           /\ \A n \in Ids : /\ Heard(b, w, now)[n].branch = session[n].branch
                             /\ Heard(b, w, now)[n].live = session[n].live
  <1>1. ASSUME NEW s \in Sessions, NEW x \in BOOLEAN
        PROVE  /\ [s EXCEPT !.heard = TRUE, !.over = @ \/ x] \in Sessions
               /\ [s EXCEPT !.heard = TRUE, !.over = @ \/ x].branch = s.branch
               /\ [s EXCEPT !.heard = TRUE, !.over = @ \/ x].live = s.live
    BY <1>1 DEF Sessions
  <1>2. \A n : OverOn(now, n, w) \in BOOLEAN
    BY DEF OverOn
  <1>3. \A n \in Ids : session[n] \in Sessions
    BY DEF TypeOK
  <1> QED
    BY <1>1, <1>2, <1>3 DEF Heard

LEMMA InitInv == Init => Inv
  <1> SUFFICES ASSUME Init PROVE Inv
    OBVIOUS
  <1>1. TypeOK
    <2>1. setup \in Setup /\ setup.queue \in Seq(Line) /\ setup.work \in [Branches -> Tip]
      BY SetupsAssumption DEF Init, Setup
    <2>2. Tip \subseteq Tips /\ Bare \in Tips
      BY DEF Tip, Tips, Texts, Bare
    <2>3. \A b \in Branches : setup.work[b] \in Tips
      BY <2>1, <2>2
    <2>4. session \in [Ids -> Sessions]
      BY NobodyTypes DEF Init
    <2>5. work \in [Branches -> [here : Tips, origin : Tips]]
      BY <2>3 DEF Init
    <2> QED
      BY <2>1, <2>2, <2>4, <2>5 DEF Init, TypeOK, Said, Places
  <1>2. HandInv /\ LockInv /\ RecordInv
    BY DEF Init, HandInv, LockInv, RecordInv, Draining, AtHand, Stopping
  <1>3. WorkerInv
    BY NobodyTypes DEF Init, WorkerInv, Live, Stopping
  <1> QED
    BY <1>1, <1>2, <1>3 DEF Inv, DispatchInv

-----------------------------------------------------------------------------
(* Workers.                                                                 *)

LEMMA UnattendedStays == UNCHANGED setup => (Unattended' <=> Unattended)
  BY DEF Unattended, does

(* A step that leaves dispatch alone, moves no session and starts none.     *)
LEMMA WorkerStep ==
    ASSUME Inv, session' \in [Ids -> Sessions],
           \A n \in Ids : /\ session'[n].branch = session[n].branch
                          /\ session'[n].live => session[n].live,
           work' \in [Branches -> [here : Tips, origin : Tips]],
           word' \in [Branches -> Said],
           UNCHANGED <<setup, record, queue, locks, pc, chaining, draining>>
    PROVE  Inv'
  <1> USE DEF Inv, DispatchInv, locks, chaining, draining
  <1>1. TypeOK'
    BY DEF TypeOK, does
  <1>2. HandInv' /\ LockInv'
    BY DEF HandInv, LockInv, does
  <1>3. RecordInv'
    BY DEF RecordInv, TypeOK
  <1>4. ASSUME WorkerInv PROVE WorkerInv'
    <2>1. Live' \subseteq Live
      BY DEF Live
    <2>2. \A p \in Procs : pc[p] \in Stopping => cur[p] \in Ids
      BY DEF HandInv, TypeOK, AtHand
    <2>3. \A p \in Procs : pc[p] = "record" => new[p] \in Ids
      BY DEF HandInv, TypeOK
    <2> QED
      BY <1>4, <2>1, <2>2, <2>3 DEF WorkerInv, Live
  <1> QED
    BY <1>1, <1>2, <1>3, <1>4, UnattendedStays

LEMMA Pushing ==
    ASSUME TypeOK, NEW b \in Branches, NEW t \in Tips
    PROVE  /\ Pushed(b, t) \in [Branches -> [here : Tips, origin : Tips]]
           /\ [work EXCEPT ![b].here = t] \in [Branches -> [here : Tips, origin : Tips]]
  BY DEF TypeOK, Pushed

LEMMA WorkersKeepInv ==
    ASSUME Inv, NEW n \in Ids, Reports(n) \/ Works(n) \/ Exit(n)
    PROVE  Inv'
  <1> DEFINE b == session[n].branch
             Trees == [Branches -> [here : Tips, origin : Tips]]
  <1>0. TypeOK /\ b \in Branches /\ work[b].here \in Tips /\ session[n] \in Sessions
        /\ session[n].phase \in Phases /\ work \in Trees /\ word \in [Branches -> Said]
        /\ session \in [Ids -> Sessions]
    BY SessionTypes DEF Inv, DispatchInv, TypeOK
  <1>1. CASE Reports(n)
    <2>1. PICK w \in Words(session[n].phase) :
             work' = Pushed(b, Comes(n, w)) /\ Says(b, w)
      BY <1>1 DEF Reports
    <2>2. w \in Said
      BY <1>0 DEF Words, Said, Phases
    <2>3. Comes(n, w) \in Tips
      BY <1>0, CommitTypes DEF Comes
    <2>4. work' \in Trees /\ word' \in [Branches -> Said]
      BY <1>0, <2>1, <2>2, <2>3, Pushing DEF Says
    <2>5. /\ session' \in [Ids -> Sessions]
          /\ \A m \in Ids : session'[m].branch = session[m].branch /\ session'[m].live = session[m].live
      BY <1>0, <2>1, HeardTypes DEF Says
    <2> QED
      BY <1>1, <2>4, <2>5, WorkerStep DEF Reports
  <1>2. CASE Commits(n)
    <2> DEFINE t == work[b].here
    <2>1. {PlanOn(t), PassOn(t), CodeOn(t, t.open), CodeOn(t, FALSE), AttestOn(t)} \subseteq Tips
      <3>1. t.open \in BOOLEAN
        BY <1>0 DEF Tips
      <3> QED
        BY <1>0, <3>1, CommitTypes
    <2>2. PICK then \in Tips : work' = [work EXCEPT ![b].here = then]
      BY <1>2, <2>1 DEF Commits
    <2>3. work' \in Trees
      BY <1>0, <2>2, Pushing
    <2> QED
      BY <1>0, <1>2, <2>3, WorkerStep DEF Commits
  <1>3. CASE Pushes(n)
    <2>1. work' \in Trees
      BY <1>0, <1>3, Pushing DEF Pushes
    <2>2. /\ session' \in [Ids -> Sessions]
          /\ \A m \in Ids : session'[m].branch = session[m].branch /\ session'[m].live = session[m].live
      BY <1>0, <1>3, HeardTypes DEF Pushes
    <2> QED
      BY <1>0, <1>3, <2>1, <2>2, WorkerStep DEF Pushes
  <1>4. CASE Claims(n)
    <2>1. LastWord(session[n].phase) \in Said
      BY DEF LastWord, Said
    <2>2. word' \in [Branches -> Said] /\ UNCHANGED work
      BY <1>0, <1>4, <2>1 DEF Claims, Says
    <2>3. /\ session' \in [Ids -> Sessions]
          /\ \A m \in Ids : session'[m].branch = session[m].branch /\ session'[m].live = session[m].live
      BY <1>0, <1>4, HeardTypes DEF Claims, Says
    <2> QED
      BY <1>0, <1>4, <2>2, <2>3, WorkerStep DEF Claims
  <1>5. CASE Exit(n)
    <2>1. /\ session' \in [Ids -> Sessions]
          /\ \A m \in Ids : session'[m].branch = session[m].branch /\ (session'[m].live => session[m].live)
      BY <1>0, <1>5 DEF Exit, Sessions
    <2> QED
      BY <1>0, <1>5, <2>1, WorkerStep DEF Exit
  <1> QED
    BY <1>1, <1>2, <1>3, <1>4, <1>5 DEF Works

-----------------------------------------------------------------------------
(* The queue.                                                               *)

LEMMA PlacesAre ==
    /\ Places("tick") = {"idle", "ended"} \cup Chaining \cup Draining
    /\ Places("drain") = {"idle", "ended"} \cup Draining
    /\ Places("add") = {"idle", "ended"} /\ Places("rest") = {"idle", "ended"}
    /\ Places("start") = {"idle", "ended", "spawn", "record", "save"}
    /\ Places("stop") = {"idle", "ended", "kill", "unlink", "word"}
    /\ Places("forget") = {"idle", "ended", "forget"}
  BY DEF Places, Stopping

LEMMA QueueTypes ==
    ASSUME TypeOK, NEW l \in Line, Enqueue(l)
    PROVE  queue' \in Seq(Line) /\ queueLock = None
  BY AppendProperties DEF TypeOK, Enqueue

(* Steps that touch no session and no record, and hold nothing new.         *)
QueueStep(p) ==
    \/ Add(p) \/ TakeQueue(p) \/ Accept(p) \/ Refuse(p) \/ OutOfSync(p) \/ Strike(p)
    \/ Drained(p) \/ StartByHand(p)
ChainStep(p) ==
    \/ TakeChain(p) \/ Judge(p) \/ Judged(p) \/ Recheck(p) \/ Load(p) \/ QueueNext(p)
    \/ FindDead(p)

LEMMA QueueStepTypes ==
    ASSUME Inv, NEW p \in Procs, QueueStep(p)
    PROVE  TypeOK'
  <1> USE DEF locks, chaining, draining, does
  <1>0. /\ TypeOK /\ HandInv
        /\ does(p) \in {"tick", "drain", "add", "start", "stop", "forget", "rest"}
        /\ asks(p) \in Line /\ lines[p] \in Seq(Line) /\ entries[p] \in Seq(Line)
        /\ queue \in Seq(Line)
    BY SetupTypes DEF Inv, DispatchInv, TypeOK
  <1>1. queue' \in Seq(Line)
    BY <1>0, QueueTypes, WithoutIsTheRest
    DEF QueueStep, Add, TakeQueue, Accept, Refuse, OutOfSync, Strike, Drained, StartByHand, TypeOK
  <1>2. lines' \in [Procs -> Seq(Line)]
    <2>1. <<asks(p)>> \in Seq(Line)
      BY <1>0
    <2>2. lines[p] # <<>> => Tail(lines[p]) \in Seq(Line)
      BY <1>0, HeadTypes
    <2>3. pc[p] \in {"spawn", "save"} => lines[p] # <<>>
      BY <1>0 DEF HandInv
    <2>4. \E s \in Seq(Line) : lines' = [lines EXCEPT ![p] = s] \/ lines' = lines
      BY <1>0, <2>1, <2>2, <2>3
      DEF QueueStep, Add, TakeQueue, Accept, Refuse, OutOfSync, Strike, Drained, StartByHand
    <2> QED
      BY <1>0, <2>4 DEF TypeOK
  <1>3. entries' \in [Procs -> Seq(Line)]
    <2>1. \E s \in Seq(Line) : entries' = [entries EXCEPT ![p] = s] \/ entries' = entries
      BY <1>0, WithoutIsTheRest
      DEF QueueStep, Add, TakeQueue, Accept, Refuse, OutOfSync, Strike, Drained, StartByHand
    <2> QED
      BY <1>0, <2>1 DEF TypeOK
  <1>4. /\ pc' \in [Procs -> UNION {Places(kind) : kind \in {"tick", "drain", "start", "stop", "forget"}}]
        /\ \A q \in Procs : pc'[q] \in Places(does(q))
    <2>1. pc[p] \in Places(does(p))
      BY <1>0 DEF TypeOK
    <2>2. \E to \in Places(does(p)) : pc' = [pc EXCEPT ![p] = to] \/ pc' = pc
      <3> USE <1>0, <2>1, PlacesAre DEF Draining, Goes
      <3>1. CASE Add(p) \/ TakeQueue(p)
        BY <3>1 DEF Add, TakeQueue
      <3>2. CASE Accept(p) \/ Refuse(p)
        BY <3>2 DEF Accept, Refuse
      <3>3. CASE OutOfSync(p)
        BY <3>3 DEF OutOfSync
      <3>4. CASE Strike(p)
        BY <3>4 DEF Strike
      <3>5. CASE Drained(p) \/ StartByHand(p)
        BY <3>5 DEF Drained, StartByHand
      <3> QED
        BY <3>1, <3>2, <3>3, <3>4, <3>5 DEF QueueStep
    <2>3. Places(does(p)) \subseteq UNION {Places(kind) : kind \in {"tick", "drain", "start", "stop", "forget"}}
      BY <1>0 DEF Places
    <2> QED
      BY <1>0, <2>2, <2>3 DEF TypeOK, Goes
  <1>5. /\ UNCHANGED <<setup, session, record, work, word, judging, cur, next, head, new>>
        /\ chainLock' \in Procs \cup {None} /\ queueLock' \in Procs \cup {None}
    BY <1>0 DEF QueueStep, Add, Enqueue, TakeQueue, LocksQueue, Accept, Refuse, OutOfSync, Strike, Drained,
       StartByHand, TypeOK
  <1> QED
    BY <1>0, <1>1, <1>2, <1>3, <1>4, <1>5 DEF TypeOK

LEMMA QueueStepHand ==
    ASSUME Inv, NEW p \in Procs, QueueStep(p)
    PROVE  HandInv' /\ LockInv' /\ RecordInv'
  <1> USE NoneAssumption DEF Inv, DispatchInv, Goes, locks, chaining, draining, does, Draining, AtHand, Stopping
  <1>0. TypeOK /\ does(p) \in {"tick", "drain", "add", "start", "stop", "forget", "rest"}
        /\ pc[p] \in Places(does(p))
    BY SetupTypes DEF TypeOK
  <1>1. HandInv'
    <2> USE <1>0 DEF HandInv, TypeOK
    <2>1. CASE Add(p) \/ TakeQueue(p)
      BY <2>1 DEF Add, TakeQueue
    <2>2. CASE Accept(p)
      BY <2>2 DEF Accept
    <2>3. CASE Refuse(p) \/ OutOfSync(p)
      BY <2>3 DEF Refuse, OutOfSync
    <2>4. CASE Strike(p)
      BY <2>4 DEF Strike
    <2>5. CASE Drained(p) \/ StartByHand(p)
      <3>1. <<asks(p)>> # <<>>
        OBVIOUS
      <3> QED
        BY <2>5, <3>1 DEF Drained, StartByHand
    <2> QED
      BY <2>1, <2>2, <2>3, <2>4, <2>5 DEF QueueStep
  <1>2. LockInv'
    <2>1. CASE Add(p)
      BY <1>0, <2>1 DEF Add, Enqueue, LockInv, TypeOK
    <2>2. CASE TakeQueue(p) \/ Accept(p) \/ Refuse(p) \/ OutOfSync(p)
      BY <1>0, <2>2 DEF TakeQueue, LocksQueue, Accept, Refuse, OutOfSync, LockInv, TypeOK, Places
    <2>3. CASE Strike(p)
      BY <1>0, <2>3 DEF Strike, LockInv, TypeOK
    <2>4. CASE Drained(p)
      <3>1. /\ queueLock = p /\ (does(p) = "tick" => chainLock = p)
            /\ pc'[p] = "idle"
            /\ \A q \in Procs \ {p} : pc'[q] = pc[q] /\ entries'[q] = entries[q]
        BY <1>0, <2>4 DEF Drained, LockInv, TypeOK
      <3>2. ASSUME NEW q \in Procs \ {p}
            PROVE  /\ does(q) # "start" => pc[q] \notin Draining
                   /\ does(p) = "tick" /\ does(q) = "tick" => pc[q] \in {"idle", "ended"}
        BY <3>1 DEF LockInv
      <3> QED
        BY <2>4, <3>1, <3>2 DEF Drained, LockInv
    <2>5. CASE StartByHand(p)
      BY <1>0, <2>5 DEF StartByHand, LockInv, TypeOK
    <2> QED
      BY <2>1, <2>2, <2>3, <2>4, <2>5 DEF QueueStep
  <1>3. RecordInv'
    BY DEF QueueStep, Add, TakeQueue, Accept, Refuse, OutOfSync, Strike, Drained, StartByHand, RecordInv
  <1> QED
    BY <1>1, <1>2, <1>3

(* What follows a session is queued as a line.                              *)
LEMMA QueuesALine ==
    ASSUME Inv, NEW p \in Procs, QueueNext(p)
    PROVE  [branch |-> Target(p), phase |-> next[p]] \in Line
  <1> USE DEF Inv, DispatchInv
  <1>1. /\ pc[p] = "queue" /\ pc[p] \in Places(does(p))
        /\ does(p) \in {"tick", "drain", "add", "start", "stop", "forget", "rest"}
    BY SetupTypes DEF QueueNext, TypeOK
  <1>2. does(p) = "tick"
    BY <1>1, PlacesAre DEF Draining
  <1>3. next[p] \in Phases
    BY <1>1, <1>2 DEF HandInv, TypeOK, AtHand
  <1>4. cur[p] \in Ids
    BY <1>1 DEF HandInv, TypeOK, AtHand
  <1>5. Target(p) \in Branches
    BY <1>2, <1>4, SessionTypes DEF Target
  <1> QED
    BY <1>3, <1>5 DEF Line

LEMMA ChainStepTypes ==
    ASSUME Inv, NEW p \in Procs, ChainStep(p)
    PROVE  TypeOK'
  <1> USE DEF locks, chaining, draining, does
  <1>0. /\ TypeOK /\ HandInv
        /\ does(p) \in {"tick", "drain", "add", "start", "stop", "forget", "rest"}
        /\ queue \in Seq(Line) /\ pc[p] \in Places(does(p))
        /\ \A j \in judging[p] : j[1] \in Ids
        /\ work \in [Branches -> [here : Tips, origin : Tips]]
    BY SetupTypes DEF Inv, DispatchInv, TypeOK
  <1>1. pc[p] \in AtHand => cur[p] \in Ids /\ session[cur[p]].branch \in Branches
    BY <1>0, SessionTypes DEF HandInv, TypeOK
  <1>2. queue' \in Seq(Line)
    <2>1. CASE QueueNext(p)
      BY <1>0, <2>1, QueuesALine, QueueTypes DEF QueueNext
    <2> QED
      BY <1>0, <2>1 DEF ChainStep, TakeChain, Judge, Judged, Recheck, Load, FindDead
  <1>3. judging' \in [Procs -> SUBSET (Ids \X Said)]
    <2>1. CASE TakeChain(p)
      <3>1. Recorded \subseteq Ids
        BY <1>0 DEF Recorded, TypeOK
      <3>2. {<<n, ReportOf(n)>> : n \in Recorded} \in SUBSET (Ids \X Said)
        BY <1>0, <3>1, SessionTypes
      <3> QED
        BY <1>0, <2>1, <3>2 DEF TakeChain, TypeOK
    <2>2. CASE Judge(p)
      BY <1>0, <2>2 DEF Judge, TypeOK
    <2> QED
      BY <1>0, <2>1, <2>2 DEF ChainStep, Judged, Recheck, Load, FindDead, QueueNext, TypeOK
  <1>4. /\ cur' \in [Procs -> Ids \cup {None}]
        /\ next' \in [Procs -> Phases \cup {"end", "wait"}]
        /\ head' \in [Procs -> Tips]
    <2>1. CASE Judge(p)
      <3>1. PICK j \in judging[p] :
               LET to == {f \in Phases \cup {"end"} : MovesOn(j[1], j[2], f)}
                   here == work[session[j[1]].branch].here
               IN  \/ UNCHANGED <<cur, next, head>>
                   \/ /\ to # {} /\ cur' = [cur EXCEPT ![p] = j[1]]
                      /\ next' = [next EXCEPT ![p] = CHOOSE f \in to : TRUE]
                      /\ head' = [head EXCEPT ![p] = here]
        BY <2>1 DEF Judge
      <3>2. work[session[j[1]].branch].here \in Tips
        BY <1>0, SessionTypes
      <3>3. \/ UNCHANGED <<cur, next, head>>
            \/ /\ cur' = [cur EXCEPT ![p] = j[1]]
               /\ \E f \in Phases \cup {"end"} : next' = [next EXCEPT ![p] = f]
               /\ \E t \in Tips : head' = [head EXCEPT ![p] = t]
        BY <3>1, <3>2
      <3>4. j[1] \in Ids
        BY <1>0
      <3>5. /\ cur \in [Procs -> Ids \cup {None}]
            /\ next \in [Procs -> Phases \cup {"end", "wait"}]
            /\ head \in [Procs -> Tips]
        BY <1>0 DEF TypeOK
      <3>6. CASE UNCHANGED <<cur, next, head>>
        BY <3>5, <3>6
      <3>7. CASE ~UNCHANGED <<cur, next, head>>
        <4>1. cur' \in [Procs -> Ids \cup {None}]
          BY <3>3, <3>4, <3>5, <3>7
        <4>2. next' \in [Procs -> Phases \cup {"end", "wait"}]
          BY <3>3, <3>5, <3>7
        <4>3. head' \in [Procs -> Tips]
          BY <3>3, <3>5, <3>7
        <4> QED
          BY <4>1, <4>2, <4>3
      <3> QED
        BY <3>6, <3>7
    <2>2. CASE Judged(p)
      <3>1. Bare \in Tips
        BY DEF Bare, Tips
      <3> QED
        BY <1>0, <2>2, <3>1 DEF Judged, TypeOK
    <2>3. CASE Load(p)
      <3>1. Target(p) \in Branches
        BY <1>0, <1>1, <2>3, SetupTypes DEF Load, Target, AtHand, asks
      <3> QED
        BY <1>0, <2>3, <3>1 DEF Load, TypeOK
    <2> QED
      BY <1>0, <2>1, <2>2, <2>3 DEF ChainStep, TakeChain, Recheck, FindDead, QueueNext, TypeOK
  <1>5. /\ pc' \in [Procs -> UNION {Places(kind) : kind \in {"tick", "drain", "start", "stop", "forget"}}]
        /\ \A q \in Procs : pc'[q] \in Places(does(q))
    <2>1. \E to \in Places(does(p)) : pc' = [pc EXCEPT ![p] = to] \/ pc' = pc
      <3> USE <1>0, PlacesAre DEF Chaining, Draining, Stopping, Goes
      <3>1. CASE TakeChain(p) \/ Judged(p)
        BY <3>1 DEF TakeChain, Judged
      <3>2. CASE Judge(p)
        BY <3>2 DEF Judge
      <3>3. CASE Recheck(p) \/ QueueNext(p)
        BY <3>3 DEF Recheck, QueueNext
      <3>4. CASE Load(p)
        BY <3>4 DEF Load, Back
      <3>5. CASE FindDead(p)
        BY <3>5 DEF FindDead
      <3> QED
        BY <3>1, <3>2, <3>3, <3>4, <3>5 DEF ChainStep
    <2>2. Places(does(p)) \subseteq UNION {Places(kind) : kind \in {"tick", "drain", "start", "stop", "forget"}}
      BY <1>0 DEF Places
    <2> QED
      BY <1>0, <2>1, <2>2 DEF TypeOK
  <1>6. /\ UNCHANGED <<setup, session, record, work, word, lines, entries, new>>
        /\ chainLock' \in Procs \cup {None} /\ queueLock' \in Procs \cup {None}
    BY <1>0 DEF ChainStep, TakeChain, LocksChain, Judge, Judged, Recheck, Load, QueueNext, FindDead, TypeOK
  <1> QED
    BY <1>0, <1>2, <1>3, <1>4, <1>5, <1>6 DEF TypeOK

LEMMA ChainStepHand ==
    ASSUME Inv, NEW p \in Procs, ChainStep(p)
    PROVE  HandInv' /\ LockInv' /\ RecordInv'
  <1> USE NoneAssumption DEF Inv, DispatchInv, Goes, locks, chaining, draining, does, Draining, AtHand, Stopping
  <1>0. /\ TypeOK /\ does(p) \in {"tick", "drain", "add", "start", "stop", "forget", "rest"}
        /\ pc[p] \in Places(does(p))
        /\ \A j \in judging[p] : j[1] \in Ids
    BY SetupTypes DEF TypeOK
  <1>1. HandInv'
    <2> USE <1>0 DEF HandInv, TypeOK
    <2>1. CASE TakeChain(p) \/ Recheck(p) \/ FindDead(p)
      BY <2>1 DEF TakeChain, Recheck, FindDead
    <2>2. CASE Judge(p)
      <3>1. PICK j \in judging[p] :
               LET to == {f \in Phases \cup {"end"} : MovesOn(j[1], j[2], f)}
               IN  \/ UNCHANGED <<pc, cur, next>>
                   \/ /\ to # {} /\ cur' = [cur EXCEPT ![p] = j[1]]
                      /\ next' = [next EXCEPT ![p] = CHOOSE f \in to : TRUE]
                      /\ pc' = [pc EXCEPT ![p] = IF to = {"execute"} THEN "gates" ELSE "recheck"]
        BY <2>2 DEF Judge
      <3>2. "wait" \notin Phases \cup {"end"}
        BY DEF Phases
      <3>3. \/ UNCHANGED <<pc, cur, next>>
            \/ /\ cur' = [cur EXCEPT ![p] = j[1]]
               /\ \E f \in Phases \cup {"end"} : next' = [next EXCEPT ![p] = f]
               /\ \E to \in {"gates", "recheck"} : pc' = [pc EXCEPT ![p] = to]
        BY <3>1
      <3> QED
        BY <2>2, <3>2, <3>3 DEF Judge
    <2>3. CASE Judged(p) \/ QueueNext(p)
      BY <2>3 DEF Judged, QueueNext
    <2>4. CASE Load(p)
      BY <2>4, PlacesAre DEF Load, Back
    <2> QED
      BY <2>1, <2>2, <2>3, <2>4 DEF ChainStep
  <1>2. LockInv'
    <2> USE <1>0 DEF LockInv, TypeOK
    <2>1. CASE TakeChain(p)
      BY <2>1 DEF TakeChain, LocksChain
    <2>2. CASE Judge(p) \/ Judged(p) \/ Recheck(p) \/ FindDead(p)
      BY <2>2, PlacesAre DEF Judge, Judged, Recheck, FindDead
    <2>3. CASE Load(p)
      BY <2>3, PlacesAre DEF Load, Back
    <2>4. CASE QueueNext(p)
      BY <2>4, PlacesAre DEF QueueNext, Enqueue
    <2> QED
      BY <2>1, <2>2, <2>3, <2>4 DEF ChainStep
  <1>3. RecordInv'
    BY DEF ChainStep, TakeChain, Judge, Judged, Recheck, Load, QueueNext, FindDead, RecordInv
  <1> QED
    BY <1>1, <1>2, <1>3
-----------------------------------------------------------------------------
(* Who is where, when nobody intervenes.                                    *)

LEMMA NobodyIntervenes ==
    ASSUME Unattended
    PROVE  /\ setup.dies = {}
           /\ \A p \in Procs : does(p) \in {"tick", "drain", "add", "rest"}
           /\ \A p, q \in Procs : does(p) = "tick" => does(q) # "drain"
  BY DEF Unattended

LEMMA OneDrains ==
    ASSUME Inv, Unattended, NEW p \in Procs, NEW q \in Procs,
           pc[p] \in Draining, pc[q] \in Draining
    PROVE  p = q
  BY NobodyIntervenes DEF Inv, DispatchInv, LockInv

(* Who stops a session is a tick, and holds the chain's lock, as a tick     *)
(* that drains does.                                                        *)
LEMMA OneTicks ==
    ASSUME Inv, Unattended, NEW p \in Procs, NEW q \in Procs, pc[q] \in Stopping
    PROVE  /\ does(q) = "tick"
           /\ pc[p] \notin Draining
           /\ pc[p] \in Stopping => p = q
  <1>1. \A k \in Procs : /\ pc[k] \in Places(does(k))
                         /\ does(k) \in {"tick", "drain", "add", "rest"}
                         /\ does(k) = "tick" /\ pc[k] \notin {"idle", "ended"} => chainLock = k
    BY NobodyIntervenes DEF Inv, DispatchInv, TypeOK, LockInv
  <1>2. \A k \in Procs : pc[k] \in Stopping => does(k) = "tick" /\ chainLock = k
    BY <1>1, PlacesAre DEF Stopping, Draining
  <1>3. pc[p] \in Draining => does(p) = "tick" /\ chainLock = p
    BY <1>1, <1>2, NobodyIntervenes, PlacesAre DEF Draining
  <1>4. Stopping \cap Draining = {}
    BY DEF Stopping, Draining
  <1> QED
    BY <1>2, <1>3, <1>4

LEMMA QueueStepKeepsInv ==
    ASSUME Inv, NEW p \in Procs, QueueStep(p)
    PROVE  Inv'
  <1> USE DEF Inv, DispatchInv
  <1>1. UNCHANGED <<setup, session, record, cur, new>>
    BY DEF QueueStep, Add, TakeQueue, Accept, Refuse, OutOfSync, Strike, Drained, StartByHand,
       locks, chaining, draining
  <1>2. ASSUME Unattended PROVE WorkerInv'
    <2>1. WorkerInv /\ does(p) # "start"
      BY <1>2, NobodyIntervenes
    <2>2. Live' = Live
      BY <1>1 DEF Live
    <2>3. \A q \in Procs : pc'[q] \in {"spawn", "record"} \cup Stopping =>
             \/ pc'[q] = pc[q] /\ lines'[q] = lines[q]
             \/ Accept(p) /\ q = p
      <3>0. pc \in [Procs -> UNION {Places(kind) : kind \in {"tick", "drain", "start", "stop", "forget"}}]
            /\ lines \in [Procs -> Seq(Line)]
        BY DEF TypeOK
      <3> USE <2>1, <3>0 DEF Goes, Stopping, locks, chaining, draining
      <3>1. CASE Add(p) \/ TakeQueue(p)
        BY <3>1 DEF Add, TakeQueue
      <3>2. CASE Accept(p) \/ Refuse(p)
        BY <3>2 DEF Accept, Refuse
      <3>3. CASE OutOfSync(p)
        BY <3>3 DEF OutOfSync
      <3>4. CASE Strike(p)
        BY <3>4 DEF Strike
      <3>5. CASE Drained(p) \/ StartByHand(p)
        BY <3>5 DEF Drained, StartByHand
      <3> QED
        BY <3>1, <3>2, <3>3, <3>4, <3>5 DEF QueueStep
    <2>4. ASSUME Accept(p), NEW n \in Live
          PROVE  session[n].branch # Head(lines[p]).branch
      <3>1. record[Head(lines[p]).branch] # n /\ pc[p] = "try"
        BY <2>4 DEF Accept, MayStart, Free
      <3>2. \A q \in Procs : new[q] # n
        <4>1. ASSUME NEW q \in Procs, new[q] = n PROVE FALSE
          <5>1. pc[q] = "record"
            BY <4>1, NoneAssumption DEF HandInv, Live
          <5> QED
            BY <1>2, <3>1, <5>1, OneDrains DEF Draining
        <4> QED
          BY <4>1
      <3> QED
        BY <2>1, <3>1, <3>2 DEF WorkerInv
    <2>5. Accept(p) => pc'[p] = "spawn" /\ lines' = lines
      BY DEF Accept, Goes, TypeOK, draining
    <2>6. ASSUME NEW q \in Procs, NEW n \in Live
          PROVE  /\ pc'[q] = "spawn" => session[n].branch # Head(lines'[q]).branch
                 /\ pc'[q] = "record" /\ session[n].branch = session[new[q]].branch => n = new[q]
      BY <2>1, <2>3, <2>4, <2>5 DEF WorkerInv
    <2>7. ASSUME NEW q \in Procs, pc'[q] \in Stopping
          PROVE  pc[q] = pc'[q]
      BY <2>3, <2>5, <2>7 DEF Stopping
    <2> QED
      BY <1>1, <2>1, <2>2, <2>6, <2>7 DEF WorkerInv, Stopping
  <1> QED
    BY <1>1, <1>2, QueueStepTypes, QueueStepHand, UnattendedStays

LEMMA ChainStepKeepsInv ==
    ASSUME Inv, NEW p \in Procs, ChainStep(p)
    PROVE  Inv'
  <1> USE DEF Inv, DispatchInv
  <1>1. UNCHANGED <<setup, session, record, lines, new>>
    BY DEF ChainStep, TakeChain, Judge, Judged, Recheck, Load, QueueNext, FindDead,
       locks, chaining, draining
  <1>2. ASSUME Unattended PROVE WorkerInv'
    <2>0. WorkerInv /\ does(p) \notin {"stop", "forget"} /\ Live' = Live
      BY <1>1, <1>2, NobodyIntervenes DEF Live
    <2>1. CASE Load(p)
      <3>1. Target(p) = session[cur[p]].branch /\ does(p) = "tick" /\ pc[p] = "stop"
        BY <2>0, <2>1 DEF Load, Target
      <3>2. session[cur[p]].branch \in Branches
        BY <3>1, NoneAssumption, SessionTypes DEF HandInv, TypeOK, AtHand
      <3>3. /\ \A q \in Procs \ {p} : pc'[q] = pc[q] /\ cur'[q] = cur[q]
            /\ \/ pc'[p] = "judge"
               \/ /\ cur'[p] = record[Target(p)] /\ cur'[p] # None
                  /\ pc'[p] \in {"kill", "unlink", "judge"}
                  /\ pc'[p] = "unlink" => cur'[p] \notin Live
        <4>1. pc \in [Procs -> UNION {Places(kind) : kind \in {"tick", "drain", "start", "stop", "forget"}}]
              /\ cur \in [Procs -> Ids \cup {None}]
          BY DEF TypeOK
        <4> QED
          BY <2>1, <3>1, <4>1 DEF Load, Back, Goes
      <3>4. cur'[p] = record[Target(p)] /\ cur'[p] # None => session[cur'[p]].branch = Target(p)
        BY <3>1, <3>2 DEF RecordInv
      <3> QED
        BY <1>1, <2>0, <3>1, <3>3, <3>4 DEF WorkerInv, Stopping
    <2>2. CASE ~Load(p)
      <3>1. \A q \in Procs : pc'[q] \in {"spawn", "record"} \cup Stopping =>
               pc'[q] = pc[q] /\ cur'[q] = cur[q]
        <4>0. pc \in [Procs -> UNION {Places(kind) : kind \in {"tick", "drain", "start", "stop", "forget"}}]
              /\ cur \in [Procs -> Ids \cup {None}]
          BY DEF TypeOK
        <4> USE <2>0, <4>0 DEF Goes, Stopping, locks, chaining, draining
        <4>1. CASE TakeChain(p) \/ Judged(p)
          BY <4>1 DEF TakeChain, Judged
        <4>2. CASE Judge(p)
          BY <4>2 DEF Judge
        <4>3. CASE Recheck(p) \/ QueueNext(p) \/ FindDead(p)
          BY <4>3 DEF Recheck, QueueNext, FindDead
        <4> QED
          BY <2>2, <4>1, <4>2, <4>3 DEF ChainStep
      <3> QED
        BY <1>1, <2>0, <3>1 DEF WorkerInv, Stopping
    <2> QED
      BY <2>1, <2>2
  <1> QED
    BY <1>1, <1>2, ChainStepTypes, ChainStepHand, UnattendedStays
-----------------------------------------------------------------------------
(* A session starts, and gets on record.                                    *)

LEMMA BecomesTypes ==
    ASSUME NEW l \in Line
    PROVE  Becomes(l) \in Phases
  BY DEF Becomes, Line, Phases

LEMMA Spawned ==
    ASSUME Inv, NEW p \in Procs, Start(p)
    PROVE  /\ Fresh \in Ids /\ ~InUse(Fresh)
           /\ new' = [new EXCEPT ![p] = Fresh]
           /\ session' \in [Ids -> Sessions]
           /\ session'[Fresh].branch = Head(lines[p]).branch
           /\ \A n \in Ids \ {Fresh} : IF InUse(n) THEN session'[n] = session[n]
                                       ELSE ~session'[n].live
  <1> USE DEF Inv, DispatchInv
  <1>1. Fresh \in Ids /\ ~InUse(Fresh)
    BY DEF Start, Spawn, Fresh
  <1> DEFINE l == Head(lines[p])
             first == [Nobody(Fresh) EXCEPT !.branch = l.branch, !.phase = Becomes(l), !.live = TRUE]
  <1>2. l \in Line /\ l.branch \in Branches
    <2>1. lines[p] \in Seq(Line) /\ lines[p] # <<>>
      BY DEF Start, HandInv, TypeOK
    <2> QED
      BY <2>1, HeadTypes
  <1>3. first \in Sessions /\ first.branch = l.branch
    <2> HIDE DEF l
    <2>1. l.branch \in Branches /\ Becomes(l) \in Phases
      BY <1>2, BecomesTypes
    <2>2. ASSUME NEW s \in Sessions
          PROVE  /\ [s EXCEPT !.branch = l.branch, !.phase = Becomes(l), !.live = TRUE] \in Sessions
                 /\ [s EXCEPT !.branch = l.branch, !.phase = Becomes(l), !.live = TRUE].branch = l.branch
      BY <2>1 DEF Sessions
    <2>3. Nobody(Fresh) \in Sessions
      BY NobodyTypes
    <2> QED
      BY <2>2, <2>3, Zenon
  <1>4. session' = [n \in Ids |-> IF n = Fresh THEN first
                                  ELSE IF InUse(n) THEN session[n] ELSE Nobody(n)]
    <2>1. session' = [n \in Ids |->
             IF n = Fresh
             THEN [Nobody(n) EXCEPT !.branch = l.branch, !.phase = Becomes(l), !.live = TRUE]
             ELSE IF InUse(n) THEN session[n] ELSE Nobody(n)]
      BY DEF Start, Spawn
    <2> HIDE DEF l
    <2> QED
      BY <2>1
  <1> HIDE DEF first
  <1>5. session' \in [Ids -> Sessions]
    <2>1. \A n \in Ids : session[n] \in Sessions /\ Nobody(n) \in Sessions
      BY NobodyTypes DEF TypeOK
    <2> QED
      BY <1>3, <1>4, <2>1
  <1>6. \A n \in Ids \ {Fresh} : IF InUse(n) THEN session'[n] = session[n]
                                 ELSE ~session'[n].live
    BY <1>4, NobodyTypes
  <1>7. new' = [new EXCEPT ![p] = Fresh]
    BY DEF Start, Spawn
  <1> QED
    BY <1>1, <1>3, <1>4, <1>5, <1>6, <1>7

LEMMA StartKeepsInv ==
    ASSUME Inv, NEW p \in Procs, Start(p)
    PROVE  Inv'
  <1> USE DEF Inv, DispatchInv
  <1>0. /\ pc[p] = "spawn" /\ pc' = [pc EXCEPT ![p] = "record"]
        /\ UNCHANGED <<setup, record, work, word, queue, locks, chaining, lines, entries>>
    BY DEF Start, Goes
  <1>1. /\ UNCHANGED <<setup, record, work, word, queue, chainLock, queueLock,
                       judging, cur, next, head, lines, entries>>
        /\ pc'[p] = "record" /\ \A q \in Procs \ {p} : pc'[q] = pc[q] /\ new'[q] = new[q]
        /\ new'[p] = Fresh /\ new[p] = None
    BY <1>0, Spawned DEF locks, chaining, TypeOK, HandInv
  <1>2. TypeOK'
    <2>1. new' \in [Procs -> Ids \cup {None}]
      BY Spawned DEF TypeOK
    <2>2. "record" \in Places(does(p))
      <3>1. /\ pc[p] \in Places(does(p))
            /\ does(p) \in {"tick", "drain", "add", "start", "stop", "forget", "rest"}
        BY SetupTypes DEF TypeOK
      <3> QED
        BY <1>0, <3>1, PlacesAre DEF Draining
    <2>3. /\ pc' \in [Procs -> UNION {Places(kind) : kind \in {"tick", "drain", "start", "stop", "forget"}}]
          /\ \A q \in Procs : pc'[q] \in Places(does(q))
      <3>1. "record" \in UNION {Places(kind) : kind \in {"tick", "drain", "start", "stop", "forget"}}
        BY PlacesAre DEF Draining
      <3> QED
        BY <1>0, <2>2, <3>1 DEF TypeOK
    <2>4. session' \in [Ids -> Sessions]
      BY Spawned
    <2> QED
      BY <1>1, <2>1, <2>3, <2>4 DEF TypeOK, does
  <1>3. HandInv'
    BY <1>0, <1>1, Spawned, NoneAssumption DEF HandInv, does, AtHand, Stopping
  <1>4. LockInv'
    BY <1>0, <1>1 DEF LockInv, does, Draining
  <1>5. RecordInv'
    <2>1. ASSUME NEW b \in Branches, record[b] # None
          PROVE  record[b] \in Ids /\ record[b] # Fresh /\ session'[record[b]] = session[record[b]]
      <3>1. record[b] \in Ids /\ InUse(record[b])
        BY <2>1 DEF TypeOK, InUse, Recorded
      <3> QED
        BY <3>1, Spawned
    <2> QED
      BY <1>1, <2>1 DEF RecordInv
  <1>6. ASSUME Unattended PROVE WorkerInv'
    <2>1. \A n \in Live' : n # Fresh => n \in Live /\ session'[n] = session[n]
      BY Spawned DEF Live
    <2>2. \A n \in Live' : record'[session'[n].branch] = n \/ \E q \in Procs : new'[q] = n
      <3>1. ASSUME NEW n \in Live', n # Fresh
            PROVE  record[session[n].branch] = n \/ \E q \in Procs \ {p} : new[q] = n
        BY <1>1, <1>6, <2>1, <3>1, NoneAssumption DEF WorkerInv, Live
      <3> QED
        BY <1>1, <2>1, <3>1
    <2>3. \A q \in Procs \ {p} : pc'[q] \notin Draining /\ pc'[q] \notin Stopping
      BY <1>0, <1>1, <1>6, OneDrains, OneTicks DEF Draining
    <2>4. ASSUME NEW n \in Live', session'[n].branch = session'[Fresh].branch
          PROVE  n = Fresh
      BY <1>0, <1>6, <2>1, <2>4, Spawned DEF WorkerInv
    <2> QED
      BY <1>1, <2>2, <2>3, <2>4 DEF WorkerInv, Draining, Stopping
  <1> QED
    BY <1>1, <1>2, <1>3, <1>4, <1>5, <1>6, UnattendedStays

LEMMA RecordKeepsInv ==
    ASSUME Inv, NEW p \in Procs, Record(p)
    PROVE  Inv'
  <1> USE DEF Inv, DispatchInv
  <1> DEFINE n == new[p]
             b == session[n].branch
  <1>0. /\ n \in Ids /\ b \in Branches /\ pc[p] = "record"
        /\ record' = [record EXCEPT ![b] = n]
        /\ new' = [new EXCEPT ![p] = None] /\ pc' = [pc EXCEPT ![p] = "save"]
    BY NoneAssumption, SessionTypes DEF Record, Records, Goes, HandInv, TypeOK
  <1> HIDE DEF n, b
  <1>1. /\ UNCHANGED <<setup, session, work, word, queue, chainLock, queueLock,
                       judging, cur, next, head, lines, entries>>
        /\ pc'[p] = "save" /\ new'[p] = None
        /\ \A q \in Procs \ {p} : pc'[q] = pc[q] /\ new'[q] = new[q]
        /\ record'[b] = n /\ \A c \in Branches \ {b} : record'[c] = record[c]
    BY <1>0 DEF Record, locks, chaining, TypeOK
  <1>2. TypeOK'
    <2>1. new' \in [Procs -> Ids \cup {None}] /\ record' \in [Branches -> Ids \cup {None}]
      BY <1>0 DEF TypeOK
    <2>2. "save" \in Places(does(p))
      <3>1. /\ pc[p] \in Places(does(p))
            /\ does(p) \in {"tick", "drain", "add", "start", "stop", "forget", "rest"}
        BY SetupTypes DEF TypeOK
      <3> QED
        BY <1>0, <3>1, PlacesAre DEF Draining
    <2>3. /\ pc' \in [Procs -> UNION {Places(kind) : kind \in {"tick", "drain", "start", "stop", "forget"}}]
          /\ \A q \in Procs : pc'[q] \in Places(does(q))
      <3>1. "save" \in UNION {Places(kind) : kind \in {"tick", "drain", "start", "stop", "forget"}}
        BY PlacesAre DEF Draining
      <3> QED
        BY <1>0, <2>2, <3>1 DEF TypeOK
    <2> QED
      BY <1>1, <2>1, <2>3 DEF TypeOK, does
  <1>3. HandInv'
    BY <1>0, <1>1 DEF HandInv, does, AtHand, Stopping
  <1>4. LockInv'
    BY <1>0, <1>1 DEF LockInv, does, Draining
  <1>5. RecordInv'
    BY <1>1 DEF RecordInv, b
  <1>6. ASSUME Unattended PROVE WorkerInv'
    <2>1. ASSUME NEW m \in Live
          PROVE  record'[session[m].branch] = m \/ \E q \in Procs : new'[q] = m
      <3>0. session[m].branch \in Branches
        BY SessionTypes DEF Live
      <3>1. CASE session[m].branch = b
        BY <1>0, <1>1, <1>6, <3>1 DEF WorkerInv, n, b
      <3>2. CASE session[m].branch # b
        <4>1. \A q \in Procs : new[q] = m => q # p
          BY <3>2 DEF n, b
        <4> QED
          BY <1>1, <1>6, <3>0, <3>2, <4>1 DEF WorkerInv
      <3> QED
        BY <3>1, <3>2
    <2>2. \A q \in Procs : pc'[q] \notin Stopping
      BY <1>0, <1>1, <1>6, OneTicks DEF Draining, Stopping
    <2>3. \A q \in Procs : pc'[q] \in {"spawn", "record"} => q # p /\ pc'[q] = pc[q]
      BY <1>1
    <2>4. Live' = Live
      BY <1>1 DEF Live
    <2> QED
      BY <1>1, <1>6, <2>1, <2>2, <2>3, <2>4 DEF WorkerInv, Stopping
  <1> QED
    BY <1>1, <1>2, <1>3, <1>4, <1>5, <1>6, UnattendedStays
-----------------------------------------------------------------------------
(* A session is judged, stopped and forgotten.                              *)

(* A step that moves one command, and no session, past what is at hand.     *)
SessionStep(p) == Gates(p) \/ Kill(p) \/ WordOfStop(p)

LEMMA AtHandTypes ==
    ASSUME Inv, NEW p \in Procs, pc[p] \in AtHand
    PROVE  /\ cur[p] \in Ids /\ session[cur[p]] \in Sessions
           /\ session[cur[p]].branch \in Branches
  BY NoneAssumption, SessionTypes DEF Inv, DispatchInv, HandInv, TypeOK

LEMMA SessionStepFacts ==
    ASSUME Inv, NEW p \in Procs, SessionStep(p)
    PROVE  /\ session' \in [Ids -> Sessions]
           /\ \A n \in Ids : /\ session'[n].branch = session[n].branch
                             /\ session'[n].live => session[n].live
           /\ word' \in [Branches -> Said]
           /\ next' \in [Procs -> Phases \cup {"end", "wait"}]
           /\ \A q \in Procs : next'[q] # next[q] => next'[q] = "plan-review"
           /\ UNCHANGED <<setup, record, work, queue, chainLock, queueLock,
                          judging, cur, head, lines, entries, new>>
  <1> USE DEF Inv, DispatchInv, locks, chaining, draining
  <1>0. pc[p] \in AtHand /\ cur[p] \in Ids /\ session[cur[p]] \in Sessions
        /\ session[cur[p]].branch \in Branches
    <2>1. pc[p] \in AtHand
      BY DEF SessionStep, Gates, Kill, WordOfStop, AtHand, Stopping
    <2> QED
      BY <2>1, AtHandTypes
  <1>1. /\ session \in [Ids -> Sessions] /\ word \in [Branches -> Said]
        /\ next \in [Procs -> Phases \cup {"end", "wait"}] /\ head[p] \in Tips
    BY DEF TypeOK
  <1>2. CASE Gates(p)
    <2> DEFINE s == [session[cur[p]] EXCEPT !.red = head[p]]
    <2>1. s \in Sessions /\ s.branch = session[cur[p]].branch /\ s.live = session[cur[p]].live
      BY <1>0, <1>1 DEF Sessions
    <2>2. session' = session \/ session' = [session EXCEPT ![cur[p]] = s]
      BY <1>2 DEF Gates
    <2> HIDE DEF s
    <2>3. /\ session' \in [Ids -> Sessions]
          /\ \A n \in Ids : session'[n].branch = session[n].branch /\ session'[n].live = session[n].live
      BY <1>0, <1>1, <2>1, <2>2
    <2>4. next' = next \/ next' = [next EXCEPT ![p] = "plan-review"]
          \/ next' = [next EXCEPT ![p] = @]
      BY <1>2 DEF Gates
    <2>5. /\ next' \in [Procs -> Phases \cup {"end", "wait"}]
          /\ \A q \in Procs : next'[q] # next[q] => next'[q] = "plan-review"
      BY <1>1, <2>4 DEF Phases
    <2> QED
      BY <1>1, <1>2, <2>3, <2>5 DEF Gates
  <1>3. CASE Kill(p)
    <2>1. /\ session' \in [Ids -> Sessions]
          /\ \A n \in Ids : session'[n].branch = session[n].branch /\ (session'[n].live => session[n].live)
      BY <1>0, <1>1, <1>3 DEF Kill, Sessions
    <2> QED
      BY <1>1, <1>3, <2>1 DEF Kill
  <1>4. CASE WordOfStop(p)
    <2>1. "done" \in Said
      BY DEF Said
    <2>2. /\ session' \in [Ids -> Sessions]
          /\ \A n \in Ids : session'[n].branch = session[n].branch /\ session'[n].live = session[n].live
      BY <1>1, <1>4, HeardTypes DEF WordOfStop, Says
    <2>3. word' \in [Branches -> Said]
      BY <1>0, <1>1, <1>4, <2>1 DEF WordOfStop, Says
    <2> QED
      BY <1>1, <1>4, <2>2, <2>3 DEF WordOfStop
  <1> QED
    BY <1>2, <1>3, <1>4 DEF SessionStep

LEMMA SessionStepKeepsInv ==
    ASSUME Inv, NEW p \in Procs, SessionStep(p)
    PROVE  Inv'
  <1> USE DEF Inv, DispatchInv
  <1>0. /\ pc[p] \in Places(does(p))
        /\ pc \in [Procs -> UNION {Places(kind) : kind \in {"tick", "drain", "start", "stop", "forget"}}]
        /\ does(p) \in {"tick", "drain", "add", "start", "stop", "forget", "rest"}
    BY SetupTypes DEF TypeOK
  <1>1. /\ does(p) \in {"tick", "stop"} /\ pc[p] \in AtHand
        /\ \/ pc[p] = "gates" /\ does(p) = "tick" /\ pc' = [pc EXCEPT ![p] = "judge"]
           \/ pc[p] = "gates" /\ does(p) = "tick" /\ pc' = [pc EXCEPT ![p] = "recheck"]
           \/ pc[p] = "kill" /\ does(p) = "tick" /\ pc' = [pc EXCEPT ![p] = "unlink"]
           \/ pc[p] \in {"kill", "word"} /\ does(p) = "stop" /\ pc' = [pc EXCEPT ![p] = "word"]
           \/ pc[p] \in {"kill", "word"} /\ does(p) = "stop" /\ pc' = [pc EXCEPT ![p] = "unlink"]
    <2> USE <1>0, PlacesAre DEF Draining, AtHand, Stopping, Goes
    <2>1. CASE Gates(p)
      BY <2>1 DEF Gates
    <2>2. CASE Kill(p)
      BY <2>2 DEF Kill, Chaining
    <2>3. CASE WordOfStop(p)
      BY <2>3 DEF WordOfStop, Chaining
    <2> QED
      BY <2>1, <2>2, <2>3 DEF SessionStep
  <1>2. TypeOK'
    <2>1. \E to \in Places(does(p)) : pc' = [pc EXCEPT ![p] = to]
      BY <1>1, PlacesAre DEF Chaining, Stopping
    <2>2. Places(does(p)) \subseteq UNION {Places(kind) : kind \in {"tick", "drain", "start", "stop", "forget"}}
      BY <1>1
    <2>3. /\ pc' \in [Procs -> UNION {Places(kind) : kind \in {"tick", "drain", "start", "stop", "forget"}}]
          /\ \A q \in Procs : pc'[q] \in Places(does(q))
      BY <1>0, <2>1, <2>2 DEF TypeOK
    <2> QED
      BY <2>3, SessionStepFacts DEF TypeOK, does
  <1>3. HandInv' /\ LockInv' /\ RecordInv'
    <2>1. \A q \in Procs : next[q] # "wait" => next'[q] # "wait"
      BY SessionStepFacts
    <2>2. \A q \in Procs : next[q] # "end" => next'[q] # "end"
      BY SessionStepFacts
    <2>3. \A q \in Procs \ {p} : pc'[q] = pc[q]
      BY <1>0, <1>1
    <2>4. pc'[p] \in {"judge", "recheck", "unlink", "word"}
      BY <1>0, <1>1
    <2>5. pc[p] \in AtHand => cur[p] # None
      BY DEF HandInv
    <2>6. HandInv'
      BY <1>0, <1>1, <2>1, <2>2, <2>3, <2>4, SessionStepFacts DEF HandInv, does, AtHand, Stopping
    <2>7. LockInv'
      BY <1>0, <1>1, <2>3, <2>4, SessionStepFacts DEF LockInv, does, Draining, AtHand, Stopping
    <2>8. RecordInv'
      <3>1. \A b \in Branches : record[b] # None => record[b] \in Ids
        BY DEF TypeOK
      <3> QED
        BY <3>1, SessionStepFacts DEF RecordInv
    <2> QED
      BY <2>6, <2>7, <2>8
  <1>4. ASSUME Unattended PROVE WorkerInv'
    <2>0. does(p) # "stop"
      BY <1>4, NobodyIntervenes
    <2>1. Live' \subseteq Live
      BY SessionStepFacts DEF Live
    <2>2. \A n \in Live' : n \in Ids /\ session'[n].branch = session[n].branch
      BY SessionStepFacts DEF Live
    <2>3. \A q \in Procs : /\ new[q] # None => session'[new[q]].branch = session[new[q]].branch
                           /\ cur[q] # None => session'[cur[q]].branch = session[cur[q]].branch
      BY SessionStepFacts DEF TypeOK
    <2>4. \A q \in Procs : /\ pc'[q] \in {"spawn", "record", "kill"} => pc'[q] = pc[q]
                           /\ pc'[q] = "unlink" => pc'[q] = pc[q] \/ (q = p /\ pc[p] = "kill")
      <3>1. \A q \in Procs \ {p} : pc'[q] = pc[q]
        BY <1>0, <1>1
      <3>2. pc'[p] \in {"judge", "recheck"} \/ (pc'[p] = "unlink" /\ pc[p] = "kill")
        BY <1>0, <1>1, <2>0
      <3> QED
        BY <3>1, <3>2
    <2>5. pc[p] = "kill" => cur[p] \notin Live'
      <3>1. pc[p] = "kill" => Kill(p)
        BY DEF SessionStep, Gates, WordOfStop
      <3>2. Kill(p) => cur[p] \in Ids /\ session' = [session EXCEPT ![cur[p]].live = FALSE]
        BY <1>1, AtHandTypes DEF Kill
      <3>3. Kill(p) => ~session'[cur[p]].live
        BY <3>2 DEF TypeOK, Sessions
      <3> QED
        BY <3>1, <3>3 DEF Live
    <2>6. \A q \in Procs : /\ pc[q] = "record" => new[q] # None
                           /\ pc[q] \in Stopping => cur[q] # None
      BY DEF HandInv, AtHand
    <2>7. \A n \in Live' : record'[session'[n].branch] = n \/ \E q \in Procs : new'[q] = n
      BY <1>4, <2>1, <2>2, SessionStepFacts DEF WorkerInv
    <2>8. ASSUME NEW q \in Procs, NEW n \in Live'
          PROVE  /\ pc'[q] = "spawn" => session'[n].branch # Head(lines'[q]).branch
                 /\ pc'[q] = "record" /\ session'[n].branch = session'[new'[q]].branch => n = new'[q]
      BY <1>4, <2>1, <2>2, <2>3, <2>4, <2>6, SessionStepFacts DEF WorkerInv
    <2>9. ASSUME NEW q \in Procs
          PROVE  /\ pc'[q] \in Stopping => record'[session'[cur'[q]].branch] = cur'[q]
                 /\ pc'[q] = "unlink" => cur'[q] \notin Live'
      BY <1>4, <2>1, <2>3, <2>4, <2>5, <2>6, SessionStepFacts DEF WorkerInv, Stopping
    <2> QED
      BY <2>7, <2>8, <2>9 DEF WorkerInv
  <1> QED
    BY <1>2, <1>3, <1>4, SessionStepFacts, UnattendedStays
(* An end by an error or a signal leaves what others hold as it is.         *)
LEMMA DiesKeepsInv ==
    ASSUME DispatchInv, NEW p \in Procs, NEW to \in {"idle", "ended"}, Dies(p, to),
           UNCHANGED <<setup, session, record, work, word, queue>>
    PROVE  DispatchInv'
  <1> USE DEF DispatchInv, Dies, Goes
  <1>1. /\ to \in Places(does(p))
        /\ to \in UNION {Places(kind) : kind \in {"tick", "drain", "start", "stop", "forget"}}
    BY DEF Places
  <1>2. /\ chainLock' \in Procs \cup {None} /\ queueLock' \in Procs \cup {None}
        /\ judging' \in [Procs -> SUBSET (Ids \X Said)]
        /\ cur' \in [Procs -> Ids \cup {None}] /\ new' \in [Procs -> Ids \cup {None}]
        /\ next' \in [Procs -> Phases \cup {"end", "wait"}]
    BY DEF TypeOK
  <1>3. head' \in [Procs -> Tips]
    <2>1. Bare \in Tips
      BY DEF Bare, Tips
    <2> QED
      BY <2>1 DEF TypeOK
  <1>4. lines' \in [Procs -> Seq(Line)] /\ entries' \in [Procs -> Seq(Line)]
    <2>1. <<>> \in Seq(Line)
      OBVIOUS
    <2> QED
      BY <2>1 DEF TypeOK
  <1>5. /\ pc' \in [Procs -> UNION {Places(kind) : kind \in {"tick", "drain", "start", "stop", "forget"}}]
        /\ \A q \in Procs : pc'[q] \in Places(does(q))
    BY <1>1 DEF TypeOK
  <1>6. TypeOK'
    BY <1>2, <1>3, <1>4, <1>5 DEF TypeOK, does
  <1>7. /\ pc'[p] \in {"idle", "ended"} /\ new'[p] = None
        /\ \A q \in Procs \ {p} : /\ pc'[q] = pc[q] /\ cur'[q] = cur[q] /\ next'[q] = next[q]
                                  /\ lines'[q] = lines[q] /\ entries'[q] = entries[q]
                                  /\ new'[q] = new[q]
                                  /\ queueLock = q => queueLock' = q
                                  /\ chainLock = q => chainLock' = q
    BY DEF TypeOK
  <1>8. HandInv'
    BY <1>7 DEF HandInv, does, AtHand, Stopping
  <1>9. LockInv'
    BY <1>7 DEF LockInv, does, Draining
  <1>10. RecordInv'
    BY DEF RecordInv
  <1> QED
    BY <1>6, <1>8, <1>9, <1>10

LEMMA UnlinkKeepsInv ==
    ASSUME Inv, NEW p \in Procs, Unlink(p)
    PROVE  Inv'
  <1> USE DEF Inv, DispatchInv
  <1>0. /\ pc[p] = "unlink" /\ pc[p] \in Places(does(p)) /\ Target(p) \in Branches
        /\ does(p) \in {"tick", "stop"}
        /\ UNCHANGED <<setup, session, work, word, queue>>
    <2>1. /\ pc[p] = "unlink" /\ pc[p] \in Places(does(p))
          /\ does(p) \in {"tick", "drain", "add", "start", "stop", "forget", "rest"}
          /\ UNCHANGED <<setup, session, work, word, queue>>
      BY SetupTypes DEF Unlink, TypeOK
    <2>2. does(p) \in {"tick", "stop"}
      BY <2>1, PlacesAre DEF Draining
    <2>3. session[cur[p]].branch \in Branches
      BY <2>1, AtHandTypes DEF AtHand, Stopping
    <2> QED
      BY <2>1, <2>2, <2>3, SetupTypes DEF Target
  <1>1. CASE record[Target(p)] = None
    <2>1. Dies(p, IF does(p) = "tick" THEN "idle" ELSE "ended") /\ UNCHANGED record
      BY <1>1 DEF Unlink
    <2>2. DispatchInv'
      BY <1>0, <2>1, DiesKeepsInv
    <2>3. ~Unattended
      <3>1. SUFFICES ASSUME Unattended PROVE FALSE
        OBVIOUS
      <3>2. Target(p) = session[cur[p]].branch
        BY <1>0, <3>1, NobodyIntervenes DEF Target
      <3>3. record[Target(p)] = cur[p] /\ cur[p] # None
        BY <1>0, <3>1, <3>2, AtHandTypes, NoneAssumption DEF WorkerInv, Stopping, AtHand
      <3> QED
        BY <1>1, <3>3
    <2> QED
      BY <1>0, <2>2, <2>3, UnattendedStays
  <1>2. CASE record[Target(p)] # None
    <2>1. /\ record' = [record EXCEPT ![Target(p)] = None]
          /\ pc' = [pc EXCEPT ![p] = IF does(p) = "tick" /\ next[p] # "end" THEN "queue" ELSE Back(p)]
          /\ UNCHANGED <<chainLock, queueLock, judging, cur, next, head, lines, entries, new>>
      BY <1>2 DEF Unlink, Goes, locks, chaining, draining
    <2>2. /\ \/ pc'[p] = "queue" /\ next[p] # "end" /\ does(p) = "tick"
             \/ pc'[p] = Back(p)
          /\ \A q \in Procs \ {p} : pc'[q] = pc[q]
      BY <2>1 DEF TypeOK
    <2>3. record'[Target(p)] = None /\ \A b \in Branches \ {Target(p)} : record'[b] = record[b]
      BY <1>0, <2>1 DEF TypeOK
    <2>4. TypeOK'
      <3>1. record' \in [Branches -> Ids \cup {None}]
        BY <2>1 DEF TypeOK
      <3>2. \E to \in Places(does(p)) : pc' = [pc EXCEPT ![p] = to]
        BY <1>0, <2>1, PlacesAre DEF Back, Chaining
      <3>3. Places(does(p)) \subseteq UNION {Places(kind) : kind \in {"tick", "drain", "start", "stop", "forget"}}
        BY <1>0
      <3>4. /\ pc' \in [Procs -> UNION {Places(kind) : kind \in {"tick", "drain", "start", "stop", "forget"}}]
            /\ \A q \in Procs : pc'[q] \in Places(does(q))
        BY <3>2, <3>3 DEF TypeOK
      <3> QED
        BY <1>0, <2>1, <3>1, <3>4 DEF TypeOK, does
    <2>5. HandInv'
      BY <1>0, <2>1, <2>2 DEF HandInv, does, Back, AtHand, Stopping
    <2>6. LockInv'
      BY <1>0, <2>1, <2>2 DEF LockInv, does, Back, Draining
    <2>7. RecordInv'
      BY <1>0, <2>3 DEF RecordInv
    <2>8. ASSUME Unattended PROVE WorkerInv'
      <3>1. does(p) = "tick" /\ Target(p) = session[cur[p]].branch
        BY <1>0, <2>8, NobodyIntervenes DEF Target
      <3>2. Live' = Live
        BY <1>0 DEF Live
      <3>3. record[Target(p)] = cur[p] /\ cur[p] \notin Live
        BY <1>0, <2>8, <3>1 DEF WorkerInv, Stopping
      <3>4. \A n \in Live : record'[session[n].branch] = n \/ \E q \in Procs : new[q] = n
        <4>1. \A n \in Live : record[session[n].branch] = n => session[n].branch # Target(p)
          BY <3>3
        <4>2. \A n \in Live : session[n].branch \in Branches
          BY SessionTypes DEF Live
        <4> QED
          BY <2>3, <2>8, <4>1, <4>2 DEF WorkerInv
      <3>5. \A q \in Procs : /\ pc'[q] \notin Stopping
                             /\ pc'[q] \in {"spawn", "record"} => pc'[q] = pc[q]
        <4>1. \A q \in Procs \ {p} : pc'[q] \notin Stopping
          BY <1>0, <2>2, <2>8, OneTicks DEF Stopping
        <4> QED
          BY <2>2, <3>1, <4>1 DEF Back, Stopping
      <3> QED
        BY <1>0, <2>1, <2>8, <3>2, <3>4, <3>5 DEF WorkerInv, Stopping
    <2> QED
      BY <1>0, <2>4, <2>5, <2>6, <2>7, <2>8, UnattendedStays
  <1> QED
    BY <1>1, <1>2

LEMMA ForgetKeepsInv ==
    ASSUME Inv, NEW p \in Procs, Forget(p)
    PROVE  Inv'
  <1> USE DEF Inv, DispatchInv
  <1>0. /\ pc[p] = "forget" /\ does(p) = "forget" /\ asks(p).branch \in Branches
    <2>1. /\ pc[p] = "forget" /\ pc[p] \in Places(does(p))
          /\ does(p) \in {"tick", "drain", "add", "start", "stop", "forget", "rest"}
      BY SetupTypes DEF Forget, TypeOK
    <2>2. does(p) = "forget"
      BY <2>1, PlacesAre DEF Chaining, Draining, Stopping
    <2> QED
      BY <2>1, <2>2, SetupTypes
  <1>1. /\ UNCHANGED <<setup, session, work, word, queue, chainLock, queueLock,
                       judging, cur, next, head, lines, entries, new>>
        /\ record' = [record EXCEPT ![asks(p).branch] = None]
        /\ pc' = [pc EXCEPT ![p] = "ended"]
    BY DEF Forget, Goes, locks, chaining, draining
  <1>2. TypeOK'
    <2>1. /\ pc' \in [Procs -> UNION {Places(kind) : kind \in {"tick", "drain", "start", "stop", "forget"}}]
          /\ \A q \in Procs : pc'[q] \in Places(does(q))
      <3>1. "ended" \in Places(does(p))
            /\ "ended" \in UNION {Places(kind) : kind \in {"tick", "drain", "start", "stop", "forget"}}
        BY DEF Places
      <3> QED
        BY <1>1, <3>1 DEF TypeOK
    <2>2. record' \in [Branches -> Ids \cup {None}]
      BY <1>1 DEF TypeOK
    <2> QED
      BY <1>1, <2>1, <2>2 DEF TypeOK, does
  <1>3. pc'[p] = "ended" /\ \A q \in Procs \ {p} : pc'[q] = pc[q]
    BY <1>1 DEF TypeOK
  <1>4. HandInv' /\ LockInv'
    BY <1>0, <1>1, <1>3 DEF HandInv, LockInv, does, AtHand, Stopping, Draining
  <1>5. RecordInv'
    BY <1>1 DEF RecordInv, TypeOK
  <1>6. ~Unattended
    BY <1>0, NobodyIntervenes
  <1> QED
    BY <1>1, <1>2, <1>4, <1>5, <1>6, UnattendedStays

LEMMA KilledKeepsInv ==
    ASSUME Inv, NEW p \in Procs, Killed(p)
    PROVE  Inv'
  <1>1. DispatchInv'
    BY DiesKeepsInv DEF Inv, Killed
  <1>2. ~Unattended /\ UNCHANGED setup
    BY NobodyIntervenes DEF Killed
  <1> QED
    BY <1>1, <1>2, UnattendedStays DEF Inv

LEMMA NextKeepsInv == Inv /\ [Next]_vars => Inv'
  <1> SUFFICES ASSUME Inv, [Next]_vars PROVE Inv'
    OBVIOUS
  <1>1. ASSUME NEW p \in Procs, Step(p) \/ Killed(p) PROVE Inv'
    <2>1. \/ QueueStep(p) \/ ChainStep(p) \/ SessionStep(p)
          \/ Start(p) \/ Record(p) \/ Unlink(p) \/ Forget(p) \/ Killed(p)
      BY <1>1 DEF Step, QueueStep, ChainStep, SessionStep
    <2> QED
      BY <2>1, QueueStepKeepsInv, ChainStepKeepsInv, SessionStepKeepsInv, StartKeepsInv,
         RecordKeepsInv, UnlinkKeepsInv, ForgetKeepsInv, KilledKeepsInv
  <1>2. ASSUME NEW n \in Ids, Reports(n) \/ Works(n) \/ Exit(n) PROVE Inv'
    BY <1>2, WorkersKeepInv
  <1>3. CASE UNCHANGED vars
    <2>1. /\ session' \in [Ids -> Sessions]
          /\ \A n \in Ids : session'[n].branch = session[n].branch /\ (session'[n].live => session[n].live)
          /\ work' \in [Branches -> [here : Tips, origin : Tips]] /\ word' \in [Branches -> Said]
      BY <1>3 DEF vars, Inv, DispatchInv, TypeOK
    <2> QED
      BY <1>3, <2>1, WorkerStep DEF vars
  <1> QED
    BY <1>1, <1>2, <1>3 DEF Next

-----------------------------------------------------------------------------
(* Each variable keeps its type, whoever runs what: a process stays where a *)
(* command of its kind can be. How often a plan changes is not bounded here.*)
THEOREM DispatchTypes == Spec => []TypeOK
  <1>1. Init => Inv
    BY InitInv
  <1>2. Inv /\ [Next]_vars => Inv'
    BY NextKeepsInv
  <1>3. Inv => TypeOK
    BY DEF Inv, DispatchInv
  <1> QED
    BY <1>1, <1>2, <1>3, PTL DEF Spec

(* At most one live session of a branch, from where each stands on record.  *)
LEMMA OneIsOnABranch ==
    ASSUME Inv
    PROVE  OneWorkerABranch
  <1> SUFFICES ASSUME Unattended, NEW b \in Branches PROVE Cardinality(LiveOn(b)) <= 1
    BY DEF OneWorkerABranch
  <1>0. WorkerInv
    BY DEF Inv
  <1>1. ASSUME NEW n \in LiveOn(b), NEW m \in LiveOn(b) PROVE n = m
    <2>0. n \in Live /\ m \in Live /\ session[n].branch = b /\ session[m].branch = b
      BY DEF LiveOn
    <2>1. ASSUME NEW k \in Live, NEW j \in Live, NEW q \in Procs, new[q] = k,
                 session[k].branch = session[j].branch
          PROVE  j = k
      <3>1. pc[q] = "record"
        BY <2>1, NoneAssumption DEF Inv, DispatchInv, HandInv, Live
      <3> QED
        BY <1>0, <2>1, <3>1 DEF WorkerInv
    <2>2. CASE record[b] = n /\ record[b] = m
      BY <2>2
    <2>3. CASE record[b] # n
      <3>1. PICK q \in Procs : new[q] = n
        BY <1>0, <2>0, <2>3 DEF WorkerInv
      <3> QED
        BY <2>0, <2>1, <3>1
    <2>4. CASE record[b] # m
      <3>1. PICK q \in Procs : new[q] = m
        BY <1>0, <2>0, <2>4 DEF WorkerInv
      <3> QED
        BY <2>0, <2>1, <3>1
    <2> QED
      BY <2>2, <2>3, <2>4
  <1>2. CASE LiveOn(b) = {}
    BY <1>2, FS_EmptySet
  <1>3. CASE LiveOn(b) # {}
    <2>1. PICK n \in LiveOn(b) : TRUE
      BY <1>3
    <2>2. LiveOn(b) = {n}
      BY <1>1, <2>1
    <2>3. Cardinality({n}) = 1
      BY FS_Singleton
    <2> QED
      BY <2>2, <2>3
  <1> QED
    BY <1>2, <1>3

(* A branch has one worker: whatever ticks, drains and queue adds a host    *)
(* runs, however they overlap, no second session is started in a branch's   *)
(* worktree while one lives there, unless somebody starts, stops or kills   *)
(* by hand.                                                                 *)
THEOREM OneWorkerEach == Spec => []OneWorkerABranch
  <1>1. Init => Inv
    BY InitInv
  <1>2. Inv /\ [Next]_vars => Inv'
    BY NextKeepsInv
  <1>3. Inv => OneWorkerABranch
    BY OneIsOnABranch
  <1> QED
    BY <1>1, <1>2, <1>3, PTL DEF Spec

(* What a step may take from the queue.                                     *)
LineLeavesByStarting ==
    \A l \in Queued \ Queued' : \E p \in Procs : pc[p] = "save" /\ Head(lines[p]) = l

LEMMA EnqueueKeeps ==
    ASSUME queue \in Seq(Line), NEW l \in Line, Enqueue(l)
    PROVE  Queued \subseteq Queued'
  <1>1. CASE queue' = queue
    BY <1>1 DEF Queued
  <1>2. CASE queue' = Append(queue, l)
    <2>1. Len(queue') = Len(queue) + 1 /\ \A i \in 1..Len(queue) : queue'[i] = queue[i]
      BY <1>2, AppendProperties
    <2>2. queue' \in Seq(Line) /\ Len(queue) \in Nat
      BY <1>2, AppendProperties
    <2>3. \A i \in DOMAIN queue : i \in DOMAIN queue' /\ queue'[i] = queue[i]
      BY <2>1, <2>2
    <2> QED
      BY <2>3 DEF Queued
  <1> QED
    BY <1>1, <1>2 DEF Enqueue

LEMMA StrikeKeepsOthers ==
    ASSUME queue \in Seq(Line), NEW l, queue' = Without(l, queue)
    PROVE  \A k \in Queued : k # l => k \in Queued'
  <1>1. /\ queue' \in Seq(Line)
        /\ \A i \in 1..Len(queue) : queue[i] # l => \E j \in 1..Len(queue') : queue'[j] = queue[i]
    BY WithoutIsTheRest
  <1>2. DOMAIN queue = 1..Len(queue) /\ DOMAIN queue' = 1..Len(queue')
    BY <1>1
  <1> QED
    BY <1>1, <1>2 DEF Queued

LEMMA LinesStay ==
    ASSUME Inv, [Next]_vars
    PROVE  LineLeavesByStarting
  <1> USE DEF Inv, DispatchInv
  <1>0. queue \in Seq(Line)
    BY DEF TypeOK
  <1>1. ASSUME NEW p \in Procs, Step(p) PROVE LineLeavesByStarting
    <2>1. CASE Add(p)
      <3>1. asks(p) \in Line /\ Enqueue(asks(p))
        BY <2>1, SetupTypes DEF Add
      <3> QED
        BY <1>0, <3>1, EnqueueKeeps DEF LineLeavesByStarting
    <2>2. CASE QueueNext(p)
      <3>1. [branch |-> Target(p), phase |-> next[p]] \in Line
        BY <2>2, QueuesALine
      <3> QED
        BY <1>0, <2>2, <3>1, EnqueueKeeps DEF QueueNext, LineLeavesByStarting
    <2>3. CASE Strike(p)
      <3>1. CASE does(p) = "start"
        BY <2>3, <3>1 DEF Strike, Queued, LineLeavesByStarting
      <3>2. CASE does(p) # "start"
        <4>1. pc[p] = "save" /\ entries[p] = queue
          BY <2>3, <3>2 DEF Strike, LockInv, Draining
        <4>2. queue' = Without(Head(lines[p]), queue)
          BY <2>3, <3>2, <4>1 DEF Strike, TypeOK
        <4> QED
          BY <1>0, <4>1, <4>2, StrikeKeepsOthers DEF LineLeavesByStarting
      <3> QED
        BY <3>1, <3>2
    <2>4. CASE Drained(p)
      <3>1. queue' = queue
        BY <2>4 DEF Drained, LockInv, Draining
      <3> QED
        BY <3>1 DEF Queued, LineLeavesByStarting
    <2>5. CASE ~(Add(p) \/ QueueNext(p) \/ Strike(p) \/ Drained(p))
      <3>1. queue' = queue
        BY <1>1, <2>5 DEF Step, TakeQueue, Accept, Refuse, Start, OutOfSync, Record, StartByHand,
           TakeChain, Judge, Gates, Judged, Recheck, Load, Kill, WordOfStop, Unlink, FindDead, Forget
      <3> QED
        BY <3>1 DEF Queued, LineLeavesByStarting
    <2> QED
      BY <2>1, <2>2, <2>3, <2>4, <2>5
  <1>2. ASSUME NEW p \in Procs, Killed(p) PROVE LineLeavesByStarting
    BY <1>2 DEF Killed, Queued, LineLeavesByStarting
  <1>3. ASSUME NEW n \in Ids, Reports(n) \/ Works(n) \/ Exit(n) PROVE LineLeavesByStarting
    BY <1>3 DEF Reports, Works, Commits, Pushes, Claims, Exit, Queued, LineLeavesByStarting
  <1>4. CASE UNCHANGED queue
    BY <1>4 DEF Queued, LineLeavesByStarting
  <1> QED
    BY <1>1, <1>2, <1>3, <1>4 DEF Next, vars

(* A queued line is never lost: whatever drains, ticks, starts by hand and  *)
(* adds overlap, and whoever is killed, a line leaves the queue in one way, *)
(* struck by the drain that has just started and recorded its session.      *)
THEOREM LinesStayTillStarted == Spec => LinesLeaveByStarting
  <1>1. Inv /\ [Next]_vars => [LineLeavesByStarting]_vars
    BY LinesStay
  <1>2. Init => Inv
    BY InitInv
  <1>3. Inv /\ [Next]_vars => Inv'
    BY NextKeepsInv
  <1> QED
    BY <1>1, <1>2, <1>3, PTL DEF Spec, LinesLeaveByStarting, LineLeavesByStarting
=============================================================================
