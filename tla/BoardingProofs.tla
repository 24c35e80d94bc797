--------------------------- MODULE BoardingProofs ---------------------------
(***************************************************************************)
(* What a host's watches, its table and its `say` promise, what the check  *)
(* before a train may say of a branch, what a train's merge may close, and *)
(* how the host's test lanes serve their callers: for any workers, scenes, *)
(* commands, trees, plans and lanes, and however the host, the sessions    *)
(* and the runs change in between.                                         *)
(*                                                                         *)
(* Four invariants: TowerInv (types, the watch, the text being said),      *)
(* FairInv (those the check found red), Settles (the train's line), over   *)
(* lemmas of what a shell's chain of commands shows of the one it stops at *)
(* and of what a merge settles; and LaneInv, of the lanes' own state.      *)
(***************************************************************************)
EXTENDS Boarding, Lane, TLAPS, SequenceTheorems, WellFoundedInduction, FiniteSetTheorems, FunctionTheorems

-----------------------------------------------------------------------------
(* The latest report of a session, and the orders it rests on.              *)

ReportWords == {"planned", "pushed", "blocked", "review-pass", "idle", "failed"}
Note == [worker : Workers, word : ReportWords, at : Nat, by : {"worker", "host", "train"}]

Heard(w) == [i \in {j \in DOMAIN file : file[j].worker = w /\ file[j].at >= session[w].started} |-> file[i].at]

LEMMA SessionReportIs ==
    ASSUME NEW w
    PROVE SessionReport(w) = IF DOMAIN Heard(w) = {} THEN NoReport ELSE file[Newest(Heard(w))]
BY DEF SessionReport, Last, Heard

LEMMA OthersReports ==
    ASSUME NEW w \in Workers, file \in Seq(Note), NEW x \in Note, file' = Append(file, x), x.worker # w,
           session'[w].started = session[w].started, session[w].started \in Nat,
           Newest(Heard(w)) \in DOMAIN file \/ DOMAIN Heard(w) = {}
    PROVE SessionReport(w)' = SessionReport(w)
<1>1. \A i \in DOMAIN file : i \in DOMAIN file' /\ file'[i] = file[i] OBVIOUS
<1>2. \A i \in DOMAIN file' : i \in DOMAIN file \/ file'[i] = x OBVIOUS
<1>3. Heard(w)' = Heard(w) BY <1>1, <1>2 DEF Heard
<1>4. SessionReport(w)' = IF DOMAIN Heard(w)' = {} THEN NoReport ELSE file'[Newest(Heard(w)')]
  BY DEF SessionReport, Last, Heard
<1> QED BY <1>1, <1>3, <1>4, SessionReportIs

LEMMA MaxOfTwo == \A a, b \in Nat : Max({a, b}) \in {a, b}
<1> SUFFICES ASSUME NEW a \in Nat, NEW b \in Nat PROVE Max({a, b}) \in {a, b} OBVIOUS
<1>1. \E x \in {a, b} : \A y \in {a, b} : x >= y
  <2>1. CASE a >= b BY <2>1
  <2>2. CASE b >= a BY <2>2
  <2> QED BY <2>1, <2>2
<1> QED BY <1>1 DEF Max

LEMMA Least ==
    ASSUME NEW S \in SUBSET Nat, S # {}
    PROVE  \E m \in S : \A k \in S : m <= k
<1> DEFINE below == {pair \in Nat \X Nat : pair[1] < pair[2]}
<1>1. OpToRel(<, Nat) = below BY Zenon DEF OpToRel
<1>2. IsWellFoundedOn(below, Nat) BY <1>1, NatLessThanWellFounded, Zenon
<1>3. \E m \in S : \A k \in S : <<k, m>> \notin below
  <2> HIDE DEF below
  <2> QED BY <1>2, WFMin
<1>4. \A k, m \in Nat : <<k, m>> \notin below => m <= k OBVIOUS
<1> HIDE DEF below
<1> QED BY <1>3, <1>4

LEMMA Induction ==
    ASSUME NEW S \in SUBSET Nat, 0 \in S, \A i \in S : i + 1 \in S
    PROVE  S = Nat
<1>1. SUFFICES ASSUME Nat \ S # {} PROVE FALSE OBVIOUS
<1>2. PICK m \in Nat \ S : \A k \in Nat \ S : m <= k BY <1>1, Least
<1>3. m - 1 \in S BY <1>2
<1> QED BY <1>2, <1>3

Newer(at, i, j) == at[j] < at[i] \/ (at[j] = at[i] /\ j <= i)

LEMMA NewestExists ==
    ASSUME NEW n \in Nat, NEW at, DOMAIN at \subseteq 1..n, DOMAIN at # {}, \A i \in DOMAIN at : at[i] \in Nat
    PROVE Newest(at) \in DOMAIN at
<1> DEFINE Up(m) == \A D \in SUBSET (DOMAIN at) : D # {} /\ D \subseteq 1..m =>
                        \E i \in D : \A j \in D : Newer(at, i, j)
           S == {m \in Nat : Up(m)}
<1>1. 0 \in S OBVIOUS
<1>2. ASSUME NEW m \in S PROVE m + 1 \in S
  <2>1. ASSUME NEW D \in SUBSET (DOMAIN at), D # {}, D \subseteq 1..(m + 1)
        PROVE \E i \in D : \A j \in D : Newer(at, i, j)
    <3>1. CASE D \subseteq 1..m BY <2>1, <3>1
    <3>2. CASE ~(D \subseteq 1..m)
      <4>1. m + 1 \in D BY <2>1, <3>2
      <4>2. CASE D = {m + 1} BY <4>1, <4>2 DEF Newer
      <4>3. CASE D \ {m + 1} # {}
        <5>1. PICK i \in D \ {m + 1} : \A j \in D \ {m + 1} : Newer(at, i, j)
          <6>1. D \ {m + 1} \in SUBSET (DOMAIN at) /\ D \ {m + 1} \subseteq 1..m BY <2>1
          <6> QED BY <4>3, <6>1
        <5>2. i \in Nat /\ at[i] \in Nat /\ at[m + 1] \in Nat BY <2>1, <4>1
        <5>3. i <= m + 1 BY <2>1
        <5>4. \A j \in D : j \in 1..(m + 1) /\ at[j] \in Nat BY <2>1
        <5>5. CASE at[m + 1] >= at[i]
          <6>1. \A j \in D : Newer(at, m + 1, j) BY <5>1, <5>2, <5>4, <5>5 DEF Newer
          <6> QED BY <4>1, <6>1
        <5>6. CASE at[m + 1] < at[i]
          <6>1. \A j \in D : Newer(at, i, j) BY <5>1, <5>2, <5>6 DEF Newer
          <6> QED BY <6>1
        <5> QED BY <5>2, <5>5, <5>6
      <4> QED BY <4>1, <4>2, <4>3
    <3> QED BY <3>1, <3>2
  <2> QED BY <2>1
<1>3. S = Nat
  <2> HIDE DEF Up
  <2> QED BY <1>1, <1>2, Induction
<1>4. \E i \in DOMAIN at : \A j \in DOMAIN at : Newer(at, i, j) BY <1>3
<1> QED BY <1>4 DEF Newest, Newer

LEMMA NoteTypes ==
    ASSUME file \in Seq(Note)
    PROVE /\ DOMAIN file = 1..Len(file) /\ Len(file) \in Nat
          /\ \A i \in DOMAIN file : file[i] \in Note /\ file[i].at \in Nat
<1>1. DOMAIN file = 1..Len(file) /\ Len(file) \in Nat OBVIOUS
<1>2. \A i \in DOMAIN file : file[i] \in Note OBVIOUS
<1>3. \A x \in Note : x.at \in Nat BY DEF Note
<1> QED BY <1>1, <1>2, <1>3

LEMMA ReportTypes ==
    ASSUME NEW w \in Workers, file \in Seq(Note)
    PROVE /\ DOMAIN Heard(w) # {} => Newest(Heard(w)) \in DOMAIN file
          /\ SessionReport(w).at \in Nat
<1>1. DOMAIN Heard(w) \subseteq DOMAIN file /\ DOMAIN Heard(w) \subseteq 1..Len(file) /\ Len(file) \in Nat
  BY NoteTypes DEF Heard
<1>2. \A i \in DOMAIN Heard(w) : Heard(w)[i] \in Nat BY NoteTypes DEF Heard
<1>3. DOMAIN Heard(w) # {} => Newest(Heard(w)) \in DOMAIN Heard(w) BY <1>1, <1>2, NewestExists
<1>4. CASE DOMAIN Heard(w) = {}
  <2>1. SessionReport(w) = NoReport BY <1>4, SessionReportIs
  <2> QED BY <2>1, <1>4 DEF NoReport
<1>5. CASE DOMAIN Heard(w) # {}
  <2>1. Newest(Heard(w)) \in DOMAIN file BY <1>1, <1>3, <1>5
  <2>2. SessionReport(w) = file[Newest(Heard(w))] BY <1>5, SessionReportIs
  <2> QED BY <2>1, <2>2, NoteTypes
<1> QED BY <1>4, <1>5

-----------------------------------------------------------------------------
(* Types.                                                                   *)

Session == [started : Nat, live : BOOLEAN, wrote : Nat, dialog : 0..2, line : {"empty", "ours"},
            tasks : {"open", "done", "unread"}, status : Nat, asks : BOOLEAN]
Counts == [stale : Nat, prompt : Nat, life : Nat]
WatchFields == {"pc", "offset", "due", "polled", "found", "hits", "lost"}
TalkFields == {"pc", "to", "tries", "gone", "took"}

SessionsOK ==
    /\ session \in [Workers -> Session] /\ commit \in [Workers -> Nat] /\ count \in [Workers -> Counts]
    /\ \A w \in Workers : session[w].live => w \in Here
TowerOK ==
    /\ scene \in DOMAIN Scenes /\ now \in Nat /\ file \in Seq(Note)
    /\ SessionsOK
    /\ DOMAIN watch = WatchFields /\ DOMAIN seen = {"prompt", "stale"}
    /\ DOMAIN talk = TalkFields /\ (talk.pc # "idle" => talk.to \in Workers)

RunFields == {"pc", "nr", "preflight", "aboard", "at", "second", "kept", "checked", "dropped", "said"}
RunOK ==
    /\ DOMAIN run = RunFields
    /\ run.aboard \in Seq(Workers) /\ run.kept \in Seq(Workers) /\ run.dropped \in Seq(Workers)
    /\ run.at \in Nat \ {0} /\ run.said \in Nat /\ run.said <= Len(run.dropped)
    /\ run.pc \in {"candidate", "preflight"} => run.said = 0
    /\ world \in Worlds[T.world]

LEMMA Stirred ==
    ASSUME SessionsOK, NEW w \in Workers, NEW of, Stirs(w, of)
    PROVE  /\ count' \in [Workers -> Counts] /\ count'[w].life = count[w].life + 1
           /\ \A v \in Workers : v # w => count'[v] = count[v]
<1> DEFINE row == [k \in DOMAIN count[w] |-> IF k \in of \cup {"life"} THEN count[w][k] + 1 ELSE count[w][k]]
<1>1. count[w] \in Counts BY DEF SessionsOK
<1>2. row \in Counts /\ row.life = count[w].life + 1 BY <1>1 DEF Counts
<1>3. count' = [count EXCEPT ![w] = row] BY DEF Stirs
<1> HIDE DEF row
<1> QED BY <1>2, <1>3 DEF SessionsOK

LEMMA ToldNotes ==
    ASSUME NEW w \in Workers, NEW word \in ReportWords, NEW by \in {"worker", "host", "train"}, now \in Nat
    PROVE  Report(w, word, by) \in Note /\ Report(w, word, by).worker = w
BY DEF Report, Note

-----------------------------------------------------------------------------
(* A session that is silent, or at a prompt, and the episode it is in: they *)
(* last until it stirs.                                                     *)

Kinds == {"prompt", "stale"}
Resting(k, w) == IF k = "prompt" THEN AtPrompt(w) ELSE Stale(w)
Episode(k, w) == IF k = "prompt" THEN PromptEpisode(w) ELSE StaleEpisode(w)

(* A session stirs, is dead, or is as silent as before.                     *)
Rests(w) ==
    /\ session[w].live
    /\ \A k \in Kinds : (Resting(k, w) => Resting(k, w)') /\ Episode(k, w)' = Episode(k, w)
SleepsOn(w) ==
    \/ count'[w].life > count[w].life
    \/ count'[w].life = count[w].life /\ (session'[w].live => Rests(w))

LEMMA AsleepStays ==
    ASSUME TowerOK, NEW w \in Workers, session'[w] \in Session,
           session'[w].started = session[w].started, session'[w].live = session[w].live,
           session'[w].wrote = session[w].wrote, session'[w].dialog = session[w].dialog,
           session'[w].tasks = session[w].tasks, session'[w].status = session[w].status,
           commit'[w] = commit[w], SessionReport(w)' = SessionReport(w),
           now' \in Nat, now' >= now, scene' = scene
    PROVE  \A k \in Kinds : (Resting(k, w) => Resting(k, w)') /\ Episode(k, w)' = Episode(k, w)
<1>1. PhaseOver(w)' = PhaseOver(w) BY DEF PhaseOver, T
<1>2. session[w] \in Session /\ commit[w] \in Nat /\ now \in Nat /\ SessionReport(w).at \in Nat
  BY ReportTypes DEF TowerOK, SessionsOK
<1>3. session[w].started \in Nat /\ session[w].wrote \in Nat /\ session[w].status \in Nat BY <1>2 DEF Session
<1>4. Since(w)' = Since(w) /\ Since(w) \in Nat BY <1>2, <1>3, MaxOfTwo DEF Since
<1>5. StaleAfter \in Nat /\ PromptAfter \in Nat BY MinutesAssumption
<1>6. Stale(w) => Stale(w)'
  <2>1. \A x \in Nat : now - x >= StaleAfter => now' - x >= StaleAfter BY <1>2, <1>5
  <2> QED BY <1>1, <1>2, <1>3, <1>4, <2>1 DEF Stale, QuietTooLong, Ago, Here
<1>7. AtPrompt(w) => AtPrompt(w)'
  <2>1. \A x \in Nat : now - x >= PromptAfter => now' - x >= PromptAfter BY <1>2, <1>5
  <2> QED BY <1>1, <1>3, <2>1 DEF AtPrompt, Ago, Here
<1>8. StaleEpisode(w)' = StaleEpisode(w) BY <1>4 DEF StaleEpisode
<1>9. PromptEpisode(w)' = PromptEpisode(w) BY DEF PromptEpisode
<1> QED BY <1>6, <1>7, <1>8, <1>9 DEF Resting, Episode

LEMMA SameReport ==
    ASSUME TowerOK, NEW w \in Workers, file' = file, session'[w].started = session[w].started
    PROVE  SessionReport(w)' = SessionReport(w)
BY DEF SessionReport, Last

(* The row of another, or one that shows the same; with a line of another's *)
(* report, or none.                                                         *)
LEMMA OthersSleepOn ==
    ASSUME TowerOK, NEW w \in Workers, session'[w] = session[w], commit'[w] = commit[w],
           count'[w] = count[w], now' \in Nat, now' >= now, scene' = scene,
           \/ file' = file
           \/ \E x \in Note : file' = Append(file, x) /\ x.worker # w
    PROVE  SleepsOn(w)
<1>1. session[w] \in Session /\ session[w].started \in Nat BY DEF TowerOK, SessionsOK, Session
<1>2. SessionReport(w)' = SessionReport(w)
  <2>1. CASE file' = file BY <2>1, SameReport
  <2>2. CASE \E x \in Note : file' = Append(file, x) /\ x.worker # w
    <3>1. PICK x \in Note : file' = Append(file, x) /\ x.worker # w BY <2>2
    <3>2. file \in Seq(Note) BY DEF TowerOK
    <3>3. Newest(Heard(w)) \in DOMAIN file \/ DOMAIN Heard(w) = {} BY <3>2, ReportTypes
    <3> QED BY <1>1, <3>1, <3>2, <3>3, OthersReports
  <2> QED BY <2>1, <2>2
<1>3. \A k \in Kinds : (Resting(k, w) => Resting(k, w)') /\ Episode(k, w)' = Episode(k, w)
  BY <1>1, <1>2, AsleepStays
<1> QED BY <1>1, <1>3 DEF SleepsOn, Rests

-----------------------------------------------------------------------------
(* Every step either lets a session sleep on or counts that it stirred.     *)

Lived == /\ SessionsOK' /\ scene' = scene /\ now' \in Nat /\ file' \in Seq(Note)
         /\ Len(file') >= Len(file) /\ \A w \in Workers : SleepsOn(w)

LEMMA TowerFacts ==
    ASSUME TowerOK
    PROVE  /\ now \in Nat /\ now >= now /\ file \in Seq(Note) /\ Len(file) \in Nat /\ Len(file) >= Len(file)
           /\ scene \in DOMAIN Scenes
           /\ \A w \in Workers : /\ session[w] \in Session /\ count[w] \in Counts /\ commit[w] \in Nat
                                 /\ count[w].life \in Nat
           /\ SessionsOK /\ count \in [Workers -> Counts]
           /\ \A w \in Workers : session[w].live => w \in Here
BY DEF TowerOK, SessionsOK, Counts

LEMMA NothingLived ==
    ASSUME TowerOK, scene' = scene, now' = now, file' = file, session' = session, commit' = commit, count' = count
    PROVE  Lived
<1>1. SessionsOK' BY TowerFacts DEF SessionsOK, Here
<1>2. \A w \in Workers : SleepsOn(w) BY TowerFacts, OthersSleepOn
<1> QED BY <1>1, <1>2, TowerFacts DEF Lived

LEMMA TickLived == ASSUME TowerOK, Tick PROVE Lived
<1>1. now' = now + 1 /\ scene' = scene /\ file' = file /\ session' = session /\ commit' = commit /\ count' = count
  BY DEF Tick, seeing
<1>2. SessionsOK' BY <1>1, TowerFacts DEF SessionsOK, Here
<1>3. now' \in Nat /\ now' >= now BY <1>1, TowerFacts
<1>4. \A w \in Workers : SleepsOn(w) BY <1>1, <1>3, TowerFacts, OthersSleepOn
<1> QED BY <1>1, <1>2, <1>3, <1>4, TowerFacts DEF Lived

(* One session stirs; it or somebody else reports.                          *)
LEMMA OneStirs ==
    ASSUME TowerOK, NEW w \in Workers, NEW of, Stirs(w, of),
           NEW s \in Session, session' = [session EXCEPT ![w] = s], s.live => w \in Here,
           scene' = scene, now' = now, NEW n \in Nat, commit' \in {commit, [commit EXCEPT ![w] = n]},
           \/ file' = file
           \/ \E x \in Note : file' = Append(file, x) /\ x.worker = w
    PROVE  Lived
<1>1. /\ count' \in [Workers -> Counts] /\ count'[w].life = count[w].life + 1
      /\ \A v \in Workers : v # w => count'[v] = count[v]
  BY TowerFacts, Stirred
<1>2. session' \in [Workers -> Session] /\ session'[w] = s /\ \A v \in Workers : v # w => session'[v] = session[v]
  BY DEF TowerOK, SessionsOK
<1>3. commit' \in [Workers -> Nat] /\ \A v \in Workers : v # w => commit'[v] = commit[v]
  BY DEF TowerOK, SessionsOK
<1>4. \A v \in Workers : session'[v].live => v \in Here BY <1>2, TowerFacts
<1>5. SessionsOK' BY <1>1, <1>2, <1>3, <1>4 DEF SessionsOK, Here
<1>6. file' \in Seq(Note) /\ Len(file') >= Len(file) BY TowerFacts
<1>7. ASSUME NEW v \in Workers PROVE SleepsOn(v)
  <2>1. CASE v = w BY <1>1, <2>1, TowerFacts DEF SleepsOn
  <2>2. CASE v # w
    <3>1. \/ file' = file
          \/ \E x \in Note : file' = Append(file, x) /\ x.worker # v
      BY <2>2
    <3> QED BY <1>1, <1>2, <1>3, <2>2, <3>1, TowerFacts, OthersSleepOn
  <2> QED BY <2>1, <2>2
<1> QED BY <1>5, <1>6, <1>7, TowerFacts DEF Lived

(* One changes what nobody who watches asks for, or ends.                   *)
LEMMA OneFidgets ==
    ASSUME TowerOK, NEW w \in Workers, NEW s \in Session, session' = [session EXCEPT ![w] = s],
           \/ ~s.live
           \/ /\ s.live = session[w].live /\ s.started = session[w].started /\ s.wrote = session[w].wrote
              /\ s.dialog = session[w].dialog /\ s.tasks = session[w].tasks /\ s.status = session[w].status,
           scene' = scene, now' = now, file' = file, commit' = commit, count' = count
    PROVE  Lived
<1>1. session' \in [Workers -> Session] /\ session'[w] = s /\ \A v \in Workers : v # w => session'[v] = session[v]
  BY DEF TowerOK, SessionsOK
<1>2. \A v \in Workers : session'[v].live => v \in Here BY <1>1, TowerFacts
<1>3. SessionsOK' BY <1>1, <1>2, TowerFacts DEF SessionsOK, Here
<1>4. ASSUME NEW v \in Workers PROVE SleepsOn(v)
  <2>1. CASE v = w /\ ~s.live BY <1>1, <2>1 DEF SleepsOn
  <2>2. CASE v = w /\ s.live
    <3>1. SessionReport(w)' = SessionReport(w) BY <1>1, <2>2, SameReport
    <3>2. \A k \in Kinds : (Resting(k, w) => Resting(k, w)') /\ Episode(k, w)' = Episode(k, w)
      BY <1>1, <2>2, <3>1, TowerFacts, AsleepStays
    <3> QED BY <1>1, <2>2, <3>2 DEF SleepsOn, Rests
  <2>3. CASE v # w BY <1>1, <2>3, TowerFacts, OthersSleepOn
  <2> QED BY <2>1, <2>2, <2>3
<1> QED BY <1>3, <1>4, TowerFacts DEF Lived

LEMMA AroundLived == ASSUME TowerOK, Around PROVE Lived
<1>1. CASE Tick BY <1>1, TickLived
<1>2. CASE FetchReports BY <1>2, NothingLived DEF FetchReports, Same, seeing
<1>3. ASSUME NEW w \in Workers, Commit(w) PROVE Lived
  <2>1. [session EXCEPT ![w] = session[w]] = session BY TowerFacts DEF SessionsOK
  <2>2. /\ session' = [session EXCEPT ![w] = session[w]] /\ commit' = [commit EXCEPT ![w] = now]
        /\ scene' = scene /\ now' = now /\ file' = file
    BY <1>3, <2>1 DEF Commit, Same
  <2>3. Stirs(w, {"stale"}) BY <1>3 DEF Commit
  <2> QED BY <2>2, <2>3, TowerFacts, OneStirs
<1>4. ASSUME NEW w \in Workers, Beats(w) PROVE Lived
  <2>0. PICK s : s = [session[w] EXCEPT !.status = now] OBVIOUS
  <2>1. s \in Session /\ s.live = session[w].live BY <2>0, TowerFacts DEF Session
  <2>2. session' = [session EXCEPT ![w] = s] /\ Stirs(w, {})
        /\ commit' = commit /\ scene' = scene /\ now' = now /\ file' = file
    BY <1>4, <2>0 DEF Beats, Same
  <2> QED BY <2>1, <2>2, TowerFacts, OneStirs
<1>5. ASSUME NEW w \in Workers, NEW t \in {"open", "done", "unread"}, Turns(w, t) PROVE Lived
  <2>0. PICK s : s = [session[w] EXCEPT !.tasks = t] OBVIOUS
  <2>1. s \in Session /\ s.live = session[w].live BY <2>0, TowerFacts DEF Session
  <2>2. session' = [session EXCEPT ![w] = s] /\ Stirs(w, {})
        /\ commit' = commit /\ scene' = scene /\ now' = now /\ file' = file
    BY <1>5, <2>0 DEF Turns, Same
  <2> QED BY <2>1, <2>2, TowerFacts, OneStirs
<1>6. ASSUME NEW w \in Workers, Asks(w) PROVE Lived
  <2>1. PICK s : s = [session[w] EXCEPT !.asks = ~session[w].asks] OBVIOUS
  <2>2. s \in Session /\ s.live = session[w].live /\ s.started = session[w].started /\ s.wrote = session[w].wrote
        /\ s.dialog = session[w].dialog /\ s.tasks = session[w].tasks /\ s.status = session[w].status
    BY <2>1, TowerFacts DEF Session
  <2>3. session' = [session EXCEPT ![w] = s] /\ scene' = scene /\ now' = now /\ file' = file /\ commit' = commit /\ count' = count
    BY <1>6, <2>1 DEF Asks, Same
  <2> QED BY <2>2, <2>3, OneFidgets
<1>7. ASSUME NEW w \in Workers, Ends(w) PROVE Lived
  <2>1. PICK s : s = [session[w] EXCEPT !.live = FALSE] OBVIOUS
  <2>2. s \in Session /\ ~s.live BY <2>1, TowerFacts DEF Session
  <2>3. session' = [session EXCEPT ![w] = s] /\ scene' = scene /\ now' = now /\ file' = file /\ commit' = commit /\ count' = count
    BY <1>7, <2>1 DEF Ends
  <2> QED BY <2>2, <2>3, OneFidgets
<1>8. ASSUME NEW w \in Workers, Starts(w) PROVE Lived
  <2>1. NewSession \in Session BY TowerFacts DEF Session, NewSession
  <2>2. session' = [session EXCEPT ![w] = NewSession] /\ Stirs(w, {"stale", "prompt"}) /\ w \in Here
        /\ commit' = commit /\ scene' = scene /\ now' = now /\ file' = file
    BY <1>8 DEF Starts, Same
  <2> QED BY <2>1, <2>2, TowerFacts, OneStirs
<1>9. ASSUME NEW w \in Workers, NEW d \in 0..2, Writes(w, d) PROVE Lived
  <2>1. PICK s : s = [session[w] EXCEPT !.wrote = now, !.dialog = d] OBVIOUS
  <2>2. s \in Session /\ s.live = session[w].live
    <3>1. session[w] \in Session /\ now \in Nat BY TowerFacts
    <3>2. PICK x : x = session[w] OBVIOUS
    <3>3. s = [x EXCEPT !.wrote = now, !.dialog = d] BY <2>1, <3>2
    <3> QED BY <3>1, <3>2, <3>3 DEF Session
  <2>3. session' = [session EXCEPT ![w].wrote = now, ![w].dialog = d] /\ Stirs(w, {"prompt"})
        /\ commit' = commit /\ scene' = scene /\ now' = now /\ file' = file
    BY <1>9 DEF Writes, Same
  <2>4. session' = [session EXCEPT ![w] = s] BY <2>1, <2>3, TowerFacts DEF SessionsOK
  <2> QED BY <2>2, <2>3, <2>4, TowerFacts, OneStirs
<1>10. T.words \subseteq ReportWords BY TowerFacts, ScenesAssumption DEF T, ReportWords
<1>11. ASSUME NEW w \in Workers, NEW word \in T.words, Reports(w, word) PROVE Lived
  <2>1. PICK x \in Note : x = Report(w, word, "worker") /\ x.worker = w BY <1>10, TowerFacts, ToldNotes
  <2>2. [session EXCEPT ![w] = session[w]] = session BY TowerFacts DEF SessionsOK
  <2>3. /\ session' = [session EXCEPT ![w] = session[w]] /\ file' = Append(file, x) /\ Stirs(w, {"stale"})
        /\ commit' = commit /\ scene' = scene /\ now' = now
    BY <1>11, <2>1, <2>2 DEF Reports, Same
  <2> QED BY <2>1, <2>3, TowerFacts, OneStirs
<1>12. ASSUME NEW w \in Workers, NEW word, Publishes(w, word) PROVE Lived
  BY <1>12, NothingLived DEF Publishes, Same, seeing
<1> QED BY <1>1, <1>2, <1>3, <1>4, <1>5, <1>6, <1>7, <1>8, <1>9, <1>11, <1>12 DEF Around

LEMMA WatchLived == ASSUME TowerOK, Watches \/ Minute \/ TimesOut \/ Killed PROVE Lived /\ UNCHANGED talk
<1>1. scene' = scene /\ now' = now /\ file' = file /\ session' = session /\ commit' = commit /\ count' = count /\ talk' = talk
  BY DEF Watches, Minute, TimesOut, Killed, Arm, Poll, Matched, Look, Announce, WatchSame, seeing
<1> QED BY <1>1, NothingLived

LEMMA ScreenAnswered == ASSUME TowerOK, talk.to \in Workers, Answered,
                               scene' = scene, now' = now, file' = file, commit' = commit
                        PROVE Lived
<1>0. PICK w \in Workers : w = talk.to OBVIOUS
<1>1. PICK s : s = [session[w] EXCEPT !.dialog = 0, !.wrote = now] OBVIOUS
<1>2. s \in Session /\ s.live = session[w].live
  <2>1. session[w] \in Session /\ now \in Nat BY TowerFacts
  <2>2. PICK x : x = [session[w] EXCEPT !.dialog = 0] OBVIOUS
  <2>3. x \in Session /\ x.live = session[w].live BY <2>1, <2>2 DEF Session
  <2>4. s = [x EXCEPT !.wrote = now] BY <1>1, <2>2
  <2> QED BY <2>1, <2>3, <2>4 DEF Session
<1>3. session' = [session EXCEPT ![w] = s] /\ Stirs(w, {"prompt"}) BY <1>0, <1>1 DEF Answered, Screens, Screen
<1> QED BY <1>2, <1>3, TowerFacts, OneStirs

LEMMA LineLived ==
    ASSUME TowerOK, talk.to \in Workers, NEW l \in {"ours", "empty"}, Screens([Screen EXCEPT !.line = l]),
           scene' = scene, now' = now, file' = file, commit' = commit, count' = count
    PROVE Lived
<1> DEFINE w == talk.to
<1>1. PICK s : s = [session[w] EXCEPT !.line = l] OBVIOUS
<1>2. s \in Session /\ s.live = session[w].live /\ s.started = session[w].started /\ s.wrote = session[w].wrote
      /\ s.dialog = session[w].dialog /\ s.tasks = session[w].tasks /\ s.status = session[w].status
  BY <1>1, TowerFacts DEF Session
<1>3. session' = [session EXCEPT ![w] = s] BY <1>1 DEF Screens, Screen
<1> QED BY <1>2, <1>3, OneFidgets

LEMMA SaysLived == ASSUME TowerOK, Says PROVE Lived /\ (talk'.pc # "idle" => talk'.to \in Workers) /\ DOMAIN talk' = TalkFields
<1>1. CASE \E w \in Workers : Say(w)
  <2>1. PICK w \in Workers : Say(w) BY <1>1
  <2>2. Lived BY <2>1, NothingLived DEF Say, seeing
  <2>3. talk' = [pc |-> "look", to |-> w, tries |-> 3, gone |-> FALSE, took |-> FALSE] BY <2>1 DEF Say
  <2>4. DOMAIN talk' = TalkFields BY <2>3 DEF TalkFields
  <2> QED BY <2>2, <2>3, <2>4
<1>2. ASSUME LooksFirst \/ Types \/ LooksAfter \/ Enters \/ Confirms
      PROVE Lived /\ (talk'.pc # "idle" => talk'.to \in Workers) /\ DOMAIN talk' = TalkFields
  <2>1. talk.pc # "idle" BY <1>2 DEF LooksFirst, Types, LooksAfter, Enters, Confirms
  <2>2. talk.to \in Workers /\ DOMAIN talk = TalkFields BY <2>1 DEF TowerOK
  <2>3. scene' = scene /\ now' = now /\ file' = file /\ commit' = commit
    BY <1>2 DEF LooksFirst, Types, LooksAfter, Enters, Confirms, SaySame
  <2>4. DOMAIN talk' = DOMAIN talk /\ talk'.to = talk.to
    BY <1>2, <2>2 DEF LooksFirst, Types, LooksAfter, Enters, Confirms, Goes, TalkFields
  <2>5. session[talk.to] \in Session BY <2>2, TowerFacts
  <2>0. SUFFICES Lived BY <1>2, <2>2, <2>4
  <2>6. CASE LooksFirst \/ Confirms
    BY <2>3, <2>6, NothingLived DEF LooksFirst, Confirms, SaySame
  <2>7. CASE Types
    <3>1. CASE UNCHANGED <<session, count>> BY <2>3, <3>1, NothingLived
    <3>2. CASE Answered BY <2>2, <2>3, <3>2, ScreenAnswered
    <3>3. CASE UNCHANGED count /\ \E l \in {"ours", Screen.line} : Screens([Screen EXCEPT !.line = l])
      <4>1. PICK l \in {"ours", Screen.line} : Screens([Screen EXCEPT !.line = l]) BY <3>3
      <4>2. l \in {"ours", "empty"} BY <2>5, <4>1 DEF Screen, Session
      <4> QED BY <2>2, <2>3, <3>3, <4>1, <4>2, LineLived
    <3> QED BY <2>7, <3>1, <3>2, <3>3 DEF Types
  <2>8. CASE LooksAfter
    <3>1. CASE UNCHANGED session BY <2>3, <2>8, <3>1, NothingLived DEF LooksAfter
    <3>2. CASE Screens([Screen EXCEPT !.line = "empty"]) BY <2>2, <2>3, <2>8, <3>2, LineLived DEF LooksAfter
    <3> QED BY <2>8, <3>1, <3>2 DEF LooksAfter
  <2>9. CASE Enters
    <3>1. CASE UNCHANGED <<session, count>> BY <2>3, <3>1, NothingLived
    <3>2. CASE Answered BY <2>2, <2>3, <3>2, ScreenAnswered
    <3>3. CASE Screens([Screen EXCEPT !.line = "empty", !.wrote = now]) /\ Stirs(talk.to, {"prompt"})
      <4> DEFINE w == talk.to
      <4>1. PICK x : x = session[w] OBVIOUS
      <4>2. PICK s : s = [x EXCEPT !.line = "empty", !.wrote = now] OBVIOUS
      <4>3. s \in Session /\ s.live = session[w].live BY <4>1, <4>2, TowerFacts, <2>5 DEF Session
      <4>4. session' = [session EXCEPT ![w] = s] BY <3>3, <4>1, <4>2 DEF Screens, Screen
      <4> QED BY <2>2, <2>3, <3>3, <4>3, <4>4, TowerFacts, OneStirs
    <3> QED BY <2>9, <3>1, <3>2, <3>3 DEF Enters
  <2> QED BY <1>2, <2>6, <2>7, <2>8, <2>9
<1> QED BY <1>1, <1>2 DEF Says

LEMMA BoardsLived == ASSUME TowerOK, RunOK, Boards PROVE Lived /\ UNCHANGED <<watch, seen, told, talk>>
<1>1. CASE Tells
  <2>1. CASE run.said = Len(run.dropped)
    BY <1>1, <2>1, NothingLived DEF Tells, Goes2
  <2>2. CASE run.said # Len(run.dropped)
    <3>1. run.said + 1 \in 1..Len(run.dropped) BY <2>2 DEF RunOK
    <3>2. PICK w \in Workers : w = run.dropped[run.said + 1] BY <3>1 DEF RunOK
    <3>3. PICK x \in Note : x = Report(w, "blocked", "train") /\ x.worker = w
      <4>1. "blocked" \in ReportWords /\ "train" \in {"worker", "host", "train"} BY DEF ReportWords
      <4> QED BY <4>1, TowerFacts, ToldNotes
    <3>4. [session EXCEPT ![w] = session[w]] = session BY TowerFacts DEF SessionsOK
    <3>5. /\ session' = [session EXCEPT ![w] = session[w]] /\ file' = Append(file, x) /\ Stirs(w, {"stale"})
          /\ commit' = commit /\ scene' = scene /\ now' = now
      BY <1>1, <2>2, <3>2, <3>3, <3>4 DEF Tells
    <3>6. Lived BY <3>3, <3>5, TowerFacts, OneStirs
    <3> QED BY <1>1, <3>6 DEF Tells
  <2> QED BY <2>1, <2>2
<1>2. CASE ~Tells
  <2>1. scene' = scene /\ now' = now /\ file' = file /\ session' = session /\ commit' = commit /\ count' = count
        /\ UNCHANGED <<watch, seen, told, talk>>
    BY <1>2 DEF Boards, Departs, Candidate, Again, Confirmed, Leaves, Merges, Built, Dies, HostBreaks, OwnerMoves,
                BoardingSame, towerVars, seeing
  <2> QED BY <2>1, NothingLived
<1>3. UNCHANGED <<watch, seen, told, talk>> BY <1>1, <1>2 DEF Boards, Departs, Candidate, Again, Confirmed, Leaves, Merges, Built, Dies, HostBreaks, OwnerMoves,
                BoardingSame, towerVars, seeing, Tells
<1> QED BY <1>1, <1>2, <1>3

-----------------------------------------------------------------------------
(* The watch. What was said of an episode is in `seen` for as long as the   *)
(* session stays in it, also between a look and the file written after it.  *)

Spoken == told \cup watch.hits
Remembered(k, w, life) ==
    /\ life \in Nat /\ life <= count[w].life
    /\ life = count[w].life /\ session[w].live => Resting(k, w) /\ <<w, Episode(k, w)>> \in seen[k]
Announced == \A k \in Kinds, w \in Workers : \A nr, life : <<k, w, nr, life>> \in Spoken => Remembered(k, w, life)

Fair(k, r) ==
    /\ r.to \in Workers /\ r.life \in Nat /\ r.life <= count[r.to].life
    /\ r.life = count[r.to].life /\ session[r.to].live => Resting(k, r.to) /\ r.episode = Episode(k, r.to)
    /\ <<k, r.to, r.nr, r.life>> \in Spoken => <<r.to, r.episode>> \in seen[k]
FoundAgain(k) ==
    \A w \in Workers : \A nr, life : <<k, w, nr, life>> \in Spoken /\ life = count[w].life /\ session[w].live =>
        \E r \in watch.found : r.to = w /\ r.episode = Episode(k, w)
FoundOK(k) == (\A r \in watch.found : Fair(k, r)) /\ FoundAgain(k)

LinesOnce ==
    /\ watch.offset \in Nat /\ watch.offset <= Len(file)
    /\ \A i : <<"line", i, 0, 0>> \in Spoken => i \in Nat /\ i <= Len(file)
    /\ \A i : <<"line", i, 0, 0>> \in told /\ watch.pc \notin {"off", "print"} => i <= watch.offset

WatchInv ==
    /\ watch.pc \in {"off", "armed", "prompts", "prompted", "sessions", "looked", "print"}
    /\ watch.pc \in {"off", "armed", "prompts", "prompted"} => watch.hits = {}
    /\ watch.hits \cap told = {}
    /\ LinesOnce /\ Announced
    /\ watch.pc = "prompted" => FoundOK("prompt")
    /\ watch.pc = "looked" => FoundOK("stale")

LEMMA RowsAre ==
    ASSUME NEW k \in Kinds, TowerOK
    PROVE  /\ \A r \in Rows(k) : \E w \in Workers :
                  r.to = w /\ r.episode = Episode(k, w) /\ r.life = count[w].life /\ Resting(k, w)
           /\ \A w \in Workers : Resting(k, w) => \E r \in Rows(k) : r.to = w /\ r.episode = Episode(k, w)
<1>1. CASE k = "prompt"
  <2> DEFINE Row(w) == [to |-> w, episode |-> PromptEpisode(w), nr |-> count[w].prompt, life |-> count[w].life]
  <2>1. Rows(k) = {Row(w) : w \in {v \in Workers : AtPrompt(v)}} BY <1>1 DEF Rows
  <2>2. \A w \in Workers : Resting(k, w) = AtPrompt(w) /\ Episode(k, w) = PromptEpisode(w)
    BY <1>1 DEF Resting, Episode
  <2>3. \A w : Row(w).to = w /\ Row(w).episode = PromptEpisode(w) /\ Row(w).life = count[w].life OBVIOUS
  <2> HIDE DEF Row
  <2> QED BY <2>1, <2>2, <2>3
<1>2. CASE k = "stale"
  <2> DEFINE Row(w) == [to |-> w, episode |-> StaleEpisode(w), nr |-> count[w].stale, life |-> count[w].life]
  <2>1. Rows(k) = {Row(w) : w \in {v \in Workers : Stale(v)}} BY <1>2 DEF Rows
  <2>2. \A w \in Workers : Resting(k, w) = Stale(w) /\ Episode(k, w) = StaleEpisode(w)
    BY <1>2 DEF Resting, Episode
  <2>3. \A w : Row(w).to = w /\ Row(w).episode = StaleEpisode(w) /\ Row(w).life = count[w].life OBVIOUS
  <2> HIDE DEF Row
  <2> QED BY <2>1, <2>2, <2>3
<1> QED BY <1>1, <1>2 DEF Kinds

LEMMA RestingLives == \A k \in Kinds : \A w : Resting(k, w) => session[w].live
BY DEF Resting, AtPrompt, Stale, Kinds

LEMMA LivedOn ==
    ASSUME TowerOK, Lived, NEW w \in Workers
    PROVE  /\ count'[w].life \in Nat /\ count'[w].life >= count[w].life /\ count[w].life \in Nat
           /\ count'[w].life = count[w].life /\ session'[w].live =>
                 session[w].live /\ \A k \in Kinds : (Resting(k, w) => Resting(k, w)') /\ Episode(k, w)' = Episode(k, w)
<1>1. count'[w].life \in Nat /\ count[w].life \in Nat BY TowerFacts DEF Lived, SessionsOK, Counts
<1>2. SleepsOn(w) BY DEF Lived
<1> QED BY <1>1, <1>2 DEF SleepsOn, Rests

LEMMA RememberedStays ==
    ASSUME TowerOK, Lived, NEW k \in Kinds, NEW w \in Workers, NEW life, Remembered(k, w, life), seen'[k] = seen[k]
    PROVE  Remembered(k, w, life)'
<1>1. life \in Nat /\ life <= count[w].life BY DEF Remembered
<1>2. CASE life = count'[w].life /\ session'[w].live
  <2>1. life = count[w].life /\ count'[w].life = count[w].life BY <1>1, <1>2, LivedOn
  <2>2. Resting(k, w)' /\ Episode(k, w)' = Episode(k, w) /\ <<w, Episode(k, w)>> \in seen[k]
    BY <1>2, <2>1, LivedOn DEF Remembered
  <2> QED BY <1>1, <2>1, <2>2 DEF Remembered
<1>3. CASE ~(life = count'[w].life /\ session'[w].live) BY <1>1, <1>3, LivedOn DEF Remembered
<1> QED BY <1>2, <1>3

(* What was found stays as it was found, whatever happens meanwhile.        *)
LEMMA FoundStays ==
    ASSUME TowerOK, Lived, NEW k \in Kinds, FoundOK(k), Announced, seen' = seen, watch'.found = watch.found, Spoken' = Spoken
    PROVE  FoundOK(k)'
<1>1. ASSUME NEW r \in watch.found PROVE Fair(k, r)'
  <2>1. Fair(k, r) BY DEF FoundOK
  <2>2. r.to \in Workers /\ r.life \in Nat /\ r.life <= count[r.to].life BY <2>1 DEF Fair
  <2>3. r.life <= count'[r.to].life BY <2>2, LivedOn
  <2>4. ASSUME r.life = count'[r.to].life, session'[r.to].live
        PROVE Resting(k, r.to)' /\ r.episode = Episode(k, r.to)'
    <3>1. r.life = count[r.to].life /\ count'[r.to].life = count[r.to].life BY <2>2, <2>4, LivedOn
    <3> QED BY <2>1, <2>2, <2>4, <3>1, LivedOn DEF Fair
  <2> QED BY <2>1, <2>2, <2>3, <2>4 DEF Fair
<1>2. FoundAgain(k)'
  <2>1. ASSUME NEW w \in Workers, NEW nr, NEW life, <<k, w, nr, life>> \in Spoken,
               life = count'[w].life, session'[w].live
        PROVE  \E r \in watch.found : r.to = w /\ r.episode = Episode(k, w)'
    <3>1. life \in Nat /\ life <= count[w].life BY <2>1 DEF Announced, Remembered
    <3>2. life = count[w].life /\ count'[w].life = count[w].life BY <2>1, <3>1, LivedOn
    <3>3. session[w].live /\ Episode(k, w)' = Episode(k, w) BY <2>1, <3>2, LivedOn
    <3>4. PICK r \in watch.found : r.to = w /\ r.episode = Episode(k, w)
      BY <2>1, <3>2, <3>3 DEF FoundOK, FoundAgain
    <3> QED BY <3>3, <3>4
  <2> QED BY <2>1 DEF FoundAgain
<1> QED BY <1>1, <1>2 DEF FoundOK

LEMMA AnnouncedStays ==
    ASSUME TowerOK, Lived, Announced, seen' = seen, Spoken' \subseteq Spoken
    PROVE  Announced'
<1>1. ASSUME NEW k \in Kinds, NEW w \in Workers, NEW nr, NEW life, <<k, w, nr, life>> \in Spoken
      PROVE  Remembered(k, w, life)'
  BY <1>1, RememberedStays DEF Announced
<1> QED BY <1>1 DEF Announced

LEMMA WatchUntouched ==
    ASSUME TowerOK, Lived, WatchInv, UNCHANGED <<watch, seen, told>>
    PROVE  WatchInv'
<1>1. Spoken' = Spoken /\ watch' = watch /\ seen' = seen /\ told' = told BY DEF Spoken
<1>2. Announced' BY <1>1, AnnouncedStays DEF WatchInv
<1>3. Len(file') \in Nat /\ Len(file) \in Nat /\ Len(file') >= Len(file) BY TowerFacts DEF Lived
<1>4. LinesOnce' BY <1>1, <1>3 DEF LinesOnce, WatchInv
<1>5. watch.pc = "prompted" => FoundOK("prompt")' BY <1>1, FoundStays DEF WatchInv, Kinds
<1>6. watch.pc = "looked" => FoundOK("stale")' BY <1>1, FoundStays DEF WatchInv, Kinds
<1> QED BY <1>1, <1>2, <1>4, <1>5, <1>6 DEF WatchInv

LEMMA LookStep ==
    ASSUME TowerOK, WatchInv, Lived, NEW k \in Kinds, NEW from, NEW to, Look(k, from, to)
    PROVE  /\ FoundOK(k)' /\ Announced' /\ Spoken' = Spoken
<1>1. watch'.found = Rows(k) /\ watch'.hits = watch.hits /\ seen' = seen /\ told' = told /\ count' = count
      /\ session' = session
  BY DEF Look, TowerOK, WatchFields, WatchSame, seeing
<1>2. Spoken' = Spoken BY <1>1 DEF Spoken
<1>3. Announced' BY <1>1, <1>2, AnnouncedStays DEF WatchInv
<1>4. \A w \in Workers : session[w].live => Episode(k, w)' = Episode(k, w) /\ (Resting(k, w) => Resting(k, w)')
  BY <1>1, LivedOn
<1>5. ASSUME NEW r \in Rows(k) PROVE Fair(k, r)'
  <2>1. PICK w \in Workers : r.to = w /\ r.episode = Episode(k, w) /\ r.life = count[w].life /\ Resting(k, w)
    BY RowsAre
  <2>2. session[w].live /\ r.episode = Episode(k, w)' /\ Resting(k, w)' BY <1>4, <2>1, RestingLives
  <2>3. r.life \in Nat /\ r.life <= count'[r.to].life BY <1>1, <2>1, TowerFacts
  <2>4. ASSUME <<k, r.to, r.nr, r.life>> \in Spoken PROVE <<r.to, r.episode>> \in seen[k]
    BY <2>1, <2>2, <2>4 DEF WatchInv, Announced, Remembered
  <2> QED BY <1>1, <1>2, <2>1, <2>2, <2>3, <2>4 DEF Fair
<1>6. FoundAgain(k)'
  <2>1. ASSUME NEW w \in Workers, NEW nr, NEW life, <<k, w, nr, life>> \in Spoken, life = count[w].life, session[w].live
        PROVE  \E r \in Rows(k) : r.to = w /\ r.episode = Episode(k, w)'
    <3>1. Resting(k, w) BY <2>1 DEF WatchInv, Announced, Remembered
    <3> QED BY <1>4, <2>1, <3>1, RowsAre
  <2> QED BY <1>1, <1>2, <2>1 DEF FoundAgain
<1> QED BY <1>1, <1>2, <1>3, <1>5, <1>6 DEF FoundOK

LEMMA AnnounceStep ==
    ASSUME TowerOK, WatchInv, Lived, NEW k \in Kinds, NEW from, NEW to, Announce(k, from, to), FoundOK(k)
    PROVE  /\ Announced' /\ watch'.hits \cap told' = {}
           /\ \A i : <<"line", i, 0, 0>> \in Spoken' => <<"line", i, 0, 0>> \in Spoken
<1> DEFINE Hit(r) == <<k, r.to, r.nr, r.life>>
           new == {Hit(r) : r \in NewRows(k)}
<1>1. /\ watch'.hits = watch.hits \cup new /\ told' = told /\ count' = count /\ session' = session
      /\ seen' = [seen EXCEPT ![k] = Episodes(watch.found)]
  BY DEF Announce, TowerOK, WatchFields, WatchSame, seeing, Kept
<1>2. seen'[k] = Episodes(watch.found) /\ \A j \in Kinds : j # k => seen'[j] = seen[j]
  BY <1>1 DEF TowerOK, Kinds
<1>3. \A r \in NewRows(k) : r \in watch.found /\ <<r.to, r.episode>> \notin seen[k] BY DEF NewRows
<1>4. new \cap Spoken = {}
  <2>1. ASSUME NEW r \in NewRows(k) PROVE Hit(r) \notin Spoken BY <1>3, <2>1 DEF FoundOK, Fair
  <2> QED BY <2>1
<1>5. \A r \in watch.found : <<r.to, r.episode>> \in seen'[k] BY <1>2 DEF Episodes
<1>6. ASSUME NEW j \in Kinds, NEW w \in Workers, NEW nr, NEW life, <<j, w, nr, life>> \in Spoken'
      PROVE  Remembered(j, w, life)'
  <2>1. CASE <<j, w, nr, life>> \in Spoken /\ j # k
    BY <1>2, <2>1, RememberedStays DEF WatchInv, Announced
  <2>2. CASE <<j, w, nr, life>> \in Spoken /\ j = k
    <3>1. Remembered(k, w, life) BY <2>2 DEF WatchInv, Announced
    <3>2. life \in Nat /\ life <= count'[w].life BY <1>1, <3>1 DEF Remembered
    <3>3. ASSUME life = count[w].life, session[w].live
          PROVE Resting(k, w)' /\ <<w, Episode(k, w)'>> \in seen'[k]
      <4>1. Resting(k, w)' /\ Episode(k, w)' = Episode(k, w) BY <1>1, <3>1, <3>3, LivedOn DEF Remembered
      <4>2. PICK r \in watch.found : r.to = w /\ r.episode = Episode(k, w)
        BY <2>2, <3>3 DEF FoundOK, FoundAgain
      <4> QED BY <1>5, <4>1, <4>2
    <3> QED BY <1>1, <2>2, <3>2, <3>3 DEF Remembered
  <2>3. CASE <<j, w, nr, life>> \in new
    <3>1. PICK r \in NewRows(k) : <<j, w, nr, life>> = Hit(r) BY <2>3
    <3>2. r \in watch.found /\ j = k /\ w = r.to /\ life = r.life BY <1>3, <3>1
    <3>3. life \in Nat /\ life <= count'[w].life BY <1>1, <3>2 DEF FoundOK, Fair
    <3>4. ASSUME life = count[w].life, session[w].live
          PROVE Resting(k, w)' /\ <<w, Episode(k, w)'>> \in seen'[k]
      <4>1. Resting(k, w) /\ r.episode = Episode(k, w) BY <3>2, <3>4 DEF FoundOK, Fair
      <4>2. Resting(k, w)' /\ Episode(k, w)' = Episode(k, w) BY <1>1, <3>4, <4>1, LivedOn
      <4> QED BY <1>5, <3>2, <4>1, <4>2
    <3> QED BY <1>1, <3>2, <3>3, <3>4 DEF Remembered
  <2> HIDE DEF new
  <2> QED BY <1>1, <1>6, <2>1, <2>2, <2>3 DEF Spoken
<1>7. Announced' BY <1>6 DEF Announced
<1>8. ASSUME NEW i PROVE <<"line", i, 0, 0>> \notin new
  <2>1. \A r : Hit(r)[1] = k OBVIOUS
  <2>2. k # "line" BY DEF Kinds
  <2> QED BY <2>1, <2>2
<1> HIDE DEF new
<1>9. watch'.hits \cap told' = {} BY <1>1, <1>4 DEF WatchInv, Spoken
<1> QED BY <1>1, <1>7, <1>8, <1>9 DEF Spoken

LEMMA WatchFieldsStay ==
    ASSUME TowerOK, Watches \/ Minute \/ TimesOut \/ Killed
    PROVE  DOMAIN watch' = WatchFields /\ DOMAIN seen' = {"prompt", "stale"}
<1>1. DOMAIN watch = WatchFields /\ DOMAIN seen = {"prompt", "stale"} BY DEF TowerOK
<1>2. DOMAIN watch' = WatchFields
  BY <1>1 DEF Watches, Minute, TimesOut, Killed, Arm, Poll, Matched, Look, Announce
<1>3. DOMAIN seen' = {"prompt", "stale"}
  BY <1>1 DEF Watches, Minute, TimesOut, Killed, Arm, Poll, Matched, Look, Announce
<1> QED BY <1>2, <1>3

LEMMA WatchStep ==
    ASSUME TowerOK, WatchInv, Watches \/ Minute \/ TimesOut \/ Killed
    PROVE  WatchInv'
<1>0. Lived /\ DOMAIN watch = WatchFields BY WatchLived DEF TowerOK
<1>f. file' = file /\ Len(file) \in Nat
  BY TowerFacts DEF Watches, Minute, TimesOut, Killed, Arm, Poll, Matched, Look, Announce, WatchSame
<1>1. ASSUME Arm \/ Minute \/ TimesOut PROVE WatchInv'
  <2>1. watch.hits = {} /\ watch'.hits = {} /\ told' = told /\ seen' = seen /\ watch'.pc \in {"off", "armed"}
    BY <1>0, <1>1 DEF Arm, Minute, TimesOut, WatchFields, WatchInv, WatchSame
  <2>2. watch'.offset = watch.offset \/ watch'.offset = Len(file)
    BY <1>0, <1>1 DEF Arm, Minute, TimesOut, WatchFields
  <2>3. watch'.pc # "off" => \/ watch.pc = "armed" /\ watch'.offset = watch.offset
                             \/ watch'.offset = Len(file)
    BY <1>0, <1>1 DEF Arm, Minute, TimesOut, WatchFields
  <2>4. Spoken' = Spoken BY <2>1 DEF Spoken
  <2>5. Announced' BY <1>0, <2>1, <2>4, AnnouncedStays DEF WatchInv
  <2>6. \A i : <<"line", i, 0, 0>> \in told => i \in Nat /\ i <= Len(file) BY DEF WatchInv, LinesOnce, Spoken
  <2>7. LinesOnce' BY <1>f, <2>1, <2>2, <2>3, <2>4, <2>6 DEF LinesOnce, WatchInv
  <2> QED BY <2>1, <2>5, <2>7 DEF WatchInv
<1>k. ASSUME Killed PROVE WatchInv'
  <2>1. /\ watch'.pc = "off" /\ watch'.hits = {} /\ told' = told /\ seen' = seen
        /\ watch'.offset = watch.offset
    BY <1>0, <1>k DEF Killed, WatchFields
  <2>2. Spoken' \subseteq Spoken BY <2>1 DEF Spoken
  <2>3. Announced' BY <1>0, <2>1, <2>2, AnnouncedStays DEF WatchInv
  <2>4. LinesOnce' BY <1>f, <2>1, <2>2 DEF LinesOnce, WatchInv
  <2> QED BY <2>1, <2>3, <2>4 DEF WatchInv
<1>2. ASSUME Poll PROVE WatchInv'
  <2>1. /\ watch.pc = "armed" /\ watch.hits = {} /\ watch'.hits = NewLines /\ watch'.offset = Len(file)
        /\ told' = told /\ seen' = seen
        /\ watch'.pc = IF NewLines # {} THEN "print" ELSE IF watch.due THEN "prompts" ELSE "armed"
    BY <1>0, <1>2 DEF Poll, WatchFields, WatchInv, WatchSame
  <2>2. \A h \in NewLines : \E i \in watch.offset + 1..Len(file) : h = <<"line", i, 0, 0>> BY DEF NewLines
  <2>3. \A k \in Kinds : \A w, nr, life : <<k, w, nr, life>> \notin NewLines BY <2>2 DEF Kinds
  <2>4. Announced'
    <3>1. \A k \in Kinds : \A w, nr, life : <<k, w, nr, life>> \in Spoken' => <<k, w, nr, life>> \in Spoken
      BY <2>1, <2>3 DEF Spoken
    <3>2. ASSUME NEW k \in Kinds, NEW w \in Workers, NEW nr, NEW life, <<k, w, nr, life>> \in Spoken'
          PROVE  Remembered(k, w, life)'
      BY <1>0, <2>1, <3>1, <3>2, RememberedStays DEF Announced, WatchInv
    <3> QED BY <3>2 DEF Announced
  <2>5. watch.offset \in Nat /\ \A i : <<"line", i, 0, 0>> \in told => i \in Nat /\ i <= Len(file) /\ i <= watch.offset
    BY <2>1 DEF WatchInv, LinesOnce, Spoken
  <2>6. watch'.hits \cap told' = {} BY <2>1, <2>2, <2>5
  <2>7. \A i : <<"line", i, 0, 0>> \in NewLines => i \in Nat /\ i <= Len(file) BY <2>2, <2>5
  <2>8. LinesOnce' BY <1>f, <2>1, <2>5, <2>7 DEF LinesOnce, Spoken
  <2>9. watch'.pc \in {"armed", "prompts"} => watch'.hits = {} BY <2>1
  <2> QED BY <2>1, <2>4, <2>6, <2>8, <2>9 DEF WatchInv
<1>3. ASSUME Matched PROVE WatchInv'
  <2>1. watch'.pc = "off" /\ watch'.hits = {} /\ told' = told \cup watch.hits /\ seen' = seen /\ watch'.offset = watch.offset
    BY <1>0, <1>3 DEF Matched, WatchFields, WatchSame
  <2>2. Spoken' = Spoken BY <2>1 DEF Spoken
  <2>3. Announced' BY <1>0, <2>1, <2>2, AnnouncedStays DEF WatchInv
  <2>4. LinesOnce' BY <1>f, <2>1, <2>2 DEF LinesOnce, WatchInv
  <2> QED BY <2>1, <2>3, <2>4 DEF WatchInv
<1>4. ASSUME NEW k \in Kinds, NEW from, NEW to, Look(k, from, to),
             \/ k = "prompt" /\ to = "prompted" /\ from = "prompts"
             \/ k = "stale" /\ to = "looked" /\ from = "sessions"
      PROVE WatchInv'
  <2>1. watch'.pc = to /\ watch.pc = from /\ watch'.hits = watch.hits /\ told' = told /\ watch'.offset = watch.offset
    BY <1>0, <1>4 DEF Look, WatchFields, WatchSame
  <2>2. FoundOK(k)' /\ Announced' /\ Spoken' = Spoken BY <1>0, <1>4, LookStep
  <2>3. LinesOnce' BY <1>f, <1>4, <2>1, <2>2 DEF LinesOnce, WatchInv
  <2> QED BY <1>4, <2>1, <2>2, <2>3 DEF WatchInv
<1>5. ASSUME Announce("prompt", "prompted", "prompts-done") \/ Announce("stale", "looked", "stale-done") PROVE WatchInv'
  <2>0. /\ watch.pc \in {"prompted", "looked"}
        /\ \E k \in Kinds : FoundOK(k) /\ \E from, to : Announce(k, from, to)
    BY <1>5 DEF Announce, WatchInv, Kinds
  <2>1. PICK k \in Kinds : FoundOK(k) /\ \E from, to : Announce(k, from, to) BY <2>0
  <2>a. PICK from, to : Announce(k, from, to) BY <2>1
  <2>2. /\ Announced' /\ watch'.hits \cap told' = {}
        /\ \A i : <<"line", i, 0, 0>> \in Spoken' => <<"line", i, 0, 0>> \in Spoken
    BY <1>0, <2>0, <2>1, <2>a, AnnounceStep
  <2>3. told' = told /\ watch'.offset = watch.offset /\ watch'.pc \in {"sessions", "armed", "print"}
        /\ (watch'.pc = "armed" => watch'.hits = {})
    BY <1>0, <2>a DEF Announce, WatchFields, WatchSame
  <2>4. LinesOnce' BY <1>f, <2>0, <2>2, <2>3 DEF LinesOnce, WatchInv
  <2> QED BY <2>2, <2>3, <2>4 DEF WatchInv
<1>6. ASSUME Look("prompt", "prompts", "prompted") \/ Look("stale", "sessions", "looked") PROVE WatchInv'
  BY <1>4, <1>6 DEF Kinds
<1> QED BY <1>1, <1>k, <1>2, <1>3, <1>5, <1>6 DEF Watches

-----------------------------------------------------------------------------
(* say: what it has typed stands in the line of the session it went to, as  *)
(* long as that session is the one; said only if the line then changed.     *)

Over == {"idle", "said", "unsaid"}
HeardInv ==
    /\ talk.gone \in BOOLEAN /\ talk.took \in BOOLEAN
    /\ talk.pc \notin Over /\ ~talk.gone => session[talk.to].live
    /\ talk.pc \in {"enter", "confirm"} /\ ~talk.gone /\ ~talk.took => session[talk.to].line = "ours"
    /\ talk.pc = "said" => talk.took

LEMMA HeardAround == ASSUME TowerOK, HeardInv, Around PROVE HeardInv'
<1>1. DOMAIN talk = TalkFields /\ session \in [Workers -> Session] /\ (talk.pc \notin Over => talk.to \in Workers)
  BY DEF TowerOK, SessionsOK, Over
<1>2. ASSUME NEW w \in Workers, Ends(w) PROVE HeardInv'
  <2>1. talk' = [talk EXCEPT !.gone = talk.gone \/ talk.to = w] BY <1>2 DEF Ends
  <2>2. talk'.pc = talk.pc /\ talk'.to = talk.to /\ talk'.took = talk.took /\ talk'.gone = (talk.gone \/ talk.to = w)
    BY <1>1, <2>1 DEF TalkFields
  <2>3. session' = [session EXCEPT ![w].live = FALSE] BY <1>2 DEF Ends
  <2>4. \A v \in Workers : v # w => session'[v] = session[v] BY <1>1, <2>3
  <2>5. talk'.gone \in BOOLEAN /\ talk'.took \in BOOLEAN BY <2>2 DEF HeardInv
  <2>6. ~talk'.gone => ~talk.gone /\ talk.to # w BY <2>2 DEF HeardInv
  <2>7. talk.pc \notin Over /\ ~talk'.gone => session'[talk.to] = session[talk.to] BY <1>1, <2>4, <2>6
  <2>8. talk.pc \in {"enter", "confirm"} => talk.pc \notin Over BY DEF Over
  <2> QED BY <2>2, <2>5, <2>6, <2>7, <2>8 DEF HeardInv
<1>3. ASSUME NEW w \in Workers, Starts(w) PROVE HeardInv'
  <2>1. session' = [session EXCEPT ![w] = NewSession] /\ ~session[w].live /\ talk' = talk BY <1>3 DEF Starts, Same
  <2>2. talk.pc \notin Over /\ ~talk.gone => session'[talk.to] = session[talk.to]
    BY <1>1, <2>1 DEF HeardInv
  <2>3. talk.pc \in {"enter", "confirm"} => talk.pc \notin Over BY DEF Over
  <2> QED BY <2>1, <2>2, <2>3 DEF HeardInv
<1>4. ASSUME talk' = talk, \A v \in Workers : session'[v].live = session[v].live /\ session'[v].line = session[v].line
      PROVE  HeardInv'
  <2>1. talk.pc \in {"enter", "confirm"} => talk.pc \notin Over BY DEF Over
  <2> QED BY <1>1, <1>4, <2>1 DEF HeardInv
<1>5. CASE Tick \/ FetchReports
  BY <1>5, <1>4 DEF Tick, FetchReports, seeing, Same
<1>6. ASSUME NEW w \in Workers, \/ Commit(w) \/ \E word \in T.words : Reports(w, word) \/ Publishes(w, word)
      PROVE  HeardInv'
  BY <1>6, <1>4 DEF Commit, Reports, Publishes, seeing, Same
<1>7. ASSUME NEW w \in Workers, Beats(w) \/ Asks(w) PROVE HeardInv'
  <2>1. \A v \in Workers : session'[v].live = session[v].live /\ session'[v].line = session[v].line
    BY <1>1, <1>7 DEF Beats, Asks, Session
  <2> QED BY <1>7, <1>4, <2>1 DEF Beats, Asks, Same
<1>8. ASSUME NEW w \in Workers, NEW t \in {"open", "done", "unread"}, Turns(w, t) PROVE HeardInv'
  <2>1. \A v \in Workers : session'[v].live = session[v].live /\ session'[v].line = session[v].line
    BY <1>1, <1>8 DEF Turns, Session
  <2> QED BY <1>8, <1>4, <2>1 DEF Turns, Same
<1>9. ASSUME NEW w \in Workers, NEW d \in 0..2, Writes(w, d) PROVE HeardInv'
  <2>1. \A v \in Workers : session'[v].live = session[v].live /\ session'[v].line = session[v].line
    BY <1>1, <1>9 DEF Writes, Session
  <2> QED BY <1>9, <1>4, <2>1 DEF Writes, Same
<1> QED BY <1>2, <1>3, <1>5, <1>6, <1>7, <1>8, <1>9 DEF Around

LEMMA HeardSays == ASSUME TowerOK, HeardInv, Says PROVE HeardInv'
<1>1. DOMAIN talk = TalkFields /\ session \in [Workers -> Session] /\ (talk.pc \notin Over => talk.to \in Workers)
  BY DEF TowerOK, SessionsOK, Over
<1>2. ASSUME NEW w \in Workers, Say(w) PROVE HeardInv'
  <2>1. talk' = [pc |-> "look", to |-> w, tries |-> 3, gone |-> FALSE, took |-> FALSE] /\ session' = session /\ session[w].live
    BY <1>2 DEF Say, Works, seeing
  <2> QED BY <2>1 DEF HeardInv, Over
<1>3. CASE LooksFirst
  <2>1. talk' = [talk EXCEPT !.pc = talk'.pc] /\ talk.pc = "look" /\ talk'.pc \in {"type", "unsaid"} /\ session' = session
    BY <1>1, <1>3 DEF LooksFirst, Goes, TalkFields
  <2>2. talk'.to = talk.to /\ talk'.gone = talk.gone /\ talk'.took = talk.took BY <1>1, <2>1 DEF TalkFields
  <2> QED BY <2>1, <2>2 DEF HeardInv, Over
<1>4. CASE Types
  <2>1. talk.pc = "type" /\ talk' = [talk EXCEPT !.pc = "typed"] BY <1>4 DEF Types, Goes
  <2>2. talk'.pc = "typed" /\ talk'.to = talk.to /\ talk'.gone = talk.gone /\ talk'.took = talk.took
    BY <1>1, <2>1 DEF TalkFields
  <2>3. talk.to \in Workers BY <1>1, <2>1 DEF Over
  <2>4. session'[talk.to].live = session[talk.to].live
    <3>1. PICK w \in Workers : w = talk.to BY <2>3
    <3>2. CASE session' = session BY <3>2
    <3>3. CASE session' = [session EXCEPT ![w] = [session[w] EXCEPT !.dialog = 0, !.wrote = now]]
      BY <1>1, <3>1, <3>3 DEF Session
    <3>4. ASSUME NEW l, session' = [session EXCEPT ![w] = [session[w] EXCEPT !.line = l]]
          PROVE session'[talk.to].live = session[talk.to].live
      BY <1>1, <3>1, <3>4 DEF Session
    <3> QED BY <1>4, <3>1, <3>2, <3>3, <3>4 DEF Types, Answered, Screens, Screen
  <2> QED BY <2>1, <2>2, <2>4 DEF HeardInv, Over
<1>5. CASE LooksAfter
  <2>1. talk.pc = "typed" /\ talk' = [talk EXCEPT !.pc = talk'.pc] /\ talk'.pc \in {"unsaid", "enter"}
        /\ (talk'.pc = "enter" => session' = session /\ "ours" \in InputLine)
    BY <1>1, <1>5 DEF LooksAfter, Goes, TalkFields, ShowsOurs
  <2>2. talk'.to = talk.to /\ talk'.gone = talk.gone /\ talk'.took = talk.took BY <1>1, <2>1 DEF TalkFields
  <2>3. "ours" \in InputLine => session[talk.to].line = "ours" BY DEF InputLine, Screen
  <2> QED BY <2>1, <2>2, <2>3 DEF HeardInv, Over
<1>6. CASE Enters
  <2>0. talk.pc = "enter" /\ talk.to \in Workers BY <1>1, <1>6 DEF Enters, Over
  <2>1. PICK w \in Workers : w = talk.to BY <2>0
  <2>2. CASE talk.gone
    <3>1. talk' = [talk EXCEPT !.pc = "unsaid"] /\ session' = session BY <1>6, <2>2 DEF Enters, Goes
    <3> QED BY <1>1, <3>1 DEF HeardInv, Over, TalkFields
  <2>3. CASE session' = session /\ talk' = [talk EXCEPT !.pc = "confirm"]
    BY <1>1, <2>0, <2>3 DEF HeardInv, Over, TalkFields
  <2>4. CASE session' = [session EXCEPT ![w] = [session[w] EXCEPT !.dialog = 0, !.wrote = now]]
             /\ talk' = [talk EXCEPT !.pc = "confirm"]
    <3>1. session'[w].live = session[w].live /\ session'[w].line = session[w].line BY <1>1, <2>4 DEF Session
    <3>2. talk'.pc = "confirm" /\ talk'.to = talk.to /\ talk'.gone = talk.gone /\ talk'.took = talk.took
      BY <1>1, <2>4 DEF TalkFields
    <3> QED BY <2>0, <2>1, <3>1, <3>2 DEF HeardInv, Over
  <2>5. CASE session' = [session EXCEPT ![w] = [session[w] EXCEPT !.line = "empty", !.wrote = now]]
             /\ talk' = [talk EXCEPT !.pc = "confirm", !.took = TRUE]
    <3>1. session'[w].live = session[w].live BY <1>1, <2>5 DEF Session
    <3>2. talk'.pc = "confirm" /\ talk'.to = talk.to /\ talk'.gone = talk.gone /\ talk'.took = TRUE
      BY <1>1, <2>5 DEF TalkFields
    <3> QED BY <2>0, <2>1, <3>1, <3>2 DEF HeardInv, Over
  <2> QED BY <1>6, <2>1, <2>2, <2>3, <2>4, <2>5 DEF Enters, Goes, Answered, Screens, Screen
<1>7. CASE Confirms
  <2>1. talk.pc = "confirm" /\ session' = session BY <1>7 DEF Confirms
  <2>2. PICK line0 \in InputLine :
            IF line0 = "unreadable" THEN Goes("unsaid")
            ELSE IF line0 # "ours" THEN Goes("said")
            ELSE IF Dialog \/ talk.tries = 0 THEN Goes("unsaid")
            ELSE talk' = [talk EXCEPT !.pc = "enter", !.tries = @ - 1]
    BY <1>7 DEF Confirms
  <2>3. talk'.to = talk.to /\ talk'.gone = talk.gone /\ talk'.took = talk.took /\ talk'.pc \in {"unsaid", "said", "enter"}
        /\ (talk'.pc = "said" => line0 \notin {"unreadable", "ours"})
    BY <1>1, <2>2 DEF Goes, TalkFields
  <2>4. line0 # "unreadable" => ~talk.gone /\ line0 = session[talk.to].line BY <2>2 DEF InputLine, Screen
  <2> QED BY <2>1, <2>3, <2>4 DEF HeardInv, Over
<1> QED BY <1>2, <1>3, <1>4, <1>5, <1>6, <1>7 DEF Says

-----------------------------------------------------------------------------
(* The run before the train: what it keeps and what it reports.             *)

LEMMA RunAfter ==
    ASSUME RunOK, scene' = scene, world' = world, DOMAIN run' = RunFields,
           run'.aboard \in Seq(Workers), run'.kept \in Seq(Workers), run'.dropped \in Seq(Workers),
           run'.at \in Nat \ {0}, run'.said \in Nat, run'.said <= Len(run'.dropped),
           run'.pc \in {"candidate", "preflight"} => run'.said = 0
    PROVE  RunOK'
BY DEF RunOK, T

LEMMA NewRun ==
    ASSUME TowerOK, RunOK, NEW aboard \in world.orders, Departs(aboard)
    PROVE  /\ DOMAIN run' = RunFields /\ run'.aboard = aboard /\ aboard \in Seq(Workers)
           /\ run'.at = 1 /\ run'.said = 0 /\ run'.dropped = <<>> /\ run'.checked = {}
           /\ run'.kept \in {<<>>, aboard} /\ run'.pc \in {"build", "leave", "candidate"}
           /\ run'.pc = "candidate" => run'.kept = <<>>
           /\ \A i, j \in DOMAIN aboard : aboard[i] = aboard[j] => i = j
<1>1. aboard \in Seq(Workers) /\ \A i, j \in DOMAIN aboard : aboard[i] = aboard[j] => i = j
  BY WorldsAssumption DEF RunOK, TowerOK, T
<1>2. PICK preflight \in BOOLEAN :
        \/ run' = [[NoRun EXCEPT !.nr = run.nr + 1, !.preflight = preflight, !.aboard = aboard]
                     EXCEPT !.kept = aboard, !.pc = "build"]
        \/ run' = [[NoRun EXCEPT !.nr = run.nr + 1, !.preflight = preflight, !.aboard = aboard] EXCEPT !.pc = "candidate"]
        \/ run' = [[NoRun EXCEPT !.nr = run.nr + 1, !.preflight = preflight, !.aboard = aboard]
                     EXCEPT !.kept = aboard, !.pc = "leave"]
  BY DEF Departs
<1>3. PICK new : new = [NoRun EXCEPT !.nr = run.nr + 1, !.preflight = preflight, !.aboard = aboard] OBVIOUS
<1>4. /\ DOMAIN new = RunFields /\ new.aboard = aboard /\ new.at = 1 /\ new.said = 0 /\ new.dropped = <<>>
      /\ new.kept = <<>> /\ new.checked = {}
  BY <1>3 DEF NoRun, RunFields
<1>5. \/ run' = [new EXCEPT !.kept = aboard, !.pc = "build"]
      \/ run' = [new EXCEPT !.pc = "candidate"]
      \/ run' = [new EXCEPT !.kept = aboard, !.pc = "leave"]
  BY <1>2, <1>3
<1> QED BY <1>1, <1>4, <1>5 DEF RunFields

(* What the step of a run does to what it keeps and reports.                *)
LEMMA RunStep ==
    ASSUME TowerOK, RunOK, Boards
    PROVE  RunOK'
<1>1. DOMAIN run = RunFields BY DEF RunOK
<1>2. ASSUME NEW aboard \in world.orders, Departs(aboard) PROVE RunOK'
  <2>1. /\ DOMAIN run' = RunFields /\ run'.aboard = aboard /\ aboard \in Seq(Workers)
        /\ run'.at = 1 /\ run'.said = 0 /\ run'.dropped = <<>> /\ run'.kept \in {<<>>, aboard}
    BY <1>2, NewRun
  <2>2. scene' = scene /\ world' = world BY <1>2 DEF Departs, towerVars
  <2>3. <<>> \in Seq(Workers) /\ Len(<<>>) = 0 OBVIOUS
  <2>4. run'.kept \in Seq(Workers) /\ run'.dropped \in Seq(Workers) /\ run'.aboard \in Seq(Workers)
    BY <2>1, <2>3
  <2>5. Len(run'.dropped) = 0 BY <2>1, <2>3
  <2>6. run'.at \in Nat \ {0} /\ run'.said \in Nat /\ run'.said <= Len(run'.dropped) BY <2>1, <2>5
  <2>7. run'.pc \in {"candidate", "preflight"} => run'.said = 0 BY <2>1
  <2> QED BY <2>1, <2>2, <2>4, <2>6, <2>7, RunAfter
<1>3. ASSUME scene' = scene, world' = world, DOMAIN run' = RunFields, run'.aboard = run.aboard, run'.at = run.at,
             run'.said = run.said, run'.dropped = run.dropped, run'.kept = run.kept,
             run'.pc \in {"candidate", "preflight"} => run.pc \in {"candidate", "preflight"}
      PROVE RunOK'
  <2>1. run'.pc \in {"candidate", "preflight"} => run'.said = 0 BY <1>3 DEF RunOK
  <2>2. /\ run'.aboard \in Seq(Workers) /\ run'.kept \in Seq(Workers) /\ run'.dropped \in Seq(Workers)
        /\ run'.at \in Nat \ {0} /\ run'.said \in Nat /\ run'.said <= Len(run'.dropped)
    BY <1>3 DEF RunOK
  <2> QED BY <1>3, <2>1, <2>2, RunAfter
<1>4. CASE Candidate
  <2>1. PICK b : b = run.aboard[run.at] OBVIOUS
  <2>2. b \in Workers
    <3>0. run.at <= Len(run.aboard) BY <1>4, Zenon DEF Candidate
    <3>1. run.at \in 1..Len(run.aboard) BY <3>0 DEF RunOK
    <3> QED BY <2>1, <3>1 DEF RunOK
  <2>3. PICK next : next = [run EXCEPT !.at = run.at + 1, !.second = FALSE] OBVIOUS
  <2>4. /\ DOMAIN next = RunFields /\ next.aboard = run.aboard /\ next.at = run.at + 1 /\ next.said = run.said
        /\ next.dropped = run.dropped /\ next.kept = run.kept /\ next.pc = run.pc
    BY <1>1, <2>3 DEF RunFields
  <2>5. \/ run' = [run EXCEPT !.second = TRUE]
        \/ run' = [next EXCEPT !.dropped = Append(next.dropped, b)]
        \/ \E more : run' = [next EXCEPT !.kept = Append(next.kept, b), !.checked = next.checked \cup more]
    <3>1. PICK state \in Probe(b) :
            run' = IF state = "red"
                   THEN IF run.second THEN [next EXCEPT !.dropped = Append(next.dropped, b)] ELSE [run EXCEPT !.second = TRUE]
                   ELSE [next EXCEPT !.kept = Append(next.kept, b),
                                     !.checked = next.checked \cup (IF state = "green" THEN {b} ELSE {})]
      BY <1>4, <2>1, <2>3 DEF Candidate
    <3> QED BY <3>1
  <2>6. scene' = scene /\ world' = world BY <1>4 DEF Candidate, BoardingSame, towerVars
  <2>6a. run.said = 0 /\ run.said \in Nat BY <1>4 DEF Candidate, At, RunOK
  <2>7. CASE run' = [run EXCEPT !.second = TRUE] BY <1>1, <1>3, <2>6, <2>7 DEF RunFields
  <2>8. CASE run' = [next EXCEPT !.dropped = Append(next.dropped, b)]
    <3>1. /\ DOMAIN run' = RunFields /\ run'.aboard = run.aboard /\ run'.at = run.at + 1 /\ run'.said = run.said
          /\ run'.dropped = Append(run.dropped, b) /\ run'.kept = run.kept
      BY <2>4, <2>8 DEF RunFields
    <3>2. Append(run.dropped, b) \in Seq(Workers) /\ Len(Append(run.dropped, b)) = Len(run.dropped) + 1
          /\ Len(run.dropped) \in Nat
      BY <2>2 DEF RunOK
    <3>3. run.said \in Nat /\ run.said <= Len(run.dropped) + 1 /\ run.at + 1 \in Nat \ {0} BY <3>2 DEF RunOK
    <3>4. run.aboard \in Seq(Workers) /\ run.kept \in Seq(Workers) BY DEF RunOK
    <3> QED BY <2>6, <2>6a, <3>1, <3>2, <3>3, <3>4, RunAfter
  <2>9. ASSUME NEW more, run' = [next EXCEPT !.kept = Append(next.kept, b), !.checked = next.checked \cup more]
        PROVE RunOK'
    <3>1. /\ DOMAIN run' = RunFields /\ run'.aboard = run.aboard /\ run'.at = run.at + 1 /\ run'.said = run.said
          /\ run'.dropped = run.dropped /\ run'.kept = Append(run.kept, b)
      BY <2>4, <2>9 DEF RunFields
    <3>2. Append(run.kept, b) \in Seq(Workers) /\ run.at + 1 \in Nat \ {0} BY <2>2 DEF RunOK
    <3>3. run.said \in Nat /\ run.said <= Len(run.dropped) /\ run.aboard \in Seq(Workers) /\ run.dropped \in Seq(Workers)
      BY DEF RunOK
    <3> QED BY <2>6, <2>6a, <3>1, <3>2, <3>3, RunAfter
  <2> QED BY <2>5, <2>7, <2>8, <2>9
<1>5. ASSUME NEW phase, run' = [run EXCEPT !.pc = phase], scene' = scene, world' = world,
             phase \in {"candidate", "preflight"} => run.pc \in {"candidate", "preflight"}
      PROVE RunOK'
  BY <1>1, <1>3, <1>5 DEF RunFields
<1>6. ASSUME NEW kept \in Seq(Workers), NEW phase, run' = [run EXCEPT !.kept = kept, !.dropped = <<>>, !.pc = phase],
             run.said = 0, scene' = scene, world' = world
      PROVE RunOK'
  <2>1. /\ DOMAIN run' = RunFields /\ run'.aboard = run.aboard /\ run'.at = run.at /\ run'.said = 0
        /\ run'.dropped = <<>> /\ run'.kept = kept
    BY <1>1, <1>6 DEF RunFields
  <2>2. <<>> \in Seq(Workers) /\ 0 <= Len(<<>>) OBVIOUS
  <2> QED BY <1>6, <2>1, <2>2, RunAfter DEF RunOK
<1>7. CASE Again
  <2>1. run.said = 0 /\ run.aboard \in Seq(Workers) BY <1>7 DEF Again, At, RunOK
  <2>2. scene' = scene /\ world' = world /\ run.pc = "candidate" BY <1>7 DEF Again, BoardingSame, towerVars, At
  <2>3. \/ \E phase : run' = [run EXCEPT !.pc = phase]
        \/ run' = [run EXCEPT !.kept = run.aboard, !.dropped = <<>>, !.pc = "leave"]
    BY <1>7 DEF Again, Goes2, Keeps
  <2> QED BY <1>5, <1>6, <2>1, <2>2, <2>3
<1>8. CASE Confirmed
  <2>1. run.said = 0 /\ <<>> \in Seq(Workers) BY <1>8 DEF Confirmed, At, RunOK
  <2>2. scene' = scene /\ world' = world BY <1>8 DEF Confirmed, BoardingSame, towerVars
  <2>3. \/ run' = [run EXCEPT !.pc = "tell"]
        \/ run' = [run EXCEPT !.kept = <<>>, !.dropped = <<>>, !.pc = "leave"]
    BY <1>8 DEF Confirmed
  <2> QED BY <1>5, <1>6, <2>1, <2>2, <2>3
<1>9. CASE Tells
  <2>1. scene' = scene /\ world' = world /\ run.pc = "tell" BY <1>9 DEF Tells, At
  <2>2. CASE run.said = Len(run.dropped) BY <1>5, <1>9, <2>1, <2>2 DEF Tells, Goes2
  <2>3. CASE run.said # Len(run.dropped)
    <3>1. run' = [run EXCEPT !.said = run.said + 1] BY <1>9, <2>3 DEF Tells
    <3>2. /\ DOMAIN run' = RunFields /\ run'.aboard = run.aboard /\ run'.at = run.at /\ run'.said = run.said + 1
          /\ run'.dropped = run.dropped /\ run'.kept = run.kept /\ run'.pc = run.pc
      BY <1>1, <3>1 DEF RunFields
    <3>3. run.said + 1 \in Nat /\ run.said + 1 <= Len(run.dropped) BY <2>3 DEF RunOK
    <3> QED BY <2>1, <3>2, <3>3, RunAfter DEF RunOK
  <2> QED BY <2>2, <2>3
<1>10. CASE Leaves \/ Built \/ Dies
  <2>1. scene' = scene /\ world' = world BY <1>10 DEF Leaves, Built, Dies, BoardingSame, towerVars
  <2>2. PICK phase \in {"off", "build"} : run' = [run EXCEPT !.pc = phase] BY <1>10 DEF Leaves, Built, Dies, Goes2
  <2> QED BY <1>5, <2>1, <2>2
<1>11. CASE Merges
  <2>1. scene' = scene /\ world' = world /\ run' = [run EXCEPT !.kept = Tail(run.kept)] /\ run.kept # <<>> /\ run.pc = "build"
    BY <1>11 DEF Merges, towerVars, At
  <2>2. /\ DOMAIN run' = RunFields /\ run'.aboard = run.aboard /\ run'.at = run.at /\ run'.said = run.said
        /\ run'.dropped = run.dropped /\ run'.kept = Tail(run.kept) /\ run'.pc = run.pc
    BY <1>1, <2>1 DEF RunFields
  <2>3. Tail(run.kept) \in Seq(Workers) BY <2>1 DEF RunOK
  <2> QED BY <2>1, <2>2, <2>3, RunAfter DEF RunOK
<1>12. CASE (\E what \in {"net", "tool", "disk"} : HostBreaks(what)) \/ (\E to \in {"none", "foreign"} : OwnerMoves(to))
  BY <1>12 DEF HostBreaks, OwnerMoves, RunOK, T
<1> QED BY <1>2, <1>4, <1>7, <1>8, <1>9, <1>10, <1>11, <1>12 DEF Boards

-----------------------------------------------------------------------------
(* Together.                                                                *)

TowerInv == TowerOK /\ RunOK /\ WatchInv /\ HeardInv

LEMMA TowerStarts == ASSUME BoardingInit PROVE TowerInv
<1>1. TowerInit /\ world \in Worlds[T.world] /\ run = NoRun BY DEF BoardingInit
<1>2. SessionsOK
  <2>1. ASSUME NEW w \in Workers PROVE session[w] \in Session /\ (session[w].live => w \in Here)
    <3>1. session[w] = [started |-> 1, live |-> w \in Here, wrote |-> 1, dialog |-> 0, line |-> "empty",
                        tasks |-> "open", status |-> 0, asks |-> FALSE]
      BY <1>1 DEF TowerInit, NewSession
    <3>2. (w \in Here) \in BOOLEAN OBVIOUS
    <3>3. PICK live \in BOOLEAN : live = (w \in Here) BY <3>2
    <3>4. session[w] = [started |-> 1, live |-> live, wrote |-> 1, dialog |-> 0, line |-> "empty",
                        tasks |-> "open", status |-> 0, asks |-> FALSE]
      BY <3>1, <3>3
    <3>5. session[w].live = live /\ session[w] \in Session BY <3>4 DEF Session
    <3> QED BY <3>3, <3>5
  <2>2. session \in [Workers -> Session] BY <1>1, <2>1 DEF TowerInit
  <2>3. commit \in [Workers -> Nat] /\ count \in [Workers -> Counts] BY <1>1 DEF TowerInit, Counts
  <2> QED BY <2>1, <2>2, <2>3 DEF SessionsOK
<1>3. DOMAIN watch = WatchFields /\ DOMAIN seen = {"prompt", "stale"} /\ DOMAIN talk = TalkFields /\ talk.pc = "idle"
  BY <1>1 DEF TowerInit, WatchFields, TalkFields
<1>4. TowerOK BY <1>1, <1>2, <1>3 DEF TowerOK, TowerInit
<1>5. RunOK BY <1>1 DEF RunOK, NoRun, RunFields
<1>6. watch.pc = "off" /\ watch.hits = {} /\ told = {} /\ watch.offset = 0 /\ Len(file) = 0 BY <1>1 DEF TowerInit
<1>7. WatchInv BY <1>6 DEF WatchInv, LinesOnce, Announced, Spoken
<1>8. HeardInv BY <1>1 DEF TowerInit, HeardInv, Over
<1> QED BY <1>4, <1>5, <1>7, <1>8 DEF TowerInv

LEMMA TowerKeeps == ASSUME TowerInv, [BoardingNext]_trainVars PROVE TowerInv'
<1>0. TowerOK /\ RunOK /\ WatchInv /\ HeardInv /\ SessionsOK /\ scene \in DOMAIN Scenes BY DEF TowerInv, TowerOK
<1>1. ASSUME Lived, DOMAIN watch' = WatchFields, DOMAIN seen' = {"prompt", "stale"}, DOMAIN talk' = TalkFields,
             talk'.pc # "idle" => talk'.to \in Workers
      PROVE  TowerOK'
  BY <1>0, <1>1 DEF TowerOK, Lived
<1>2. ASSUME UNCHANGED boardingVars, scene' = scene PROVE RunOK'
  BY <1>0, <1>2 DEF boardingVars, RunOK, T
<1>3. DOMAIN watch = WatchFields /\ DOMAIN seen = {"prompt", "stale"} /\ DOMAIN talk = TalkFields
      /\ (talk.pc # "idle" => talk.to \in Workers)
  BY <1>0 DEF TowerOK
<1>4. CASE Around /\ UNCHANGED boardingVars
  <2>1. Lived BY <1>0, <1>4, AroundLived
  <2>2. watch' = watch /\ seen' = seen /\ told' = told BY <1>4 DEF Around, Tick, FetchReports, Commit, Beats, Asks, Ends,
                                                         Starts, Reports, Publishes, Turns, Writes, Same
  <2>3. talk' = talk \/ \E w \in Workers : talk' = [talk EXCEPT !.gone = talk.gone \/ talk.to = w]
    BY <1>4 DEF Around, Tick, FetchReports, Commit, Beats, Asks, Ends, Starts, Reports, Publishes, Turns, Writes, Same
  <2>4. DOMAIN talk' = TalkFields /\ talk'.pc = talk.pc /\ talk'.to = talk.to BY <1>3, <2>3 DEF TalkFields
  <2>5. TowerOK' BY <1>1, <1>3, <2>1, <2>2, <2>4
  <2>6. WatchInv' BY <1>0, <2>1, <2>2, WatchUntouched
  <2>7. HeardInv' BY <1>0, <1>4, HeardAround
  <2>8. RunOK' BY <1>2, <1>4, <2>1 DEF Lived
  <2> QED BY <2>5, <2>6, <2>7, <2>8 DEF TowerInv
<1>5. CASE (Watches \/ Minute \/ TimesOut \/ Killed) /\ UNCHANGED boardingVars
  <2>1. Lived /\ talk' = talk BY <1>0, <1>5, WatchLived
  <2>2. DOMAIN watch' = WatchFields /\ DOMAIN seen' = {"prompt", "stale"} BY <1>0, <1>5, WatchFieldsStay
  <2>3. session' = session
    BY <1>5 DEF Watches, Minute, TimesOut, Killed, Arm, Poll, Matched, Look, Announce, WatchSame, seeing
  <2>4. TowerOK' BY <1>1, <1>3, <2>1, <2>2
  <2>5. WatchInv' BY <1>0, <1>5, WatchStep
  <2>6. HeardInv' BY <1>0, <2>1, <2>3 DEF HeardInv
  <2>7. RunOK' BY <1>2, <1>5, <2>1 DEF Lived
  <2> QED BY <2>4, <2>5, <2>6, <2>7 DEF TowerInv
<1>6. CASE Says /\ UNCHANGED boardingVars
  <2>1. Lived /\ (talk'.pc # "idle" => talk'.to \in Workers) /\ DOMAIN talk' = TalkFields BY <1>0, <1>6, SaysLived
  <2>2. watch' = watch /\ seen' = seen /\ told' = told
    BY <1>6 DEF Says, Say, LooksFirst, Types, LooksAfter, Enters, Confirms, SaySame
  <2>3. TowerOK' BY <1>1, <1>3, <2>1, <2>2
  <2>4. WatchInv' BY <1>0, <2>1, <2>2, WatchUntouched
  <2>5. HeardInv' BY <1>0, <1>6, HeardSays
  <2>6. RunOK' BY <1>2, <1>6, <2>1 DEF Lived
  <2> QED BY <2>3, <2>4, <2>5, <2>6 DEF TowerInv
<1>7. CASE Boards
  <2>1. Lived /\ UNCHANGED <<watch, seen, told, talk>> BY <1>0, <1>7, BoardsLived
  <2>2. session' = session
    BY <1>7 DEF Boards, Departs, Candidate, Again, Confirmed, Tells, Leaves, Merges, Built, Dies, HostBreaks, OwnerMoves,
                BoardingSame, towerVars, seeing
  <2>3. TowerOK' BY <1>1, <1>3, <2>1
  <2>4. WatchInv' BY <1>0, <2>1, WatchUntouched
  <2>5. HeardInv' BY <1>0, <2>1, <2>2 DEF HeardInv
  <2>6. RunOK' BY <1>0, <1>7, RunStep
  <2> QED BY <2>3, <2>4, <2>5, <2>6 DEF TowerInv
<1>8. CASE UNCHANGED trainVars
  <2>1. Lived BY <1>0, <1>8, NothingLived DEF trainVars, towerVars, seeing
  <2>2. UNCHANGED <<watch, seen, told, talk, session>> BY <1>8 DEF trainVars, towerVars, seeing
  <2>3. TowerOK' BY <1>1, <1>3, <2>1, <2>2
  <2>4. WatchInv' BY <1>0, <2>1, <2>2, WatchUntouched
  <2>5. HeardInv' BY <1>0, <2>2 DEF HeardInv
  <2>6. RunOK' BY <1>2, <1>8, <2>1 DEF trainVars, Lived
  <2> QED BY <2>3, <2>4, <2>5, <2>6 DEF TowerInv
<1> QED BY <1>4, <1>5, <1>6, <1>7, <1>8 DEF BoardingNext, TowerNext

LEMMA TableShows == ASSUME TowerInv PROVE TableHidesNobody
<1> SUFFICES ASSUME NEW w \in Workers, NEW remote \in BOOLEAN
             PROVE  /\ session[w].live /\ Quiet(w) >= WaitAfter /\ PhaseOver(w) # "yes" =>
                          Findings(remote, w) \cap {"permission-prompt", "waiting-for-input", "question-unrouted"} # {}
                    /\ w \in TrainHolds =>
                          "train-hold" \in Findings(remote, w) \/ LatestReport(remote, w).word = "blocked"
  BY DEF TableHidesNobody
<1>1. ASSUME session[w].live, Quiet(w) >= WaitAfter, PhaseOver(w) # "yes"
      PROVE  SessionFindings(w) \cap {"permission-prompt", "waiting-for-input", "question-unrouted"} # {}
  <2>1. w \notin Away BY <1>1 DEF TowerInv, TowerOK, SessionsOK, Here
  <2>2. session[w] \in Session /\ now \in Nat BY TowerFacts DEF TowerInv
  <2>3. Quiet(w) \in Int BY <2>2 DEF Quiet, Ago, Session
  <2>4. Quiet(w) >= PromptAfter /\ ~(Quiet(w) < WaitAfter) BY <1>1, <2>3, MinutesAssumption
  <2>5. OverShown(w) # "yes" BY <1>1 DEF OverShown
  <2> QED BY <1>1, <2>1, <2>4, <2>5 DEF SessionFindings
<1>2. w \in TrainHolds => "train-hold" \in Findings(remote, w) \/ LatestReport(remote, w).word = "blocked"
  BY DEF Findings, HoldFindings
<1> QED BY <1>1, <1>2 DEF Findings

(* Every reachable state of a host and a train boarding on it is well-typed. *)
THEOREM BoardingTypes == BoardingSpec => [](TowerOK /\ RunOK)
<1>1. TowerInv => TowerOK /\ RunOK BY DEF TowerInv
<1> QED BY <1>1, TowerStarts, TowerKeeps, PTL DEF BoardingSpec

(* tower.wait: whatever was looked at, killed, ended, restarted or timed    *)
(* out in between, no watch prints a silence, a prompt or a line that one   *)
(* before it has printed.                                                   *)
THEOREM WatchesWakeOnce == BoardingSpec => []WakesOnce
<1>1. TowerInv => WakesOnce BY DEF TowerInv, WatchInv, WakesOnce
<1> QED BY <1>1, TowerStarts, TowerKeeps, PTL DEF BoardingSpec

(* dispatch.say: it says `said` only of a text its worker has taken.        *)
THEOREM SaidWasHeard == BoardingSpec => []SaidIsHeard
<1>1. TowerInv => SaidIsHeard BY DEF TowerInv, HeardInv, SaidIsHeard
<1> QED BY <1>1, TowerStarts, TowerKeeps, PTL DEF BoardingSpec

(* tower.findings: whoever waits at its screen, or is held by the train, is *)
(* in the table.                                                            *)
THEOREM NobodyIsHidden == BoardingSpec => []TableHidesNobody
BY TableShows, TowerStarts, TowerKeeps, PTL DEF BoardingSpec

-----------------------------------------------------------------------------
(* The check. The shell is a function of how many commands have run.        *)

FactFields == {"rc", "recipe", "needed", "norule", "includes", "lost", "truth"}

(* The shell after the first n commands, as a function of how many.         *)
Skips(cmd, i, before) == \/ cmd[i].op = "&&" /\ before.rc # 0
                         \/ cmd[i].op = "||" /\ before.rc = 0
Runs(cmd, tree, dead, i, before) ==
    IF Skips(cmd, i, before) THEN before ELSE Joined(before, Simple(cmd[i], tree, dead))
Ran(cmd, tree, dead, n, f) ==
    f = [i \in 0..n |-> IF i = 0 THEN Silent ELSE Runs(cmd, tree, dead, i, f[i - 1])]

LEMMA ShellExists ==
    ASSUME NEW cmd, NEW tree, NEW dead, NEW n \in Nat
    PROVE  \E f : Ran(cmd, tree, dead, n, f)
<1> DEFINE One(i, before) == Runs(cmd, tree, dead, i, before)
           S == {i \in Nat : \E f : Ran(cmd, tree, dead, i, f)}
<1>1. 0 \in S
  <2> DEFINE f == [i \in 0..0 |-> Silent]
  <2>1. Ran(cmd, tree, dead, 0, f) BY DEF Ran
  <2> QED BY <2>1
<1>2. ASSUME NEW i \in S PROVE i + 1 \in S
  <2>1. PICK f : Ran(cmd, tree, dead, i, f) OBVIOUS
  <2> DEFINE g == [j \in 0..i + 1 |-> IF j \in 0..i THEN f[j] ELSE One(j, f[i])]
  <2>2. ASSUME NEW j \in 0..i + 1
        PROVE  g[j] = IF j = 0 THEN Silent ELSE One(j, g[j - 1])
    <3> HIDE DEF One
    <3>0. \A k \in 0..i : f[k] = IF k = 0 THEN Silent ELSE One(k, f[k - 1]) BY <2>1 DEF Ran, One
    <3>1. CASE j = 0 BY <3>0, <3>1
    <3>2. CASE j \in 0..i /\ j # 0
      <4>1. j - 1 \in 0..i /\ j - 1 \in 0..i + 1 BY <3>2
      <4>2. g[j] = f[j] /\ g[j - 1] = f[j - 1] BY <3>2, <4>1
      <4> QED BY <3>0, <3>2, <4>2
    <3>3. CASE j = i + 1
      <4>1. /\ j \notin 0..i /\ j # 0 /\ j - 1 = i
            /\ i \in 0..i /\ i \in 0..i + 1
        BY <3>3
      <4>2. g[j] = One(j, f[i]) /\ g[j - 1] = f[i] BY <4>1
      <4> QED BY <4>1, <4>2
    <3> QED BY <3>1, <3>2, <3>3
  <2>3. Ran(cmd, tree, dead, i + 1, g) BY <2>2 DEF Ran
  <2> QED BY <2>3
<1>3. S = Nat BY <1>1, <1>2, Induction
<1> QED BY <1>3

LEMMA ShellRan ==
    ASSUME NEW cmd \in Seq(Command), NEW tree, NEW dead
    PROVE  \E f : /\ Shell(cmd, tree, dead) = f[Len(cmd)] /\ f[0] = Silent
                  /\ \A i \in 1..Len(cmd) : f[i] = Runs(cmd, tree, dead, i, f[i - 1])
<1> DEFINE f == CHOOSE g : Ran(cmd, tree, dead, Len(cmd), g)
<1>0. Len(cmd) \in Nat OBVIOUS
<1>1. Ran(cmd, tree, dead, Len(cmd), f) BY <1>0, ShellExists
<1>2. Shell(cmd, tree, dead) = f[Len(cmd)] BY DEF Shell, Ran, Runs, Skips
<1> HIDE DEF f
<1>3. f[0] = Silent BY <1>0, <1>1 DEF Ran
<1>4. \A i \in 1..Len(cmd) : f[i] = Runs(cmd, tree, dead, i, f[i - 1]) BY <1>0, <1>1 DEF Ran
<1> QED BY <1>2, <1>3, <1>4

(* What a simple command that fails has to show: something that is there    *)
(* and broken, or the first thing it asked for and did not find.            *)
Blames(s) == s.recipe \/ s.needed \/ s.includes # {} => "broken" \in s.truth
Misses(c, tree, s) ==
    \/ c.dir # "" /\ c.dir \notin tree
    \/ c.kind = "make" /\ s.rc = 2 /\ s.norule = {c.name}
    \/ c.kind = "script" /\ c.name \notin tree /\ s.rc = 127 /\ s.lost = {c.name}

Shows(c, tree, dead, s) ==
    /\ DOMAIN s = FactFields
    /\ Blames(s)
    /\ s.norule \subseteq MakeTargets(c) \/ "broken" \in s.truth
    /\ dead = {} /\ s.rc # 0 /\ "broken" \notin s.truth => Misses(c, tree, s)

LEMMA SimpleFacts ==
    ASSUME NEW c \in Command, NEW tree, NEW dead, NEW s, s = Simple(c, tree, dead)
    PROVE  Shows(c, tree, dead, s)
<1>1. c.kind \in {"make", "script", "word"} BY DEF Command
<1> DEFINE at == ~(c.dir # "" /\ c.dir \notin tree)
           goes == at /\ ~(c.kind = "make" /\ ("include-lost" \in tree \/ c.name \notin tree \/ "source-lost" \in tree))
           lost == (c.kind = "script" /\ c.name \notin tree) \/ (c.kind = "word" /\ "tool" \in dead)
<1>3. CASE ~at
  <2>1. /\ DOMAIN s = FactFields /\ s.rc = 2 /\ s.recipe = FALSE /\ s.needed = FALSE /\ s.norule = {}
        /\ s.includes = {} /\ s.lost = {} /\ s.truth = {"absent"}
    BY <1>3 DEF Simple, Silent, FactFields
  <2> QED BY <1>3, <2>1 DEF Shows, Blames, Misses, MakeTargets
<1>4. CASE at /\ c.kind = "make" /\ "include-lost" \in tree
  <2>1. /\ DOMAIN s = FactFields /\ s.rc = 2 /\ s.recipe = FALSE /\ s.needed = FALSE /\ s.norule = {"x.mk"}
        /\ s.includes = {"x.mk"} /\ s.lost = {} /\ s.truth = {"broken"}
    BY <1>4 DEF Simple, Silent, FactFields
  <2> QED BY <1>4, <2>1 DEF Shows, Blames, Misses, MakeTargets
<1>5. CASE at /\ c.kind = "make" /\ "include-lost" \notin tree /\ c.name \notin tree
  <2>1. /\ DOMAIN s = FactFields /\ s.rc = 2 /\ s.recipe = FALSE /\ s.needed = FALSE /\ s.norule = {c.name}
        /\ s.includes = {} /\ s.lost = {} /\ s.truth = {"absent"}
    BY <1>5 DEF Simple, Silent, FactFields
  <2> QED BY <1>5, <2>1 DEF Shows, Blames, Misses, MakeTargets
<1>6. CASE at /\ c.kind = "make" /\ "include-lost" \notin tree /\ c.name \in tree /\ "source-lost" \in tree
  <2>1. /\ DOMAIN s = FactFields /\ s.rc = 2 /\ s.recipe = FALSE /\ s.needed = TRUE /\ s.norule = {}
        /\ s.includes = {} /\ s.lost = {} /\ s.truth = {"broken"}
    BY <1>6 DEF Simple, Silent, FactFields
  <2> QED BY <1>6, <2>1 DEF Shows, Blames, Misses, MakeTargets
<1>7. CASE goes /\ lost
  <2>1. /\ DOMAIN s = FactFields /\ s.rc = 127 /\ s.recipe = FALSE /\ s.needed = FALSE /\ s.norule = {}
        /\ s.includes = {} /\ s.lost = {c.name} /\ s.truth = {"absent"}
    BY <1>7 DEF Simple, Silent, FactFields
  <2> QED BY <1>7, <2>1 DEF Shows, Blames, Misses, MakeTargets
<1>8. CASE goes /\ ~lost /\ "calls-nothing" \in tree /\ c.kind = "script"
  <2>1. /\ DOMAIN s = FactFields /\ s.rc = 127 /\ s.recipe = FALSE /\ s.needed = FALSE /\ s.norule = {}
        /\ s.includes = {} /\ s.lost = {} /\ s.truth = {"broken"}
    BY <1>8 DEF Simple, Silent, FactFields
  <2> QED BY <1>8, <2>1 DEF Shows, Blames, Misses, MakeTargets
<1>9. CASE goes /\ ~lost /\ ~("calls-nothing" \in tree /\ c.kind = "script") /\ Broken(c, tree, dead)
  <2>0. PICK recipe \in BOOLEAN, rc \in {1, 2} : recipe = (c.kind = "make") /\ rc = IF c.kind = "make" THEN 2 ELSE 1
    OBVIOUS
  <2>1. s = [Silent EXCEPT !.rc = rc, !.recipe = recipe, !.truth = {"broken"}]
    BY <1>9, <2>0 DEF Simple
  <2>2. /\ DOMAIN s = FactFields /\ s.rc = rc /\ s.recipe = recipe /\ s.needed = FALSE /\ s.norule = {}
        /\ s.includes = {} /\ s.lost = {} /\ s.truth = {"broken"}
    BY <2>1 DEF Silent, FactFields
  <2> QED BY <2>0, <2>2 DEF Shows, Blames, Misses
<1>10. CASE goes /\ ~lost /\ ~("calls-nothing" \in tree /\ c.kind = "script") /\ ~Broken(c, tree, dead)
  <2>1. s = Silent BY <1>10 DEF Simple
  <2>2. /\ DOMAIN s = FactFields /\ s.rc = 0 /\ s.recipe = FALSE /\ s.needed = FALSE /\ s.norule = {}
        /\ s.includes = {} /\ s.lost = {} /\ s.truth = {}
    BY <2>1 DEF Silent, FactFields
  <2> QED BY <2>2 DEF Shows, Blames, Misses
<1> QED BY <1>1, <1>3, <1>4, <1>5, <1>6, <1>7, <1>8, <1>9, <1>10

(* A host in order fails no command that a host that is not lets pass.      *)
LEMMA SimpleHeals ==
    ASSUME NEW c, NEW tree, NEW dead, Simple(c, tree, dead).rc = 0
    PROVE  Simple(c, tree, {}).rc = 0
<1>1. ~Broken(c, tree, dead) => ~Broken(c, tree, {}) BY DEF Broken
<1>0. PICK s : s = Simple(c, tree, dead) /\ s.rc = 0 OBVIOUS
<1>0a. 0 # 2 /\ 0 # 127 OBVIOUS
<1> DEFINE at == ~(c.dir # "" /\ c.dir \notin tree)
           goes == at /\ ~(c.kind = "make" /\ ("include-lost" \in tree \/ c.name \notin tree \/ "source-lost" \in tree))
           lost == (c.kind = "script" /\ c.name \notin tree) \/ (c.kind = "word" /\ "tool" \in dead)
<1>2. at
  <2>1. ~at => s.rc = 2 BY <1>0 DEF Simple, Silent
  <2> QED BY <1>0, <1>0a, <1>0, <2>1, Zenon
<1>3. goes
  <2>1. at /\ c.kind = "make" /\ "include-lost" \in tree => s.rc = 2 BY <1>0 DEF Simple, Silent
  <2>2. at /\ c.kind = "make" /\ "include-lost" \notin tree /\ c.name \notin tree => s.rc = 2 BY <1>0 DEF Simple, Silent
  <2>3. at /\ c.kind = "make" /\ "include-lost" \notin tree /\ c.name \in tree /\ "source-lost" \in tree => s.rc = 2
    BY <1>0 DEF Simple, Silent
  <2> QED BY <1>0, <1>0a, <1>2, <2>1, <2>2, <2>3, Zenon
<1>4. ~lost
  <2>1. goes /\ lost => s.rc = 127 BY <1>0 DEF Simple, Silent
  <2> QED BY <1>0, <1>0a, <1>3, <2>1, Zenon
<1>5. ~("calls-nothing" \in tree /\ c.kind = "script")
  <2>1. goes /\ ~lost /\ "calls-nothing" \in tree /\ c.kind = "script" => s.rc = 127 BY <1>0 DEF Simple, Silent
  <2> QED BY <1>0, <1>0a, <1>3, <1>4, <2>1, Zenon
<1>6. ~Broken(c, tree, dead)
  <2>1. ASSUME goes, ~lost, ~("calls-nothing" \in tree /\ c.kind = "script"), Broken(c, tree, dead) PROVE s.rc # 0
    <3>1. PICK recipe \in BOOLEAN, rc \in {1, 2} : recipe = (c.kind = "make") /\ rc = IF c.kind = "make" THEN 2 ELSE 1 OBVIOUS
    <3>2. s = [Silent EXCEPT !.rc = rc, !.recipe = recipe, !.truth = {"broken"}] BY <1>0, <2>1, <3>1 DEF Simple
    <3>3. s.rc = rc BY <3>2 DEF Silent
    <3> QED BY <3>1, <3>3
  <2> QED BY <1>0, <1>0a, <1>3, <1>4, <1>5, <2>1, Zenon
<1>7. Simple(c, tree, {}) = Silent BY <1>1, <1>3, <1>4, <1>5, <1>6 DEF Simple
<1> QED BY <1>7 DEF Silent

LEMMA UpTo ==
    ASSUME NEW n \in Nat, NEW S \in SUBSET (0..n), 0 \in S, \A i \in 1..n : i - 1 \in S => i \in S
    PROVE  \A i \in 0..n : i \in S
<1> DEFINE U == {i \in Nat : i <= n => i \in S}
<1>1. 0 \in U OBVIOUS
<1>2. ASSUME NEW i \in U PROVE i + 1 \in U
  <2>1. CASE i + 1 <= n
    <3>1. i + 1 \in 1..n /\ (i + 1) - 1 = i /\ i \in S BY <2>1
    <3> QED BY <3>1
  <2>2. CASE ~(i + 1 <= n) BY <2>2
  <2> QED BY <2>1, <2>2
<1>3. U = Nat BY <1>1, <1>2, Induction
<1> QED BY <1>3

LEMMA JoinedIs ==
    ASSUME NEW x, NEW y, DOMAIN x = FactFields
    PROVE  /\ DOMAIN Joined(x, y) = FactFields /\ Joined(x, y).rc = y.rc
           /\ Joined(x, y).recipe = (x.recipe \/ y.recipe) /\ Joined(x, y).needed = (x.needed \/ y.needed)
           /\ \A g \in {"norule", "includes", "lost", "truth"} : Joined(x, y)[g] = x[g] \cup y[g]
BY DEF Joined, FactFields

LEMMA ShellHeals ==
    ASSUME NEW cmd \in Seq(Command), NEW tree, NEW dead, Shell(cmd, tree, dead).rc = 0
    PROVE  Shell(cmd, tree, {}).rc = 0
<1>0. PICK n \in Nat : n = Len(cmd) OBVIOUS
<1>1. PICK f : /\ Shell(cmd, tree, dead) = f[n] /\ f[0] = Silent
               /\ \A i \in 1..n : f[i] = Runs(cmd, tree, dead, i, f[i - 1])
  BY <1>0, ShellRan
<1>2. PICK g : /\ Shell(cmd, tree, {}) = g[n] /\ g[0] = Silent
               /\ \A i \in 1..n : g[i] = Runs(cmd, tree, {}, i, g[i - 1])
  BY <1>0, ShellRan
<1> DEFINE Good(i) == DOMAIN f[i] = FactFields /\ DOMAIN g[i] = FactFields /\ (f[i].rc = 0 => g[i].rc = 0)
           S == {i \in 0..n : Good(i)}
<1>3. 0 \in S BY <1>1, <1>2 DEF Silent, FactFields
<1>4. ASSUME NEW i \in 1..n, i - 1 \in S PROVE i \in S
  <2>1. PICK c : c = cmd[i] OBVIOUS
  <2>2. PICK a : a = f[i - 1] /\ DOMAIN a = FactFields BY <1>4
  <2>3. PICK b : b = g[i - 1] /\ DOMAIN b = FactFields /\ (a.rc = 0 => b.rc = 0) BY <1>4, <2>2
  <2>4. PICK x : x = Simple(c, tree, dead) OBVIOUS
  <2>5. PICK y : y = Simple(c, tree, {}) /\ (x.rc = 0 => y.rc = 0) BY <2>4, SimpleHeals
  <2>6. f[i] = IF (c.op = "&&" /\ a.rc # 0) \/ (c.op = "||" /\ a.rc = 0) THEN a ELSE Joined(a, x)
    BY <1>1, <2>1, <2>2, <2>4 DEF Runs, Skips
  <2>7. g[i] = IF (c.op = "&&" /\ b.rc # 0) \/ (c.op = "||" /\ b.rc = 0) THEN b ELSE Joined(b, y)
    BY <1>2, <2>1, <2>3, <2>5 DEF Runs, Skips
  <2>8. DOMAIN Joined(a, x) = FactFields /\ Joined(a, x).rc = x.rc BY <2>2, JoinedIs
  <2>9. DOMAIN Joined(b, y) = FactFields /\ Joined(b, y).rc = y.rc BY <2>3, JoinedIs
  <2>10. DOMAIN f[i] = FactFields /\ DOMAIN g[i] = FactFields BY <2>2, <2>3, <2>6, <2>7, <2>8, <2>9
  <2>11. ASSUME f[i].rc = 0 PROVE g[i].rc = 0
    <3>1. CASE c.op = "&&"
      <4>1. a.rc = 0 /\ x.rc = 0
        <5>1. CASE a.rc # 0 BY <2>6, <2>11, <3>1, <5>1
        <5>2. CASE a.rc = 0
          <6>1. f[i] = Joined(a, x) BY <2>6, <3>1, <5>2
          <6> QED BY <2>8, <2>11, <5>2, <6>1
        <5> QED BY <5>1, <5>2
      <4>2. b.rc = 0 /\ y.rc = 0 BY <2>3, <2>5, <4>1
      <4>3. g[i] = Joined(b, y) BY <2>7, <3>1, <4>2
      <4> QED BY <2>9, <4>2, <4>3
    <3>2. CASE c.op = "||"
      <4>1. CASE b.rc = 0 BY <2>7, <3>2, <4>1
      <4>2. CASE b.rc # 0
        <5>1. a.rc # 0 BY <2>3, <4>2
        <5>2. f[i] = Joined(a, x) /\ g[i] = Joined(b, y) BY <2>6, <2>7, <3>2, <4>2, <5>1
        <5>3. x.rc = 0 BY <2>8, <2>11, <5>2
        <5> QED BY <2>5, <2>9, <5>2, <5>3
      <4> QED BY <4>1, <4>2
    <3>3. CASE c.op \notin {"&&", "||"}
      <4>1. f[i] = Joined(a, x) /\ g[i] = Joined(b, y) BY <2>6, <2>7, <3>3
      <4>2. x.rc = 0 BY <2>8, <2>11, <4>1
      <4> QED BY <2>5, <2>9, <4>1, <4>2
    <3> QED BY <3>1, <3>2, <3>3
  <2> QED BY <2>10, <2>11
<1>5. n \in S
  <2> HIDE DEF Good
  <2>1. S \in SUBSET (0..n) /\ n \in 0..n OBVIOUS
  <2> HIDE DEF S
  <2> QED BY <1>3, <1>4, <2>1, UpTo
<1> QED BY <1>1, <1>2, <1>5

(* What a failed check has to show for it: the command it stopped at.       *)
Blamed(cmd, tree, i, x) ==
    /\ DOMAIN x = FactFields
    /\ Blames(x)
    /\ x.norule \subseteq Targets(cmd) \/ "broken" \in x.truth
    /\ x.rc # 0 => \E k \in 1..i : LET s == Simple(cmd[k], tree, {}) IN
          s.rc = x.rc /\ s.norule \subseteq x.norule /\ s.lost \subseteq x.lost /\ s.truth \subseteq x.truth

LEMMA ShellBlames ==
    ASSUME NEW cmd \in Seq(Command), NEW tree
    PROVE  Blamed(cmd, tree, Len(cmd), Shell(cmd, tree, {}))
<1>0. PICK n \in Nat : n = Len(cmd) /\ DOMAIN cmd = 1..n OBVIOUS
<1>1. PICK f : /\ Shell(cmd, tree, {}) = f[n] /\ f[0] = Silent
               /\ \A i \in 1..n : f[i] = Runs(cmd, tree, {}, i, f[i - 1])
  BY <1>0, ShellRan
<1> DEFINE S == {i \in 0..n : Blamed(cmd, tree, i, f[i])}
<1>2. Blamed(cmd, tree, 0, f[0]) BY <1>1 DEF Blamed, Blames, Silent, FactFields
<1>3. ASSUME NEW i \in 1..n, Blamed(cmd, tree, i - 1, f[i - 1]) PROVE Blamed(cmd, tree, i, f[i])
  <2>1. PICK c \in Command : c = cmd[i] BY <1>0
  <2>2. PICK a : a = f[i - 1] /\ Blamed(cmd, tree, i - 1, a) BY <1>3
  <2>3. PICK s : s = Simple(c, tree, {}) OBVIOUS
  <2>4. Shows(c, tree, {}, s) BY <2>3, SimpleFacts
  <2>5. f[i] = IF (c.op = "&&" /\ a.rc # 0) \/ (c.op = "||" /\ a.rc = 0) THEN a ELSE Joined(a, s)
    BY <1>1, <2>1, <2>2, <2>3 DEF Runs, Skips
  <2>6. CASE f[i] = a
    <3>1. \A k \in 1..i - 1 : k \in 1..i OBVIOUS
    <3> QED BY <2>2, <2>6, <3>1 DEF Blamed
  <2>7. CASE f[i] = Joined(a, s)
    <3>1. PICK x : x = Joined(a, s) OBVIOUS
    <3>2. /\ DOMAIN x = FactFields /\ x.rc = s.rc
          /\ x.recipe = (a.recipe \/ s.recipe) /\ x.needed = (a.needed \/ s.needed)
          /\ x.norule = a.norule \cup s.norule /\ x.includes = a.includes \cup s.includes
          /\ x.lost = a.lost \cup s.lost /\ x.truth = a.truth \cup s.truth
      BY <2>2, <3>1, JoinedIs DEF Blamed
    <3>3. Blames(a) /\ Blames(s) BY <2>2, <2>4 DEF Blamed, Shows
    <3>4. Blames(x)
      <4>1. x.recipe => a.recipe \/ s.recipe BY <3>2
      <4>2. x.needed => a.needed \/ s.needed BY <3>2
      <4> QED BY <3>2, <3>3, <4>1, <4>2 DEF Blames
    <3>5. MakeTargets(c) \subseteq Targets(cmd) BY <1>0, <2>1 DEF Targets
    <3>6. x.norule \subseteq Targets(cmd) \/ "broken" \in x.truth
      BY <2>2, <2>4, <3>2, <3>5 DEF Blamed, Shows
    <3>7. i \in 1..i /\ s = Simple(cmd[i], tree, {}) BY <2>1, <2>3
    <3>8. \E k \in 1..i : LET z == Simple(cmd[k], tree, {}) IN
             z.rc = x.rc /\ z.norule \subseteq x.norule /\ z.lost \subseteq x.lost /\ z.truth \subseteq x.truth
      BY <3>2, <3>7
    <3> QED BY <2>7, <3>1, <3>2, <3>4, <3>6, <3>8 DEF Blamed
  <2> QED BY <2>5, <2>6, <2>7
<1>4. \A i \in 0..n : i \in S
  <2>1. S \in SUBSET (0..n) /\ 0 \in S BY <1>2
  <2>2. \A i \in 1..n : i - 1 \in S => i \in S BY <1>3
  <2> HIDE DEF S
  <2> QED BY <2>1, <2>2, UpTo
<1>5. n \in S BY <1>4
<1> QED BY <1>0, <1>1, <1>5

(* Red on a host in order is the tree's own doing.                          *)
LEMMA RedIsBroken ==
    ASSUME NEW cmd, Check(cmd), NEW tree, Decide(cmd, tree, Shell(cmd, tree, {})) = "red"
    PROVE  Shell(cmd, tree, {}).rc # 0 /\ "broken" \in Shell(cmd, tree, {}).truth
<1>00. cmd \in Seq(Command) BY DEF Check
<1>0. cmd \in Seq(Command) /\ DOMAIN cmd = 1..Len(cmd) BY <1>00
<1>1. PICK x : x = Shell(cmd, tree, {}) /\ Blamed(cmd, tree, Len(cmd), x) BY <1>0, ShellBlames
<1>2. Decide(cmd, tree, x) = "red" BY <1>1
<1>3. x.rc # 0 BY <1>2 DEF Decide
<1>4. SUFFICES ASSUME "broken" \notin x.truth PROVE FALSE BY <1>1, <1>3
<1>5. ~(x.recipe \/ x.needed \/ x.norule \cap x.includes # {})
  <2>1. ~x.recipe /\ ~x.needed /\ x.includes = {} BY <1>1, <1>4 DEF Blamed, Blames
  <2> QED BY <2>1
<1>6. /\ Absent(cmd, tree) = {}
      /\ ~(x.rc = 2 /\ x.norule # {} /\ x.norule \subseteq Targets(cmd))
      /\ ~(x.rc = 127 /\ x.lost \cap Words(cmd, tree) # {})
  BY <1>2, <1>3, <1>5 DEF Decide
<1>7. PICK k \in DOMAIN cmd : LET s == Simple(cmd[k], tree, {}) IN
        s.rc = x.rc /\ s.norule \subseteq x.norule /\ s.lost \subseteq x.lost /\ s.truth \subseteq x.truth
  BY <1>0, <1>1, <1>3 DEF Blamed
<1>8. PICK c \in Command : c = cmd[k] BY <1>0
<1>9. PICK s : s = Simple(c, tree, {}) OBVIOUS
<1>10. s.rc = x.rc /\ s.norule \subseteq x.norule /\ s.lost \subseteq x.lost /\ "broken" \notin s.truth
  BY <1>4, <1>7, <1>8, <1>9
<1>11. Misses(c, tree, s) BY <1>3, <1>9, <1>10, SimpleFacts DEF Shows
<1>12. CASE c.dir # "" /\ c.dir \notin tree
  <2>1. k = 1 /\ OwnCommands(cmd) = DOMAIN cmd BY <1>8, <1>12 DEF Check
  <2>2. c.dir \in Absent(cmd, tree) BY <1>8, <1>12, <2>1 DEF Absent, EntryFiles
  <2> QED BY <1>6, <2>2
<1>13. CASE c.kind = "make" /\ s.rc = 2 /\ s.norule = {c.name}
  <2>1. x.rc = 2 /\ x.norule # {} BY <1>10, <1>13
  <2>2. x.norule \subseteq Targets(cmd) BY <1>1, <1>4 DEF Blamed
  <2> QED BY <1>6, <2>1, <2>2
<1>14. CASE c.kind = "script" /\ c.name \notin tree /\ s.rc = 127 /\ s.lost = {c.name}
  <2>1. k \in OwnCommands(cmd) BY <1>8, <1>14 DEF Check
  <2>2. c.name \in Words(cmd, tree) BY <1>8, <1>14, <2>1 DEF Words, OwnCommands
  <2>3. c.name \in x.lost /\ x.rc = 127 BY <1>10, <1>14
  <2> QED BY <1>6, <2>2, <2>3
<1> QED BY <1>11, <1>12, <1>13, <1>14 DEF Misses

-----------------------------------------------------------------------------
(* The pre-board check: who is reported was red on a host that had lost no  *)
(* more than it has lost now.                                               *)

RedThere(b) == \E dead \in SUBSET host : Decide(world.cmd, Tree(b), Shell(world.cmd, Tree(b), dead)) = "red"
Passes(b) == Shell(world.cmd, Tree(b), {}).rc = 0
Sure == run.preflight /\ (run.pc = "tell" \/ run.said > 0)
Out == {run.dropped[i] : i \in DOMAIN run.dropped}
FairInv ==
    /\ \A b \in Out : RedThere(b) /\ (Sure => Guilty(b))
    /\ \A b \in run.checked : Passes(b)

LEMMA CheckIs == ASSUME TowerOK, RunOK PROVE Check(world.cmd) /\ world.cmd \in Seq(Command)
<1>1. Check(world.cmd) BY WorldsAssumption DEF TowerOK, RunOK, T
<1> QED BY <1>1 DEF Check

LEMMA FairAfter ==
    ASSUME FairInv, world' = world, host \subseteq host',
           run'.dropped = run.dropped, run'.checked = run.checked, Sure' => Sure
    PROVE  FairInv'
<1>1. \A b : Guilty(b)' = Guilty(b) BY DEF Guilty, Tree
<1>2. \A b : Passes(b)' = Passes(b) BY DEF Passes, Tree
<1>3. \A b : RedThere(b) => RedThere(b)' BY DEF RedThere, Tree
<1>4. Out' = Out BY DEF Out
<1> QED BY <1>1, <1>2, <1>3, <1>4 DEF FairInv

LEMMA ProbeSays ==
    ASSUME TowerOK, RunOK, NEW b, NEW state \in Probe(b)
    PROVE  /\ state = "red" => RedThere(b)
           /\ state = "green" => Passes(b)
<1>1. world.cmd \in Seq(Command) BY CheckIs
<1>2. PICK f : f = Shell(world.cmd, Tree(b), host) OBVIOUS
<1>3. state \in {"red", "green"} => state = Decide(world.cmd, Tree(b), f)
  BY <1>2 DEF Probe, Verdicts
<1>4. ASSUME state = "red" PROVE RedThere(b) BY <1>2, <1>3, <1>4 DEF RedThere
<1>5. ASSUME state = "green" PROVE Passes(b)
  <2>1. f.rc = 0 BY <1>3, <1>5 DEF Decide
  <2> QED BY <1>1, <1>2, <2>1, ShellHeals DEF Passes
<1> QED BY <1>4, <1>5

LEMMA FairStep == ASSUME TowerOK, RunOK, FairInv, Boards PROVE FairInv'
<1>1. DOMAIN run = RunFields /\ run.dropped \in Seq(Workers) BY DEF RunOK
<1>2. ASSUME NEW aboard \in world.orders, Departs(aboard) PROVE FairInv'
  <2>1. run'.said = 0 /\ run'.dropped = <<>> /\ run'.checked = {} /\ run'.pc # "tell" BY <1>2, NewRun
  <2>2. Out' = {} /\ ~Sure' BY <2>1 DEF Sure, Out
  <2> QED BY <2>1, <2>2 DEF FairInv
<1>3. CASE Candidate
  <2>1. PICK b : b = run.aboard[run.at] OBVIOUS
  <2>2. PICK next : next = [run EXCEPT !.at = run.at + 1, !.second = FALSE] OBVIOUS
  <2>3. /\ DOMAIN next = RunFields /\ next.dropped = run.dropped /\ next.checked = run.checked
        /\ next.said = run.said /\ next.pc = run.pc
    BY <1>1, <2>2 DEF RunFields
  <2>4. PICK state \in Probe(b) :
          run' = IF state = "red"
                 THEN IF run.second THEN [next EXCEPT !.dropped = Append(next.dropped, b)] ELSE [run EXCEPT !.second = TRUE]
                 ELSE [next EXCEPT !.kept = Append(next.kept, b),
                                   !.checked = next.checked \cup (IF state = "green" THEN {b} ELSE {})]
    BY <1>3, <2>1, <2>2 DEF Candidate
  <2>5. (state = "red" => RedThere(b)) /\ (state = "green" => Passes(b)) BY ProbeSays
  <2>6. world' = world /\ host' = host BY <1>3 DEF Candidate, BoardingSame
  <2>7. run.pc = "candidate" /\ run.said = 0 BY <1>3 DEF Candidate, At, RunOK
  <2>8. \A c : (Guilty(c)' = Guilty(c)) /\ (Passes(c)' = Passes(c)) /\ (RedThere(c)' = RedThere(c))
    BY <2>6 DEF Guilty, Passes, RedThere, Tree
  <2>9. CASE run' = [run EXCEPT !.second = TRUE]
    <3>1. run'.dropped = run.dropped /\ run'.checked = run.checked /\ run'.said = 0 /\ run'.pc = "candidate"
      BY <1>1, <2>7, <2>9 DEF RunFields
    <3>2. ~Sure' BY <3>1 DEF Sure
    <3> QED BY <2>6, <3>1, <3>2, FairAfter
  <2>10. CASE state = "red" /\ run' = [next EXCEPT !.dropped = Append(next.dropped, b)]
    <3>1. run'.dropped = Append(run.dropped, b) /\ run'.checked = run.checked /\ run'.said = 0 /\ run'.pc = "candidate"
      BY <2>3, <2>7, <2>10 DEF RunFields
    <3>2. ~Sure' BY <3>1 DEF Sure
    <3>3. Out' \subseteq Out \cup {b}
      <4>1. \A i \in DOMAIN run'.dropped : (i \in DOMAIN run.dropped /\ run'.dropped[i] = run.dropped[i]) \/ run'.dropped[i] = b
        BY <1>1, <3>1
      <4> QED BY <4>1 DEF Out
    <3>4. \A c \in Out' : RedThere(c)' BY <2>5, <2>8, <2>10, <3>3 DEF FairInv
    <3>5. \A c \in run'.checked : Passes(c)' BY <2>8, <3>1 DEF FairInv
    <3> QED BY <3>2, <3>4, <3>5 DEF FairInv
  <2>11. CASE state # "red" /\ run' = [next EXCEPT !.kept = Append(next.kept, b),
                                          !.checked = next.checked \cup (IF state = "green" THEN {b} ELSE {})]
    <3>1. /\ run'.dropped = run.dropped /\ run'.said = 0 /\ run'.pc = "candidate"
          /\ run'.checked = run.checked \cup (IF state = "green" THEN {b} ELSE {})
      BY <2>3, <2>7, <2>11 DEF RunFields
    <3>2. ~Sure' BY <3>1 DEF Sure
    <3>3. \A c \in Out' : RedThere(c)' BY <2>8, <3>1 DEF FairInv, Out
    <3>4. \A c \in run'.checked : Passes(c)' BY <2>5, <2>8, <3>1 DEF FairInv
    <3> QED BY <3>2, <3>3, <3>4 DEF FairInv
  <2> QED BY <2>4, <2>9, <2>10, <2>11
<1>4. ASSUME NEW phase, run' = [run EXCEPT !.pc = phase], world' = world, host' = host, Sure' => Sure
      PROVE FairInv'
  <2>1. run'.dropped = run.dropped /\ run'.checked = run.checked BY <1>1, <1>4 DEF RunFields
  <2> QED BY <1>4, <2>1, FairAfter
<1>5. ASSUME NEW kept, run.said = 0, world' = world, host' = host,
             run' = [run EXCEPT !.kept = kept, !.dropped = <<>>, !.pc = "leave"]
      PROVE FairInv'
  <2>1. run'.dropped = <<>> /\ run'.checked = run.checked /\ run'.said = 0 /\ run'.pc = "leave"
    BY <1>1, <1>5 DEF RunFields
  <2>2. ~Sure' /\ Out' = {} BY <2>1 DEF Sure, Out
  <2>3. \A b : Passes(b)' = Passes(b) BY <1>5 DEF Passes, Tree
  <2> QED BY <2>1, <2>2, <2>3 DEF FairInv
<1>6. CASE Again
  <2>1. run.said = 0 /\ run.pc = "candidate" /\ world' = world /\ host' = host BY <1>6 DEF Again, At, RunOK, BoardingSame
  <2>2. \/ run' = [run EXCEPT !.pc = "leave"]
        \/ run' = [run EXCEPT !.kept = run.aboard, !.dropped = <<>>, !.pc = "leave"]
        \/ run.preflight /\ run' = [run EXCEPT !.pc = "preflight"]
        \/ ~run.preflight /\ run' = [run EXCEPT !.pc = "tell"]
    BY <1>6 DEF Again, Goes2, Keeps
  <2>3. CASE run' = [run EXCEPT !.pc = "leave"] \/ run' = [run EXCEPT !.pc = "preflight"]
    <3>1. run'.said = 0 /\ run'.pc # "tell" BY <1>1, <2>1, <2>3 DEF RunFields
    <3>2. ~Sure' BY <3>1 DEF Sure
    <3> QED BY <1>4, <2>1, <2>3, <3>2
  <2>4. CASE ~run.preflight /\ run' = [run EXCEPT !.pc = "tell"]
    <3>1. run'.preflight = run.preflight BY <1>1, <2>4 DEF RunFields
    <3>2. ~Sure' BY <2>4, <3>1 DEF Sure
    <3> QED BY <1>4, <2>1, <2>4, <3>2
  <2> QED BY <1>5, <2>1, <2>2, <2>3, <2>4
<1>7. CASE Confirmed
  <2>1. run.said = 0 /\ run.pc = "preflight" /\ world' = world /\ host' = host BY <1>7 DEF Confirmed, At, RunOK, BoardingSame
  <2>2. CASE run' = [run EXCEPT !.kept = <<>>, !.dropped = <<>>, !.pc = "leave"] BY <1>5, <2>1, <2>2
  <2>3. CASE host = {} /\ run' = [run EXCEPT !.pc = "tell"]
    <3>1. run'.dropped = run.dropped /\ run'.checked = run.checked BY <1>1, <2>3 DEF RunFields
    <3>2. ASSUME NEW b \in Out PROVE Guilty(b)
      <4>1. PICK tree : tree = Tree(b) OBVIOUS
      <4>2. Decide(world.cmd, tree, Shell(world.cmd, tree, {})) = "red"
        <5>1. RedThere(b) BY <3>2 DEF FairInv
        <5>2. \A dead \in SUBSET host : dead = {} BY <2>3
        <5> QED BY <4>1, <5>1, <5>2 DEF RedThere
      <4> QED BY <4>1, <4>2, CheckIs, RedIsBroken DEF Guilty
    <3>3. \A b : (Guilty(b)' = Guilty(b)) /\ (Passes(b)' = Passes(b)) /\ (RedThere(b)' = RedThere(b))
      BY <2>1 DEF Guilty, Passes, RedThere, Tree
    <3>4. \A b \in Out' : Guilty(b)' /\ RedThere(b)'
      BY <3>1, <3>2, <3>3 DEF FairInv, Out
    <3>5. \A b \in run'.checked : Passes(b)' BY <3>1, <3>3 DEF FairInv
    <3> QED BY <3>4, <3>5 DEF FairInv
  <2> QED BY <1>7, <2>2, <2>3 DEF Confirmed, Preflight
<1>8. CASE Tells
  <2>1. world' = world /\ host' = host /\ run.pc = "tell" BY <1>8 DEF Tells, At
  <2>2. CASE run.said = Len(run.dropped)
    <3>1. run' = [run EXCEPT !.pc = "leave"] BY <1>8, <2>2 DEF Tells, Goes2
    <3>2. run'.preflight = run.preflight BY <1>1, <3>1 DEF RunFields
    <3> QED BY <1>4, <2>1, <3>1, <3>2 DEF Sure
  <2>3. CASE run.said # Len(run.dropped)
    <3>1. run' = [run EXCEPT !.said = run.said + 1] BY <1>8, <2>3 DEF Tells
    <3>2. run'.preflight = run.preflight /\ run'.dropped = run.dropped /\ run'.checked = run.checked
      BY <1>1, <3>1 DEF RunFields
    <3>3. Sure' => Sure BY <2>1, <3>2 DEF Sure
    <3> QED BY <2>1, <3>2, <3>3, FairAfter
  <2> QED BY <2>2, <2>3
<1>9. CASE Leaves \/ Built \/ Dies
  <2>1. world' = world /\ host' = host BY <1>9 DEF Leaves, Built, Dies, BoardingSame
  <2>2. PICK phase \in {"off", "build"} : run' = [run EXCEPT !.pc = phase] BY <1>9 DEF Leaves, Built, Dies, Goes2
  <2>3. run'.preflight = run.preflight /\ run'.said = run.said /\ run'.pc # "tell" BY <1>1, <2>2 DEF RunFields
  <2> QED BY <1>4, <2>1, <2>2, <2>3 DEF Sure
<1>10. CASE Merges
  <2>1. world' = world /\ host' = host /\ run' = [run EXCEPT !.kept = Tail(run.kept)] BY <1>10 DEF Merges
  <2>2. /\ run'.preflight = run.preflight /\ run'.said = run.said /\ run'.pc = run.pc
        /\ run'.dropped = run.dropped /\ run'.checked = run.checked
    BY <1>1, <2>1 DEF RunFields
  <2> QED BY <2>1, <2>2, FairAfter DEF Sure
<1>11. CASE (\E what \in {"net", "tool", "disk"} : HostBreaks(what)) \/ (\E to \in {"none", "foreign"} : OwnerMoves(to))
  <2>1. world' = world /\ host \subseteq host' /\ run' = run BY <1>11 DEF HostBreaks, OwnerMoves
  <2> QED BY <2>1, FairAfter DEF Sure
<1> QED BY <1>2, <1>3, <1>6, <1>7, <1>8, <1>9, <1>10, <1>11 DEF Boards

LEMMA FairKeeps == ASSUME TowerInv, FairInv, [BoardingNext]_trainVars PROVE FairInv'
<1>1. CASE Boards BY <1>1, FairStep DEF TowerInv
<1>2. CASE UNCHANGED boardingVars BY <1>2, FairAfter DEF boardingVars, Sure
<1> QED BY <1>1, <1>2 DEF BoardingNext, trainVars

(* pre_board: with a preflight that asks for what the check needs, only a   *)
(* branch is reported that fails, on main, at something that is there - for *)
(* every check, tree and host; and who boards as checked passes.            *)
THEOREM PreboardAccusesFairly == BoardingSpec => []PreboardIsFair
<1>1. BoardingInit => FairInv
  <2>1. BoardingInit => Out = {} /\ run.checked = {} /\ ~Sure BY DEF BoardingInit, NoRun, Sure, Out
  <2> QED BY <2>1 DEF FairInv
<1>2. ASSUME TowerInv, FairInv PROVE PreboardIsFair
  <2>1. run.dropped \in Seq(Workers) /\ run.said \in Nat /\ run.said <= Len(run.dropped) BY <1>2 DEF TowerInv, RunOK
  <2>2. ASSUME run.preflight, NEW i \in 1..run.said PROVE Guilty(run.dropped[i])
    <3>1. run.said > 0 /\ run.dropped[i] \in Out BY <2>1 DEF Out
    <3> QED BY <1>2, <2>2, <3>1 DEF FairInv, Sure
  <2> QED BY <1>2, <2>2 DEF PreboardIsFair, FairInv, Passes
<1> QED BY <1>1, <1>2, TowerStarts, TowerKeeps, FairKeeps, PTL DEF BoardingSpec

-----------------------------------------------------------------------------
(* Settling. The plans on the train's line, and the passes on it, are those *)
(* of its wagons; a pass is its own plan's.                                 *)

Moved(a, wagon) == {p \in Settled(a, wagon) : p.at = "active"}

IssuesOf(plans) == UNION {p.issues : p \in plans}

LEMMA ArchivedIs ==
    ASSUME NEW p \in PlanFile
    PROVE  Archived(p).stem = p.stem /\ Archived(p).slug = p.slug /\ Archived(p).at = "archive"
BY DEF Archived, PlanFile

LEMMA SettleIs ==
    ASSUME NEW ln, NEW wagon, NEW a, a = After(ln, wagon), NEW s, s = Settle(ln, wagon)
    PROVE  /\ a.plans = {p \in ln.plans : \A q \in wagon.plans : q.stem # p.stem} \cup wagon.plans
           /\ a.passes = ln.passes \cup wagon.passes
           /\ s.line.passes = a.passes
           /\ s.line.plans = (a.plans \ Moved(a, wagon)) \cup {Archived(p) : p \in Moved(a, wagon)}
           /\ s.closes = IssuesOf(Settled(a, wagon)) \ Held(wagon)
           /\ Moved(a, wagon) \subseteq wagon.plans /\ Settled(a, wagon) \subseteq wagon.plans
<1>1. a = [plans |-> {p \in ln.plans : \A q \in wagon.plans : q.stem # p.stem} \cup wagon.plans,
           passes |-> ln.passes \cup wagon.passes]
  BY DEF After
<1>2. PICK moved : moved = Moved(a, wagon) OBVIOUS
<1>2a. PICK issues, held : issues = IssuesOf(Settled(a, wagon)) /\ held = Held(wagon) OBVIOUS
<1>2b. PICK l : l = [a EXCEPT !.plans = (a.plans \ moved) \cup {Archived(p) : p \in moved}] OBVIOUS
<1>2c. s = [line |-> l, closes |-> issues \ held, refs |-> issues \cap held, moved |-> moved]
  BY <1>2, <1>2a, <1>2b DEF Settle, Moved, IssuesOf
<1>3. s.line = [a EXCEPT !.plans = (a.plans \ moved) \cup {Archived(p) : p \in moved}] BY <1>2b, <1>2c
<1>4. s.closes = IssuesOf(Settled(a, wagon)) \ Held(wagon)
  <2>1. s.closes = issues \ held BY <1>2c
  <2> QED BY <1>2a, <2>1
<1>5. Moved(a, wagon) \subseteq wagon.plans /\ Settled(a, wagon) \subseteq wagon.plans
  BY DEF Moved, Settled, Own
<1>6. /\ a.plans = {p \in ln.plans : \A q \in wagon.plans : q.stem # p.stem} \cup wagon.plans
      /\ a.passes = ln.passes \cup wagon.passes
  BY <1>1
<1>7. s.line.passes = a.passes /\ s.line.plans = (a.plans \ moved) \cup {Archived(p) : p \in moved}
  <2>1. DOMAIN a = {"plans", "passes"} BY <1>1
  <2> QED BY <1>3, <2>1
<1> QED BY <1>2, <1>4, <1>5, <1>6, <1>7

LEMMA OneOfThem ==
    ASSUME NEW S, IsFiniteSet(S), Cardinality(S) <= 1, NEW p \in S, NEW q \in S
    PROVE  p = q
<1>1. SUFFICES ASSUME p # q PROVE FALSE OBVIOUS
<1>2. IsFiniteSet({p}) /\ Cardinality({p}) = 1 BY FS_Singleton
<1>3. Cardinality({p} \cup {q}) = 2
  <2>1. q \notin {p} BY <1>1
  <2>2. Cardinality({p} \cup {q}) = Cardinality({p}) + 1 BY ONLY <1>2, <2>1, FS_AddElement
  <2> QED BY <1>2, <2>2
<1>4. {p} \cup {q} \in SUBSET S OBVIOUS
<1>5. Cardinality({p} \cup {q}) <= Cardinality(S) BY <1>4, FS_Subset
<1>6. Cardinality(S) \in Nat BY FS_CardinalityType
<1> QED BY <1>3, <1>5, <1>6

LEMMA FiniteSettling ==
    ASSUME NEW ln, IsFiniteSet(ln.plans), NEW wagon, IsFiniteSet(wagon.plans)
    PROVE  IsFiniteSet(Settle(ln, wagon).line.plans) /\ IsFiniteSet(After(ln, wagon).plans)
<1>1. PICK a, s : a = After(ln, wagon) /\ s = Settle(ln, wagon) OBVIOUS
<1>2. PICK moved : moved = Moved(a, wagon) /\ moved \subseteq wagon.plans BY <1>1, SettleIs
<1>3. IsFiniteSet(moved) BY <1>2, FS_Subset
<1>4. IsFiniteSet({Archived(p) : p \in moved})
  <2> DEFINE f == [p \in moved |-> Archived(p)]
             R == {Archived(p) : p \in moved}
  <2>1. f \in Surjection(moved, R) BY DEF Surjection
  <2> HIDE DEF f
  <2> QED BY <1>3, <2>1, FS_Surjection
<1>5. IsFiniteSet(a.plans)
  <2>1. PICK S : S = {p \in ln.plans : \A q \in wagon.plans : q.stem # p.stem} OBVIOUS
  <2>2. IsFiniteSet(S) BY <2>1, FS_Subset
  <2>3. a.plans = S \cup wagon.plans BY <1>1, <2>1, SettleIs
  <2> QED BY <2>2, <2>3, FS_Union
<1>6. IsFiniteSet(a.plans \ moved) BY <1>5, FS_Difference
<1>7. s.line.plans = (a.plans \ moved) \cup {Archived(p) : p \in moved} BY <1>1, <1>2, SettleIs
<1>8. IsFiniteSet(s.line.plans) BY <1>4, <1>6, <1>7, FS_Union
<1> QED BY <1>1, <1>5, <1>8

Wagon(b) == world.brings[b].work
All == world.plans \cup UNION {Wagon(b).plans : b \in Workers}
Known(q) == \E p \in All : q.stem = p.stem /\ q.slug = p.slug
Backed(r) == \E q \in line.plans : q.stem = r.of /\ r.work \in {q.stem, q.slug}

LEMMA WorldFacts ==
    ASSUME TowerOK, RunOK
    PROVE  /\ world.plans \subseteq PlanFile /\ IsFiniteSet(world.plans)
           /\ \A b \in Workers : Wagon(b).plans \subseteq PlanFile /\ IsFiniteSet(Wagon(b).plans)
           /\ \A p, q \in All : /\ p.stem = q.stem => p.slug = q.slug
                                /\ p.stem # q.slug /\ p.stem \notin q.issues /\ p.slug \notin q.issues
           /\ \A b, c \in Workers : \A p \in Wagon(b).plans, q \in Wagon(c).plans : p.stem = q.stem => b = c
           /\ \A b \in Workers : \A r \in Wagon(b).passes :
                 \E p \in Wagon(b).plans : r.of = p.stem /\ r.work \in {p.stem, p.slug}
<1>1. PICK w : w = world OBVIOUS
<1>2. /\ w.plans \in SUBSET PlanFile /\ IsFiniteSet(w.plans) /\ w.brings \in [Workers -> Branch]
      /\ \A b \in Workers : IsFiniteSet(w.brings[b].work.plans)
      /\ Named(w)
  BY <1>1, WorldsAssumption DEF TowerOK, RunOK, T
<1>3. \A b \in Workers : w.brings[b].work \in Work BY <1>2 DEF Branch
<1>4. \A b \in Workers : w.brings[b].work.plans \subseteq PlanFile BY <1>3 DEF Work
<1>5. /\ \A p, q \in All : /\ p.stem = q.stem => p.slug = q.slug
                           /\ p.stem # q.slug /\ p.stem \notin q.issues /\ p.slug \notin q.issues
      /\ \A b, c \in Workers : \A p \in Wagon(b).plans, q \in Wagon(c).plans : p.stem = q.stem => b = c
      /\ \A b \in Workers : \A r \in Wagon(b).passes :
            \E p \in Wagon(b).plans : r.of = p.stem /\ r.work \in {p.stem, p.slug}
  BY <1>1, <1>2 DEF Named, All, Wagon
<1> QED BY <1>1, <1>2, <1>4, <1>5 DEF Wagon

(* The train's line with a wagon on it, before its plans move.              *)
LEMMA AfterIs ==
    ASSUME TowerOK, RunOK, \A q \in line.plans : Known(q), \A r \in line.passes : Backed(r),
           NEW b \in Workers, NEW a, a = After(line, Wagon(b))
    PROVE  /\ Wagon(b).plans \subseteq a.plans /\ Wagon(b).plans \subseteq All
           /\ \A q \in a.plans : Known(q)
           /\ \A q \in line.plans : \E p \in a.plans : p.stem = q.stem /\ p.slug = q.slug
           /\ \A q \in line.plans : (\A p \in Wagon(b).plans : p.stem # q.stem) => q \in a.plans /\ q \notin Wagon(b).plans
           /\ \A r \in a.passes : \E q \in a.plans : q.stem = r.of /\ r.work \in {q.stem, q.slug}
<1>1. PICK w : w = Wagon(b) OBVIOUS
<1>2. a.plans = {p \in line.plans : \A q \in w.plans : q.stem # p.stem} \cup w.plans /\ a.passes = line.passes \cup w.passes
  BY <1>1, SettleIs
<1>3. w.plans \subseteq All BY <1>1 DEF All
<1>4. \A q \in a.plans : Known(q)
  <2>1. \A q \in w.plans : Known(q) BY <1>3 DEF Known
  <2> QED BY <1>2, <2>1
<1>5. ASSUME NEW q \in line.plans PROVE \E p \in a.plans : p.stem = q.stem /\ p.slug = q.slug
  <2>1. CASE \A p \in w.plans : p.stem # q.stem BY <1>2, <2>1
  <2>2. CASE \E p \in w.plans : p.stem = q.stem
    <3>1. PICK p \in w.plans : p.stem = q.stem BY <2>2
    <3>2. PICK z \in All : q.stem = z.stem /\ q.slug = z.slug BY DEF Known
    <3>3. p.slug = q.slug BY <1>3, <3>1, <3>2, WorldFacts
    <3> QED BY <1>2, <3>1, <3>3
  <2> QED BY <2>1, <2>2
<1>6. ASSUME NEW r \in a.passes PROVE \E q \in a.plans : q.stem = r.of /\ r.work \in {q.stem, q.slug}
  <2>1. CASE r \in line.passes
    <3>1. PICK q \in line.plans : q.stem = r.of /\ r.work \in {q.stem, q.slug} BY <2>1 DEF Backed
    <3>2. PICK p \in a.plans : p.stem = q.stem /\ p.slug = q.slug BY <1>5
    <3> QED BY <3>1, <3>2
  <2>2. CASE r \in w.passes
    <3>1. PICK p \in w.plans : r.of = p.stem /\ r.work \in {p.stem, p.slug} BY <1>1, <2>2, WorldFacts
    <3> QED BY <1>2, <3>1
  <2> QED BY <1>2, <2>1, <2>2
<1> QED BY <1>1, <1>2, <1>3, <1>4, <1>5, <1>6

(* A pass that clears a plan is the plan's own.                             *)
LEMMA ClearedByItsOwn ==
    ASSUME TowerOK, RunOK, \A q \in line.plans : Known(q), \A r \in line.passes : Backed(r), IsFiniteSet(line.plans),
           NEW b \in Workers, NEW a, a = After(line, Wagon(b)), NEW p \in Wagon(b).plans, Cleared(a, p)
    PROVE  \E r \in a.passes : r.of = p.stem /\ r.tier >= p.tier
<1>1. PICK r \in a.passes : r.work \in WorkIds(a, p) /\ r.tier >= p.tier BY DEF Cleared
<1>2. PICK q \in a.plans : q.stem = r.of /\ r.work \in {q.stem, q.slug} BY AfterIs
<1>3. p \in a.plans /\ p \in All BY AfterIs
<1>4. PICK z \in All : q.stem = z.stem /\ q.slug = z.slug BY AfterIs DEF Known
<1>5. r.work = p.stem \/ r.work \in p.issues \/ (Unique(a, p) /\ r.work = p.slug) BY <1>1 DEF WorkIds
<1>6. CASE r.work = p.stem
  <2>1. r.work # z.slug BY <1>3, <1>6, WorldFacts
  <2> QED BY <1>1, <1>2, <1>4, <1>6, <2>1
<1>7. CASE r.work \in p.issues BY <1>2, <1>3, <1>4, <1>7, WorldFacts
<1>8. CASE Unique(a, p) /\ r.work = p.slug
  <2>1. r.work # z.stem BY <1>3, <1>8, WorldFacts
  <2>2. q.slug = p.slug BY <1>2, <1>4, <1>8, <2>1
  <2>3. PICK S : S = {x \in a.plans : x.slug = p.slug} OBVIOUS
  <2>4. IsFiniteSet(S)
    <3>1. IsFiniteSet(a.plans) BY WorldFacts, FiniteSettling
    <3> QED BY <2>3, <3>1, FS_Subset
  <2>5. Cardinality(S) <= 1 BY <1>8, <2>3 DEF Unique
  <2>6. p = q BY <1>3, <2>2, <2>3, <2>4, <2>5, OneOfThem
  <2> QED BY <1>1, <1>2, <2>6
<1> QED BY <1>5, <1>6, <1>7, <1>8

Archive(plans, stem) == \E q \in plans : q.stem = stem /\ q.at = "archive"
Earned(p, passes) == \/ p.tier < 2 \/ p.waived \/ p.at = "archive"
                     \/ \E r \in passes : r.of = p.stem /\ r.tier >= p.tier
Rightly(b, n, plans, passes) ==
    \E p \in Wagon(b).plans : n \in p.issues /\ Finished(p) /\ Earned(p, passes) /\ Archive(plans, p.stem)
Unheld(b, n) == \A p \in Wagon(b).plans :
    p.holds /\ (p.added \/ p.issues \cap Wagon(b).issues # {}) => n \notin Names(p)

LEMMA SettledRight ==
    ASSUME TowerOK, RunOK, \A q \in line.plans : Known(q), \A r \in line.passes : Backed(r), IsFiniteSet(line.plans),
           NEW b \in Workers, NEW s, s = Settle(line, Wagon(b))
    PROVE  /\ IsFiniteSet(s.line.plans) /\ \A q \in s.line.plans : Known(q)
           /\ \A r \in s.line.passes : \E q \in s.line.plans : q.stem = r.of /\ r.work \in {q.stem, q.slug}
           /\ line.passes \subseteq s.line.passes
           /\ \A q \in line.plans : (\A p \in Wagon(b).plans : p.stem # q.stem) => q \in s.line.plans
           /\ \A n \in s.closes : Rightly(b, n, s.line.plans, s.line.passes) /\ Unheld(b, n)
<1>1. PICK w : w = Wagon(b) OBVIOUS
<1>2. PICK a : a = After(line, w) OBVIOUS
<1>3. PICK moved : moved = Moved(a, w) OBVIOUS
<1>4. PICK done : done = Settled(a, w) OBVIOUS
<1>5. /\ a.passes = line.passes \cup w.passes /\ s.line.passes = a.passes
      /\ s.line.plans = (a.plans \ moved) \cup {Archived(p) : p \in moved}
      /\ s.closes = IssuesOf(done) \ Held(w)
      /\ moved \subseteq w.plans /\ done \subseteq w.plans
  BY <1>1, <1>2, <1>3, <1>4, SettleIs
<1>6. w.plans \subseteq PlanFile BY <1>1, WorldFacts
<1>7. \A p \in moved : Archived(p).stem = p.stem /\ Archived(p).slug = p.slug /\ Archived(p).at = "archive"
  BY <1>5, <1>6, ArchivedIs
<1>8. \A q \in a.plans : \E p \in s.line.plans : p.stem = q.stem /\ p.slug = q.slug
  <2> SUFFICES ASSUME NEW q \in a.plans PROVE \E p \in s.line.plans : p.stem = q.stem /\ p.slug = q.slug OBVIOUS
  <2>1. CASE q \in moved BY <1>5, <1>7, <2>1
  <2>2. CASE q \notin moved BY <1>5, <2>2
  <2> QED BY <2>1, <2>2
<1>9. \A q \in s.line.plans : \E p \in a.plans : q.stem = p.stem /\ q.slug = p.slug
  <2> SUFFICES ASSUME NEW q \in s.line.plans PROVE \E p \in a.plans : q.stem = p.stem /\ q.slug = p.slug OBVIOUS
  <2>1. CASE q \in a.plans BY <2>1
  <2>2. CASE q \notin a.plans
    <3>1. PICK p \in moved : q = Archived(p) BY <1>5, <2>2
    <3>2. p \in a.plans BY <1>1, <1>2, <1>5, <3>1, AfterIs
    <3> QED BY <1>7, <3>1, <3>2
  <2> QED BY <2>1, <2>2
<1>10. \A q \in s.line.plans : Known(q)
  <2> SUFFICES ASSUME NEW q \in s.line.plans PROVE Known(q) OBVIOUS
  <2>1. PICK p \in a.plans : q.stem = p.stem /\ q.slug = p.slug BY <1>9
  <2>2. Known(p) BY <1>1, <1>2, AfterIs
  <2> QED BY <2>1, <2>2 DEF Known
<1>11. \A r \in s.line.passes : \E q \in s.line.plans : q.stem = r.of /\ r.work \in {q.stem, q.slug}
  <2> SUFFICES ASSUME NEW r \in s.line.passes PROVE \E q \in s.line.plans : q.stem = r.of /\ r.work \in {q.stem, q.slug}
    OBVIOUS
  <2>1. PICK q \in a.plans : q.stem = r.of /\ r.work \in {q.stem, q.slug} BY <1>1, <1>2, <1>5, AfterIs
  <2>2. PICK p \in s.line.plans : p.stem = q.stem /\ p.slug = q.slug BY <1>8
  <2> QED BY <2>1, <2>2
<1>12. \A q \in line.plans : (\A p \in w.plans : p.stem # q.stem) => q \in s.line.plans
  BY <1>1, <1>2, <1>5, AfterIs
<1>13. IsFiniteSet(s.line.plans) BY <1>1, WorldFacts, FiniteSettling
<1>14. ASSUME NEW n \in s.closes PROVE Rightly(b, n, s.line.plans, s.line.passes)
  <2>1. PICK p \in done : n \in p.issues BY <1>5 DEF IssuesOf
  <2>2. p \in w.plans /\ p \in a.plans BY <1>1, <1>2, <1>5, AfterIs
  <2>3. /\ p.at \in {"active", "archive"}
        /\ p.at = "active" => Archives(a, p)
        /\ p.at # "active" => Finished(p)
    BY <1>4 DEF Settled, Own
  <2>4. CASE p.at = "active"
    <3>1. Finished(p) /\ (p.tier < 2 \/ p.waived \/ Cleared(a, p)) BY <2>3, <2>4 DEF Archives
    <3>2. Earned(p, s.line.passes) BY <1>1, <1>2, <1>5, <2>2, <3>1, ClearedByItsOwn DEF Earned
    <3>3. p \in moved BY <1>3, <1>4, <2>4 DEF Moved
    <3>4. Archive(s.line.plans, p.stem) BY <1>5, <1>7, <3>3 DEF Archive
    <3> QED BY <1>1, <2>1, <2>2, <3>1, <3>2, <3>4 DEF Rightly
  <2>5. CASE p.at = "archive"
    <3>1. p \notin moved BY <1>3, <2>5 DEF Moved
    <3>2. p \in s.line.plans BY <1>5, <2>2, <3>1
    <3> QED BY <1>1, <2>1, <2>2, <2>3, <2>5, <3>2 DEF Rightly, Earned, Archive
  <2> QED BY <2>3, <2>4, <2>5
<1>15. ASSUME NEW n \in s.closes PROVE Unheld(b, n)
  <2>1. n \notin Held(w) BY <1>5
  <2>2. ASSUME NEW p \in w.plans, p.holds, p.added \/ p.issues \cap w.issues # {} PROVE n \notin Names(p)
    <3>1. p.at \in {"active", "archive", "spec"} BY <1>6 DEF PlanFile
    <3>2. p \in Own(w, {"active", "archive", "spec"}) BY <2>2, <3>1 DEF Own
    <3> QED BY <2>1, <2>2, <3>2 DEF Held
  <2> QED BY <1>1, <2>2 DEF Unheld
<1> QED BY <1>1, <1>5, <1>10, <1>11, <1>12, <1>13, <1>14, <1>15

-----------------------------------------------------------------------------
(* The train's line, and who is still to be merged into it.                 *)

Distinct(s) == \A i, j \in DOMAIN s : s[i] = s[j] => i = j
Merged == {line.merges[i] : i \in DOMAIN line.merges}
KeptInv ==
    /\ Distinct(run.aboard) /\ Distinct(run.kept)
    /\ run.pc = "candidate" => \A i \in DOMAIN run.kept : \E j \in DOMAIN run.aboard :
                                   j < run.at /\ run.kept[i] = run.aboard[j]
LineInv ==
    /\ IsFiniteSet(line.plans) /\ \A q \in line.plans : Known(q)
    /\ \A r \in line.passes : Backed(r)
    /\ \E S : line.merges \in Seq(S)
    /\ \A m \in Merged : m.branch \in Workers
    /\ \A m \in Merged : \A n \in m.closes : Rightly(m.branch, n, line.plans, line.passes) /\ Unheld(m.branch, n)
OrderInv ==
    /\ run.pc \notin {"build", "off"} => line.merges = <<>>
    /\ run.pc = "build" => \A m \in Merged, j \in DOMAIN run.kept : run.kept[j] # m.branch

Fresh == TowerOK /\ RunOK /\ line.plans = world.plans /\ line.passes = {} /\ line.merges = <<>>
LEMMA FreshLine == Fresh => LineInv
<1> SUFFICES ASSUME Fresh PROVE LineInv OBVIOUS
<1>0. TowerOK /\ RunOK /\ line.plans = world.plans /\ line.passes = {} /\ line.merges = <<>> BY DEF Fresh
<1>1. Merged = {} BY <1>0 DEF Merged
<1>2. \A q \in line.plans : Known(q) BY <1>0 DEF Known, All
<1>3. line.merges \in Seq({}) BY <1>0
<1> QED BY <1>0, <1>1, <1>2, <1>3, WorldFacts DEF LineInv

LEMMA LineStays == ASSUME LineInv, line' = line, world' = world PROVE LineInv'
<1>1. \A q : Known(q)' = Known(q) BY DEF Known, All, Wagon
<1>2. \A r : Backed(r)' = Backed(r) BY DEF Backed
<1>3. \A b, n : Rightly(b, n, line.plans, line.passes) => Rightly(b, n, line.plans, line.passes)'
  BY DEF Rightly, Wagon
<1>4. \A b, n : Unheld(b, n)' = Unheld(b, n) BY DEF Unheld, Wagon
<1>5. Merged' = Merged BY DEF Merged
<1> QED BY <1>1, <1>2, <1>3, <1>4, <1>5 DEF LineInv

LEMMA MergeStep ==
    ASSUME TowerOK, RunOK, LineInv, OrderInv, Merges
    PROVE  /\ LineInv'
           /\ \A m \in Merged' : m \in Merged \/ m.branch = Head(run.kept)
<1>1. run.kept # <<>> /\ run.pc = "build" /\ world' = world BY DEF Merges, At
<1>2. PICK b \in Workers : b = Head(run.kept) /\ b = run.kept[1] /\ 1 \in DOMAIN run.kept BY <1>1 DEF RunOK
<1>3. CASE line' = line
  <2>1. Merged' = Merged BY <1>3 DEF Merged
  <2> QED BY <1>1, <1>3, <2>1, LineStays
<1>4. PICK s : s = Settle(line, Wagon(b)) OBVIOUS
<1>5. PICK new : new = [branch |-> b, closes |-> s.closes, refs |-> s.refs] OBVIOUS
<1>6. CASE line' = [plans |-> s.line.plans, passes |-> s.line.passes, merges |-> Append(line.merges, new)]
  <2>1. /\ IsFiniteSet(s.line.plans) /\ \A q \in s.line.plans : Known(q)
        /\ \A r \in s.line.passes : \E q \in s.line.plans : q.stem = r.of /\ r.work \in {q.stem, q.slug}
        /\ line.passes \subseteq s.line.passes
        /\ \A q \in line.plans : (\A p \in Wagon(b).plans : p.stem # q.stem) => q \in s.line.plans
        /\ \A n \in s.closes : Rightly(b, n, s.line.plans, s.line.passes) /\ Unheld(b, n)
    BY <1>4, SettledRight DEF LineInv
  <2>2. line'.plans = s.line.plans /\ line'.passes = s.line.passes /\ line'.merges = Append(line.merges, new)
    BY <1>6
  <2>3. PICK S : line.merges \in Seq(S) BY DEF LineInv
  <2>4. line'.merges \in Seq(S \cup {new}) BY <2>2, <2>3
  <2>5. Merged' \subseteq Merged \cup {new}
    <3>1. \A i \in DOMAIN line'.merges : (i \in DOMAIN line.merges /\ line'.merges[i] = line.merges[i]) \/ line'.merges[i] = new
      BY <2>2, <2>3
    <3> QED BY <3>1 DEF Merged
  <2>6. new.branch = b /\ new.closes = s.closes BY <1>5
  <2>7. \A q : Known(q)' = Known(q) BY <1>1 DEF Known, All, Wagon
  <2>8. \A c : (Wagon(c)' = Wagon(c)) /\ \A n : Unheld(c, n)' = Unheld(c, n) BY <1>1 DEF Unheld, Wagon
  <2>9. \A r \in line'.passes : Backed(r)' BY <2>1, <2>2 DEF Backed
  <2>10. ASSUME NEW m \in Merged, NEW n \in m.closes
         PROVE  Rightly(m.branch, n, s.line.plans, s.line.passes)
    <3>1. PICK c \in Workers : c = m.branch /\ c # b
      BY <1>1, <1>2 DEF LineInv, OrderInv
    <3>2. Rightly(c, n, line.plans, line.passes) BY <2>10, <3>1 DEF LineInv
    <3>3. PICK p \in Wagon(c).plans : n \in p.issues /\ Finished(p) /\ Earned(p, line.passes) /\ Archive(line.plans, p.stem)
      BY <3>2 DEF Rightly
    <3>4. PICK q \in line.plans : q.stem = p.stem /\ q.at = "archive" BY <3>3 DEF Archive
    <3>5. \A z \in Wagon(b).plans : z.stem # q.stem BY <3>1, <3>4, WorldFacts
    <3>6. Archive(s.line.plans, p.stem) BY <2>1, <3>4, <3>5 DEF Archive
    <3>7. Earned(p, s.line.passes) BY <2>1, <3>3 DEF Earned
    <3> QED BY <3>1, <3>3, <3>6, <3>7 DEF Rightly
  <2>11. \A c, n, plans, passes : Rightly(c, n, plans, passes)' = Rightly(c, n, plans, passes)
    BY <2>8 DEF Rightly
  <2>12. PICK plans, passes : plans = s.line.plans /\ passes = s.line.passes OBVIOUS
  <2>13. \A m \in Merged' : m.branch \in Workers /\ \A n \in m.closes : Rightly(m.branch, n, plans, passes) /\ Unheld(m.branch, n)
    BY <2>1, <2>5, <2>6, <2>10, <2>12 DEF LineInv
  <2>14. \A m \in Merged' : \A n \in m.closes :
            Rightly(m.branch, n, line.plans, line.passes)' /\ Unheld(m.branch, n)'
    <3>1. line.plans' = plans /\ line.passes' = passes BY <2>2, <2>12
    <3>2. \A c, n : Rightly(c, n, plans, passes) => Rightly(c, n, line.plans, line.passes)'
      BY <2>8, <3>1 DEF Rightly
    <3> QED BY <2>8, <2>13, <3>2
  <2>15. LineInv' BY <2>1, <2>2, <2>4, <2>7, <2>9, <2>13, <2>14 DEF LineInv
  <2> QED BY <1>2, <2>5, <2>6, <2>15
<1> QED BY <1>2, <1>3, <1>4, <1>5, <1>6 DEF Merges, Wagon

Settles == LineInv /\ KeptInv /\ OrderInv

LEMMA SettlesStays ==
    ASSUME Settles, line' = line, world' = world, run'.aboard = run.aboard, run'.kept = run.kept, run'.at = run.at,
           run'.pc \in {"build", "candidate"} => run'.pc = run.pc,
           run'.pc \notin {"build", "off"} => run.pc \notin {"build", "off"}
    PROVE  Settles'
<1>1. LineInv' BY LineStays DEF Settles
<1>2. Merged' = Merged BY DEF Merged
<1>3. KeptInv' BY DEF Settles, KeptInv, Distinct
<1>4. OrderInv' BY <1>2 DEF Settles, OrderInv
<1> QED BY <1>1, <1>3, <1>4 DEF Settles

LEMMA SettlesStep == ASSUME TowerInv, TowerOK, RunOK, Settles, Boards PROVE Settles'
<1>1. DOMAIN run = RunFields /\ run.aboard \in Seq(Workers) /\ run.kept \in Seq(Workers) /\ run.at \in Nat \ {0} BY DEF RunOK
<1>2. ASSUME NEW aboard \in world.orders, Departs(aboard) PROVE Settles'
  <2>1. /\ run'.aboard = aboard /\ run'.kept \in {<<>>, aboard}
        /\ run'.pc = "candidate" => run'.kept = <<>>
        /\ \A i, j \in DOMAIN aboard : aboard[i] = aboard[j] => i = j
    BY <1>2, NewRun
  <2>2. scene' = scene /\ world' = world BY <1>2 DEF Departs, towerVars
  <2>3. line' = [plans |-> world.plans, passes |-> {}, merges |-> <<>>] BY <1>2 DEF Departs
  <2>4. line'.plans = world'.plans /\ line'.passes = {} /\ line'.merges = <<>> BY <2>2, <2>3
  <2>5. TowerInv' BY <1>2, TowerKeeps DEF Boards, BoardingNext
  <2>6. TowerOK' /\ RunOK' BY <2>5 DEF TowerInv
  <2>6a. Fresh' => LineInv' BY FreshLine, PTL
  <2>6b. Fresh' BY <2>4, <2>6 DEF Fresh
  <2>7. LineInv' BY <2>6a, <2>6b
  <2>8. DOMAIN <<>> = {} OBVIOUS
  <2>9. KeptInv' BY <2>1, <2>8 DEF KeptInv, Distinct
  <2>10. Merged' = {} BY <2>4 DEF Merged
  <2>11. OrderInv' BY <2>4, <2>10 DEF OrderInv
  <2> QED BY <2>7, <2>9, <2>11 DEF Settles
<1>3. CASE Candidate
  <2>1. PICK b : b = run.aboard[run.at] OBVIOUS
  <2>2. PICK next : next = [run EXCEPT !.at = run.at + 1, !.second = FALSE] OBVIOUS
  <2>3. /\ DOMAIN next = RunFields /\ next.aboard = run.aboard /\ next.at = run.at + 1
        /\ next.kept = run.kept /\ next.pc = run.pc
    BY <1>1, <2>2 DEF RunFields
  <2>4. \/ run' = [run EXCEPT !.second = TRUE]
        \/ run' = [next EXCEPT !.dropped = Append(next.dropped, b)]
        \/ \E more : run' = [next EXCEPT !.kept = Append(next.kept, b), !.checked = next.checked \cup more]
    <3>1. PICK state \in Probe(b) :
            run' = IF state = "red"
                   THEN IF run.second THEN [next EXCEPT !.dropped = Append(next.dropped, b)] ELSE [run EXCEPT !.second = TRUE]
                   ELSE [next EXCEPT !.kept = Append(next.kept, b),
                                     !.checked = next.checked \cup (IF state = "green" THEN {b} ELSE {})]
      BY <1>3, <2>1, <2>2 DEF Candidate
    <3> QED BY <3>1
  <2>5. world' = world /\ line' = line /\ run.pc = "candidate" /\ line.merges = <<>>
    BY <1>3 DEF Candidate, BoardingSame, At, Settles, OrderInv
  <2>6. run.at \in DOMAIN run.aboard
    <3>1. run.at <= Len(run.aboard) BY <1>3, Zenon DEF Candidate
    <3> QED BY <1>1, <3>1
  <2>7. LineInv' BY <2>5, LineStays DEF Settles
  <2>8. ASSUME run'.pc = "candidate" PROVE OrderInv' BY <2>5, <2>8 DEF OrderInv
  <2>9. CASE run' = [run EXCEPT !.second = TRUE]
    <3>1. run'.aboard = run.aboard /\ run'.kept = run.kept /\ run'.at = run.at /\ run'.pc = run.pc
      BY <1>1, <2>9 DEF RunFields
    <3> QED BY <2>5, <3>1, SettlesStays
  <2>10. CASE run' = [next EXCEPT !.dropped = Append(next.dropped, b)]
    <3>1. run'.aboard = run.aboard /\ run'.kept = run.kept /\ run'.at = run.at + 1 /\ run'.pc = run.pc
      BY <2>3, <2>10 DEF RunFields
    <3>2. KeptInv'
      <4>1. \A j \in DOMAIN run.aboard : j < run.at => j < run.at + 1 BY <1>1
      <4> QED BY <3>1, <4>1 DEF Settles, KeptInv, Distinct
    <3> QED BY <2>5, <2>7, <2>8, <3>1, <3>2 DEF Settles
  <2>11. CASE \E more : run' = [next EXCEPT !.kept = Append(next.kept, b), !.checked = next.checked \cup more]
    <3>1. run'.aboard = run.aboard /\ run'.kept = Append(run.kept, b) /\ run'.at = run.at + 1 /\ run'.pc = run.pc
      BY <2>3, <2>11 DEF RunFields
    <3>2. \A i \in DOMAIN run.kept : \E j \in DOMAIN run.aboard : j < run.at /\ run.kept[i] = run.aboard[j]
      BY <2>5 DEF Settles, KeptInv
    <3>3. b \in Workers BY <1>1, <2>1, <2>6
    <3>4. DOMAIN run'.kept = DOMAIN run.kept \cup {Len(run.kept) + 1} /\ Len(run.kept) + 1 \notin DOMAIN run.kept
          /\ run'.kept[Len(run.kept) + 1] = b /\ \A i \in DOMAIN run.kept : run'.kept[i] = run.kept[i]
      BY <1>1, <3>1, <3>3
    <3>5. \A i \in DOMAIN run.kept : run.kept[i] # b
      <4>1. ASSUME NEW i \in DOMAIN run.kept, run.kept[i] = b PROVE FALSE
        <5>1. PICK j \in DOMAIN run.aboard : j < run.at /\ run.kept[i] = run.aboard[j] BY <3>2
        <5>2. j = run.at BY <2>1, <2>6, <4>1, <5>1 DEF Settles, KeptInv, Distinct
        <5> QED BY <1>1, <5>1, <5>2
      <4> QED BY <4>1
    <3>6. Distinct(run'.kept) BY <3>4, <3>5 DEF Settles, KeptInv, Distinct
    <3>7. ASSUME NEW i \in DOMAIN run'.kept PROVE \E j \in DOMAIN run.aboard : j < run.at + 1 /\ run'.kept[i] = run.aboard[j]
      <4>1. CASE i \in DOMAIN run.kept
        <5>1. PICK j \in DOMAIN run.aboard : j < run.at /\ run.kept[i] = run.aboard[j] BY <3>2, <4>1
        <5>2. j < run.at + 1 BY <1>1, <5>1
        <5> QED BY <3>4, <4>1, <5>1, <5>2
      <4>2. CASE i = Len(run.kept) + 1
        <5>1. run.at < run.at + 1 BY <1>1
        <5> QED BY <2>1, <2>6, <3>4, <4>2, <5>1
      <4> QED BY <3>4, <4>1, <4>2
    <3>8. Distinct(run'.aboard) BY <3>1 DEF Settles, KeptInv
    <3>9. KeptInv' BY <3>1, <3>6, <3>7, <3>8 DEF KeptInv, Distinct
    <3> QED BY <2>5, <2>7, <2>8, <3>1, <3>9 DEF Settles
  <2> QED BY <2>4, <2>9, <2>10, <2>11
<1>4. ASSUME NEW phase \in {"leave", "preflight", "tell", "off"}, run' = [run EXCEPT !.pc = phase],
             phase # "off" => run.pc \in {"candidate", "preflight", "tell"}, world' = world, line' = line
      PROVE Settles'
  <2>1. run'.aboard = run.aboard /\ run'.kept = run.kept /\ run'.at = run.at /\ run'.pc = phase
    BY <1>1, <1>4 DEF RunFields
  <2> QED BY <1>4, <2>1, SettlesStays
<1>5. ASSUME NEW kept \in {run.aboard, <<>>}, run.pc \in {"candidate", "preflight"}, world' = world, line' = line,
             run' = [run EXCEPT !.kept = kept, !.dropped = <<>>, !.pc = "leave"]
      PROVE Settles'
  <2>1. run'.aboard = run.aboard /\ run'.kept = kept /\ run'.pc = "leave" BY <1>1, <1>5 DEF RunFields
  <2>2. DOMAIN <<>> = {} OBVIOUS
  <2>3. KeptInv' BY <1>5, <2>1, <2>2 DEF Settles, KeptInv, Distinct
  <2>4. OrderInv' BY <1>5, <2>1 DEF Settles, OrderInv
  <2> QED BY <1>5, <2>3, <2>4, LineStays DEF Settles
<1>6. CASE Again
  <2>1. run.pc = "candidate" /\ world' = world /\ line' = line BY <1>6 DEF Again, At, BoardingSame
  <2>2. \/ \E phase \in {"leave", "preflight", "tell"} : run' = [run EXCEPT !.pc = phase]
        \/ run' = [run EXCEPT !.kept = run.aboard, !.dropped = <<>>, !.pc = "leave"]
    BY <1>6 DEF Again, Goes2, Keeps
  <2> QED BY <1>4, <1>5, <2>1, <2>2
<1>7. CASE Confirmed
  <2>1. run.pc = "preflight" /\ world' = world /\ line' = line BY <1>7 DEF Confirmed, At, BoardingSame
  <2>2. \/ run' = [run EXCEPT !.pc = "tell"]
        \/ run' = [run EXCEPT !.kept = <<>>, !.dropped = <<>>, !.pc = "leave"]
    BY <1>7 DEF Confirmed
  <2> QED BY <1>4, <1>5, <2>1, <2>2
<1>8. CASE Tells
  <2>1. run.pc = "tell" /\ world' = world /\ line' = line BY <1>8 DEF Tells, At
  <2>2. CASE run.said = Len(run.dropped) BY <1>4, <1>8, <2>1, <2>2 DEF Tells, Goes2
  <2>3. CASE run.said # Len(run.dropped)
    <3>1. run' = [run EXCEPT !.said = run.said + 1] BY <1>8, <2>3 DEF Tells
    <3>2. run'.aboard = run.aboard /\ run'.kept = run.kept /\ run'.at = run.at /\ run'.pc = run.pc
      BY <1>1, <3>1 DEF RunFields
    <3> QED BY <2>1, <3>2, SettlesStays
  <2> QED BY <2>2, <2>3
<1>9. CASE Leaves
  <2>1. run.pc = "leave" /\ world' = world /\ line' = line /\ line.merges = <<>>
    BY <1>9 DEF Leaves, At, BoardingSame, Settles, OrderInv
  <2>2. PICK phase \in {"off", "build"} : run' = [run EXCEPT !.pc = phase] BY <1>9 DEF Leaves, Goes2
  <2>3. run'.aboard = run.aboard /\ run'.kept = run.kept /\ run'.at = run.at /\ run'.pc = phase
    BY <1>1, <2>2 DEF RunFields
  <2>4. Merged' = {} BY <2>1 DEF Merged
  <2>5. OrderInv' BY <2>1, <2>3, <2>4 DEF OrderInv
  <2>6. KeptInv' BY <2>3 DEF Settles, KeptInv, Distinct
  <2> QED BY <2>1, <2>5, <2>6, LineStays DEF Settles
<1>10. CASE Built \/ Dies
  <2>1. run.pc # "off" /\ world' = world /\ line' = line /\ run' = [run EXCEPT !.pc = "off"]
    BY <1>10 DEF Built, Dies, At, Goes2, BoardingSame
  <2> QED BY <1>4, <2>1
<1>11. CASE Merges
  <2>1. run' = [run EXCEPT !.kept = Tail(run.kept)] /\ run.kept # <<>> /\ run.pc = "build" BY <1>11 DEF Merges, At
  <2>2. run'.aboard = run.aboard /\ run'.kept = Tail(run.kept) /\ run'.pc = run.pc BY <1>1, <2>1 DEF RunFields
  <2>3. LineInv' /\ \A m \in Merged' : m \in Merged \/ m.branch = Head(run.kept) BY <1>11, MergeStep DEF Settles
  <2>4. /\ 1 \in DOMAIN run.kept /\ Head(run.kept) = run.kept[1]
        /\ \A j \in DOMAIN run'.kept : j + 1 \in DOMAIN run.kept /\ j + 1 # 1 /\ run'.kept[j] = run.kept[j + 1]
    BY <1>1, <2>1, <2>2
  <2>5. Distinct(run.kept) BY DEF Settles, KeptInv
  <2>6. Distinct(run'.kept)
    <3>1. ASSUME NEW i \in DOMAIN run'.kept, NEW j \in DOMAIN run'.kept, run'.kept[i] = run'.kept[j] PROVE i = j
      <4>1. i + 1 = j + 1 BY <2>4, <2>5, <3>1 DEF Distinct
      <4>2. i \in Nat /\ j \in Nat
        <5>1. run'.kept \in Seq(Workers) BY <1>1, <2>1, <2>2
        <5> QED BY <5>1
      <4> QED BY <4>1, <4>2
    <3> QED BY <3>1 DEF Distinct
  <2>7. KeptInv' BY <2>1, <2>2, <2>6 DEF Settles, KeptInv, Distinct
  <2>8. \A m \in Merged', j \in DOMAIN run'.kept : run'.kept[j] # m.branch
    <3>1. ASSUME NEW m \in Merged', NEW j \in DOMAIN run'.kept PROVE run'.kept[j] # m.branch
      <4>1. run'.kept[j] # Head(run.kept) BY <2>4, <2>5 DEF Distinct
      <4>2. m \in Merged => run'.kept[j] # m.branch BY <2>1, <2>4 DEF Settles, OrderInv
      <4> QED BY <2>3, <4>1, <4>2
    <3> QED BY <3>1
  <2>9. OrderInv' BY <2>1, <2>2, <2>8 DEF OrderInv
  <2> QED BY <2>3, <2>7, <2>9 DEF Settles
<1>12. CASE (\E what \in {"net", "tool", "disk"} : HostBreaks(what)) \/ (\E to \in {"none", "foreign"} : OwnerMoves(to))
  <2>1. world' = world /\ line' = line /\ run' = run BY <1>12 DEF HostBreaks, OwnerMoves
  <2> QED BY <2>1, SettlesStays
<1> QED BY <1>2, <1>3, <1>6, <1>7, <1>8, <1>9, <1>10, <1>11, <1>12 DEF Boards

LEMMA SettlesKeeps == ASSUME TowerInv, Settles, [BoardingNext]_trainVars PROVE Settles'
<1>1. CASE Boards BY <1>1, SettlesStep DEF TowerInv
<1>2. CASE UNCHANGED boardingVars BY <1>2, SettlesStays DEF boardingVars
<1> QED BY <1>1, <1>2 DEF BoardingNext, trainVars

(* _settle_plans: every issue a merge closes is a finished plan's of the    *)
(* branch's own, reviewed as that plan, archived, and held by no deviation. *)
THEOREM MergesCloseFinished == BoardingSpec => []ClosesOnlyFinished
<1>1. ASSUME BoardingInit PROVE Settles
  <2>1. TowerOK /\ RunOK BY <1>1, TowerStarts DEF TowerInv
  <2>2. line.plans = world.plans /\ line.passes = {} /\ line.merges = <<>> /\ run = NoRun BY <1>1 DEF BoardingInit
  <2>3. LineInv BY <2>1, <2>2, FreshLine DEF Fresh
  <2>4. KeptInv BY <2>2 DEF KeptInv, Distinct, NoRun
  <2>5. OrderInv BY <2>2 DEF OrderInv, NoRun
  <2> QED BY <2>3, <2>4, <2>5 DEF Settles
<1>2. ASSUME Settles PROVE ClosesOnlyFinished
  <2>1. ASSUME NEW i \in DOMAIN line.merges, NEW n \in line.merges[i].closes
        PROVE  LET wagon == world.brings[line.merges[i].branch].work IN
               /\ \E p \in wagon.plans : n \in p.issues /\ Finished(p) /\ Deserves(wagon, p)
                       /\ \E q \in line.plans : q.stem = p.stem /\ q.at = "archive"
               /\ \A p \in wagon.plans : p.holds /\ (p.added \/ p.issues \cap wagon.issues # {}) => n \notin Names(p)
    <3>1. PICK m \in Merged : m = line.merges[i] BY <2>1 DEF Merged
    <3>2. Rightly(m.branch, n, line.plans, line.passes) /\ Unheld(m.branch, n) BY <1>2, <2>1, <3>1 DEF Settles, LineInv
    <3>3. PICK p \in Wagon(m.branch).plans : n \in p.issues /\ Finished(p) /\ Earned(p, line.passes) /\ Archive(line.plans, p.stem)
      BY <3>2 DEF Rightly
    <3>4. Deserves(Wagon(m.branch), p) BY <3>3 DEF Earned, Deserves
    <3>5. \E q \in line.plans : q.stem = p.stem /\ q.at = "archive" BY <3>3 DEF Archive
    <3> QED BY <3>1, <3>2, <3>3, <3>4, <3>5 DEF Unheld, Wagon
  <2> QED BY <2>1 DEF ClosesOnlyFinished
<1> QED BY <1>1, <1>2, TowerStarts, TowerKeeps, SettlesKeeps, PTL DEF BoardingSpec
-----------------------------------------------------------------------------
(* The test lanes.                                                         *)

(* Who is past flock and not yet past the unlock has the lock, and nobody   *)
(* else does.                                                               *)
Locked == Inside \cup {"probing"}

LockInv ==
    /\ \A p \in Procs : pc[p] \in Locked => lock[lane(p)] = p
    /\ \A l \in Lanes : lock[l] # Nobody => lane(lock[l]) = l /\ pc[lock[l]] \in Locked

StatusInv ==
    \A l \in Lanes : status[l] # Nobody =>
        \/ lock[l] = status[l] /\ pc[status[l]] \in {"body", "unnaming"}
        \/ pc[status[l]] = "killed"

(* What passes through was called by a command that is alive.               *)
PassInv ==
    \A p \in Procs : pc[p] = "passing" =>
        parent(p) \in Procs /\ lane(parent(p)) = lane(p) /\ CommandRuns(parent(p))

OrphanInv == \A p \in orphan : pc[p] = "killed"

LaneInv == TypeOK /\ LockInv /\ StatusInv /\ PassInv /\ OrphanInv

LEMMA SetupTypes ==
    ASSUME TypeOK, NEW p \in Procs
    PROVE  /\ lane(p) \in Lanes
           /\ parent(p) \in Procs \cup {Nobody}
           /\ setup.does[p] \in {"run", "wait", "status"}
  BY SetupsAssumption DEF TypeOK, Setup, lane, parent

LEMMA LaneInit == Init => LaneInv
  BY NobodyAssumption DEF Init, LaneInv, TypeOK, LockInv, StatusInv, PassInv, OrphanInv,
     Idle, Locked, Inside

(* One step at a time.                                                      *)
LEMMA HoldSteps ==
    ASSUME LaneInv, NEW p \in Procs,
           Acquire(p) \/ Name(p) \/ Unname(p) \/ Unlock(p) \/ ProbeLock(p) \/ EndProbe(p)
    PROVE  LaneInv'
  <1> USE SetupTypes, NobodyAssumption DEF LaneInv, TypeOK, GoesTo, Free, LetsGo, lane, parent
  <1>1. TypeOK'
    BY DEF Acquire, Name, Unname, Unlock, ProbeLock, EndProbe, Idle, Inside, Asking, Ended
  <1>2. LockInv'
    BY DEF Acquire, Name, Unname, Unlock, ProbeLock, EndProbe, LockInv, Locked, Inside
  <1>3. StatusInv'
    BY DEF Acquire, Name, Unname, Unlock, ProbeLock, EndProbe, LockInv, StatusInv, Locked, Inside
  <1>4. PassInv'
    BY DEF Acquire, Name, Unname, Unlock, ProbeLock, EndProbe, PassInv, OrphanInv, CommandRuns
  <1>5. OrphanInv'
    BY DEF Acquire, Name, Unname, Unlock, ProbeLock, EndProbe, OrphanInv
  <1> QED
    BY <1>1, <1>2, <1>3, <1>4, <1>5

LEMMA OtherSteps ==
    ASSUME LaneInv, NEW p \in Procs,
           \/ Start(p) \/ GiveUp(p) \/ EndBody(p) \/ EndPass(p) \/ Sweep(p) \/ Read(p)
           \/ OrphanEnds(p)
    PROVE  LaneInv'
  <1> USE SetupTypes, NobodyAssumption DEF LaneInv, TypeOK, GoesTo, lane, parent
  <1>1. TypeOK'
    BY DEF Start, GiveUp, EndBody, EndPass, Sweep, Read, OrphanEnds, AnswerOf,
       Idle, Inside, Asking, Ended
  <1>2. LockInv'
    BY DEF Start, GiveUp, EndBody, EndPass, Sweep, Read, OrphanEnds, AnswerOf,
       LockInv, Locked, Inside
  <1>3. StatusInv'
    BY DEF Start, GiveUp, EndBody, EndPass, Sweep, Read, OrphanEnds, AnswerOf, StatusInv
  <1>4. PassInv'
    BY DEF Start, GiveUp, EndBody, EndPass, Sweep, Read, OrphanEnds, AnswerOf,
       PassInv, OrphanInv, CommandRuns, HeldMarks, Nested, CallsOver, Kin, Idle, Ended
  <1>5. OrphanInv'
    BY DEF Start, GiveUp, EndBody, EndPass, Sweep, Read, OrphanEnds, AnswerOf, OrphanInv
  <1> QED
    BY <1>1, <1>2, <1>3, <1>4, <1>5

LEMMA KillStep ==
    ASSUME LaneInv, NEW p \in Procs, Kill(p)
    PROVE  LaneInv'
  <1> USE SetupTypes, NobodyAssumption DEF LaneInv, TypeOK, GoesTo, Kill, lane, parent
  <1>1. TypeOK'
    BY DEF Ended
  <1>2. LockInv'
    BY DEF LockInv, Locked, Inside
  <1>3. StatusInv'
    BY DEF StatusInv
  <1>4. PassInv'
    BY DEF PassInv, CommandRuns
  <1>5. OrphanInv'
    BY DEF OrphanInv
  <1> QED
    BY <1>1, <1>2, <1>3, <1>4, <1>5

LEMMA LaneStep == LaneInv /\ [Next]_vars => LaneInv'
  <1> SUFFICES ASSUME LaneInv, [Next]_vars PROVE LaneInv'
    OBVIOUS
  <1>1. ASSUME NEW p \in Procs, Start(p) \/ Step(p) \/ Kill(p)
        PROVE  LaneInv'
    BY <1>1, HoldSteps, OtherSteps, KillStep DEF Step
  <1>2. CASE UNCHANGED vars
    BY <1>2 DEF vars, LaneInv, TypeOK, LockInv, StatusInv, PassInv, OrphanInv, CommandRuns, lane, parent
  <1> QED
    BY <1>1, <1>2 DEF Next

LEMMA LaneInvariant == Spec => []LaneInv
  BY LaneInit, LaneStep, PTL DEF Spec

-----------------------------------------------------------------------------
THEOREM LaneTypes == Spec => []TypeOK
  BY LaneInvariant, PTL DEF LaneInv

(* However many processes poll, probe and are killed: a lane never runs two *)
(* commands, but for what a killed lane.py left running.                    *)
THEOREM LanesAreSerial == Spec => []OneRunALane
  <1>1. LaneInv => OneRunALane
    BY SetupTypes DEF LaneInv, LockInv, OneRunALane, CommandRuns, Locked, Inside
  <1> QED
    BY LaneInvariant, <1>1, PTL

(* A call never passes through on a mark whose hold is over.                *)
THEOREM PassThroughIsCovered == Spec => []PassesUnderAHold
  <1>1. LaneInv => PassesUnderAHold
    <2> SUFFICES ASSUME LaneInv, NEW p \in Procs, pc[p] = "passing"
                 PROVE  \E h \in Procs \ {p} :
                            /\ h = parent(p) /\ lane(h) = lane(p)
                            /\ (lock[lane(p)] = h /\ pc[h] = "body") \/ h \in orphan
      BY DEF PassesUnderAHold
    <2>1. parent(p) \in Procs /\ lane(parent(p)) = lane(p) /\ CommandRuns(parent(p))
      BY DEF LaneInv, PassInv
    <2>2. parent(p) # p
      BY <2>1 DEF LaneInv, OrphanInv, CommandRuns
    <2>3. pc[parent(p)] = "body" => lock[lane(p)] = parent(p)
      BY <2>1 DEF LaneInv, LockInv, Locked, Inside
    <2> QED
      BY <2>1, <2>2, <2>3 DEF CommandRuns
  <1> QED
    BY LaneInvariant, <1>1, PTL

(* Leaving a hold never takes a name from the next holder and never leaves  *)
(* one's own behind.                                                        *)
THEOREM NamesAreFresh == Spec => []NoStaleName
  <1>1. LaneInv => NoStaleName
    BY DEF LaneInv, StatusInv, NoStaleName
  <1> QED
    BY LaneInvariant, <1>1, PTL
=============================================================================
