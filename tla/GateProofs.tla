----------------------------- MODULE GateProofs -----------------------------
(***************************************************************************)
(* What the gates of the process promise for any records, works, branches, *)
(* plans and policies: the experiments' records (Experiments), the evidence*)
(* a pass must show (Evidence) and the review gate of a push (ReviewGate). *)
(***************************************************************************)
EXTENDS ReviewGate, Evidence, Experiments, TLAPS, FiniteSetTheorems, SequenceTheorems,
        NaturalsInduction, WellFoundedInduction

-----------------------------------------------------------------------------
(* Experiments: every record is one, and what was on is among the committed *)
(* versions.                                                                *)

LogLine == [is : {"move", "review", "frozen"}, who : People,
            to : States \cup {"pass", "block", "frozen"}, terms : Terms \cup {NoOne},
            day : Nat, days : Nat, may : SUBSET RIGHTS]
ARecord == [state : States, decided : BOOLEAN, terms : Terms, log : Seq(LogLine)]

TrialTypes ==
    /\ file \in [Records -> ARecord \cup {NoFile}]
    /\ mandate \in Mandate /\ today \in Nat
    /\ DOMAIN versions = Records /\ DOMAIN ran = Records

RanIsKept == \A r \in Records : \A t \in ran[r] : \E v \in versions[r] : Ran(v.log) /\ v.terms = t

TrialInv == TrialTypes /\ RanIsKept

LEMMA RecordsAreRecords == NoFile \notin ARecord
BY DEF NoFile, ARecord

LEMMA LinesAreLines ==
    ASSUME today \in Nat, mandate \in Mandate, NEW who \in People
    PROVE  /\ \A to \in States : Moved(who, to) \in LogLine
           /\ \A v \in {"pass", "block"}, t \in Terms : ReviewLine(who, v, t) \in LogLine
           /\ \A t \in Terms : Froze(who, t) \in LogLine
BY DEF Moved, ReviewLine, Froze, Line, LogLine, NoMandate, Mandate, States, Terminal

LEMMA Transitions ==
    ASSUME TrialTypes, NEW r \in Records, file[r] \in ARecord, NEW who \in People, NEW to \in States
    PROVE  /\ Transition(r, who, to) \in ARecord
           /\ Transition(r, who, to).state = to /\ Transition(r, who, to).terms = file[r].terms
           /\ to # "piloting" => Transition(r, who, to).log = Append(file[r].log, Moved(who, to))
<1> DEFINE moved == Append(file[r].log, Moved(who, to))
           frozen == Append(moved, Froze(who, file[r].terms))
<1>1. file[r].log \in Seq(LogLine) /\ file[r].terms \in Terms BY DEF ARecord
<1>2. moved \in Seq(LogLine) BY <1>1, LinesAreLines DEF TrialTypes
<1>3. frozen \in Seq(LogLine) BY <1>1, <1>2, LinesAreLines DEF TrialTypes
<1> HIDE DEF moved, frozen
<1>4. Transition(r, who, to) = [file[r] EXCEPT !.state = to, !.log = IF to = "piloting" THEN frozen ELSE moved]
  BY DEF Transition, moved, frozen
<1>5. Transition(r, who, to) \in ARecord BY <1>2, <1>3, <1>4 DEF ARecord
<1>6. /\ Transition(r, who, to).state = to /\ Transition(r, who, to).terms = file[r].terms
      /\ Transition(r, who, to).log = IF to = "piloting" THEN frozen ELSE moved
  BY <1>4 DEF ARecord
<1> QED BY <1>5, <1>6 DEF moved

(* A record written by a command or a hand leaves the history alone.        *)
LEMMA WritesKeepTrial ==
    ASSUME TrialInv, NEW r \in Records, NEW f \in ARecord \cup {NoFile}, Writes(r, f)
    PROVE  TrialInv'
BY DEF TrialInv, TrialTypes, RanIsKept, Writes

LEMMA TrialStep == TrialInv /\ [TrialNext]_trialVars => TrialInv'
<1> SUFFICES ASSUME TrialInv, [TrialNext]_trialVars PROVE TrialInv'
  OBVIOUS
<1> USE PeopleAssumption
<1>0. TrialTypes BY DEF TrialInv
<1>1. \A r \in OnFile : r \in Records /\ file[r] \in ARecord BY <1>0 DEF OnFile, TrialTypes
<1>2. ASSUME NEW r \in Records, NEW w \in Workers, NewRecord(r, w) PROVE TrialInv'
  <2> DEFINE f == [state |-> "proposed", decided |-> FALSE,
                   terms |-> [text |-> 0, implementer |-> w, until |-> 0],
                   log |-> <<Moved("steward", "proposed")>>]
  <2>1. Moved("steward", "proposed") \in LogLine BY <1>0, LinesAreLines DEF TrialTypes, People, States
  <2>2. f \in ARecord BY <2>1 DEF ARecord, Terms, People, States
  <2>3. Writes(r, f) BY <1>2 DEF NewRecord
  <2> QED BY <2>2, <2>3, WritesKeepTrial
<1>3. ASSUME NEW r \in Records, NEW who \in People, Reassign(r, who) PROVE TrialInv'
  <2>1. [file[r] EXCEPT !.terms.implementer = who] \in ARecord BY <1>1, <1>3 DEF Reassign, ARecord, Terms
  <2> QED BY <1>3, <2>1, WritesKeepTrial DEF Reassign
<1>4. ASSUME NEW r \in Records, NEW d \in 0 .. LastDay, Design(r, d) PROVE TrialInv'
  <2>0. d \in Nat /\ file[r] \in ARecord BY <1>1, <1>4 DEF Design
  <2>1. [file[r] EXCEPT !.terms.text = 2] \in ARecord BY <2>0 DEF ARecord, Terms
  <2>2. [[file[r] EXCEPT !.terms.text = 2] EXCEPT !.terms.until = d] \in ARecord
    BY <2>0, <2>1 DEF ARecord, Terms
  <2>3. Writes(r, [[file[r] EXCEPT !.terms.text = 2] EXCEPT !.terms.until = d]) BY <1>4 DEF Design
  <2> QED BY <2>2, <2>3, WritesKeepTrial
<1>5. ASSUME NEW r \in Records, Reword(r) PROVE TrialInv'
  <2>1. [file[r] EXCEPT !.terms.text = IF @ = 2 THEN 3 ELSE 2] \in ARecord BY <1>1, <1>5 DEF Reword, ARecord, Terms
  <2> QED BY <1>5, <2>1, WritesKeepTrial DEF Reword
<1>6. ASSUME NEW r \in Records, Prolong(r) PROVE TrialInv'
  <2>1. [file[r] EXCEPT !.terms.until = @ + 1] \in ARecord BY <1>1, <1>6 DEF Prolong, ARecord, Terms
  <2> QED BY <1>6, <2>1, WritesKeepTrial DEF Prolong
<1>7. ASSUME NEW r \in Records, NEW who \in People, NEW v \in {"pass", "block"}, Review(r, who, v) PROVE TrialInv'
  <2>1. file[r] \in ARecord /\ file[r].terms \in Terms BY <1>1, <1>7 DEF Review, ARecord
  <2>2. ReviewLine(who, v, file[r].terms) \in LogLine BY <1>0, <2>1, LinesAreLines DEF TrialTypes
  <2> DEFINE more == Append(file[r].log, ReviewLine(who, v, file[r].terms))
  <2>3. file[r].log \in Seq(LogLine) BY <2>1 DEF ARecord
  <2>4. more \in Seq(LogLine) BY <2>2, <2>3
  <2> HIDE DEF more
  <2>5. [file[r] EXCEPT !.log = more] \in ARecord BY <2>1, <2>4 DEF ARecord
  <2>6. Writes(r, [file[r] EXCEPT !.log = more]) BY <1>7 DEF Review, more
  <2> QED BY <2>5, <2>6, WritesKeepTrial
<1>8. ASSUME NEW r \in Records, NEW who \in People, NEW to \in States,
             \/ TurnOff(r, who, to) \/ DecideMove(r, who, to)
             \/ (Start(r, who) /\ to = "piloting") \/ (RollBack(r, who) /\ to = "rolled-back")
      PROVE  TrialInv'
  <2>1. r \in OnFile BY <1>8 DEF TurnOff, DecideMove, Start, RollBack
  <2>2. Transition(r, who, to) \in ARecord BY <1>0, <1>1, <2>1, Transitions
  <2>3. \A d \in BOOLEAN : [Transition(r, who, to) EXCEPT !.decided = d] \in ARecord BY <2>2 DEF ARecord
  <2>4. \/ Writes(r, Transition(r, who, to))
        \/ \E d \in BOOLEAN : Writes(r, [Transition(r, who, to) EXCEPT !.decided = d])
    <3>1. CASE TurnOff(r, who, to) BY <3>1 DEF TurnOff
    <3>2. CASE Start(r, who) /\ to = "piloting" BY <3>2 DEF Start
    <3>3. CASE RollBack(r, who) /\ to = "rolled-back"
      <4>1. Writes(r, [Transition(r, who, to) EXCEPT !.decided = TRUE]) BY <3>3 DEF RollBack
      <4> QED BY <4>1
    <3>4. CASE DecideMove(r, who, to)
      <4>1. Writes(r, [Transition(r, who, to) EXCEPT !.decided = to \in Terminal]) BY <3>4 DEF DecideMove
      <4>2. (to \in Terminal) \in BOOLEAN OBVIOUS
      <4> QED BY <4>1, <4>2
    <3> QED BY <1>8, <3>1, <3>2, <3>3, <3>4
  <2> QED BY <2>2, <2>3, <2>4, WritesKeepTrial
<1>9. ASSUME NEW r \in Records, NEW to \in States, EditState(r, to) PROVE TrialInv'
  <2>1. [file[r] EXCEPT !.state = to] \in ARecord BY <1>1, <1>9 DEF EditState, ARecord
  <2> QED BY <1>9, <2>1, WritesKeepTrial DEF EditState
<1>10. ASSUME NEW r \in Records, Refreeze(r) PROVE TrialInv'
  <2> DEFINE diary == file[r].log
             refrozen == [i \in DOMAIN diary |-> IF diary[i].is = "frozen" THEN [diary[i] EXCEPT !.terms = file[r].terms]
                                               ELSE diary[i]]
  <2>1. file[r] \in ARecord /\ diary \in Seq(LogLine) /\ file[r].terms \in Terms BY <1>1, <1>10 DEF Refreeze, ARecord
  <2>2. \A l \in LogLine : [l EXCEPT !.terms = file[r].terms] \in LogLine BY <2>1 DEF LogLine
  <2>3. \A i \in DOMAIN diary : diary[i] \in LogLine BY <2>1
  <2>4. refrozen \in Seq(LogLine)
    <3>1. DOMAIN diary = 1 .. Len(diary) /\ Len(diary) \in Nat BY <2>1
    <3>2. \A i \in DOMAIN diary : refrozen[i] \in LogLine BY <2>2, <2>3
    <3>3. refrozen \in [1 .. Len(diary) -> LogLine] BY <3>1, <3>2
    <3> HIDE DEF refrozen
    <3> QED BY <3>1, <3>3, SeqDef
  <2>5. [file[r] EXCEPT !.log = refrozen] \in ARecord BY <2>1, <2>4 DEF ARecord
  <2>6. Writes(r, [file[r] EXCEPT !.log = refrozen]) BY <1>10 DEF Refreeze
  <2> QED BY <2>5, <2>6, WritesKeepTrial
<1>11. ASSUME NEW r \in Records, Cut(r) PROVE TrialInv'
  <2>1. file[r] \in ARecord /\ file[r].log \in Seq(LogLine) BY <1>1, <1>11 DEF Cut, ARecord
  <2>2. PICK n \in 1 .. Len(file[r].log) - 1 : Writes(r, [file[r] EXCEPT !.log = SubSeq(@, 1, n)]) BY <1>11 DEF Cut
  <2>3. SubSeq(file[r].log, 1, n) \in Seq(LogLine) BY <2>1, <2>2
  <2>4. [file[r] EXCEPT !.log = SubSeq(@, 1, n)] \in ARecord BY <2>1, <2>3 DEF ARecord
  <2> QED BY <2>2, <2>4, WritesKeepTrial
<1>12. ASSUME NEW r \in Records, DeleteRecord(r) PROVE TrialInv'
  BY <1>12, WritesKeepTrial DEF DeleteRecord
(* What is on ran: its diary holds the start.                                 *)
<1>13. ASSUME NEW r \in Records, CommitRecord(r) PROVE TrialInv'
  <2> DEFINE v == [log |-> file[r].log, terms |-> file[r].terms, day |-> today]
  <2>1. versions' = [versions EXCEPT ![r] = @ \cup {v}] BY <1>13 DEF CommitRecord
  <2>2. ran' = ran \/ (Active(r) /\ ran' = [ran EXCEPT ![r] = @ \cup {file[r].terms}]) BY <1>13 DEF CommitRecord
  <2>3. Active(r) => Ran(file[r].log) BY DEF Active, Sound, Reached
  <2>4. TrialTypes' BY <1>0, <1>13, <2>1, <2>2 DEF TrialTypes, CommitRecord
  <2>5. ASSUME NEW q \in Records, NEW t \in ran'[q]
        PROVE  \E u \in versions'[q] : Ran(u.log) /\ u.terms = t
    <3>1. versions[q] \subseteq versions'[q] BY <1>0, <2>1 DEF TrialTypes
    <3>2. CASE t \in ran[q] BY <3>1, <3>2 DEF TrialInv, RanIsKept
    <3>3. CASE t \notin ran[q]
      <4>1. q = r /\ Active(r) /\ t = file[r].terms BY <1>0, <2>2, <2>5, <3>3 DEF TrialTypes
      <4>2. v \in versions'[q] BY <1>0, <2>1, <4>1 DEF TrialTypes
      <4> QED BY <2>3, <4>1, <4>2
    <3> QED BY <3>2, <3>3
  <2> QED BY <2>4, <2>5 DEF TrialInv, RanIsKept
<1>14. ASSUME NEW m \in Mandates \cup {NoMandate}, SetMandate(m) PROVE TrialInv'
  <2>1. m \in Mandate BY MandatesAssumption DEF NoMandate, Mandate
  <2> QED BY <1>14, <2>1 DEF SetMandate, TrialInv, TrialTypes, RanIsKept
<1>15. CASE Tomorrow BY <1>15 DEF Tomorrow, TrialInv, TrialTypes, RanIsKept
<1>16. CASE UNCHANGED trialVars BY <1>16 DEF trialVars, TrialInv, TrialTypes, RanIsKept
<1>17. "steward" \in People /\ Workers \subseteq People /\ {"designed", "piloting", "adopted", "rolled-back"} \subseteq States
  BY DEF People, States, Terminal
<1>18. ASSUME NEW r \in Records,
              \/ \E w \in Workers : NewRecord(r, w) \/ Reassign(r, w)
              \/ Reassign(r, "steward")
              \/ \E d \in 0 .. LastDay : Design(r, d)
              \/ Reword(r) \/ Prolong(r)
              \/ \E who \in Workers, v \in {"pass", "block"} : Review(r, who, v)
       PROVE  TrialInv'
  BY <1>2, <1>3, <1>4, <1>5, <1>6, <1>7, <1>17, <1>18
<1>19. ASSUME NEW r \in Records, NEW who \in People,
              \/ Start(r, who) \/ RollBack(r, who)
              \/ \E to \in States : Judged(who, to) /\ (TurnOff(r, who, to) \/ DecideMove(r, who, to))
       PROVE  TrialInv'
  BY <1>8, <1>17, <1>19
<1>20. ASSUME NEW r \in Records,
              \/ \E to \in {"designed", "piloting", "adopted"} : EditState(r, to)
              \/ Refreeze(r) \/ Cut(r) \/ DeleteRecord(r) \/ CommitRecord(r)
       PROVE  TrialInv'
  BY <1>9, <1>10, <1>11, <1>12, <1>13, <1>17, <1>20
<1> QED
  BY <1>14, <1>15, <1>16, <1>18, <1>19, <1>20 DEF TrialNext

LEMMA TrialStarts == TrialInit => TrialInv
BY MandatesAssumption DEF TrialInit, TrialInv, TrialTypes, RanIsKept

LEMMA TrialInvariant == TrialSpec => []TrialInv
BY TrialStarts, TrialStep, PTL DEF TrialSpec

(* However records are written, reviewed, edited, cut, deleted and          *)
(* committed: whoever asks whether an experiment is on gets a yes only on   *)
(* the terms it was on with in any commit.                                  *)
THEOREM TermsStayFrozen == TrialSpec => []TermsNeverEase
<1>1. TrialInv => TermsNeverEase
  <2> SUFFICES ASSUME TrialInv, NEW r \in Records, Active(r), NEW t \in ran[r]
               PROVE  t = file[r].terms
    BY DEF TermsNeverEase
  <2>1. HistoryHolds(r, file[r]) BY DEF Active, Sound
  <2>2. PICK v \in versions[r] : Ran(v.log) /\ v.terms = t BY DEF TrialInv, RanIsKept
  <2> QED BY <2>1, <2>2 DEF HistoryHolds
<1> QED BY <1>1, TrialInvariant, PTL

(* The line a move appends is the last move, and freezes nothing.           *)
LEMMA AppendedMove ==
    ASSUME NEW diary \in Seq(LogLine), NEW l \in LogLine, l.is = "move"
    PROVE  /\ Frozen(Append(diary, l)) = Frozen(diary)
           /\ \A i \in Frozen(diary) : Append(diary, l)[i] = diary[i]
           /\ LET moves == Lines(Append(diary, l), "move")
              IN  moves # {} /\ Append(diary, l)[Greatest(moves)] = l
<1>1. \A i \in DOMAIN diary : i \in DOMAIN Append(diary, l) /\ Append(diary, l)[i] = diary[i] OBVIOUS
<1>2. DOMAIN Append(diary, l) = 1 .. Len(diary) + 1 /\ Append(diary, l)[Len(diary) + 1] = l OBVIOUS
<1>3. Frozen(Append(diary, l)) = Frozen(diary) BY <1>1, <1>2 DEF Frozen, Lines
<1> DEFINE moves == Lines(Append(diary, l), "move")
<1>4. Len(diary) + 1 \in moves /\ \A m \in moves : m \in Nat /\ m <= Len(diary) + 1 BY <1>2 DEF Lines
<1>5. \A n \in moves : (\A m \in moves : m <= n) => n = Len(diary) + 1
  <2> HIDE DEF moves
  <2> QED BY <1>4
<1>6. Greatest(moves) = Len(diary) + 1
  <2> HIDE DEF moves
  <2> QED BY <1>4, <1>5 DEF Greatest
<1> QED BY <1>1, <1>2, <1>3, <1>4, <1>6 DEF Frozen, Lines

(* An adoption is the owner's, or a steward's whose right to it was frozen  *)
(* at the start and is there now; never the implementer's.                  *)
THEOREM AdoptionsAreRightful == TrialSpec => AdoptedByRight
<1>1. ASSUME TrialInv, NEW r \in Records, NEW who \in People, DecideMove(r, who, "adopted")
      PROVE  /\ who # file[r].terms.implementer
             /\ \/ who = "owner"
                \/ /\ who = "steward" /\ "adopt" \in RightsNow(file[r].log)
                   /\ "adopt" \in file[r].log[Least(Frozen(file[r].log))].may
  <2> DEFINE diary == file[r].log
             f == [Transition(r, who, "adopted") EXCEPT !.decided = TRUE]
             impl == file[r].terms.implementer
  <2>1. TrialTypes /\ r \in OnFile BY <1>1 DEF DecideMove, TrialInv
  <2>2. file[r] \in ARecord /\ diary \in Seq(LogLine) /\ file[r].terms \in Terms
    BY <2>1 DEF OnFile, TrialTypes, ARecord
  <2>3. "adopted" \in States /\ "adopted" \in Terminal BY DEF States, Terminal
  <2>4. Moved(who, "adopted") \in LogLine /\ Moved(who, "adopted").is = "move" /\ Moved(who, "adopted").who = who
    BY <2>1, <2>3, LinesAreLines DEF TrialTypes, Moved, Line
  <2>5. /\ f.state = "adopted" /\ f.terms = file[r].terms /\ f.log = Append(diary, Moved(who, "adopted"))
    BY <2>1, <2>2, <2>3, Transitions DEF ARecord
  <2>6. Sound(r, f, mandate) /\ MayMove(who, "adopted", impl, RightsNow(diary), file[r].state)
    BY <1>1, <2>3 DEF DecideMove
  <2> HIDE DEF f
  <2>7. Reached(f) = {"proposed", "designed", "piloting", "adopted"} BY <2>5 DEF Reached
  <2>8. Single(Frozen(f.log)) BY <2>6, <2>7 DEF Sound, FreezeHolds
  <2>9. Moves(f) # {} /\ f.log[Greatest(Moves(f))].who = who
    <3> DEFINE l == Moved(who, "adopted")
               moves == Lines(Append(diary, l), "move")
    <3>1. moves # {} /\ Append(diary, l)[Greatest(moves)] = l BY <2>2, <2>4, AppendedMove
    <3>2. Moves(f) = moves /\ f.log = Append(diary, l) BY <2>5 DEF Moves
    <3>3. l.who = who BY <2>4
    <3> HIDE DEF moves, l
    <3> QED BY <3>1, <3>2, <3>3
  <2>10. \E from : MayMove(who, "adopted", impl, Snapshot(f.log), from)
    BY <2>3, <2>5, <2>6, <2>9 DEF Sound, DecidedByRight
  <2>11. Frozen(f.log) = Frozen(diary) /\ \A i \in Frozen(diary) : f.log[i] = diary[i]
    <3> HIDE DEF diary
    <3>1. Frozen(Append(diary, Moved(who, "adopted"))) = Frozen(diary) BY <2>2, <2>4, AppendedMove
    <3>2. \A i \in Frozen(diary) : Append(diary, Moved(who, "adopted"))[i] = diary[i] BY <2>2, <2>4, AppendedMove
    <3> QED BY <2>5, <3>1, <3>2
  <2>12. Least(Frozen(diary)) \in Frozen(diary)
    <3>1. PICK n \in Frozen(diary) : Frozen(diary) = {n} BY <2>8, <2>11 DEF Single
    <3>2. n \in Nat BY <2>2, <3>1 DEF Frozen, Lines
    <3> QED BY <3>1, <3>2 DEF Least
  <2>13. Snapshot(f.log) = diary[Least(Frozen(diary))].may BY <2>8, <2>11, <2>12 DEF Snapshot
  <2>14. who # impl BY <2>6, PeopleAssumption DEF MayMove
  <2>15. who = "owner" \/ (who = "steward" /\ "adopt" \in RightsNow(diary) /\ "adopt" \in Snapshot(f.log))
    BY <2>6, <2>10 DEF MayMove, Right
  <2> QED BY <2>13, <2>14, <2>15
<1>2. TrialInv /\ [TrialNext]_trialVars =>
        [\A r \in Records, who \in People : DecideMove(r, who, "adopted") =>
           /\ who # file[r].terms.implementer
           /\ \/ who = "owner"
              \/ /\ who = "steward" /\ "adopt" \in RightsNow(file[r].log)
                 /\ "adopt" \in file[r].log[Least(Frozen(file[r].log))].may]_trialVars
  BY <1>1
<1> QED BY <1>2, TrialInvariant, PTL DEF TrialSpec, AdoptedByRight

-----------------------------------------------------------------------------
(* Evidence: whose records are where, and what the bundle was built of.     *)

Ours(lines) == IsFiniteSet(lines) /\ \A l \in lines : l.nr \in Nat /\ l.by = "mine"
Theirs(lines) == IsFiniteSet(lines) /\ \A l \in lines : l.nr \in Nat /\ l.by = "theirs"
NoVerdicts(lines) == \A l \in lines : l.kind # "block"

TreeFields == {"text", "plan", "today", "older", "own", "gate", "streak", "stands"}

(* The older shard alone holds what came from the integration branch.       *)
IsTree(tree, fork) ==
    /\ DOMAIN tree = TreeFields
    /\ Ours(tree.plan) /\ NoVerdicts(tree.plan)
    /\ Ours(tree.today)
    /\ Ours(tree.older \ fork.lines) /\ IsFiniteSet(tree.older)
    /\ tree.text.session \in Ranks /\ tree.streak \in Nat /\ IsPolicy(tree.own)

IsFork(fork) == Theirs(fork.lines) /\ IsPolicy(fork.policy)

IsSeq(seq) == \E T : seq \in Seq(T)

Holds(here, there) == here.plan \subseteq there.plan /\ here.older \subseteq there.older

LogInv ==
    /\ setting \in DOMAIN Settings
    /\ IsSeq(log) /\ Len(log) > 0
    /\ IsFork(trunk)
    /\ \A i \in 1 .. Len(log) :
          /\ IsTree(log[i].tree, log[i].fork) /\ IsFork(log[i].fork)
          /\ log[i].fork.lines \subseteq trunk.lines
          /\ Holds(log[i].tree, Tip.tree)

WorkInv == IsTree(work, Tip.fork) /\ Holds(Tip.tree, work) /\ sessions \in Seq(Ranks)

(* What a reviewer was told nothing of: a refute was there, or no rule he   *)
(* could have been told of asked for one.                                   *)
Readable(row) == DOMAIN row.when \subseteq {"tier_from", "gate_code"}
FactsAt(e) == [tier_from |-> {S.tier}, gate_code |-> {e.tree.gate}]
AsksForNone(e) ==
    /\ "diff" \notin S.blind
    /\ e.fork.policy.kind # "broken" =>
          \A row \in e.fork.policy.rows : row.kind = "refute" /\ Readable(row) => Fails(row, FactsAt(e))

BundleInv ==
    \/ bundle.head = 0
    \/ /\ bundle.head \in 1 .. Len(log)
       /\ bundle.warns \/ OfKind(work.plan, "refute") # {} \/ AsksForNone(log[bundle.head])

EvidenceInv == LogInv /\ WorkInv /\ BundleInv

LEMMA SameSetting == UNCHANGED setting => S' = S
BY DEF S

(* A commit on the branch.                                                  *)
LEMMA Grown ==
    ASSUME LogInv, NEW tree, NEW fork, Grows(tree, fork), UNCHANGED <<setting, trunk>>,
           IsTree(tree, fork), IsFork(fork), fork.lines \subseteq trunk.lines, Holds(Tip.tree, tree)
    PROVE  /\ LogInv'
           /\ Len(log') = Len(log) + 1
           /\ \A i \in 1 .. Len(log) : log'[i] = log[i]
           /\ Tip' = [tree |-> tree, fork |-> fork]
<1> DEFINE e == [tree |-> tree, fork |-> fork]
<1>1. PICK T : log \in Seq(T) BY DEF LogInv, IsSeq
<1>2. log' = Append(log, e) BY DEF Grows
<1> HIDE DEF e
<1>3. log \in Seq(T \cup {e}) BY <1>1
<1>4. log' \in Seq(T \cup {e}) BY <1>2, <1>3
<1>5. /\ Len(log') = Len(log) + 1 /\ Len(log) \in Nat /\ log'[Len(log) + 1] = e
      /\ \A i \in 1 .. Len(log) : log'[i] = log[i]
  BY <1>2, <1>3
<1>6. Tip' = e BY <1>5 DEF Tip
<1>7. e.tree = tree /\ e.fork = fork BY DEF e
<1>8. ASSUME NEW i \in 1 .. Len(log')
      PROVE  /\ IsTree(log'[i].tree, log'[i].fork) /\ IsFork(log'[i].fork)
             /\ log'[i].fork.lines \subseteq trunk.lines
             /\ Holds(log'[i].tree, tree)
  <2>1. CASE i = Len(log) + 1 BY <1>5, <1>7, <2>1 DEF Holds
  <2>2. CASE i \in 1 .. Len(log) BY <1>5, <2>2 DEF LogInv, Holds
  <2> QED BY <1>5, <2>1, <2>2
<1>9. IsSeq(log') BY <1>4 DEF IsSeq
<1>10. LogInv' BY <1>5, <1>6, <1>7, <1>8, <1>9 DEF LogInv
<1> QED BY <1>5, <1>6, <1>10 DEF e

(* What the reviewer was told nothing of stays so.                          *)
LEMMA BundleStays ==
    ASSUME BundleInv, LogInv, UNCHANGED <<setting, bundle>>, work.plan \subseteq work'.plan,
           Len(log') \in Nat, Len(log) <= Len(log'), \A i \in 1 .. Len(log) : log'[i] = log[i]
    PROVE  BundleInv'
<1>1. Len(log) \in Nat BY DEF LogInv, IsSeq
<1>2. S' = S BY SameSetting
<1>3. OfKind(work.plan, "refute") \subseteq OfKind(work'.plan, "refute") BY DEF OfKind
<1>4. \A i \in 1 .. Len(log) : AsksForNone(log[i]) => AsksForNone(log[i])'
  BY <1>2 DEF AsksForNone, FactsAt, Fails
<1> QED BY <1>1, <1>3, <1>4 DEF BundleInv

LEMMA TipIsThere ==
    ASSUME LogInv
    PROVE  /\ Len(log) \in 1 .. Len(log)
           /\ IsTree(Tip.tree, Tip.fork) /\ IsFork(Tip.fork) /\ Tip.fork.lines \subseteq trunk.lines
BY DEF LogInv, IsSeq, Tip

LEMMA OursJoin == \A X, Y : Ours(X) /\ Ours(Y) => Ours(X \cup Y)
BY FS_Union DEF Ours

LEMMA FinitePart == \A X, Y : IsFiniteSet(X) => IsFiniteSet(X \ Y)
<1> TAKE X, Y
<1>1. X \ Y \subseteq X OBVIOUS
<1> QED BY <1>1, FS_Subset

(* An attestation's commit: all of today's shard, the plan if it rides.     *)
LEMMA CommittedKeeps ==
    ASSUME EvidenceInv, NEW a, NEW line, Ours(line), Committed(a, line),
           UNCHANGED <<setting, trunk, sessions, bundle>>
    PROVE  EvidenceInv'
<1> DEFINE T == [Tip.tree EXCEPT !.today = work.today \cup line, !.plan = Under(Tip.tree, a, "plan"),
                                 !.text = IF a.rides THEN work.text ELSE @]
<1>1. LogInv /\ WorkInv /\ BundleInv BY DEF EvidenceInv
<1>2. IsTree(work, Tip.fork) /\ IsTree(Tip.tree, Tip.fork) /\ Holds(Tip.tree, work) /\ IsFork(Tip.fork)
      /\ Tip.fork.lines \subseteq trunk.lines
  BY <1>1, TipIsThere DEF WorkInv
<1>3. Ours(work.today \cup line) BY <1>2, OursJoin DEF IsTree
<1>4. Under(Tip.tree, a, "plan") \in {work.plan, Tip.tree.plan} BY DEF Under
<1>5. /\ DOMAIN T = TreeFields /\ T.today = work.today \cup line /\ T.plan = Under(Tip.tree, a, "plan")
      /\ T.text \in {work.text, Tip.tree.text} /\ T.older = Tip.tree.older /\ T.own = Tip.tree.own
      /\ T.streak = Tip.tree.streak
  BY <1>2 DEF IsTree, TreeFields
<1>6. IsTree(T, Tip.fork) BY <1>2, <1>3, <1>4, <1>5 DEF IsTree
<1>7. Holds(Tip.tree, T) BY <1>2, <1>4, <1>5 DEF Holds
<1>8. Grows(T, Tip.fork) /\ work' = [work EXCEPT !.today = @ \cup line] BY DEF Committed
<1> HIDE DEF T
<1>9. /\ LogInv' /\ Len(log') = Len(log) + 1 /\ \A i \in 1 .. Len(log) : log'[i] = log[i]
      /\ Tip' = [tree |-> T, fork |-> Tip.fork]
  BY <1>1, <1>2, <1>6, <1>7, <1>8, Grown
<1>10. /\ DOMAIN work' = TreeFields /\ work'.today = work.today \cup line
       /\ work'.plan = work.plan /\ work'.text = work.text /\ work'.older = work.older
       /\ work'.own = work.own /\ work'.streak = work.streak
  BY <1>2, <1>8 DEF IsTree, TreeFields
<1>11. IsTree(work', Tip.fork) BY <1>2, <1>3, <1>10 DEF IsTree
<1>12. Holds(T, work') BY <1>2, <1>4, <1>5, <1>10 DEF Holds
<1>13. WorkInv' BY <1>1, <1>9, <1>11, <1>12 DEF WorkInv
<1>14. Len(log) \in Nat BY <1>1 DEF LogInv, IsSeq
<1>15. BundleInv' BY <1>1, <1>9, <1>10, <1>14, BundleStays
<1> QED BY <1>9, <1>13, <1>15 DEF EvidenceInv

(* Work in the tree that is not committed yet.                              *)
LEMMA EditKeeps ==
    ASSUME EvidenceInv, IsTree(work', Tip.fork), Holds(work, work'),
           UNCHANGED <<setting, trunk, log, sessions, bundle>>
    PROVE  EvidenceInv'
<1>1. LogInv' /\ Tip' = Tip
  BY DEF EvidenceInv, LogInv, Tip
<1>2. WorkInv' BY <1>1 DEF EvidenceInv, WorkInv, Holds
<1>3. Len(log) \in Nat BY DEF EvidenceInv, LogInv, IsSeq
<1>4. BundleInv' BY <1>3, BundleStays DEF EvidenceInv, Holds
<1> QED BY <1>1, <1>2, <1>4 DEF EvidenceInv

(* ... and work that is: both, or the work as it lies there.                *)
LEMMA CommitKeeps ==
    ASSUME EvidenceInv, NEW tree, NEW fork, Grows(tree, fork), IsTree(tree, fork), IsFork(fork),
           fork.lines \subseteq trunk.lines, Holds(Tip.tree, tree),
           IsTree(work', fork), Holds(tree, work'), Holds(work, work'),
           UNCHANGED <<setting, trunk, sessions, bundle>>
    PROVE  EvidenceInv'
<1>1. LogInv /\ WorkInv /\ BundleInv BY DEF EvidenceInv
<1>2. /\ LogInv' /\ Len(log') = Len(log) + 1 /\ \A i \in 1 .. Len(log) : log'[i] = log[i]
      /\ Tip' = [tree |-> tree, fork |-> fork]
  BY <1>1, Grown
<1>3. WorkInv' BY <1>1, <1>2 DEF WorkInv
<1>4. Len(log) \in Nat BY <1>1 DEF LogInv, IsSeq
<1>5. BundleInv' BY <1>1, <1>2, <1>4, BundleStays DEF Holds
<1> QED BY <1>2, <1>3, <1>5 DEF EvidenceInv

LEMMA PolicyIsTheBases ==
    ASSUME NEW base, NEW own, IsPolicy(base), IsPolicy(own)
    PROVE  /\ Policy(base, own).kind = base.kind /\ Policy(base, own).rows = base.rows
           /\ Policy(base, own).from \in Int /\ Policy(base, own).from <= base.from
BY DEF Policy, IsPolicy

(* A bundle that warns of nothing.                                          *)
LEMMA BuildKeeps == ASSUME EvidenceInv, Build PROVE EvidenceInv'
<1>1. LogInv /\ WorkInv BY DEF EvidenceInv
<1>2. LogInv' /\ WorkInv' BY <1>1 DEF Build, LogInv, WorkInv, Tip
<1>3. bundle' = [head |-> Len(log), warns |-> Warns \/ CannotTell] BY DEF Build, Bundled
<1>4. bundle'.head = Len(log) /\ bundle'.warns = (Warns \/ CannotTell) BY <1>3
<1>5. ASSUME ~(Warns \/ CannotTell), OfKind(work.plan, "refute") = {}
      PROVE  AsksForNone(Tip)
  <2>1. IsPolicy(Tip.fork.policy) /\ IsPolicy(Tip.tree.own) BY <1>1, TipIsThere DEF IsTree, IsFork
  <2>2. "diff" \notin S.blind BY <1>5 DEF CannotTell
  <2>3. ASSUME Tip.fork.policy.kind # "broken", NEW row \in Tip.fork.policy.rows, row.kind = "refute", Readable(row)
        PROVE  Fails(row, FactsAt(Tip))
    <3>1. row \in RefuteRows(AtTheFork) BY <2>1, <2>3, PolicyIsTheBases DEF RefuteRows, AtTheFork
    <3>2. Fails(row, Shown) \/ Unknown(row, Shown) BY <1>5, <3>1 DEF Warns
    <3>3. Shown.tier_from = FactsAt(Tip).tier_from /\ Shown.gate_code = FactsAt(Tip).gate_code
      BY <2>2 DEF Shown, FactsAt
    <3>4. \A k \in DOMAIN row.when : Shown[k] = FactsAt(Tip)[k] /\ Shown[k] # {}
      BY <2>2, <2>3, <3>3 DEF Readable, FactsAt
    <3>5. Fails(row, Shown) BY <3>2, <3>4 DEF Unknown
    <3> QED BY <3>4, <3>5 DEF Fails
  <2> QED BY <2>2, <2>3 DEF AsksForNone
<1>6. Len(log) \in 1 .. Len(log) BY <1>1, TipIsThere
<1>7. UNCHANGED <<setting, log, work>> BY DEF Build
<1>8. \A i \in 1 .. Len(log) : AsksForNone(log[i]) => AsksForNone(log[i])'
  BY <1>7, SameSetting DEF AsksForNone, FactsAt, Fails
<1>9. ASSUME Warns \/ CannotTell PROVE BundleInv'
  <2>1. bundle'.warns BY <1>4, <1>9
  <2>2. bundle'.head \in 1 .. Len(log') BY <1>4, <1>6, <1>7
  <2> QED BY <2>1, <2>2 DEF BundleInv
<1>10. ASSUME OfKind(work.plan, "refute") # {} PROVE BundleInv'
  <2>1. bundle'.head \in 1 .. Len(log') BY <1>4, <1>6, <1>7
  <2>2. OfKind(work'.plan, "refute") # {} BY <1>7, <1>10
  <2> QED BY <2>1, <2>2 DEF BundleInv
<1>11. ASSUME ~(Warns \/ CannotTell), OfKind(work.plan, "refute") = {} PROVE BundleInv'
  <2>1. AsksForNone(log[Len(log)]) BY <1>5, <1>11 DEF Tip
  <2>2. PICK i \in 1 .. Len(log) : i = Len(log) BY <1>6
  <2>3. AsksForNone(log[i])' BY <1>8, <2>1, <2>2
  <2>4. bundle'.head \in 1 .. Len(log') BY <1>4, <1>6, <1>7
  <2>5. bundle'.head = i BY <1>4, <2>2
  <2> QED BY <2>3, <2>4, <2>5 DEF BundleInv, AsksForNone
<1>12. BundleInv' BY <1>9, <1>10, <1>11
<1> QED BY <1>2, <1>12 DEF EvidenceInv

LEMMA TheSetting ==
    ASSUME LogInv
    PROVE  /\ S.tier \in 2..3 /\ S.blind \in SUBSET {"diff", "fork"}
           /\ \A p \in S.policies \cup S.own : IsPolicy(p)
           /\ \A d \in S.drafts : /\ d[1] \in {"plan", "today", "older"} /\ d[2].nr \in Nat /\ d[2].by = "mine"
                                  /\ (d[1] = "plan" => d[2].kind # "block")
           /\ \A l \in S.earlier : l.nr \in Nat /\ l.by = "theirs"
           /\ \A t \in S.texts : t.session \in Ranks
           /\ \A e \in S.edits : e.streak \in Nat
           /\ \A c \in S.calls : /\ DOMAIN c = {"review", "head", "rides", "tokens", "model", "report", "at"}
                                 /\ c.model \in Ranks
           /\ S.sessions \subseteq Ranks
BY SettingsAssumption DEF LogInv, S

LEMMA EvidenceStarts == EvidenceInit => EvidenceInv
<1> SUFFICES ASSUME EvidenceInit PROVE EvidenceInv
  OBVIOUS
<1> DEFINE e == [tree |-> work, fork |-> trunk]
<1>1. setting \in DOMAIN Settings /\ log = <<e>> /\ sessions = <<>> /\ bundle = NoBundle BY DEF EvidenceInit
<1>2. PICK p \in S.policies, t \in S.texts, c \in S.edits :
         /\ trunk = [lines |-> {}, policy |-> p, clash |-> FALSE]
         /\ work = [text |-> t, plan |-> {}, today |-> {}, older |-> {}, own |-> p,
                    gate |-> c.gate, streak |-> c.streak, stands |-> c.stands]
  BY DEF EvidenceInit
<1>3. IsPolicy(p) /\ t.session \in Ranks /\ c.streak \in Nat BY <1>1, SettingsAssumption DEF S
<1>4. Ours({}) /\ Theirs({}) /\ NoVerdicts({}) BY FS_EmptySet DEF Ours, Theirs, NoVerdicts
<1>5. IsFork(trunk) BY <1>2, <1>3, <1>4 DEF IsFork
<1>6. IsTree(work, trunk)
  <2>1. /\ DOMAIN work = TreeFields /\ work.plan = {} /\ work.today = {} /\ work.older = {}
        /\ work.own = p /\ work.text = t /\ work.streak = c.streak
    BY <1>2 DEF TreeFields
  <2>2. {} \ trunk.lines = {} OBVIOUS
  <2> QED BY <1>3, <1>4, <2>1, <2>2, FS_EmptySet DEF IsTree
<1> HIDE DEF e
<1>7. IsSeq(log) /\ Len(log) = 1 /\ log[1] = e
  <2>1. log \in Seq({e}) BY <1>1
  <2> QED BY <1>1, <2>1 DEF IsSeq
<1>8. Tip = e /\ e.tree = work /\ e.fork = trunk BY <1>7 DEF Tip, e
<1>9. \A i \in 1 .. Len(log) : i = 1 BY <1>7
<1>10. Holds(work, work) BY DEF Holds
<1>11. LogInv BY <1>1, <1>5, <1>6, <1>7, <1>8, <1>9, <1>10 DEF LogInv
<1>12. WorkInv
  <2>1. sessions \in Seq(Ranks) BY <1>1
  <2> QED BY <1>6, <1>8, <1>10, <2>1 DEF WorkInv
<1>13. BundleInv BY <1>1 DEF BundleInv, NoBundle
<1> QED BY <1>11, <1>12, <1>13 DEF EvidenceInv

(* Where a file changes, the rest of the tree stays.                        *)
LEMMA WritingKeeps ==
    ASSUME EvidenceInv, NEW f \in {"plan", "today", "older"}, NEW l, l.nr \in Nat, l.by = "mine",
           f = "plan" => l.kind # "block", WriteRecord(f, l)
    PROVE  EvidenceInv'
<1>1. LogInv /\ WorkInv BY DEF EvidenceInv
<1>2. IsTree(work, Tip.fork) BY <1>1 DEF WorkInv
<1>3. work' = [work EXCEPT ![f] = @ \cup {l}] BY DEF WriteRecord
<1>4. f \in DOMAIN work /\ DOMAIN work' = TreeFields BY <1>2, <1>3 DEF IsTree, TreeFields
<1>5. work'[f] = work[f] \cup {l} /\ \A k \in TreeFields \ {f} : work'[k] = work[k]
  BY <1>2, <1>3, <1>4 DEF IsTree
<1>6. \A k \in {"text", "own", "streak"} : work'[k] = work[k] BY <1>5 DEF TreeFields
<1>7. Ours({l}) /\ IsFiniteSet({l}) BY FS_Singleton DEF Ours
<1>8. Ours(work'.plan) /\ NoVerdicts(work'.plan)
  <2>1. CASE f = "plan" BY <1>2, <1>5, <1>7, <2>1, OursJoin DEF IsTree, NoVerdicts
  <2>2. CASE f # "plan"
    <3>1. work'.plan = work.plan BY <1>5, <2>2 DEF TreeFields
    <3> QED BY <1>2, <3>1 DEF IsTree
  <2> QED BY <2>1, <2>2
<1>9. Ours(work'.today)
  <2>1. CASE f = "today" BY <1>2, <1>5, <1>7, <2>1, OursJoin DEF IsTree
  <2>2. CASE f # "today"
    <3>1. work'.today = work.today BY <1>5, <2>2 DEF TreeFields
    <3> QED BY <1>2, <3>1 DEF IsTree
  <2> QED BY <2>1, <2>2
<1>10. Ours(work'.older \ Tip.fork.lines) /\ IsFiniteSet(work'.older)
  <2>1. CASE f = "older"
    <3>1. work'.older = work.older \cup {l} BY <1>5, <2>1
    <3>0. IsFiniteSet(work.older) BY <1>2 DEF IsTree
    <3>2. IsFiniteSet(work'.older)
      <4>1. IsFiniteSet(work.older \cup {l}) BY <1>7, <3>0, FS_Union
      <4> QED BY <3>1, <4>1
    <3>3. IsFiniteSet(work'.older \ Tip.fork.lines) BY <3>2, FinitePart
    <3> QED BY <1>2, <3>1, <3>2, <3>3 DEF IsTree, Ours
  <2>2. CASE f # "older"
    <3>1. work'.older = work.older BY <1>5, <2>2 DEF TreeFields
    <3> QED BY <1>2, <3>1 DEF IsTree
  <2> QED BY <2>1, <2>2
<1>11. IsTree(work', Tip.fork) BY <1>2, <1>4, <1>6, <1>8, <1>9, <1>10 DEF IsTree
<1>12. Holds(work, work')
  <2>1. \A k \in {"plan", "older"} : work[k] \subseteq work'[k] BY <1>5 DEF TreeFields
  <2> QED BY <2>1 DEF Holds
<1> QED BY <1>11, <1>12, EditKeeps DEF WriteRecord

LEMMA EvidenceStep == EvidenceInv /\ [EvidenceNext]_evidenceVars => EvidenceInv'
<1> SUFFICES ASSUME EvidenceInv, [EvidenceNext]_evidenceVars PROVE EvidenceInv'
  OBVIOUS
<1>1. LogInv /\ WorkInv /\ BundleInv BY DEF EvidenceInv
<1>2. /\ IsTree(work, Tip.fork) /\ Holds(Tip.tree, work)
      /\ IsTree(Tip.tree, Tip.fork) /\ IsFork(Tip.fork) /\ Tip.fork.lines \subseteq trunk.lines /\ IsFork(trunk)
  BY <1>1, TipIsThere DEF WorkInv, LogInv
<1>3. CASE Build BY <1>3, BuildKeeps
<1>4. ASSUME NEW nr \in 1..3, Block(nr) PROVE EvidenceInv'
  <2> DEFINE line == [kind |-> "block", nr |-> nr, what |-> "", by |-> "mine"]
  <2>0. line.nr \in Nat /\ line.by = "mine" OBVIOUS
  <2>1. Ours({line})
    <3> HIDE DEF line
    <3> QED BY <2>0, FS_Singleton DEF Ours
  <2>2. \E a : Committed(a, {line}) BY <1>4 DEF Block
  <2>3. PICK a : Committed(a, {line}) BY <2>2
  <2> HIDE DEF line
  <2> QED BY <1>4, <2>1, <2>3, CommittedKeeps DEF Block
<1>5. ASSUME NEW a, Pass(a) PROVE EvidenceInv'
  <2>1. Ours({}) BY FS_EmptySet DEF Ours
  <2> QED BY <1>5, <2>1, CommittedKeeps DEF Pass
<1>6. ASSUME NEW d \in S.drafts, WriteRecord(d[1], d[2]) PROVE EvidenceInv'
  <2>1. d[1] \in {"plan", "today", "older"} /\ d[2].nr \in Nat /\ d[2].by = "mine"
        /\ (d[1] = "plan" => d[2].kind # "block")
    BY <1>1, TheSetting
  <2> QED BY <1>6, <2>1, WritingKeeps
<1>7. ASSUME NEW t \in S.texts, Rewrite(t) PROVE EvidenceInv'
  <2>1. t.session \in Ranks BY <1>1, TheSetting
  <2>2. work' = [work EXCEPT !.text = t] BY <1>7 DEF Rewrite
  <2>3. IsTree(work', Tip.fork) BY <1>2, <2>1, <2>2 DEF IsTree, TreeFields
  <2>4. Holds(work, work') BY <1>2, <2>2 DEF Holds, IsTree, TreeFields
  <2> QED BY <1>7, <2>3, <2>4, EditKeeps DEF Rewrite
<1>8. CASE CommitRecords
  <2>1. Grows(work, Tip.fork) /\ work' = work BY <1>8 DEF CommitRecords
  <2>2. IsTree(work', Tip.fork) /\ Holds(work, work') BY <1>2, <2>1 DEF Holds
  <2> QED BY <1>2, <1>8, <2>1, <2>2, CommitKeeps DEF CommitRecords
<1>9. ASSUME NEW e \in S.edits, Fix(e) PROVE EvidenceInv'
  <2> DEFINE T(tree) == [tree EXCEPT !.gate = e.gate, !.streak = e.streak, !.stands = e.stands]
  <2>1. e.streak \in Nat BY <1>1, TheSetting
  <2>2. work' = T(work) /\ Grows(T(Tip.tree), Tip.fork) BY <1>9 DEF Fix
  <2>3. ASSUME NEW tree, IsTree(tree, Tip.fork)
        PROVE  IsTree(T(tree), Tip.fork) /\ T(tree).plan = tree.plan /\ T(tree).older = tree.older
    <3>1. /\ DOMAIN T(tree) = TreeFields /\ T(tree).text = tree.text /\ T(tree).plan = tree.plan
          /\ T(tree).today = tree.today /\ T(tree).older = tree.older /\ T(tree).own = tree.own
          /\ T(tree).streak = e.streak
      BY <2>3 DEF IsTree, TreeFields
    <3> QED BY <2>1, <2>3, <3>1 DEF IsTree
  <2> HIDE DEF T
  <2>4. IsTree(work', Tip.fork) /\ IsTree(T(Tip.tree), Tip.fork) BY <1>2, <2>2, <2>3
  <2>5. Holds(T(Tip.tree), work') /\ Holds(work, work') /\ Holds(Tip.tree, T(Tip.tree))
    BY <1>2, <2>2, <2>3 DEF Holds
  <2> QED BY <1>2, <1>9, <2>2, <2>4, <2>5, CommitKeeps DEF Fix
<1>10. ASSUME NEW p \in S.own, OwnPolicy(p) PROVE EvidenceInv'
  <2> DEFINE T == [Tip.tree EXCEPT !.own = p]
  <2>1. IsPolicy(p) BY <1>1, TheSetting
  <2>2. work' = [work EXCEPT !.own = p] /\ Grows(T, Tip.fork) BY <1>10 DEF OwnPolicy
  <2>3. IsTree(work', Tip.fork) /\ IsTree(T, Tip.fork) BY <1>2, <2>1, <2>2 DEF IsTree, TreeFields
  <2>4. Holds(T, work') /\ Holds(work, work') /\ Holds(Tip.tree, T) BY <1>2, <2>2 DEF Holds, IsTree, TreeFields
  <2> HIDE DEF T
  <2> QED BY <1>2, <1>10, <2>2, <2>3, <2>4, CommitKeeps DEF OwnPolicy
<1>11. ASSUME NEW lines, NEW p, NEW clash, Theirs(lines), IsPolicy(p), Land(lines, p, clash) PROVE EvidenceInv'
  <2>1. trunk'.lines = trunk.lines \cup lines /\ trunk'.policy = p BY <1>11 DEF Land
  <2>2. IsFork(trunk') BY <1>2, <1>11, <2>1, FS_Union DEF IsFork, Theirs
  <2>3. UNCHANGED <<setting, log, work, sessions, bundle>> BY <1>11 DEF Land
  <2>4. Tip' = Tip BY <2>3 DEF Tip
  <2>5. LogInv' BY <1>1, <2>1, <2>2, <2>3, <2>4 DEF LogInv
  <2>6. WorkInv' BY <1>1, <2>3, <2>4 DEF WorkInv
  <2>7. work.plan \subseteq work'.plan /\ Len(log') \in Nat /\ Len(log) <= Len(log')
        /\ \A i \in 1 .. Len(log) : log'[i] = log[i]
    BY <1>1, <2>3 DEF LogInv, IsSeq
  <2>8. BundleInv' BY <1>1, <2>3, <2>7, BundleStays
  <2> QED BY <2>5, <2>6, <2>8 DEF EvidenceInv
<1>12. ASSUME NEW l \in S.earlier, Land({l}, trunk.policy, trunk.clash) PROVE EvidenceInv'
  <2>1. Theirs({l}) BY <1>1, TheSetting, FS_Singleton DEF Theirs
  <2> QED BY <1>2, <1>11, <1>12, <2>1 DEF IsFork
<1>13. ASSUME NEW p \in S.policies, Land({}, p, TRUE) PROVE EvidenceInv'
  <2>1. Theirs({}) BY FS_EmptySet DEF Theirs
  <2>2. IsPolicy(p) BY <1>1, TheSetting
  <2> QED BY <1>11, <1>13, <2>1, <2>2
<1>14. CASE TakeMain
  <2> DEFINE T(tree) == [tree EXCEPT !.older = @ \cup trunk.lines,
                                     !.own = IF @ = Tip.fork.policy THEN trunk.policy ELSE @]
  <2>1. work' = T(work) /\ Grows(T(Tip.tree), trunk) BY <1>14 DEF TakeMain
  <2>2. ASSUME NEW tree, IsTree(tree, Tip.fork)
        PROVE  IsTree(T(tree), trunk) /\ T(tree).plan = tree.plan /\ T(tree).older = tree.older \cup trunk.lines
    <3>1. /\ DOMAIN T(tree) = TreeFields /\ T(tree).text = tree.text /\ T(tree).plan = tree.plan
          /\ T(tree).today = tree.today /\ T(tree).older = tree.older \cup trunk.lines
          /\ T(tree).own \in {tree.own, trunk.policy} /\ T(tree).streak = tree.streak
      BY <2>2 DEF IsTree, TreeFields
    <3>2. T(tree).older \ trunk.lines \subseteq tree.older \ Tip.fork.lines BY <1>2, <3>1
    <3>3. Ours(T(tree).older \ trunk.lines) BY <2>2, <3>2, FS_Subset DEF IsTree, Ours
    <3>4. IsFiniteSet(T(tree).older)
      <4>1. IsFiniteSet(tree.older) /\ IsFiniteSet(trunk.lines) BY <1>2, <2>2 DEF IsTree, IsFork, Theirs
      <4> HIDE DEF T
      <4> QED BY <3>1, <4>1, FS_Union
    <3>5. IsPolicy(T(tree).own) BY <1>2, <2>2, <3>1 DEF IsTree, IsFork
    <3> HIDE DEF T
    <3> QED BY <2>2, <3>1, <3>3, <3>4, <3>5 DEF IsTree
  <2> HIDE DEF T
  <2>3. IsTree(work', trunk) /\ IsTree(T(Tip.tree), trunk) BY <1>2, <2>1, <2>2
  <2>4. Holds(T(Tip.tree), work') /\ Holds(work, work') /\ Holds(Tip.tree, T(Tip.tree))
    BY <1>2, <2>1, <2>2 DEF Holds
  <2>5. trunk.lines \subseteq trunk.lines OBVIOUS
  <2> QED BY <1>2, <1>14, <2>1, <2>3, <2>4, <2>5, CommitKeeps DEF TakeMain
<1>15. ASSUME NEW m \in S.sessions, PlannedBy(m) PROVE EvidenceInv'
  <2>1. m \in Ranks BY <1>1, TheSetting
  <2>2. UNCHANGED <<setting, trunk, log, work, bundle>> /\ sessions' = Append(sessions, m) BY <1>15 DEF PlannedBy
  <2>3. sessions' \in Seq(Ranks) BY <1>1, <2>1, <2>2 DEF WorkInv
  <2>4. Tip' = Tip BY <2>2 DEF Tip
  <2>5. LogInv' BY <1>1, <2>2, <2>4 DEF LogInv
  <2>6. WorkInv' BY <1>1, <2>2, <2>3, <2>4 DEF WorkInv
  <2>7. work.plan \subseteq work'.plan /\ Len(log') \in Nat /\ Len(log) <= Len(log')
        /\ \A i \in 1 .. Len(log) : log'[i] = log[i]
    BY <1>1, <2>2 DEF LogInv, IsSeq
  <2>8. BundleInv' BY <1>1, <2>2, <2>7, BundleStays
  <2> QED BY <2>5, <2>6, <2>8 DEF EvidenceInv
<1>16. CASE UNCHANGED evidenceVars
  <2>1. UNCHANGED <<setting, trunk, log, work, sessions, bundle>> BY <1>16 DEF evidenceVars
  <2>2. IsTree(work', Tip.fork) /\ Holds(work, work') BY <1>2, <2>1 DEF Holds
  <2> QED BY <2>1, <2>2, EditKeeps
<1> QED BY <1>3, <1>4, <1>5, <1>6, <1>7, <1>8, <1>9, <1>10, <1>12, <1>13, <1>14, <1>15, <1>16
        DEF EvidenceNext

LEMMA EvidenceInvariant == EvidenceSpec => []EvidenceInv
BY EvidenceStarts, EvidenceStep, PTL DEF EvidenceSpec

(* Silence is no trap: where the bundle was silent, the row that would      *)
(* refuse the pass is met by a refute, or fails for the reviewed tree.      *)
THEOREM SilenceIsKept == EvidenceSpec => []SilenceIsNoTrap
<1>1. ASSUME EvidenceInv PROVE SilenceIsNoTrap
  <2>1. LogInv /\ WorkInv /\ BundleInv BY <1>1 DEF EvidenceInv
  <2>2. ASSUME NEW c \in S.calls, NEW a, a = [c EXCEPT !.head = bundle.head],
               bundle.head # 0, ~bundle.warns, a.review = "code", a.rides,
               InForce(a).kind # "broken", PlanState(a) = "ok",
               NEW row \in Owed(InForce(a).rows, FactsOf(a), Provided(a), Skips(a)),
               row.kind = "refute", Readable(row)
        PROVE  FALSE
    <3>1. a.head = bundle.head /\ bundle.head \in 1 .. Len(log) BY <2>1, <2>2, TheSetting DEF BundleInv
    <3>2. IsPolicy(Seen(a).fork.policy) /\ IsPolicy(Tip.tree.own)
      BY <2>1, <3>1, TipIsThere DEF LogInv, IsTree, IsFork, Seen
    <3>3. InForce(a).kind = Seen(a).fork.policy.kind /\ InForce(a).rows = Seen(a).fork.policy.rows
      BY <3>2, PolicyIsTheBases DEF InForce
    <3>4. row \in InForce(a).rows /\ ~Fails(row, FactsOf(a)) /\ "refute" \notin Provided(a)
      BY <2>2 DEF Owed, Lifted
    <3>5. OfKind(Own(a), "refute") = {}
      <4>1. "refute" \in Kinds BY DEF Kinds
      <4> QED BY <3>4, <4>1 DEF Provided, RefutedIn
    <3>6. work.plan \subseteq Own(a) BY <2>2 DEF Own
    <3>7. OfKind(work.plan, "refute") = {} BY <3>5, <3>6 DEF OfKind
    <3>8. AsksForNone(Seen(a)) BY <2>1, <2>2, <3>1, <3>7 DEF BundleInv, Seen
    <3>9. Fails(row, FactsAt(Seen(a))) BY <2>2, <3>3, <3>4, <3>8 DEF AsksForNone
    <3>10. \A k \in DOMAIN row.when : FactsOf(a)[k] = FactsAt(Seen(a))[k]
      <4>1. FactsOf(a).tier_from = {S.tier} /\ FactsOf(a).gate_code = {Seen(a).tree.gate}
        BY <3>8 DEF AsksForNone, FactsOf
      <4>2. FactsAt(Seen(a)).tier_from = {S.tier} /\ FactsAt(Seen(a)).gate_code = {Seen(a).tree.gate}
        BY DEF FactsAt
      <4>3. \A k \in DOMAIN row.when : k = "tier_from" \/ k = "gate_code" BY <2>2 DEF Readable
      <4> QED BY <4>1, <4>2, <4>3
    <3> QED BY <3>4, <3>9, <3>10 DEF Fails
  <2> QED BY <2>2 DEF SilenceIsNoTrap, Readable
<1> QED BY <1>1, EvidenceInvariant, PTL

-----------------------------------------------------------------------------
(* A pass, and the tree of its commit.                                      *)
Called == {[c EXCEPT !.head = h] : c \in S.calls, h \in Reviewable}

PassOf(a) ==
    /\ a.head \in 1 .. Len(log) /\ a.model \in Ranks
    /\ last'.at = Len(log) + 1
    /\ \A k \in {"review", "head", "tokens", "model", "report"} : last'[k] = a[k]
    /\ Decide(a)
    /\ LET tree == log'[last'.at].tree IN
         /\ tree.plan = Under(Tip.tree, a, "plan") /\ tree.today = work.today /\ tree.older = Tip.tree.older

LEMMA OnlyPassesPass ==
    ASSUME EvidenceInv, [EvidenceNext]_evidenceVars, last'.at # last.at
    PROVE  \E a : PassOf(a)
<1>1. LogInv /\ WorkInv /\ BundleInv BY DEF EvidenceInv
<1>2. PICK c \in S.calls, h \in Reviewable : Pass([c EXCEPT !.head = h])
  BY DEF EvidenceNext, evidenceVars, Build, Block, WriteRecord, Rewrite, CommitRecords, Fix, OwnPolicy, Land,
         TakeMain, PlannedBy
<1>3. DOMAIN c = {"review", "head", "rides", "tokens", "model", "report", "at"} /\ c.model \in Ranks
  BY <1>1, TheSetting
<1> DEFINE a == [c EXCEPT !.head = h]
<1>4. a.head = h /\ a.model = c.model /\ DOMAIN a = DOMAIN c BY <1>3
<1>5. h \in 1 .. Len(log) BY <1>1, TipIsThere DEF Reviewable, BundleInv
<1>6. /\ Decide(a) /\ Committed(a, {}) /\ last' = [a EXCEPT !.at = Len(log) + 1] BY <1>2 DEF Pass
<1> HIDE DEF a
<1>7. last'.at = Len(log) + 1 /\ \A k \in {"review", "head", "tokens", "model", "report"} : last'[k] = a[k]
  BY <1>3, <1>4, <1>6
<1> DEFINE T == [Tip.tree EXCEPT !.today = work.today \cup {}, !.plan = Under(Tip.tree, a, "plan"),
                                 !.text = IF a.rides THEN work.text ELSE @]
<1>8. log' = Append(log, [tree |-> T, fork |-> Tip.fork]) BY <1>6 DEF Committed, Grows
<1>9. DOMAIN Tip.tree = TreeFields BY <1>1, TipIsThere DEF IsTree
<1>10. T.plan = Under(Tip.tree, a, "plan") /\ T.today = work.today /\ T.older = Tip.tree.older
  BY <1>9 DEF TreeFields
<1> HIDE DEF T
<1>11. log'[Len(log) + 1] = [tree |-> T, fork |-> Tip.fork] BY <1>1, <1>8 DEF LogInv, IsSeq
<1>12. PassOf(a) BY <1>3, <1>4, <1>5, <1>6, <1>7, <1>10, <1>11 DEF PassOf
<1> QED BY <1>12

(* The plan's records a pass counts are in its commit.                      *)
LEMMA OwnAreCommitted ==
    ASSUME LogInv, WorkInv, NEW a, a.head \in 1 .. Len(log)
    PROVE  /\ Own(a) \subseteq Under(Tip.tree, a, "plan")
           /\ Seen(a).tree.plan \subseteq work.plan
<1>1. Holds(Seen(a).tree, Tip.tree) /\ Holds(Tip.tree, work) BY DEF LogInv, WorkInv, Seen
<1>2. Seen(a).tree.plan \subseteq Tip.tree.plan /\ Tip.tree.plan \subseteq work.plan BY <1>1 DEF Holds
<1>3. CASE a.rides
  <2>1. Under(Tip.tree, a, "plan") = work.plan BY <1>3 DEF Under, Carried
  <2> QED BY <1>2, <2>1 DEF Own
<1>4. CASE ~a.rides
  <2>1. Under(Tip.tree, a, "plan") = Tip.tree.plan BY <1>4 DEF Under, Carried
  <2>2. Own(a) = Seen(a).tree.plan BY <1>4 DEF Own
  <2> QED BY <1>2, <2>1, <2>2
<1> QED BY <1>3, <1>4

(* A plan passes no reviewer below the session that planned last, unless    *)
(* the plan skips it.                                                       *)
THEOREM PlansHaveTheirPeers == EvidenceSpec => PlanHasItsPeer
<1>1. ASSUME EvidenceInv, [EvidenceNext]_evidenceVars, last'.at # last.at, last'.review = "plan"
      PROVE  \/ \E l \in log'[last'.at].tree.plan : l.kind = "skip-plan" /\ l.what = "plan-review"
             \/ last'.model \in {Family, Top}
             \/ last'.model > 0 /\ sessions = <<>> /\ log[last'.head].tree.text.session \in Family..last'.model
             \/ last'.model > 0 /\ sessions[Len(sessions)] \in Family..last'.model
  <2>1. LogInv /\ WorkInv BY <1>1 DEF EvidenceInv
  <2>2. PICK a : PassOf(a) BY <1>1, OnlyPassesPass
  <2>3. last'.review = a.review /\ last'.model = a.model /\ last'.head = a.head BY <2>2 DEF PassOf
  <2>4. DecidePlanReview(a) BY <1>1, <2>2, <2>3 DEF PassOf, Decide
  <2>5. CASE "plan-review" \in PlanSkips(a)
    <3>1. PICK l \in OfKind(Own(a), "skip-plan") : l.what = "plan-review" BY <2>5 DEF PlanSkips
    <3>2. l \in Own(a) /\ l.kind = "skip-plan" BY <3>1 DEF OfKind
    <3>3. l \in log'[last'.at].tree.plan BY <2>1, <2>2, <3>2, OwnAreCommitted DEF PassOf
    <3> QED BY <3>1, <3>2, <3>3
  <2>6. CASE PeerReviews(a)
    <3>1. a.model \in Ranks /\ a.model \in -2..2 BY <2>2 DEF PassOf, Ranks, Unclear, Top
    <3>2. Seen(a).tree.text.session \in -2..2
      BY <2>1, <2>2 DEF PassOf, LogInv, IsTree, Seen, Ranks, Unclear, Top
    <3>3. sessions # <<>> => sessions[Len(sessions)] \in -2..2 BY <2>1 DEF WorkInv, Ranks, Unclear, Top
    <3>4. Planner(Seen(a).tree.text) = IF sessions = <<>> THEN Seen(a).tree.text.session ELSE sessions[Len(sessions)]
      BY DEF Planner
    <3>5. CASE a.model \in {Family, Top} BY <2>3, <3>5
    <3>6. CASE a.model \notin {Family, Top}
      <4>1. a.model > 0 /\ (Planner(Seen(a).tree.text) = Family
                            \/ (Planner(Seen(a).tree.text) # Unclear /\ a.model >= Planner(Seen(a).tree.text)))
        BY <2>6, <3>6 DEF PeerReviews
      <4>2. Planner(Seen(a).tree.text) \in -2..2 BY <3>2, <3>3, <3>4
      <4>3. Planner(Seen(a).tree.text) \in Family..a.model BY <3>1, <4>1, <4>2 DEF Family, Unclear
      <4>4. CASE sessions = <<>> BY <2>3, <3>4, <4>1, <4>3, <4>4 DEF Seen
      <4>5. CASE sessions # <<>> BY <2>3, <3>4, <4>1, <4>3, <4>5
      <4> QED BY <4>4, <4>5
    <3> QED BY <3>5, <3>6
  <2> QED BY <2>4, <2>5, <2>6 DEF DecidePlanReview
<1>2. EvidenceInv /\ [EvidenceNext]_evidenceVars =>
        [(last'.at # last.at /\ last'.review = "plan") =>
           \/ \E l \in log'[last'.at].tree.plan : l.kind = "skip-plan" /\ l.what = "plan-review"
           \/ last'.model \in {Family, Top}
           \/ last'.model > 0 /\ sessions = <<>> /\ log[last'.head].tree.text.session \in Family..last'.model
           \/ last'.model > 0 /\ sessions[Len(sessions)] \in Family..last'.model]_evidenceVars
  BY <1>1
<1> QED BY <1>2, EvidenceInvariant, PTL DEF EvidenceSpec, PlanHasItsPeer

(* The first of some rounds.                                                *)
LEMMA LeastThere ==
    ASSUME NEW T \in SUBSET Nat, T # {}
    PROVE  Min(T) \in T /\ \A k \in T : Min(T) <= k
<1> DEFINE below == {pair \in Nat \X Nat : pair[1] < pair[2]}
<1>1. OpToRel(<, Nat) = below BY Zenon DEF OpToRel
<1>2. IsWellFoundedOn(below, Nat) BY <1>1, NatLessThanWellFounded, Zenon
<1>3. \E m \in T : \A k \in T : <<k, m>> \notin below
  <2> HIDE DEF below
  <2> QED BY <1>2, WFMin
<1>4. \A k, m \in Nat : <<k, m>> \notin below => m <= k OBVIOUS
<1> HIDE DEF below
<1>5. \E m \in T : \A k \in T : m <= k BY <1>3, <1>4
<1> QED BY <1>5 DEF Min

LEMMA RoundsAreFew ==
    ASSUME NEW lines, IsFiniteSet(lines), \A l \in lines : l.nr \in Nat
    PROVE  LET nrs == {l.nr : l \in lines} IN nrs \in SUBSET Nat /\ IsFiniteSet(nrs)
<1> DEFINE nrs == {l.nr : l \in lines}
           f == [l \in lines |-> l.nr]
<1>1. f \in Surjection(lines, nrs) BY DEF Surjection
<1>2. nrs \in SUBSET Nat OBVIOUS
<1> HIDE DEF f, nrs
<1>3. IsFiniteSet(nrs) BY <1>1, FS_Surjection
<1> QED BY <1>2, <1>3 DEF nrs

(* Whatever a pass counted is among its commit's lines of the work's own,   *)
(* and it counted every block among those.                                  *)
LEMMA CountedAreMine ==
    ASSUME EvidenceInv, NEW a, PassOf(a)
    PROVE  /\ Own(a) \subseteq MineAt(last'.at) /\ Mine(a) \subseteq MineAt(last'.at)
           /\ Skips(a) \subseteq {l.what : l \in OfKind(MineAt(last'.at), "skip")}
           /\ {l.nr : l \in OfKind(MineAt(last'.at), "block")} \subseteq Rounds(a)
           /\ Rounds(a) \in SUBSET Nat /\ IsFiniteSet(Rounds(a))
<1> DEFINE tree == log'[last'.at].tree
           mine == MineAt(last'.at)
<1>1. LogInv /\ WorkInv /\ a.head \in 1 .. Len(log) BY DEF EvidenceInv, PassOf
<1>2. /\ IsTree(work, Tip.fork) /\ IsTree(Tip.tree, Tip.fork) /\ IsTree(Seen(a).tree, Seen(a).fork)
      /\ Holds(Seen(a).tree, Tip.tree) /\ IsFork(Tip.fork) /\ IsFork(Seen(a).fork)
  BY <1>1, TipIsThere DEF LogInv, WorkInv, Seen
<1>3. tree.plan = Under(Tip.tree, a, "plan") /\ tree.today = work.today /\ tree.older = Tip.tree.older
  BY DEF PassOf
<1>4. tree.plan \in {work.plan, Tip.tree.plan} BY <1>3 DEF Under
<1>5. Ours(tree.plan) /\ NoVerdicts(tree.plan) /\ Ours(tree.today) BY <1>2, <1>3, <1>4 DEF IsTree
<1>6. \A l \in tree.plan \cup tree.today : l.by = "mine" BY <1>5 DEF Ours
<1>7. mine = {l \in tree.plan \cup tree.today \cup tree.older : l.by = "mine"} BY DEF MineAt, In
<1>8. Under(Seen(a).tree, a, "today") = work.today /\ Under(Tip.tree, a, "today") = work.today
  BY DEF Under, Carried
<1> HIDE DEF tree, mine
<1>9. Own(a) \subseteq mine BY <1>1, <1>3, <1>6, <1>7, OwnAreCommitted
<1>10. Journal(a) \subseteq mine
  <2>1. \A l \in Journal(a) : l \in work.today \cup Seen(a).tree.older /\ l \notin Seen(a).fork.lines
    BY <1>8 DEF Journal, Evident, OfKind, AtFork
  <2>2. \A l \in Seen(a).tree.older \ Seen(a).fork.lines : l.by = "mine" /\ l \in tree.older
    BY <1>2, <1>3 DEF IsTree, Ours, Holds
  <2>3. \A l \in work.today : l \in tree.today BY <1>3
  <2> QED BY <1>6, <1>7, <2>1, <2>2, <2>3
<1>11. Mine(a) \subseteq mine /\ KnownLines(a) \subseteq mine BY <1>9, <1>10 DEF Mine, KnownLines
<1>12. Skips(a) \subseteq {l.what : l \in OfKind(mine, "skip")} BY <1>9, <1>11 DEF Skips, OfKind
<1>13. T0(a) = tree.today \cup tree.older BY <1>3, <1>8 DEF T0
<1>14. \A l \in AtFork(a) : l.by = "theirs" BY <1>2 DEF AtFork, IsFork, Theirs
<1>15. \A l \in OfKind(mine, "block") : l \in OfKind(T0(a), "block") \ AtFork(a)
  BY <1>5, <1>7, <1>13, <1>14 DEF OfKind, NoVerdicts
<1>16. {l.nr : l \in OfKind(mine, "block")} \subseteq Rounds(a) BY <1>15 DEF Rounds
<1>17. \A l \in T0(a) : l.nr \in Nat
  <2>1. \A l \in Tip.tree.older \ Tip.fork.lines : l.nr \in Nat BY <1>2 DEF IsTree, Ours
  <2>2. \A l \in Tip.fork.lines : l.nr \in Nat BY <1>2 DEF IsFork, Theirs
  <2>3. \A l \in tree.today : l.nr \in Nat BY <1>5 DEF Ours
  <2> QED BY <1>3, <1>13, <2>1, <2>2, <2>3
<1>18. IsFiniteSet(T0(a))
  <2>1. IsFiniteSet(tree.today) BY <1>5 DEF Ours
  <2>2. IsFiniteSet(tree.older) BY <1>2, <1>3 DEF IsTree
  <2>3. IsFiniteSet(tree.today \cup tree.older) BY <2>1, <2>2, FS_Union
  <2> QED BY <1>13, <2>3
<1> DEFINE blocks == OfKind(T0(a), "block") \ AtFork(a)
<1>19. blocks \subseteq T0(a) BY DEF OfKind
<1>20. Rounds(a) = {l.nr : l \in blocks} BY DEF Rounds
<1> HIDE DEF blocks
<1>21. IsFiniteSet(blocks) /\ \A l \in blocks : l.nr \in Nat BY <1>17, <1>18, <1>19, FS_Subset
<1>22. Rounds(a) \in SUBSET Nat /\ IsFiniteSet(Rounds(a)) BY <1>20, <1>21, RoundsAreFew
<1> QED BY <1>9, <1>11, <1>12, <1>16, <1>22 DEF mine

(* A row the branch meets is met by a record of its own, or skipped by one. *)
LEMMA MetRowsDoNotFail ==
    ASSUME EvidenceInv, NEW a, PassOf(a), NEW row, IsRow(row),
           Met(row, Seen(a), {l.nr : l \in OfKind(MineAt(last'.at), "block")})
    PROVE  ~Fails(row, FactsOf(a))
<1> DEFINE blocked == {l.nr : l \in OfKind(MineAt(last'.at), "block")}
<1>1. LogInv /\ a.head \in 1 .. Len(log) BY DEF EvidenceInv, PassOf
<1>2. S.tier \in 2..3 /\ Seen(a).tree.streak \in Nat BY <1>1, TheSetting DEF LogInv, IsTree, Seen
<1>3. Cardinality(blocked) <= Cardinality(Rounds(a)) /\ Cardinality(blocked) \in Nat
      /\ Cardinality(Rounds(a)) \in Nat
  <2>1. blocked \subseteq Rounds(a) /\ IsFiniteSet(Rounds(a)) BY CountedAreMine
  <2> HIDE DEF blocked
  <2>2. IsFiniteSet(blocked) /\ Cardinality(blocked) <= Cardinality(Rounds(a)) BY <2>1, FS_Subset
  <2> QED BY <2>1, <2>2, FS_CardinalityType
<1>4. ASSUME NEW k \in DOMAIN row.when, NEW v \in FactsOf(a)[k], Misses(k, row.when[k], v)
      PROVE  FALSE
  <2>0. k \in Facts BY <1>4 DEF IsRow
  <2>1. CASE k = "tier_from"
    <3>1. S.tier >= row.when[k] /\ row.when[k] \in Int BY <1>4, <2>1 DEF Met, IsRow, Thresholds
    <3>2. v = S.tier BY <1>4, <2>1 DEF FactsOf
    <3> QED BY <1>2, <1>4, <2>1, <3>1, <3>2 DEF Misses, Thresholds
  <2>2. CASE k = "gate_code"
    <3>1. Seen(a).tree.gate = row.when[k] BY <1>4, <2>2 DEF Met
    <3>2. v = Seen(a).tree.gate BY <1>4, <2>2 DEF FactsOf
    <3> QED BY <1>4, <2>2, <3>1, <3>2 DEF Misses, Thresholds
  <2>3. CASE k = "fix_streak"
    <3>1. Seen(a).tree.streak >= row.when[k] /\ row.when[k] \in Int BY <1>4, <2>3 DEF Met, IsRow, Thresholds
    <3>2. v = Seen(a).tree.streak BY <1>4, <2>3 DEF FactsOf
    <3> QED BY <1>2, <1>4, <2>3, <3>1, <3>2 DEF Misses, Thresholds
  <2>4. CASE k = "blocked_rounds"
    <3>1. Cardinality(blocked) >= row.when[k] /\ row.when[k] \in Int BY <1>4, <2>4 DEF Met, IsRow, Thresholds
    <3>2. v = Cardinality(Rounds(a)) BY <1>4, <2>4 DEF FactsOf
    <3> HIDE DEF blocked
    <3> QED BY <1>3, <1>4, <2>4, <3>1, <3>2 DEF Misses, Thresholds
  <2>5. CASE k = "waived" BY <1>4, <2>5 DEF Met
  <2> QED BY <2>0, <2>1, <2>2, <2>3, <2>4, <2>5 DEF Facts
<1> QED BY <1>4 DEF Fails

LEMMA ProvidedIsALeg ==
    ASSUME EvidenceInv, NEW a, PassOf(a), NEW kind \in Provided(a)
    PROVE  LegOf(kind, MineAt(last'.at), a.report, {l.nr : l \in OfKind(MineAt(last'.at), "block")})
<1> DEFINE mine == MineAt(last'.at)
           blocked == {l.nr : l \in OfKind(mine, "block")}
<1>1. /\ Own(a) \subseteq mine /\ Mine(a) \subseteq mine /\ blocked \subseteq Rounds(a) /\ Rounds(a) \in SUBSET Nat
  BY CountedAreMine
<1>2. kind \in Kinds BY DEF Provided
<1> HIDE DEF mine, blocked
<1>3. ASSUME kind = "refute" PROVE LegOf(kind, mine, a.report, blocked)
  <2>1. RefutedIn(a) BY <1>3 DEF Provided
  <2>2. OfKind(mine, "refute") # {} \/ a.report.refute BY <1>1, <2>1 DEF RefutedIn, OfKind
  <2> QED BY <1>3, <2>2 DEF LegOf
<1>4. ASSUME kind = "root-cause" PROVE LegOf(kind, mine, a.report, blocked)
  <2>1. OfKind(Mine(a), "cause") # {} BY <1>4 DEF Provided
  <2>2. OfKind(mine, "cause") # {} BY <1>1, <2>1 DEF OfKind
  <2> QED BY <1>4, <2>2 DEF LegOf
<1>5. ASSUME kind = "replan" PROVE LegOf(kind, mine, a.report, blocked)
  <2>1. ReplanOpen(a) = {} BY <1>5 DEF Provided
  <2>2. ASSUME NEW n \in blocked, NEW m \in blocked, m < n
        PROVE  \E l \in OfKind(mine, "replan") : l.nr = n
    <3>1. n \in Rounds(a) /\ m \in Rounds(a) /\ Rounds(a) # {} BY <1>1
    <3>2. Min(Rounds(a)) \in Nat /\ Min(Rounds(a)) <= m BY <1>1, <3>1, LeastThere
    <3>3. n # Min(Rounds(a)) BY <1>1, <2>2, <3>1, <3>2
    <3>4. n \in Reopened(a) BY <3>1, <3>3 DEF Reopened
    <3>5. PICK l \in OfKind(Own(a), "replan") : l.nr = n BY <2>1, <3>4 DEF ReplanOpen
    <3>6. l \in OfKind(mine, "replan") BY <1>1, <3>5 DEF OfKind
    <3> QED BY <3>5, <3>6
  <2> QED BY <1>5, <2>2 DEF LegOf
<1>6. ASSUME kind = "class-test" PROVE LegOf(kind, mine, a.report, blocked)
  <2>1. ClassTestOpen(a) = {} BY <1>6 DEF Provided
  <2>2. ASSUME NEW n \in blocked PROVE \E l \in OfKind(mine, "cause") : l.nr = n
    <3>1. n \in Rounds(a) BY <1>1
    <3>2. PICK l \in OfKind(Mine(a), "cause") : l.nr = n BY <2>1, <3>1 DEF ClassTestOpen
    <3>3. l \in OfKind(mine, "cause") BY <1>1, <3>2 DEF OfKind
    <3> QED BY <3>2, <3>3
  <2> QED BY <1>6, <2>2 DEF LegOf
<1>7. ASSUME kind = "owner-decision" PROVE LegOf(kind, mine, a.report, blocked)
  <2>1. OfKind(Own(a), "owner") # {} BY <1>7 DEF Provided
  <2>2. OfKind(mine, "owner") # {} BY <1>1, <2>1 DEF OfKind
  <2> QED BY <1>7, <2>2 DEF LegOf
<1>8. LegOf(kind, mine, a.report, blocked) BY <1>2, <1>3, <1>4, <1>5, <1>6, <1>7 DEF Kinds
<1> QED BY <1>8 DEF mine, blocked

(* A code pass has a leg to stand on: its rows, its cross-model, its        *)
(* criteria.                                                                *)
THEOREM PassesHaveTheirLegs == EvidenceSpec => PassesAreBacked
<1>1. ASSUME EvidenceInv, [EvidenceNext]_evidenceVars, last'.at # last.at, last'.review = "code"
      PROVE  StandsOnItsLegs(last')
  <2> DEFINE mine == MineAt(last'.at)
             blocked == {l.nr : l \in OfKind(mine, "block")}
             skips == {l.what : l \in OfKind(mine, "skip")}
  <2>1. LogInv /\ WorkInv BY <1>1 DEF EvidenceInv
  <2>2. PICK a : PassOf(a) BY <1>1, OnlyPassesPass
  <2>3. /\ last'.review = a.review /\ last'.report = a.report /\ last'.head = a.head /\ last'.tokens = a.tokens
        /\ a.head \in 1 .. Len(log)
    BY <2>2 DEF PassOf
  <2>4. DecideCode(a) /\ PlanState(a) = "ok"
    <3>1. Decide(a) /\ a.review # "plan" BY <1>1, <2>2, <2>3 DEF PassOf
    <3> QED BY <3>1 DEF Decide
  <2>5. Seen(a) = log[last'.head] BY <2>3 DEF Seen
  <2>6. IsPolicy(Seen(a).fork.policy) /\ IsPolicy(Tip.tree.own)
    BY <2>1, <2>3, TipIsThere DEF LogInv, IsTree, IsFork, Seen
  <2>7. /\ InForce(a).rows = Seen(a).fork.policy.rows
        /\ InForce(a).from \in Int /\ InForce(a).from <= Seen(a).fork.policy.from
    BY <2>6, PolicyIsTheBases DEF InForce
  <2>8. Skips(a) \subseteq skips BY <1>1, <2>2, CountedAreMine
  <2>9. ASSUME NEW row \in Seen(a).fork.policy.rows, Met(row, Seen(a), blocked)
        PROVE  LegOf(row.kind, mine, a.report, blocked) \/ row.kind \in skips
    <3>1. IsRow(row) BY <2>6 DEF IsPolicy
    <3>2. ~Fails(row, FactsOf(a)) BY <1>1, <2>2, <2>9, <3>1, MetRowsDoNotFail
    <3>3. Owed(InForce(a).rows, FactsOf(a), Provided(a), Skips(a)) = {} BY <2>4 DEF DecideCode
    <3>4. Lifted(row, Provided(a), Skips(a)) BY <2>7, <3>2, <3>3 DEF Owed
    <3>5. CASE row.kind \in Provided(a) BY <1>1, <2>2, <3>5, ProvidedIsALeg
    <3>6. CASE row.kind \in Skips(a) BY <2>8, <3>6
    <3> QED BY <3>4, <3>5, <3>6 DEF Lifted
  <2>10. ASSUME S.tier >= Seen(a).fork.policy.from
         PROVE  "cross-model" \in a.tokens \/ "cross-model" \in skips
    <3>1. S.tier \in 2..3 /\ Seen(a).fork.policy.from \in Int BY <2>1, <2>6, TheSetting DEF IsPolicy
    <3>2. S.tier >= InForce(a).from BY <2>7, <2>10, <3>1
    <3> QED BY <2>4, <2>8, <3>2 DEF DecideCode, CrossModel
  <2>11. ASSUME "ac-trace" \notin skips, NEW t, t = Seen(a).tree.text,
                NEW c \in (t.spec \ t.struckInSpec) \cup (t.plan \ (t.struck \cup t.struckInSpec)), c \notin t.open
         PROVE  a.report.claims[c] = "test" /\ Seen(a).tree.stands
    <3>1. Traced(a) BY <2>4, <2>8, <2>11 DEF DecideCode
    <3>2. c \in Named(t) /\ c \notin Struck(t) BY <2>11 DEF Named, Struck
    <3>3. c \in Required(t) BY <2>11, <3>2 DEF Required
    <3> QED BY <2>4, <2>11, <3>1, <3>3 DEF Traced
  <2> HIDE DEF mine, skips, blocked
  <2> QED BY <2>3, <2>5, <2>9, <2>10, <2>11 DEF StandsOnItsLegs, mine, skips, blocked
<1>2. EvidenceInv /\ [EvidenceNext]_evidenceVars =>
        [last'.at # last.at /\ last'.review = "code" => StandsOnItsLegs(last')]_evidenceVars
  BY <1>1
<1> QED BY <1>2, EvidenceInvariant, PTL DEF EvidenceSpec, PassesAreBacked

-----------------------------------------------------------------------------
(* ReviewGate: what the plans and the records of a history are, whatever is *)
(* merged, rebased, stacked, archived, deleted or lost. A history is the    *)
(* sequence of its commits, and the tip of each work's branch.              *)
CommitFields == {"anc", "tree", "claims", "recs", "plan"}
Words == {"no", "signed", "unsigned"}
Plans == {NoPlan} \cup {Plan("active", word) : word \in Words} \cup {Plan("archived", word) : word \in Words}

OfWorks(plans) == plans = [w \in Work |-> plans[w]]

IsRecord(r, n) == r.work \in Work /\ r.nr \in 0 .. n - 1 /\ r.round \in 1 .. r.nr + 1

IsCommit(c, n) ==
    /\ DOMAIN c = CommitFields /\ c.anc \subseteq 1 .. n
    /\ c.plan \in [Work -> Plans]
    /\ \A r \in c.recs : IsRecord(r, n)

History(C, tp) ==
    /\ IsSeq(C) /\ Len(C) > 0
    /\ \A c \in 1 .. Len(C) : IsCommit(C[c], Len(C)) /\ c \in C[c].anc
    /\ DOMAIN tp = Work /\ \A w \in Work : tp[w] \in 1 .. Len(C)

(* A plan that is archived anywhere is archived on its branch, one that was *)
(* on main at first and is gone anywhere is gone there: no history has      *)
(* both.                                                                    *)
IsThere(C, w, place) == \E c \in 1 .. Len(C) : C[c].plan[w].at = place

PlanHolds(C, tp, w) ==
    /\ C[1].plan[w] \in {NoPlan, Plan("active", "no")}
    /\ IsThere(C, w, "archived") => C[tp[w]].plan[w].at = "archived"
    /\ C[1].plan[w] # NoPlan /\ IsThere(C, w, "none") => C[tp[w]].plan[w] = NoPlan
    /\ \A d \in 1 .. Len(C) : \A a \in C[d].anc :
          C[a].plan[w].at = "archived" => C[d].plan[w].at # "none"

(* As long as no line of a work is lost, its branch has them all, and no    *)
(* round is below one that came before it.                                  *)
RecsHold(C, tp, w) ==
    /\ Unlost(C, w, Len(C)) =>
          /\ \A c \in 1 .. Len(C) : Of(C[c].recs, w) \subseteq C[tp[w]].recs
          /\ \A s \in Of(C[tp[w]].recs, w) :
                s.round = 1 \/ \E b \in BlocksIn(Of(C[tp[w]].recs, w)) : s.round <= b.round + 1
    /\ \A c, d \in 1 .. Len(C) : \A s \in Passes(Of(C[c].recs, w)), b \in BlocksIn(Of(C[d].recs, w)) :
          s.nr <= b.nr /\ Unlost(C, w, b.nr) => s.round <= b.round

HistoryInv(C, tp) == History(C, tp) /\ \A w \in Work : PlanHolds(C, tp, w) /\ RecsHold(C, tp, w)

(* What the next commit may be: on the branch of v, or on none.             *)
PlanTaken(C, tp, v, new, w, x, y) ==
    /\ w = v => x = tp[v]
    /\ new.plan[w] = IF C[x].plan[w] = C[1].plan[w] THEN C[y].plan[w] ELSE C[x].plan[w]
    /\ new.anc \subseteq C[x].anc \cup C[y].anc \cup {Len(C) + 1}

PlanMoved(C, tp, v, new, w) ==
    /\ w = v /\ new.plan[w] \in Plans
    /\ new.anc \subseteq C[tp[v]].anc \cup {Len(C) + 1}
    /\ \/ C[tp[v]].plan[v].at = "active"
       \/ tp[v] = 1 /\ C[1].plan[v] = NoPlan /\ new.plan[v].at = "active"

RecsJoined(C, tp, v, new) ==
    \E x, y \in 1 .. Len(C) : new.recs = C[x].recs \cup C[y].recs /\ (v \in Work => x = tp[v])
RecsLost(C, tp, v, new) == v \in Work /\ new.recs \subseteq C[tp[v]].recs /\ tp[v] \in new.anc
RecAdded(C, tp, v, new, r) ==
    /\ v \in Work /\ r.work = v /\ r.nr = Len(C) /\ r.round = NextRound(C[tp[v]].recs, v)
    /\ new.recs = C[tp[v]].recs \cup {r}

NextCommit(C, tp, v, new) ==
    /\ DOMAIN new = CommitFields /\ OfWorks(new.plan)
    /\ new.anc \subseteq 1 .. Len(C) + 1 /\ Len(C) + 1 \in new.anc
    /\ \A w \in Work : \/ PlanMoved(C, tp, v, new, w)
                       \/ \E x, y \in 1 .. Len(C) : PlanTaken(C, tp, v, new, w, x, y)
    /\ RecsJoined(C, tp, v, new) \/ RecsLost(C, tp, v, new) \/ \E r : RecAdded(C, tp, v, new, r)

TipsAfter(C, tp, v) == IF v \in Work THEN [tp EXCEPT ![v] = Len(C) + 1] ELSE tp

LEMMA NoPlanIsNone == \A plan \in Plans : plan.at = "none" => plan = NoPlan
BY DEF Plans, Plan, NoPlan

(* The last of some numbers below a bound.                                  *)
LEMMA GreatestThere ==
    ASSUME NEW T \in SUBSET Nat, T # {}, NEW k \in Nat, \A n \in T : n <= k
    PROVE  \E n \in T : \A m \in T : m <= n
<1> DEFINE over == {n \in Nat : \A m \in T : m <= n}
<1>1. over \in SUBSET Nat /\ k \in over OBVIOUS
<1>2. PICK n \in over : \A m \in over : n <= m
  <2> HIDE DEF over
  <2> QED BY <1>1, LeastThere
<1>3. CASE n \in T BY <1>3
<1>4. CASE n \notin T
  <2>1. \A m \in T : m <= n /\ m # n BY <1>4
  <2>2. n # 0
    <3>1. PICK m \in T : m \in Nat OBVIOUS
    <3> QED BY <2>1, <3>1
  <2>3. n - 1 \in over BY <2>1, <2>2
  <2> QED BY <1>2, <2>3
<1> QED BY <1>3, <1>4

LEMMA NextRoundIs ==
    ASSUME NEW recs, NEW w, NEW k \in Nat, \A r \in Of(recs, w) : r.round \in 1 .. k
    PROVE  /\ NextRound(recs, w) \in 1 .. k + 1
           /\ \A b \in BlocksIn(Of(recs, w)) : b.round + 1 <= NextRound(recs, w)
           /\ NextRound(recs, w) = 1 \/ \E b \in BlocksIn(Of(recs, w)) : NextRound(recs, w) = b.round + 1
<1> DEFINE rounds == {r.round : r \in BlocksIn(Of(recs, w))}
           most == CHOOSE n \in rounds : \A m \in rounds : m <= n
<1>1. \A n \in rounds : n \in 1 .. k BY DEF BlocksIn
<1>2. \A b \in BlocksIn(Of(recs, w)) : b.round \in rounds OBVIOUS
<1>3. \A n \in rounds : \E b \in BlocksIn(Of(recs, w)) : n = b.round OBVIOUS
<1>4. NextRound(recs, w) = 1 + (IF rounds = {} THEN 0 ELSE most) BY DEF NextRound
<1> HIDE DEF rounds, most
<1>5. CASE rounds = {} BY <1>2, <1>4, <1>5
<1>6. CASE rounds # {}
  <2>1. rounds \in SUBSET Nat /\ \A n \in rounds : n <= k BY <1>1
  <2>2. \E n \in rounds : \A m \in rounds : m <= n BY <1>6, <2>1, GreatestThere
  <2>3. most \in rounds /\ \A m \in rounds : m <= most BY <2>2 DEF most
  <2>4. most \in 1 .. k BY <1>1, <2>3
  <2>5. NextRound(recs, w) = 1 + most BY <1>4, <1>6
  <2>6. PICK b \in BlocksIn(Of(recs, w)) : most = b.round BY <1>3, <2>3
  <2>7. \A m \in rounds : m + 1 <= NextRound(recs, w) BY <1>1, <2>3, <2>4, <2>5
  <2>8. NextRound(recs, w) = b.round + 1 BY <2>4, <2>5, <2>6
  <2> QED BY <1>2, <2>4, <2>5, <2>7, <2>8
<1> QED BY <1>5, <1>6

(* The commits there were stay as they were.                                *)
LEMMA Appended ==
    ASSUME NEW C, IsSeq(C), NEW new
    PROVE  /\ IsSeq(Append(C, new)) /\ Len(Append(C, new)) = Len(C) + 1 /\ Len(C) \in Nat
           /\ Append(C, new)[Len(C) + 1] = new
           /\ \A c \in 1 .. Len(C) : Append(C, new)[c] = C[c]
           /\ \A c \in 1 .. Len(C) + 1 : c \in 1 .. Len(C) \/ c = Len(C) + 1
<1>1. PICK T : C \in Seq(T) BY DEF IsSeq
<1>2. C \in Seq(T \cup {new}) BY <1>1
<1>3. Append(C, new) \in Seq(T \cup {new}) BY <1>2
<1> QED BY <1>2, <1>3 DEF IsSeq

LEMMA PlanStays ==
    ASSUME NEW C, NEW tp, History(C, tp), NEW v, NEW new, NextCommit(C, tp, v, new),
           NEW w \in Work, PlanHolds(C, tp, w), new.plan[w] \in Plans
    PROVE  PlanHolds(Append(C, new), TipsAfter(C, tp, v), w)
<1> DEFINE D == Append(C, new)
           n == Len(C) + 1
           tq == TipsAfter(C, tp, v)
<1>1. /\ Len(D) = n /\ D[n] = new /\ \A c \in 1 .. Len(C) : D[c] = C[c]
      /\ Len(C) \in Nat /\ 1 \in 1 .. Len(C)
      /\ \A c \in 1 .. n : c \in 1 .. Len(C) \/ c = n
  BY Appended DEF History
<1>2. (w = v => tq[w] = n) /\ (w # v => tq[w] = tp[w]) BY DEF TipsAfter, History
<1>3. tp[w] \in 1 .. Len(C) BY DEF History
<1>4. \A c \in 1 .. Len(C) : C[c].anc \subseteq 1 .. Len(C) /\ C[c].plan[w] \in Plans BY DEF History, IsCommit
<1>5. new.anc \subseteq 1 .. n /\ n \in new.anc BY DEF NextCommit
<1>6. NoPlan.at = "none" /\ Plan("active", "no").at = "active" BY DEF NoPlan, Plan
<1>7. D[1].plan[w] \in {NoPlan, Plan("active", "no")} BY <1>1 DEF PlanHolds
<1> HIDE DEF D, n, tq
<1>8. CASE PlanMoved(C, tp, v, new, w)
  <2>1. w = v /\ tq[w] = n /\ new.anc \subseteq C[tp[w]].anc \cup {n} BY <1>2, <1>8 DEF PlanMoved, n
  <2>2. ~IsThere(C, w, "archived") /\ (new.plan[w].at = "active" \/ C[tp[w]].plan[w].at = "active")
        /\ (C[1].plan[w] # NoPlan => C[tp[w]].plan[w].at = "active")
    BY <1>6, <1>8, <2>1 DEF PlanMoved, PlanHolds
  <2>3. IsThere(D, w, "archived") => D[tq[w]].plan[w].at = "archived" BY <1>1, <2>1, <2>2 DEF IsThere
  <2>4. C[1].plan[w] # NoPlan /\ IsThere(D, w, "none") => D[tq[w]].plan[w] = NoPlan
    <3>1. C[1].plan[w] # NoPlan => ~IsThere(C, w, "none") BY <1>6, <2>2 DEF PlanHolds
    <3>2. C[1].plan[w] # NoPlan /\ IsThere(D, w, "none") => new.plan[w].at = "none" BY <1>1, <3>1 DEF IsThere
    <3> QED BY <1>1, <2>1, <3>2, NoPlanIsNone
  <2>5. ASSUME NEW d \in 1 .. n, NEW a \in D[d].anc, D[a].plan[w].at = "archived"
        PROVE  D[d].plan[w].at # "none"
    <3>1. CASE d \in 1 .. Len(C)
      <4>1. a \in 1 .. Len(C) /\ a \in C[d].anc BY <1>1, <1>4, <2>5, <3>1
      <4> QED BY <1>1, <2>2, <2>5, <4>1 DEF IsThere
    <3>2. CASE d = n /\ a \in 1 .. Len(C) BY <1>1, <2>2, <2>5, <3>2 DEF IsThere
    <3>3. CASE d = n /\ a = n BY <2>5, <3>3
    <3> QED BY <1>1, <1>5, <2>5, <3>1, <3>2, <3>3
  <2> QED BY <1>1, <1>7, <2>3, <2>4, <2>5 DEF PlanHolds, D, tq
<1>9. ASSUME NEW x \in 1 .. Len(C), NEW y \in 1 .. Len(C), PlanTaken(C, tp, v, new, w, x, y)
      PROVE  PlanHolds(Append(C, new), TipsAfter(C, tp, v), w)
  <2>1. /\ w = v => x = tp[w]
        /\ new.plan[w] = (IF C[x].plan[w] = C[1].plan[w] THEN C[y].plan[w] ELSE C[x].plan[w])
        /\ new.anc \subseteq C[x].anc \cup C[y].anc \cup {n}
    BY <1>9 DEF PlanTaken, n
  <2>2. new.plan[w] \in {C[x].plan[w], C[y].plan[w]} BY <2>1
  <2>3. C[1].plan[w].at # "archived" BY <1>6 DEF PlanHolds
  <2>4. \A place : IsThere(D, w, place) => IsThere(C, w, place) BY <1>1, <2>2 DEF IsThere
  <2>5. IsThere(D, w, "archived") => D[tq[w]].plan[w].at = "archived"
    <3>1. IsThere(C, w, "archived") => C[tp[w]].plan[w].at = "archived" BY DEF PlanHolds
    <3>2. CASE w = v BY <1>1, <1>2, <2>1, <2>3, <2>4, <3>1, <3>2
    <3>3. CASE w # v BY <1>1, <1>2, <1>3, <2>4, <3>1, <3>3
    <3> QED BY <3>2, <3>3
  <2>6. C[1].plan[w] # NoPlan /\ IsThere(D, w, "none") => D[tq[w]].plan[w] = NoPlan
    <3>1. C[1].plan[w] # NoPlan /\ IsThere(C, w, "none") => C[tp[w]].plan[w] = NoPlan BY DEF PlanHolds
    <3>2. CASE w = v BY <1>1, <1>2, <2>1, <2>4, <3>1, <3>2
    <3>3. CASE w # v BY <1>1, <1>2, <1>3, <2>4, <3>1, <3>3
    <3> QED BY <3>2, <3>3
  <2>7. ASSUME NEW d \in 1 .. n, NEW a \in D[d].anc, D[a].plan[w].at = "archived", D[d].plan[w].at = "none"
        PROVE  FALSE
    <3>1. IsThere(D, w, "archived") /\ IsThere(D, w, "none")
      <4>1. a \in 1 .. n
        <5>1. CASE d \in 1 .. Len(C) BY <1>1, <1>4, <2>7, <5>1 DEF n
        <5>2. CASE d = n BY <1>1, <1>5, <2>7, <5>2
        <5> QED BY <1>1, <5>1, <5>2
      <4> QED BY <1>1, <2>7, <4>1 DEF IsThere
    <3>2. C[1].plan[w] = NoPlan BY <1>6, <2>5, <2>6, <3>1
    <3>3. CASE d \in 1 .. Len(C) BY <1>1, <1>4, <2>7, <3>3 DEF PlanHolds
    <3>4. CASE d = n /\ a = n BY <2>7, <3>4
    <3>5. CASE d = n /\ a # n /\ a \in C[x].anc
      <4>1. a \in 1 .. Len(C) /\ C[x].plan[w].at # "none" BY <1>1, <1>4, <2>7, <3>5 DEF PlanHolds
      <4>2. new.plan[w] = C[x].plan[w] BY <1>6, <2>1, <3>2, <4>1
      <4> QED BY <1>1, <2>7, <3>5, <4>1, <4>2
    <3>6. CASE d = n /\ a # n /\ a \in C[y].anc
      <4>1. a \in 1 .. Len(C) /\ C[y].plan[w].at # "none" BY <1>1, <1>4, <2>7, <3>6 DEF PlanHolds
      <4>2. new.plan[w] = C[x].plan[w] /\ C[x].plan[w] # NoPlan BY <1>1, <2>1, <2>7, <3>2, <3>6, <4>1
      <4> QED BY <1>1, <1>4, <2>7, <3>6, <4>2, NoPlanIsNone
    <3> QED BY <1>1, <2>1, <2>7, <3>3, <3>4, <3>5, <3>6
  <2> QED BY <1>1, <1>7, <2>5, <2>6, <2>7 DEF PlanHolds, D, tq
<1> QED BY <1>8, <1>9 DEF NextCommit

(* Nothing is lost of what comes before a commit by its coming.             *)
LEMMA LostIsLost ==
    ASSUME NEW C, NEW tp, History(C, tp), NEW new, NEW w
    PROVE  /\ \A k \in 0 .. Len(C) : Unlost(Append(C, new), w, k) <=> Unlost(C, w, k)
           /\ Unlost(Append(C, new), w, Len(C) + 1) =>
                 /\ Unlost(C, w, Len(C))
                 /\ \A d \in new.anc \cap 1 .. Len(C) : Of(C[d].recs, w) \subseteq new.recs
<1> DEFINE D == Append(C, new)
<1>1. /\ Len(D) = Len(C) + 1 /\ D[Len(C) + 1] = new /\ Len(C) \in Nat
      /\ \A c \in 1 .. Len(C) : D[c] = C[c]
  BY Appended DEF History
<1>2. \A c \in 1 .. Len(C) : C[c].anc \subseteq 1 .. Len(C) BY DEF History, IsCommit
<1> HIDE DEF D
<1>3. \A k \in 0 .. Len(C) : \A c \in 1 .. k : c \in 1 .. Len(C) BY <1>1
<1>4. \A k \in 0 .. Len(C) : Unlost(D, w, k) <=> Unlost(C, w, k)
  BY <1>1, <1>2, <1>3 DEF Unlost
<1>5. ASSUME Unlost(D, w, Len(C) + 1)
      PROVE  /\ Unlost(C, w, Len(C))
             /\ \A d \in new.anc \cap 1 .. Len(C) : Of(C[d].recs, w) \subseteq new.recs
  <2>1. \A c \in 1 .. Len(C) : c \in 1 .. Len(C) + 1 BY <1>1
  <2>2. Unlost(D, w, Len(C)) BY <1>5, <2>1 DEF Unlost
  <2>3. Len(C) \in 0 .. Len(C) /\ Len(C) + 1 \in 1 .. Len(C) + 1 BY <1>1
  <2>4. \A d \in D[Len(C) + 1].anc : Of(D[d].recs, w) \subseteq D[Len(C) + 1].recs BY <1>5, <2>3 DEF Unlost
  <2>5. Unlost(C, w, Len(C)) BY <1>4, <2>2, <2>3
  <2>6. \A d \in new.anc \cap 1 .. Len(C) : Of(C[d].recs, w) \subseteq new.recs BY <1>1, <2>4
  <2> QED BY <2>5, <2>6
<1> QED BY <1>4, <1>5 DEF D

(* The records of the next commit: others' from where they are already, the *)
(* branch's own from its tip, and the one that is new.                      *)
LEMMA RecsComeFrom ==
    ASSUME NEW C, NEW tp, History(C, tp), NEW v, NEW new, NextCommit(C, tp, v, new), NEW w \in Work
    PROVE  \A r \in Of(new.recs, w) :
              \/ \E c \in 1 .. Len(C) : r \in Of(C[c].recs, w)
              \/ w = v /\ RecAdded(C, tp, v, new, r)
<1>1. \A u \in Work : tp[u] \in 1 .. Len(C) BY DEF History
<1>2. CASE RecsJoined(C, tp, v, new) BY <1>2 DEF RecsJoined, Of
<1>3. CASE RecsLost(C, tp, v, new) BY <1>1, <1>3 DEF RecsLost, Of
<1>4. ASSUME NEW r, RecAdded(C, tp, v, new, r)
      PROVE  \A q \in Of(new.recs, w) : (\E c \in 1 .. Len(C) : q \in Of(C[c].recs, w)) \/ (w = v /\ q = r)
  BY <1>1, <1>4 DEF RecAdded, Of
<1> QED BY <1>2, <1>3, <1>4 DEF NextCommit

LEMMA RoundsAreRounds ==
    ASSUME NEW C, NEW tp, History(C, tp), NEW v \in Work
    PROVE  LET round == NextRound(C[tp[v]].recs, v)
               blocks == BlocksIn(Of(C[tp[v]].recs, v))
           IN /\ round \in 1 .. Len(C) + 1
              /\ \A b \in blocks : b.round + 1 <= round
              /\ round = 1 \/ \E b \in blocks : round = b.round + 1
<1>1. tp[v] \in 1 .. Len(C) /\ Len(C) \in Nat BY DEF History, IsSeq
<1>2. \A r \in Of(C[tp[v]].recs, v) : r.nr \in 0 .. Len(C) - 1 /\ r.round \in 1 .. r.nr + 1
  BY <1>1 DEF History, IsCommit, IsRecord, Of
<1>3. \A r \in Of(C[tp[v]].recs, v) : r.round \in 1 .. Len(C) BY <1>1, <1>2
<1> QED BY <1>1, <1>3, NextRoundIs

LEMMA HistoryStays ==
    ASSUME NEW C, NEW tp, History(C, tp), NEW v, NEW new, NextCommit(C, tp, v, new)
    PROVE  History(Append(C, new), TipsAfter(C, tp, v))
<1> DEFINE D == Append(C, new)
           n == Len(C) + 1
           tq == TipsAfter(C, tp, v)
<1>1. /\ IsSeq(D) /\ Len(D) = n /\ D[n] = new /\ \A c \in 1 .. Len(C) : D[c] = C[c]
      /\ Len(C) \in Nat /\ Len(C) > 0
      /\ \A c \in 1 .. n : c \in 1 .. Len(C) \/ c = n
      /\ \A c \in 1 .. Len(C) : c \in 1 .. n
  BY Appended DEF History
<1>2. \A r : IsRecord(r, Len(C)) => IsRecord(r, n) BY <1>1 DEF IsRecord
<1>3. \A c \in 1 .. Len(C) : IsCommit(C[c], n) /\ c \in C[c].anc BY <1>1, <1>2 DEF History, IsCommit
<1>4. ASSUME NEW w \in Work PROVE new.plan[w] \in Plans
  <2>1. CASE PlanMoved(C, tp, v, new, w) BY <2>1 DEF PlanMoved
  <2>2. ASSUME NEW x \in 1 .. Len(C), NEW y \in 1 .. Len(C), PlanTaken(C, tp, v, new, w, x, y)
        PROVE  new.plan[w] \in Plans
    BY <1>3, <2>2 DEF PlanTaken, IsCommit
  <2> QED BY <2>1, <2>2 DEF NextCommit
<1>5. ASSUME NEW r \in new.recs PROVE IsRecord(r, n)
  <2>1. CASE RecsJoined(C, tp, v, new) BY <1>3, <1>5, <2>1 DEF RecsJoined, IsCommit
  <2>2. CASE RecsLost(C, tp, v, new) BY <1>3, <1>5, <2>2 DEF RecsLost, IsCommit, History
  <2>3. ASSUME NEW q, RecAdded(C, tp, v, new, q) PROVE IsRecord(r, n)
    <3>1. CASE r \in C[tp[v]].recs BY <1>3, <2>3, <3>1 DEF RecAdded, IsCommit, History
    <3>2. CASE r = q
      <4>1. NextRound(C[tp[v]].recs, v) \in 1 .. Len(C) + 1 BY <2>3, RoundsAreRounds DEF RecAdded
      <4> QED BY <1>1, <2>3, <3>2, <4>1 DEF RecAdded, IsRecord
    <3> QED BY <1>5, <2>3, <3>1, <3>2 DEF RecAdded
  <2> QED BY <2>1, <2>2, <2>3 DEF NextCommit
<1>6. IsCommit(new, n) /\ n \in new.anc BY <1>4, <1>5 DEF NextCommit, IsCommit, OfWorks, n
<1>7. DOMAIN tq = Work /\ \A w \in Work : tq[w] \in 1 .. n BY <1>1 DEF TipsAfter, History
<1> HIDE DEF D, n, tq
<1>8. \A c \in 1 .. n : IsCommit(D[c], n) /\ c \in D[c].anc BY <1>1, <1>3, <1>6
<1>9. n > 0 BY <1>1 DEF n
<1> QED BY <1>1, <1>7, <1>8, <1>9 DEF History, D, tq

LEMMA RecsStay ==
    ASSUME NEW C, NEW tp, History(C, tp), NEW v, NEW new, NextCommit(C, tp, v, new),
           NEW w \in Work, RecsHold(C, tp, w)
    PROVE  RecsHold(Append(C, new), TipsAfter(C, tp, v), w)
<1> DEFINE D == Append(C, new)
           n == Len(C) + 1
           tq == TipsAfter(C, tp, v)
           here == C[tp[w]].recs
           next == D[tq[w]].recs
<1>1. /\ Len(D) = n /\ D[n] = new /\ \A c \in 1 .. Len(C) : D[c] = C[c]
      /\ Len(C) \in Nat /\ Len(C) > 0
      /\ \A c \in 1 .. n : c \in 1 .. Len(C) \/ c = n
      /\ \A c \in 1 .. Len(C) : c \in 1 .. n
  BY Appended DEF History
<1>2. (w = v => tq[w] = n) /\ (w # v => tq[w] = tp[w]) /\ tp[w] \in 1 .. Len(C) BY DEF TipsAfter, History
<1>3. /\ \A k \in 0 .. Len(C) : Unlost(D, w, k) <=> Unlost(C, w, k)
      /\ Unlost(D, w, n) =>
            /\ Unlost(C, w, Len(C))
            /\ \A d \in new.anc \cap 1 .. Len(C) : Of(C[d].recs, w) \subseteq new.recs
  BY LostIsLost
<1>4. \A r \in Of(new.recs, w) : (\E c \in 1 .. Len(C) : r \in Of(C[c].recs, w))
                                 \/ (w = v /\ RecAdded(C, tp, v, new, r))
  BY RecsComeFrom
<1>5. \A c \in 1 .. Len(C) : \A r \in C[c].recs : r.nr \in 0 .. Len(C) - 1 /\ r.round \in 1 .. r.nr + 1
  BY DEF History, IsCommit, IsRecord
<1>6. Len(C) \in 0 .. Len(C) BY <1>1
<1>7. v \in Work => /\ NextRound(C[tp[v]].recs, v) \in 1 .. Len(C) + 1
                    /\ \A b \in BlocksIn(Of(C[tp[v]].recs, v)) : b.round + 1 <= NextRound(C[tp[v]].recs, v)
                    /\ \/ NextRound(C[tp[v]].recs, v) = 1
                       \/ \E b \in BlocksIn(Of(C[tp[v]].recs, v)) : NextRound(C[tp[v]].recs, v) = b.round + 1
  BY RoundsAreRounds
<1> HIDE DEF D, n, tq
<1>8. ASSUME Unlost(D, w, n) PROVE Of(here, w) \subseteq next
  <2>1. CASE w # v BY <1>1, <1>2, <2>1 DEF Of
  <2>2. CASE w = v /\ RecsJoined(C, tp, v, new) BY <1>1, <1>2, <2>2 DEF RecsJoined, Of
  <2>3. CASE w = v /\ RecsLost(C, tp, v, new) BY <1>1, <1>2, <1>3, <1>8, <2>3 DEF RecsLost
  <2>4. ASSUME w = v, NEW r, RecAdded(C, tp, v, new, r) PROVE Of(here, w) \subseteq next
    BY <1>1, <1>2, <2>4 DEF RecAdded, Of
  <2> QED BY <2>1, <2>2, <2>3, <2>4 DEF NextCommit
<1>9. ASSUME Unlost(D, w, n)
      PROVE  /\ \A c \in 1 .. n : Of(D[c].recs, w) \subseteq next
             /\ \A s \in Of(next, w) :
                   s.round = 1 \/ \E b \in BlocksIn(Of(next, w)) : s.round <= b.round + 1
  <2>1. /\ \A c \in 1 .. Len(C) : Of(C[c].recs, w) \subseteq here
        /\ \A s \in Of(here, w) : s.round = 1 \/ \E b \in BlocksIn(Of(here, w)) : s.round <= b.round + 1
    BY <1>3, <1>9 DEF RecsHold
  <2>2. Of(here, w) \subseteq Of(next, w) /\ BlocksIn(Of(here, w)) \subseteq BlocksIn(Of(next, w))
    BY <1>8, <1>9 DEF Of, BlocksIn, Passes
  <2>3. \A r \in Of(new.recs, w) : r \in Of(here, w) \/ (w = v /\ RecAdded(C, tp, v, new, r))
    BY <1>4, <2>1 DEF Of
  <2>4. \A r : w = v /\ RecAdded(C, tp, v, new, r) => r \in next BY <1>1, <1>2 DEF RecAdded
  <2>5. \A c \in 1 .. n : Of(D[c].recs, w) \subseteq next
    <3>1. ASSUME NEW c \in 1 .. Len(C) PROVE Of(D[c].recs, w) \subseteq next BY <1>1, <2>1, <2>2 DEF Of
    <3>2. Of(D[n].recs, w) \subseteq next BY <1>1, <2>2, <2>3, <2>4 DEF Of
    <3> QED BY <1>1, <3>1, <3>2
  <2>6. \A s \in Of(next, w) : s \in Of(here, w) \/ (w = v /\ RecAdded(C, tp, v, new, s))
    BY <1>1, <1>2, <2>3 DEF Of
  <2>7. ASSUME NEW s \in Of(next, w) PROVE s.round = 1 \/ \E b \in BlocksIn(Of(next, w)) : s.round <= b.round + 1
    <3>1. CASE s \in Of(here, w) BY <2>1, <2>2, <3>1
    <3>2. CASE w = v /\ RecAdded(C, tp, v, new, s)
      <4>1. v \in Work /\ s.round = NextRound(here, w) BY <3>2 DEF RecAdded
      <4>2. s.round = 1 \/ \E b \in BlocksIn(Of(here, w)) : s.round = b.round + 1 BY <1>7, <3>2, <4>1
      <4>3. CASE s.round = 1 BY <4>3
      <4>4. ASSUME NEW b \in BlocksIn(Of(here, w)), s.round = b.round + 1
            PROVE  \E q \in BlocksIn(Of(next, w)) : s.round <= q.round + 1
        <5>1. b \in C[tp[w]].recs BY <4>4 DEF BlocksIn, Of
        <5>2. b.round \in Int BY <1>1, <1>2, <1>5, <5>1
        <5>3. s.round <= b.round + 1 BY <4>4, <5>2
        <5> QED BY <2>2, <5>3
      <4> QED BY <4>2, <4>3, <4>4
    <3> QED BY <2>6, <3>1, <3>2
  <2> QED BY <2>5, <2>7
<1>10. ASSUME NEW c \in 1 .. n, NEW d \in 1 .. n, NEW s \in Passes(Of(D[c].recs, w)),
              NEW b \in BlocksIn(Of(D[d].recs, w)), s.nr <= b.nr, Unlost(D, w, b.nr)
       PROVE  s.round <= b.round
  <2>1. s \in Of(D[c].recs, w) /\ b \in Of(D[d].recs, w) /\ s.verdict = "pass" /\ b.verdict # "pass"
    BY <1>10 DEF Passes, BlocksIn
  <2> DEFINE Old(r) == \E e \in 1 .. Len(C) : r \in Of(C[e].recs, w)
             Added(r) == w = v /\ RecAdded(C, tp, v, new, r)
  <2>2. Old(s) \/ Added(s) BY <1>1, <1>4, <2>1
  <2>3. Old(b) \/ Added(b) BY <1>1, <1>4, <2>1
  <2>4. \A r : Old(r) => r.nr \in 0 .. Len(C) - 1 /\ r.round \in 1 .. r.nr + 1 BY <1>5 DEF Of
  <2>5. \A r : Added(r) => r.nr = Len(C) BY DEF RecAdded
  <2>6. CASE Old(s) /\ Old(b)
    <3>1. PICK e \in 1 .. Len(C) : s \in Of(C[e].recs, w) BY <2>6
    <3>2. PICK g \in 1 .. Len(C) : b \in Of(C[g].recs, w) BY <2>6
    <3>3. s \in Passes(Of(C[e].recs, w)) /\ b \in BlocksIn(Of(C[g].recs, w))
      BY <2>1, <3>1, <3>2 DEF Passes, BlocksIn
    <3>4. b.nr \in 0 .. Len(C) BY <1>1, <2>4, <2>6
    <3>5. Unlost(C, w, b.nr) BY <1>3, <1>10, <3>4
    <3> QED BY <1>10, <3>3, <3>5 DEF RecsHold
  <2>7. CASE Added(s) /\ Old(b)
    <3>1. s.nr = Len(C) /\ b.nr \in 0 .. Len(C) - 1 BY <2>4, <2>5, <2>7
    <3> QED BY <1>1, <1>10, <3>1
  <2>8. CASE Old(s) /\ Added(b)
    <3>1. b.nr = Len(C) /\ b.round = NextRound(here, w) /\ v \in Work /\ w = v BY <2>8 DEF RecAdded
    <3>2. Unlost(C, w, Len(C)) BY <1>3, <1>6, <1>10, <3>1
    <3>3. s \in Of(here, w) BY <2>8, <3>2 DEF RecsHold, Of
    <3>4. s.round = 1 \/ \E x \in BlocksIn(Of(here, w)) : s.round <= x.round + 1 BY <3>2, <3>3 DEF RecsHold
    <3>5. s.round \in Int /\ b.round \in 1 .. Len(C) + 1 BY <1>1, <1>7, <2>4, <2>8, <3>1
    <3>6. CASE s.round = 1 BY <1>1, <3>5, <3>6
    <3>7. ASSUME NEW x \in BlocksIn(Of(here, w)), s.round <= x.round + 1 PROVE s.round <= b.round
      <4>1. x \in C[tp[w]].recs BY <3>7 DEF BlocksIn, Of
      <4>2. x.round \in Int BY <1>1, <1>2, <1>5, <4>1
      <4>3. x.round + 1 <= b.round BY <1>7, <3>1, <3>7
      <4> QED BY <3>5, <3>7, <4>2, <4>3
    <3> QED BY <3>4, <3>6, <3>7
  <2>9. CASE Added(s) /\ Added(b)
    <3>1. s \notin C[tp[w]].recs /\ b \notin C[tp[w]].recs
      <4>1. \A r \in C[tp[w]].recs : r.nr \in 0 .. Len(C) - 1 BY <1>2, <1>5
      <4> QED BY <1>1, <2>5, <2>9, <4>1
    <3>2. s = b BY <2>9, <3>1 DEF RecAdded
    <3> QED BY <2>1, <3>2
  <2> QED BY <2>2, <2>3, <2>6, <2>7, <2>8, <2>9
<1> HIDE DEF here, next
<1>11. next = D[tq[w]].recs BY DEF next
<1> QED BY <1>1, <1>9, <1>10, <1>11 DEF RecsHold, D, tq

LEMMA HistoryGrows ==
    ASSUME NEW C, NEW tp, HistoryInv(C, tp), NEW v, NEW new, NextCommit(C, tp, v, new)
    PROVE  HistoryInv(Append(C, new), TipsAfter(C, tp, v))
<1>1. History(C, tp) BY DEF HistoryInv
<1>2. History(Append(C, new), TipsAfter(C, tp, v)) BY <1>1, HistoryStays
<1>3. ASSUME NEW w \in Work
      PROVE  PlanHolds(Append(C, new), TipsAfter(C, tp, v), w) /\ RecsHold(Append(C, new), TipsAfter(C, tp, v), w)
  <2>1. IsSeq(C) BY <1>1 DEF History
  <2>2. Append(C, new)[Len(C) + 1] = new /\ Len(Append(C, new)) = Len(C) + 1 /\ Len(C) \in Nat BY <2>1, Appended
  <2>3. Len(C) + 1 \in 1 .. Len(Append(C, new)) BY <2>2
  <2>4. IsCommit(new, Len(C) + 1) BY <1>2, <2>2, <2>3 DEF History
  <2>5. new.plan[w] \in Plans BY <2>4 DEF IsCommit
  <2>6. PlanHolds(C, tp, w) /\ RecsHold(C, tp, w) BY DEF HistoryInv
  <2> QED BY <1>1, <2>5, <2>6, PlanStays, RecsStay
<1> QED BY <1>2, <1>3 DEF HistoryInv

(* The gate's own: where main and the train are, and that no waiver got to  *)
(* main unsigned.                                                           *)
GateInv ==
    /\ scene \in Scenes
    /\ HistoryInv(commit, tip)
    /\ main \in 1 .. Len(commit)
    /\ staging # NoTrain => staging.at \in 1 .. Len(commit)
    /\ \A w \in Work : Tier[w] >= 2 => commit[main].plan[w].waiver # "unsigned"

LEMMA GateFacts ==
    ASSUME GateInv
    PROVE  /\ History(commit, tip) /\ IsSeq(commit) /\ Len(commit) \in Nat /\ Len(commit) > 0
           /\ \A w \in Work : tip[w] \in 1 .. Len(commit)
           /\ \A c \in 1 .. Len(commit) : c \in commit[c].anc /\ commit[c].anc \subseteq 1 .. Len(commit)
           /\ \A c \in 1 .. Len(commit) : DOMAIN commit[c] = CommitFields /\ OfWorks(commit[c].plan)
           /\ \A c \in 1 .. Len(commit), w \in Work : commit[c].plan[w] \in Plans
           /\ scene.works \subseteq Work
BY ReviewGateAssumption DEF GateInv, HistoryInv, History, IsCommit, IsSeq, OfWorks

(* A commit on a branch ...                                                 *)
LEMMA BranchGrows ==
    ASSUME GateInv, NEW w \in Work, NEW X, DOMAIN X = CommitFields, Commit(w, X),
           NextCommit(commit, tip, w, [X EXCEPT !.anc = @ \cup {New}, !.claims = w])
    PROVE  GateInv'
<1> DEFINE new == [X EXCEPT !.anc = @ \cup {New}, !.claims = w]
<1>1. commit' = Append(commit, new) /\ tip' = [tip EXCEPT ![w] = New] /\ UNCHANGED <<scene, main, staging>>
  BY DEF Commit, Add
<1> HIDE DEF new
<1>2. tip' = TipsAfter(commit, tip, w) BY <1>1 DEF TipsAfter, New
<1>3. HistoryInv(commit', tip')
  <2>1. HistoryInv(Append(commit, new), TipsAfter(commit, tip, w)) BY HistoryGrows DEF GateInv, new
  <2> QED BY <1>1, <1>2, <2>1
<1>4. Len(commit') = Len(commit) + 1 /\ Len(commit) \in Nat /\ \A c \in 1 .. Len(commit) : commit'[c] = commit[c]
  BY <1>1, GateFacts, Appended
<1> QED BY <1>1, <1>3, <1>4 DEF GateInv

(* ... that leaves all plans but its own as they are, or as a merge does.   *)
LEMMA Claiming ==
    ASSUME NEW X, DOMAIN X = CommitFields, NEW w, NEW n
    PROVE  LET new == [X EXCEPT !.anc = @ \cup {n}, !.claims = w]
           IN DOMAIN new = CommitFields /\ new.anc = X.anc \cup {n} /\ new.plan = X.plan /\ new.recs = X.recs
BY DEF CommitFields

LEMMA MergesAreNext ==
    ASSUME NEW C, NEW tp, History(C, tp), NEW v, NEW x \in 1 .. Len(C), NEW y \in 1 .. Len(C),
           v \in Work => x = tp[v], NEW new, DOMAIN new = CommitFields,
           new.plan = [w \in Work |-> IF C[x].plan[w] = C[1].plan[w] THEN C[y].plan[w] ELSE C[x].plan[w]],
           new.recs = C[x].recs \cup C[y].recs,
           new.anc \subseteq C[x].anc \cup C[y].anc \cup {Len(C) + 1}, Len(C) + 1 \in new.anc
    PROVE  NextCommit(C, tp, v, new)
<1>1. new.anc \subseteq 1 .. Len(C) + 1
  <2>1. C[x].anc \subseteq 1 .. Len(C) /\ C[y].anc \subseteq 1 .. Len(C) /\ Len(C) \in Nat
    BY DEF History, IsCommit, IsSeq
  <2> QED BY <2>1
<1>2. OfWorks(new.plan) /\ \A w \in Work : PlanTaken(C, tp, v, new, w, x, y) BY DEF PlanTaken, OfWorks
<1>3. RecsJoined(C, tp, v, new) BY DEF RecsJoined
<1> QED BY <1>1, <1>2, <1>3 DEF NextCommit

(* ... or changes its own plan, or its records.                             *)
LEMMA ChangesAreNext ==
    ASSUME GateInv, NEW w \in Work, NEW new, DOMAIN new = CommitFields, OfWorks(new.plan),
           new.anc = commit[tip[w]].anc \cup {New},
           \A u \in Work \ {w} : new.plan[u] = commit[tip[w]].plan[u],
           PlanMoved(commit, tip, w, new, w) \/ new.plan[w] = commit[tip[w]].plan[w],
           \/ new.recs = commit[tip[w]].recs
           \/ RecsLost(commit, tip, w, new) \/ \E r : RecAdded(commit, tip, w, new, r)
    PROVE  NextCommit(commit, tip, w, new)
<1>1. tip[w] \in 1 .. Len(commit) /\ commit[tip[w]].anc \subseteq 1 .. Len(commit) /\ Len(commit) \in Nat
  BY GateFacts
<1>2. New = Len(commit) + 1 BY DEF New
<1>3. new.anc \subseteq 1 .. Len(commit) + 1 /\ Len(commit) + 1 \in new.anc BY <1>1, <1>2
<1>4. \A u \in Work : new.plan[u] = commit[tip[w]].plan[u] => PlanTaken(commit, tip, w, new, u, tip[w], tip[w])
  BY <1>1, <1>2 DEF PlanTaken
<1>5. \A u \in Work : PlanMoved(commit, tip, w, new, u)
                      \/ \E x, y \in 1 .. Len(commit) : PlanTaken(commit, tip, w, new, u, x, y)
  BY <1>1, <1>4
<1>6. new.recs = commit[tip[w]].recs => RecsJoined(commit, tip, w, new) BY <1>1 DEF RecsJoined
<1> QED BY <1>3, <1>5, <1>6 DEF NextCommit

LEMMA MergedIs ==
    ASSUME NEW x, NEW y, NEW tree, DOMAIN x = CommitFields
    PROVE  /\ DOMAIN Merged(x, y, tree) = CommitFields
           /\ Merged(x, y, tree).anc = x.anc \cup y.anc /\ Merged(x, y, tree).recs = x.recs \cup y.recs
           /\ Merged(x, y, tree).plan =
                 [w \in Work |-> IF x.plan[w] = commit[1].plan[w] THEN y.plan[w] ELSE x.plan[w]]
BY DEF Merged, CommitFields

(* Another commit's work, merged in or rebased onto.                        *)
LEMMA MergingKeeps ==
    ASSUME GateInv, NEW w \in Work, NEW y \in 1 .. Len(commit), NEW tree, NEW X,
           DOMAIN X = CommitFields, X.anc \subseteq Merged(On(w), commit[y], tree).anc,
           X.plan = Merged(On(w), commit[y], tree).plan, X.recs = Merged(On(w), commit[y], tree).recs,
           Commit(w, X)
    PROVE  GateInv'
<1> DEFINE new == [X EXCEPT !.anc = @ \cup {New}, !.claims = w]
<1>1. DOMAIN new = CommitFields /\ new.anc = X.anc \cup {New} /\ new.plan = X.plan /\ new.recs = X.recs
  BY Claiming
<1>2. tip[w] \in 1 .. Len(commit) /\ On(w) = commit[tip[w]] /\ DOMAIN On(w) = CommitFields BY GateFacts DEF On
<1>3. History(commit, tip) /\ New = Len(commit) + 1 BY GateFacts DEF New
<1> HIDE DEF new
<1>4. /\ new.anc \subseteq commit[tip[w]].anc \cup commit[y].anc \cup {Len(commit) + 1}
      /\ Len(commit) + 1 \in new.anc
      /\ new.recs = commit[tip[w]].recs \cup commit[y].recs
      /\ new.plan = [u \in Work |-> IF commit[tip[w]].plan[u] = commit[1].plan[u]
                                    THEN commit[y].plan[u] ELSE commit[tip[w]].plan[u]]
  BY <1>1, <1>2, <1>3, MergedIs
<1>5. NextCommit(commit, tip, w, new) BY <1>1, <1>2, <1>3, <1>4, MergesAreNext
<1> QED BY <1>5, BranchGrows DEF new

(* A change of the branch's own.                                            *)
LEMMA ChangingKeeps ==
    ASSUME GateInv, NEW w \in Work, NEW X, DOMAIN X = CommitFields, OfWorks(X.plan),
           X.anc = On(w).anc, \A u \in Work \ {w} : X.plan[u] = On(w).plan[u],
           \/ X.plan[w] = On(w).plan[w]
           \/ X.plan[w] \in Plans
              /\ (On(w).plan[w].at = "active" \/ (tip[w] = 1 /\ On(w).plan[w] = NoPlan /\ X.plan[w].at = "active")),
           \/ X.recs = On(w).recs \/ X.recs \subseteq On(w).recs
           \/ \E v, b, h : X.recs = On(w).recs \cup {Record(w, v, NextRound(On(w).recs, w), b, h)},
           Commit(w, X)
    PROVE  GateInv'
<1> DEFINE new == [X EXCEPT !.anc = @ \cup {New}, !.claims = w]
<1>1. DOMAIN new = CommitFields /\ new.anc = X.anc \cup {New} /\ new.plan = X.plan /\ new.recs = X.recs
  BY Claiming
<1>2. tip[w] \in 1 .. Len(commit) /\ On(w) = commit[tip[w]] /\ tip[w] \in commit[tip[w]].anc BY GateFacts DEF On
<1>3. New = Len(commit) + 1 BY DEF New
<1> HIDE DEF new
<1>4. PlanMoved(commit, tip, w, new, w) \/ new.plan[w] = commit[tip[w]].plan[w]
  BY <1>1, <1>2, <1>3 DEF PlanMoved
<1>5. \/ new.recs = commit[tip[w]].recs
      \/ RecsLost(commit, tip, w, new) \/ \E r : RecAdded(commit, tip, w, new, r)
  <2>1. CASE X.recs \subseteq On(w).recs BY <1>1, <1>2, <2>1 DEF RecsLost
  <2>2. ASSUME NEW v, NEW b, NEW h, X.recs = On(w).recs \cup {Record(w, v, NextRound(On(w).recs, w), b, h)}
        PROVE  \E r : RecAdded(commit, tip, w, new, r)
    <3> DEFINE r == Record(w, v, NextRound(On(w).recs, w), b, h)
    <3>1. r.work = w /\ r.nr = Len(commit) /\ r.round = NextRound(On(w).recs, w) BY DEF Record
    <3> HIDE DEF r
    <3>2. RecAdded(commit, tip, w, new, r) BY <1>1, <1>2, <2>2, <3>1 DEF RecAdded, r
    <3> QED BY <3>2
  <2> QED BY <2>1, <2>2
<1>6. /\ new.anc = commit[tip[w]].anc \cup {New} /\ OfWorks(new.plan)
      /\ \A u \in Work \ {w} : new.plan[u] = commit[tip[w]].plan[u]
  BY <1>1, <1>2
<1>7. NextCommit(commit, tip, w, new) BY <1>1, <1>4, <1>5, <1>6, ChangesAreNext
<1> QED BY <1>7, BranchGrows DEF new

(* The owner's plans: a waiver in flight is signed where the gate passes.   *)
LEMMA PassableIsSigned ==
    ASSUME GateInv, NEW t, NEW boarded, Passable(t, boarded)
    PROVE  \A w \in Work : Tier[w] >= 2 => commit[t].plan[w].waiver # "unsigned"
BY DEF Passable, PlanFindings, InFlight, GateInv

(* What lands is a tip the gate let through, and main is in it.             *)
LEMMA Landings ==
    ASSUME GateInv, [Next]_vars
    PROVE  \/ /\ main' \in 1 .. Len(commit) /\ main \in commit[main'].anc
              /\ \E boarded : Passable(main', boarded)
              /\ UNCHANGED <<scene, commit, tip, staging>>
           \/ main' = main
           \/ Len(commit') # Len(commit)
<1>0. Len(commit) \in Nat /\ IsSeq(commit) /\ \A w \in Work : tip[w] \in 1 .. Len(commit) BY GateFacts
<1>1. \A c : Add(c) => Len(commit') # Len(commit) BY <1>0, Appended DEF Add
<1>2. scene.works \subseteq Work BY GateFacts
<1>3. CASE \E w \in scene.works : Push(w) BY <1>0, <1>2, <1>3 DEF Push, IsAncestor
<1>4. CASE PushTrain BY <1>4 DEF PushTrain, IsAncestor, GateInv
<1>5. CASE \E p \in Path : OthersLand(p) BY <1>1, <1>5 DEF OthersLand
<1>6. CASE UNCHANGED vars BY <1>6 DEF vars
<1>7. \A w, X : Commit(w, X) => main' = main BY DEF Commit
<1>8. ASSUME NEW w, NEW p, Write(w, p) \/ Revert(w, p) PROVE main' = main BY <1>7, <1>8 DEF Write, Revert
<1>9. ASSUME NEW w, MergeMain(w) PROVE main' = main BY <1>7, <1>9 DEF MergeMain
<1>10. ASSUME NEW w, Rebase(w) PROVE main' = main BY <1>7, <1>10 DEF Rebase
<1>11. ASSUME NEW w, Archive(w) \/ Delete(w) \/ \E word \in {"signed", "unsigned"} : Waive(w, word)
       PROVE  main' = main
  BY <1>7, <1>11 DEF Archive, Delete, Waive, MovePlan
<1>12. ASSUME NEW w, Prune(w) PROVE main' = main BY <1>7, <1>12 DEF Prune
<1>13. ASSUME NEW w, NEW v, Stack(w, v) \/ Stage(w, v) PROVE main' = main BY <1>7, <1>13 DEF Stack, Stage
<1>14. ASSUME NEW w, NEW h, NEW v, Attest(w, h, v) PROVE main' = main BY <1>7, <1>14 DEF Attest
<1> QED BY <1>3, <1>4, <1>5, <1>6, <1>8, <1>9, <1>10, <1>11, <1>12, <1>13, <1>14 DEF Next

LEMMA GateStarts == Init => GateInv
<1> SUFFICES ASSUME Init PROVE GateInv
  OBVIOUS
<1> DEFINE blocks == {[work |-> w, verdict |-> "block", round |-> 1, base |-> 1, head |-> 1, nr |-> 0] :
                        w \in scene.blocked}
           plans == [w \in Work |-> IF w \in scene.planned THEN Plan("active", "no") ELSE NoPlan]
           first == [anc |-> {1}, tree |-> [p \in Path |-> 1], claims |-> Nobody, recs |-> blocks, plan |-> plans]
<1>1. scene \in Scenes /\ commit = <<first>> /\ main = 1 /\ tip = [w \in Work |-> 1] /\ staging = NoTrain
  BY DEF Init
<1>2. scene.blocked \subseteq Work BY <1>1, ReviewGateAssumption
<1>3. \A r \in blocks : r.work \in Work /\ r.nr = 0 /\ r.round = 1 BY <1>2
<1>4. OfWorks(plans) /\ \A w \in Work : plans[w] \in {NoPlan, Plan("active", "no")} BY DEF OfWorks
<1>5. Plan("active", "no") \in Plans /\ NoPlan \in Plans BY DEF Plans, Words
<1>6. Plan("active", "no").at = "active" /\ NoPlan.at = "none"
      /\ Plan("active", "no").waiver = "no" /\ NoPlan.waiver = "no"
  BY DEF Plan, NoPlan
<1> HIDE DEF blocks, plans
<1>7. DOMAIN first = CommitFields /\ first.anc = {1} /\ first.recs = blocks /\ first.plan = plans BY DEF CommitFields
<1> HIDE DEF first
<1>8. Len(commit) = 1 /\ commit[1] = first /\ IsSeq(commit)
  <2>1. commit \in Seq({first}) BY <1>1
  <2> QED BY <1>1, <2>1 DEF IsSeq
<1>9. \A r \in blocks : IsRecord(r, 1) BY <1>3 DEF IsRecord
<1>10. IsCommit(first, 1)
  <2>1. plans \in [Work -> Plans] BY <1>4, <1>5 DEF OfWorks
  <2>2. {1} \subseteq 1 .. 1 OBVIOUS
  <2> QED BY <1>7, <1>9, <2>1, <2>2 DEF IsCommit
<1>11. \A c \in 1 .. 1 : c = 1 OBVIOUS
<1>12. History(commit, tip) BY <1>1, <1>7, <1>8, <1>10, <1>11 DEF History
<1>13. ASSUME NEW w \in Work PROVE PlanHolds(commit, tip, w)
  <2>1. commit[1].plan[w] \in {NoPlan, Plan("active", "no")} /\ tip[w] = 1 BY <1>1, <1>4, <1>7, <1>8
  <2>2. commit[1].plan[w].at # "archived" /\ (commit[1].plan[w] # NoPlan => commit[1].plan[w].at # "none")
    BY <1>6, <2>1
  <2>3. \A a \in commit[1].anc : a = 1 BY <1>7, <1>8
  <2>4. ~IsThere(commit, w, "archived") /\ (commit[1].plan[w] # NoPlan => ~IsThere(commit, w, "none"))
    BY <1>8, <1>11, <2>2 DEF IsThere
  <2> QED BY <1>8, <1>11, <2>1, <2>2, <2>3, <2>4 DEF PlanHolds
<1>14. ASSUME NEW w \in Work PROVE RecsHold(commit, tip, w)
  <2>1. \A r \in Of(commit[1].recs, w) : r.round = 1 BY <1>3, <1>7, <1>8 DEF Of
  <2>2. tip[w] = 1 /\ Of(commit[1].recs, w) \subseteq commit[1].recs BY <1>1 DEF Of
  <2>3. \A s \in Passes(Of(commit[1].recs, w)), b \in BlocksIn(Of(commit[1].recs, w)) : s.round <= b.round
    BY <2>1 DEF Passes, BlocksIn
  <2> QED BY <1>8, <1>11, <2>1, <2>2, <2>3 DEF RecsHold
<1>15. \A w \in Work : commit[main].plan[w].waiver # "unsigned" BY <1>1, <1>4, <1>6, <1>7, <1>8
<1> QED BY <1>1, <1>8, <1>12, <1>13, <1>14, <1>15 DEF GateInv, HistoryInv

(* The train's staging branch: two commits, the second on the first.        *)
LEMMA StagingKeeps ==
    ASSUME GateInv, NEW w \in Work, NEW v \in Work, Stage(w, v)
    PROVE  GateInv'
<1> DEFINE first == Board(commit[main], w, New)
           second == Board(first, v, New + 1)
           C1 == Append(commit, first)
           C2 == Append(C1, second)
<1>0. /\ History(commit, tip) /\ IsSeq(commit) /\ Len(commit) \in Nat /\ Len(commit) > 0
      /\ tip[w] \in 1 .. Len(commit) /\ tip[v] \in 1 .. Len(commit) /\ main \in 1 .. Len(commit)
      /\ DOMAIN commit[main] = CommitFields
  BY GateFacts DEF GateInv
<1>1. ASSUME NEW c, DOMAIN c = CommitFields, NEW u \in Work, NEW n
      PROVE  /\ DOMAIN Board(c, u, n) = CommitFields
             /\ Board(c, u, n).anc = c.anc \cup commit[tip[u]].anc \cup {n}
             /\ Board(c, u, n).recs = c.recs \cup commit[tip[u]].recs
             /\ Board(c, u, n).plan = [q \in Work |-> IF c.plan[q] = commit[1].plan[q]
                                                      THEN commit[tip[u]].plan[q] ELSE c.plan[q]]
  <2> DEFINE m == Merged(c, On(u), AutoMerge(commit, c, On(u)).tree)
  <2>1. /\ DOMAIN m = CommitFields /\ m.anc = c.anc \cup On(u).anc /\ m.recs = c.recs \cup On(u).recs
        /\ m.plan = [q \in Work |-> IF c.plan[q] = commit[1].plan[q] THEN On(u).plan[q] ELSE c.plan[q]]
    BY <1>1, MergedIs
  <2>2. Board(c, u, n) = [m EXCEPT !.anc = @ \cup {n}, !.claims = Nobody] BY DEF Board
  <2> HIDE DEF m
  <2>3. /\ DOMAIN Board(c, u, n) = CommitFields /\ Board(c, u, n).anc = m.anc \cup {n}
        /\ Board(c, u, n).recs = m.recs /\ Board(c, u, n).plan = m.plan
    BY <2>1, <2>2 DEF CommitFields
  <2> QED BY <2>1, <2>3 DEF On
<1>2. New = Len(commit) + 1 /\ Nobody \notin Work BY ReviewGateAssumption DEF New
<1>3. DOMAIN first = CommitFields
  <2>1. DOMAIN commit[main] = CommitFields BY <1>0
  <2>2. \A c, n : DOMAIN c = CommitFields => \A u \in Work : DOMAIN Board(c, u, n) = CommitFields BY <1>1
  <2> QED BY <2>1, <2>2
<1>4. DOMAIN second = CommitFields
  <2> HIDE DEF first
  <2> QED BY <1>1, <1>3
<1>5. commit' = commit \o <<first, second>> /\ staging'.at = New + 1 /\ UNCHANGED <<scene, main, tip>>
  BY DEF Stage
<1>6. NextCommit(commit, tip, Nobody, first)
  <2>1. /\ first.anc = commit[main].anc \cup commit[tip[w]].anc \cup {Len(commit) + 1}
        /\ first.recs = commit[main].recs \cup commit[tip[w]].recs
        /\ first.plan = [q \in Work |-> IF commit[main].plan[q] = commit[1].plan[q]
                                        THEN commit[tip[w]].plan[q] ELSE commit[main].plan[q]]
    BY <1>0, <1>1, <1>2
  <2> HIDE DEF first
  <2>2. first.anc \subseteq commit[main].anc \cup commit[tip[w]].anc \cup {Len(commit) + 1}
        /\ Len(commit) + 1 \in first.anc
    BY <2>1
  <2> QED BY <1>0, <1>2, <1>3, <2>1, <2>2, MergesAreNext
<1>7. HistoryInv(C1, tip)
  <2> HIDE DEF first
  <2>1. HistoryInv(Append(commit, first), TipsAfter(commit, tip, Nobody)) BY <1>6, HistoryGrows DEF GateInv
  <2> QED BY <1>2, <2>1 DEF TipsAfter
<1>8. /\ IsSeq(C1) /\ Len(C1) = New /\ C1[New] = first /\ \A c \in 1 .. Len(commit) : C1[c] = commit[c]
      /\ C1[1] = commit[1] /\ C1[tip[v]] = commit[tip[v]]
  <2> HIDE DEF first
  <2>1. 1 \in 1 .. Len(commit) BY <1>0
  <2> QED BY <1>0, <1>2, <2>1, Appended
<1>9. NextCommit(C1, tip, Nobody, second)
  <2>1. /\ second.anc = first.anc \cup commit[tip[v]].anc \cup {New + 1}
        /\ second.recs = first.recs \cup commit[tip[v]].recs
        /\ second.plan = [q \in Work |-> IF first.plan[q] = commit[1].plan[q]
                                         THEN commit[tip[v]].plan[q] ELSE first.plan[q]]
    <3> HIDE DEF first
    <3> QED BY <1>1, <1>3
  <2> HIDE DEF first, second, C1
  <2>2. /\ second.anc \subseteq C1[New].anc \cup C1[tip[v]].anc \cup {Len(C1) + 1} /\ Len(C1) + 1 \in second.anc
        /\ second.recs = C1[New].recs \cup C1[tip[v]].recs
        /\ second.plan = [q \in Work |-> IF C1[New].plan[q] = C1[1].plan[q]
                                         THEN C1[tip[v]].plan[q] ELSE C1[New].plan[q]]
    BY <1>8, <2>1
  <2>3. New \in 1 .. Len(C1) /\ tip[v] \in 1 .. Len(C1) /\ History(C1, tip) BY <1>0, <1>2, <1>7, <1>8 DEF HistoryInv
  <2> QED BY <1>2, <1>4, <2>2, <2>3, MergesAreNext
<1>10. HistoryInv(C2, tip)
  <2> HIDE DEF C1, second
  <2>1. HistoryInv(Append(C1, second), TipsAfter(C1, tip, Nobody)) BY <1>7, <1>9, HistoryGrows
  <2> QED BY <1>2, <2>1 DEF TipsAfter
<1>11. commit' = C2
  <2> HIDE DEF first, second
  <2>1. PICK T : commit \in Seq(T) BY <1>0 DEF IsSeq
  <2>2. commit \in Seq(T \cup {first, second}) BY <2>1
  <2>3. commit \o <<first, second>> = Append(Append(commit, first), second) BY <2>2
  <2> QED BY <1>5, <2>3
<1>12. Len(C2) = New + 1 /\ C2[main] = commit[main]
  <2> HIDE DEF first, second, C1
  <2>1. main \in 1 .. Len(C1) BY <1>0, <1>2, <1>8
  <2> QED BY <1>0, <1>8, <2>1, Appended
<1> HIDE DEF C2
<1>13. main \in 1 .. Len(C2) /\ New + 1 \in 1 .. Len(C2) BY <1>0, <1>2, <1>12
<1> QED BY <1>5, <1>10, <1>11, <1>12, <1>13 DEF GateInv

LEMMA GateStep == GateInv /\ [Next]_vars => GateInv'
<1> SUFFICES ASSUME GateInv, [Next]_vars PROVE GateInv'
  OBVIOUS
<1>1. /\ History(commit, tip) /\ IsSeq(commit) /\ Len(commit) \in Nat /\ Len(commit) > 0
      /\ \A w \in Work : tip[w] \in 1 .. Len(commit)
      /\ \A c \in 1 .. Len(commit) : DOMAIN commit[c] = CommitFields /\ OfWorks(commit[c].plan)
      /\ \A c \in 1 .. Len(commit), w \in Work : commit[c].plan[w] \in Plans
      /\ main \in 1 .. Len(commit) /\ scene.works \subseteq Work
  BY GateFacts DEF GateInv
<1>2. \A w \in Work : On(w) = commit[tip[w]] /\ DOMAIN On(w) = CommitFields /\ OfWorks(On(w).plan)
                      /\ \A u \in Work : On(w).plan[u] \in Plans
  BY <1>1 DEF On
<1>3. ASSUME NEW w \in Work, NEW p \in Path, Write(w, p) PROVE GateInv'
  <2> DEFINE own == IF tip[w] = 1 /\ On(w).plan[w] = NoPlan THEN Plan("active", "no") ELSE On(w).plan[w]
             X == [[On(w) EXCEPT !.tree[p] = New] EXCEPT !.plan[w] = own]
  <2>1. Commit(w, X) BY <1>3 DEF Write
  <2>2. /\ DOMAIN X = CommitFields /\ X.anc = On(w).anc /\ X.recs = On(w).recs
        /\ X.plan = [On(w).plan EXCEPT ![w] = own]
    BY <1>2 DEF CommitFields
  <2> HIDE DEF X
  <2>3. OfWorks(X.plan) /\ X.plan[w] = own /\ \A u \in Work \ {w} : X.plan[u] = On(w).plan[u]
    BY <1>2, <2>2 DEF OfWorks
  <2>4. Plan("active", "no") \in Plans /\ Plan("active", "no").at = "active" BY DEF Plans, Plan, Words
  <2> QED BY <2>1, <2>2, <2>3, <2>4, ChangingKeeps
<1>4. ASSUME NEW w \in Work, NEW p \in Path, Revert(w, p) PROVE GateInv'
  <2> DEFINE X == [On(w) EXCEPT !.tree[p] = commit[main].tree[p]]
  <2>1. Commit(w, X) BY <1>4 DEF Revert
  <2>2. DOMAIN X = CommitFields /\ X.anc = On(w).anc /\ X.recs = On(w).recs /\ X.plan = On(w).plan
    BY <1>2 DEF CommitFields
  <2> HIDE DEF X
  <2> QED BY <1>2, <2>1, <2>2, ChangingKeeps
<1>5. ASSUME NEW w \in Work, MergeMain(w) PROVE GateInv'
  <2>1. PICK tree : Commit(w, Merged(On(w), commit[main], tree)) BY <1>5 DEF MergeMain
  <2>2. DOMAIN Merged(On(w), commit[main], tree) = CommitFields BY <1>2, MergedIs
  <2> QED BY <1>1, <2>1, <2>2, MergingKeeps
<1>6. ASSUME NEW w \in Work, Rebase(w) PROVE GateInv'
  <2>0. PICK tree : Commit(w, [Merged(On(w), commit[main], tree) EXCEPT !.anc = commit[main].anc])
    BY <1>6 DEF Rebase
  <2>1. DOMAIN On(w) = CommitFields BY <1>2
  <2>2. DOMAIN Merged(On(w), commit[main], tree) = CommitFields BY <2>1, MergedIs
  <2>3. Merged(On(w), commit[main], tree).anc = On(w).anc \cup commit[main].anc BY <2>1 DEF Merged, CommitFields
  <2> DEFINE m == Merged(On(w), commit[main], tree)
             X == [m EXCEPT !.anc = commit[main].anc]
  <2>4. Commit(w, X) BY <2>0
  <2>5. commit[main].anc \subseteq m.anc BY <2>3
  <2>6. DOMAIN X = CommitFields /\ X.anc \subseteq m.anc /\ X.plan = m.plan /\ X.recs = m.recs
    <3>1. DOMAIN m = CommitFields BY <2>2
    <3> HIDE DEF m
    <3> QED BY <2>5, <3>1 DEF CommitFields
  <2> HIDE DEF X
  <2> QED BY <1>1, <2>4, <2>6, MergingKeeps
<1>7. ASSUME NEW w \in Work, NEW v \in Work, Stack(w, v) PROVE GateInv'
  <2> DEFINE tree == AutoMerge(commit, On(w), On(v)).tree
  <2>1. Commit(w, Merged(On(w), commit[tip[v]], tree)) BY <1>2, <1>7 DEF Stack
  <2> HIDE DEF tree
  <2>2. DOMAIN Merged(On(w), commit[tip[v]], tree) = CommitFields BY <1>2, MergedIs
  <2> QED BY <1>1, <2>1, <2>2, MergingKeeps
<1>8. ASSUME NEW w \in Work, NEW h, NEW v, Attest(w, h, v) PROVE GateInv'
  <2>1. PICK base : Commit(w, [On(w) EXCEPT !.recs = @ \cup {Record(w, v, NextRound(@, w), base, h)}])
    BY <1>8 DEF Attest
  <2> DEFINE X == [On(w) EXCEPT !.recs = On(w).recs \cup {Record(w, v, NextRound(On(w).recs, w), base, h)}]
  <2>2. Commit(w, X) BY <2>1
  <2>3. /\ DOMAIN X = CommitFields /\ X.anc = On(w).anc /\ X.plan = On(w).plan
        /\ X.recs = On(w).recs \cup {Record(w, v, NextRound(On(w).recs, w), base, h)}
    BY <1>2 DEF CommitFields
  <2> HIDE DEF X
  <2>4. OfWorks(X.plan) /\ X.plan[w] = On(w).plan[w] /\ \A u \in Work \ {w} : X.plan[u] = On(w).plan[u]
    BY <1>2, <2>3
  <2>5. \E a, b, c : X.recs = On(w).recs \cup {Record(w, a, NextRound(On(w).recs, w), b, c)} BY <2>3
  <2> QED BY <2>2, <2>3, <2>4, <2>5, ChangingKeeps
<1>9. ASSUME NEW w \in Work, NEW to \in Plans, MovePlan(w, to) PROVE GateInv'
  <2> DEFINE X == [On(w) EXCEPT !.plan[w] = to]
  <2>1. Commit(w, X) /\ On(w).plan[w].at = "active" BY <1>9 DEF MovePlan
  <2>2. DOMAIN X = CommitFields /\ X.anc = On(w).anc /\ X.recs = On(w).recs /\ X.plan = [On(w).plan EXCEPT ![w] = to]
    BY <1>2 DEF CommitFields
  <2> HIDE DEF X
  <2>3. OfWorks(X.plan) /\ X.plan[w] = to /\ \A u \in Work \ {w} : X.plan[u] = On(w).plan[u]
    BY <1>2, <2>2 DEF OfWorks
  <2> QED BY <2>1, <2>2, <2>3, ChangingKeeps
<1>10. ASSUME NEW w \in Work, Archive(w) \/ Delete(w) \/ \E word \in {"signed", "unsigned"} : Waive(w, word)
       PROVE  GateInv'
  <2>1. On(w).plan[w] \in Plans BY <1>2
  <2>2. On(w).plan[w].waiver \in Words BY <2>1 DEF Plans, Plan, NoPlan, Words
  <2>3. Plan("archived", On(w).plan[w].waiver) \in Plans /\ NoPlan \in Plans
        /\ \A word \in {"signed", "unsigned"} : Plan("active", word) \in Plans
    BY <2>2 DEF Plans, Words
  <2> QED BY <1>9, <1>10, <2>3 DEF Archive, Delete, Waive
<1>11. ASSUME NEW w \in Work, Prune(w) PROVE GateInv'
  <2> DEFINE X == [On(w) EXCEPT !.recs = On(w).recs \ commit[main].recs]
  <2>1. Commit(w, X) BY <1>11 DEF Prune
  <2>2. DOMAIN X = CommitFields /\ X.anc = On(w).anc /\ X.plan = On(w).plan /\ X.recs \subseteq On(w).recs
    BY <1>2 DEF CommitFields
  <2> HIDE DEF X
  <2> QED BY <1>2, <2>1, <2>2, ChangingKeeps
<1>12. ASSUME NEW p \in Path, OthersLand(p) PROVE GateInv'
  <2> DEFINE new == [[[commit[main] EXCEPT !.anc = @ \cup {New}] EXCEPT !.tree[p] = New] EXCEPT !.claims = Nobody]
  <2>1. commit' = Append(commit, new) /\ main' = New /\ UNCHANGED <<scene, tip, staging>>
    BY <1>12 DEF OthersLand, Add
  <2>2. /\ DOMAIN new = CommitFields /\ new.anc = commit[main].anc \cup {New}
        /\ new.recs = commit[main].recs /\ new.plan = commit[main].plan
    BY <1>1 DEF CommitFields
  <2> HIDE DEF new
  <2>3. New = Len(commit) + 1 /\ Nobody \notin Work BY ReviewGateAssumption DEF New
  <2>4. /\ new.anc \subseteq commit[main].anc \cup commit[main].anc \cup {Len(commit) + 1}
        /\ Len(commit) + 1 \in new.anc
        /\ new.recs = commit[main].recs \cup commit[main].recs
        /\ new.plan = [u \in Work |-> IF commit[main].plan[u] = commit[1].plan[u]
                                      THEN commit[main].plan[u] ELSE commit[main].plan[u]]
    <3>1. commit[main].plan = [u \in Work |-> commit[main].plan[u]]
      <4>1. commit[main].plan \in [Work -> Plans]
        <5>1. IsCommit(commit[main], Len(commit)) BY <1>1 DEF History
        <5> QED BY <5>1 DEF IsCommit
      <4> QED BY <4>1
    <3> QED BY <2>2, <2>3, <3>1
  <2>5. NextCommit(commit, tip, Nobody, new) BY <1>1, <2>2, <2>3, <2>4, MergesAreNext
  <2>6. HistoryInv(Append(commit, new), TipsAfter(commit, tip, Nobody)) BY <2>5, HistoryGrows DEF GateInv
  <2>7. HistoryInv(commit', tip') BY <2>1, <2>3, <2>6 DEF TipsAfter
  <2>8. Len(commit') = Len(commit) + 1 /\ commit'[New] = new BY <1>1, <2>1, <2>3, Appended
  <2>9. main' \in 1 .. Len(commit') /\ (staging' # NoTrain => staging'.at \in 1 .. Len(commit'))
    BY <1>1, <2>1, <2>3, <2>8 DEF GateInv
  <2> QED BY <2>1, <2>2, <2>7, <2>8, <2>9 DEF GateInv
<1>13. ASSUME NEW w \in Work, NEW v \in Work, Stage(w, v) PROVE GateInv' BY <1>13, StagingKeeps
<1>14. CASE (\E w \in Work : Push(w)) \/ PushTrain
  <2>1. main' # main /\ commit' = commit
    BY <1>14 DEF Push, PushTrain
  <2>2. /\ main' \in 1 .. Len(commit) /\ \E boarded : Passable(main', boarded)
        /\ UNCHANGED <<scene, commit, tip, staging>>
    BY <2>1, Landings
  <2>3. \A w \in Work : Tier[w] >= 2 => commit[main'].plan[w].waiver # "unsigned" BY <2>2, PassableIsSigned
  <2> QED BY <2>2, <2>3 DEF GateInv
<1>15. CASE UNCHANGED vars BY <1>15 DEF vars, GateInv
<1> QED BY <1>1, <1>3, <1>4, <1>5, <1>6, <1>7, <1>8, <1>10, <1>11, <1>12, <1>13, <1>14, <1>15 DEF Next

LEMMA GateInvariant == Spec => []GateInv
BY GateStarts, GateStep, PTL DEF Spec

(* From Tier 2 on no work that has a plan lands without a pass or the       *)
(* owner's word: a plan that was archived never is gone beside it, one that *)
(* is deleted where main has it is judged by main's, and an unsigned waiver *)
(* that got past no gate is on no main.                                     *)
THEOREM PlansDoNotEscape == Spec => NoPlanEscapes
<1>1. ASSUME GateInv, [Next]_vars, Lands, NEW w \in Work, Tier[w] >= 2, Landed(w),
             {commit[main].plan[w], commit[main'].plan[w]} # {NoPlan}
      PROVE  \/ Passes(Of(commit[main'].recs \cup commit[main].recs, w)) # {}
             \/ \E p \in {commit[main].plan[w], commit[main'].plan[w]} : p.waiver = "signed"
  <2>1. main' \in 1 .. Len(commit) /\ main \in commit[main'].anc /\ \E boarded : Passable(main', boarded)
    BY <1>1, Landings DEF Lands
  <2>2. PICK boarded : Passable(main', boarded) BY <2>1
  <2> DEFINE t == main'
             was == commit[main].plan[w]
             is == commit[t].plan[w]
  <2>3. ~PlanFindings(t, boarded, w) BY <1>1, <2>2 DEF Passable
  <2>4. main \in 1 .. Len(commit) /\ was \in Plans /\ is \in Plans BY <1>1, <2>1, GateFacts DEF GateInv
  <2>5. was.waiver # "unsigned" /\ is.waiver # "unsigned" BY <1>1, <2>2, PassableIsSigned DEF GateInv
  <2>6. was.waiver \in {"no", "signed"} /\ is.waiver \in {"no", "signed"}
        /\ was.at \in {"none", "active", "archived"} /\ is.at \in {"none", "active", "archived"}
    BY <2>4, <2>5 DEF Plans, Plan, NoPlan, Words
  <2>7. w \in Claimed(t) BY <1>1, ReviewGateAssumption DEF Landed, Claimed, Brings
  <2>8. Cleared(t, w) => Passes(Of(commit[main'].recs \cup commit[main].recs, w)) # {}
    BY DEF Cleared, Clearing, ValidPasses, Passes, Of
  <2>9. Current(t, boarded, w) => Cleared(t, w) BY DEF Current, Cleared
  <2>10. CASE was.waiver = "signed" \/ is.waiver = "signed" BY <2>10
  <2>11. CASE was.waiver = "no" /\ is.waiver = "no"
    <3>1. ~Waived(t, w) /\ ~Waived(main, w) BY <2>11 DEF Waived
    <3>2. CASE is.at \in {"active", "archived"}
      <4>1. Current(t, boarded, w) BY <2>3, <2>7, <3>1, <3>2 DEF PlanFindings, Stands
      <4> QED BY <2>8, <2>9, <4>1
    <3>3. CASE is.at = "none"
      <4>1. is = NoPlan /\ was # NoPlan BY <1>1, <2>4, <3>3, NoPlanIsNone
      <4>2. was.at # "none" BY <2>4, <4>1, NoPlanIsNone
      <4>3. was.at # "archived"
        <5>1. PlanHolds(commit, tip, w) BY <1>1 DEF GateInv, HistoryInv
        <5> QED BY <2>1, <3>3, <5>1 DEF PlanHolds
      <4>4. was.at = "active" BY <2>6, <4>2, <4>3
      <4>5. Cleared(t, w) BY <2>3, <3>1, <3>3, <4>4 DEF PlanFindings, Deleted
      <4> QED BY <2>8, <4>5
    <3> QED BY <2>6, <3>2, <3>3
  <2> QED BY <2>6, <2>10, <2>11
<1>2. GateInv /\ [Next]_vars =>
        [Lands => \A w \in Work :
           LET plans == {commit[main].plan[w], commit[main'].plan[w]}
           IN (Tier[w] >= 2 /\ Landed(w) /\ plans # {NoPlan}) =>
                 \/ Passes(Of(commit[main'].recs \cup commit[main].recs, w)) # {}
                 \/ \E p \in plans : p.waiver = "signed"]_vars
  BY <1>1
<1> QED BY <1>2, GateInvariant, PTL DEF Spec, NoPlanEscapes

(* A work lands only where a pass came after each of its blocks that was    *)
(* written while no line of it was lost: no round is below one before it.   *)
THEOREM BlocksAreAnswered == Spec => LastWordHolds
<1>1. ASSUME GateInv, [Next]_vars, Lands, NEW w \in Work, Landed(w),
             NEW b \in BlocksIn(Of(commit[main].recs \cup commit[main'].recs, w)), Unlost(commit, w, b.nr)
      PROVE  \E s \in Passes(Of(commit[main].recs \cup commit[main'].recs, w)) : s.nr > b.nr
  <2> DEFINE t == main'
             held == Of(commit[main].recs \cup commit[t].recs, w)
  <2>1. t \in 1 .. Len(commit) /\ main \in 1 .. Len(commit) /\ NoStandingBlock(t)
    BY <1>1, Landings DEF Lands, Passable, GateInv
  <2>2. w \in Pushed(t) BY <1>1, ReviewGateAssumption DEF Landed, Pushed, Claimed, Brings
  <2>3. b \in BlocksIn(Of(Verdicts(t), w)) BY <1>1 DEF Verdicts, TipsVerdicts, BlocksIn, Of, Passes
  <2>4. PICK s \in Passes(Of(Verdicts(t), w)) : Outranks(b, s)
    BY <2>1, <2>2, <2>3 DEF NoStandingBlock, StandsBlocked
  <2>5. s \in Passes(held) BY DEF Verdicts, TipsVerdicts, ValidPasses, BlocksIn, Passes, Of
  <2>6. \A r \in held : r.nr \in Nat /\ r.round \in Nat
    BY <1>1, <2>1 DEF GateInv, HistoryInv, History, IsCommit, IsRecord, Of
  <2>7. RecsHold(commit, tip, w) BY <1>1 DEF GateInv, HistoryInv
  <2>8. PICK c \in {main, t} : s \in Passes(Of(commit[c].recs, w)) BY <2>5 DEF Passes, Of
  <2>9. PICK d \in {main, t} : b \in BlocksIn(Of(commit[d].recs, w)) BY <1>1 DEF BlocksIn, Passes, Of
  <2>10. s.nr <= b.nr => s.round <= b.round BY <1>1, <2>1, <2>7, <2>8, <2>9 DEF RecsHold
  <2>11. s \in held /\ b \in held BY <1>1, <2>5 DEF Passes, BlocksIn
  <2>12. s.round > b.round BY <2>4 DEF Outranks
  <2>13. s.nr \in Nat /\ s.round \in Nat BY <2>6, <2>11
  <2>14. b.nr \in Nat /\ b.round \in Nat BY <2>6, <2>11
  <2> HIDE DEF t, held
  <2>15. ~(s.nr <= b.nr) BY <2>10, <2>12, <2>13, <2>14
  <2>16. s.nr > b.nr BY <2>13, <2>14, <2>15
  <2> USE DEF t, held
  <2> QED BY <2>5, <2>16
<1>2. GateInv /\ [Next]_vars =>
        [Lands => \A w \in Work : Landed(w) =>
           LET held == Of(commit[main].recs \cup commit[main'].recs, w)
           IN \A b \in BlocksIn(held) : Unlost(commit, w, b.nr) => \E s \in Passes(held) : s.nr > b.nr]_vars
  BY <1>1
<1> QED BY <1>2, GateInvariant, PTL DEF Spec, LastWordHolds
LEMMA Induction ==
    ASSUME NEW T, T \subseteq Nat, 0 \in T, \A i \in T : i + 1 \in T
    PROVE  T = Nat
<1> SUFFICES ASSUME NEW n \in Nat \ T PROVE FALSE OBVIOUS
<1> DEFINE U == Nat \ T
<1>1. U \in SUBSET Nat /\ U # {} OBVIOUS
<1>2. PICK m \in U : \A k \in U : m <= k
  <2> HIDE DEF U
  <2> QED BY <1>1, LeastThere
<1>3. m # 0 /\ m - 1 \in Nat OBVIOUS
<1>4. m - 1 \in T BY <1>2, <1>3
<1>5. (m - 1) + 1 \in T BY <1>4
<1> QED BY <1>3, <1>5
-----------------------------------------------------------------------------
(* Reviewed: what a merge of heads holds. Of the commits of a history the   *)
(* ancestors are older, and theirs are among them; the first one is all's.  *)
Ancestry(C) ==
    /\ IsSeq(C)
    /\ \A c \in 1 .. Len(C) :
          /\ c \in C[c].anc /\ 1 \in C[c].anc /\ C[c].anc \subseteq 1 .. c
          /\ \A a \in C[c].anc : C[a].anc \subseteq C[c].anc

LEMMA AncestryFacts ==
    ASSUME NEW C, Ancestry(C), NEW a \in 1 .. Len(C), NEW b \in 1 .. Len(C)
    PROVE  /\ Len(C) \in Nat /\ C[a].anc \subseteq 1 .. Len(C) /\ a \in C[a].anc
           /\ a \in C[b].anc => a <= b /\ C[a].anc \subseteq C[b].anc
           /\ a \in C[b].anc /\ b \in C[a].anc => a = b
<1>1. Len(C) \in Nat BY DEF Ancestry, IsSeq
<1>2. C[a].anc \subseteq 1 .. a /\ C[b].anc \subseteq 1 .. b /\ a \in C[a].anc
      /\ (a \in C[b].anc => C[a].anc \subseteq C[b].anc)
  BY DEF Ancestry
<1> QED BY <1>1, <1>2

LEMMA LatestAbove ==
    ASSUME NEW C, Ancestry(C), NEW some, some \subseteq 1 .. Len(C), NEW c \in some
    PROVE  \E d \in Latest(C, some) : c \in C[d].anc
<1> DEFINE T == {d \in some : c \in C[d].anc}
<1>1. T \in SUBSET Nat /\ T # {} /\ Len(C) \in Nat /\ \A n \in T : n <= Len(C)
  <2>1. Len(C) \in Nat /\ c \in 1 .. Len(C) BY DEF Ancestry, IsSeq
  <2>2. c \in C[c].anc BY <2>1, AncestryFacts
  <2>3. \A n \in some : n \in Nat /\ n <= Len(C) BY <2>1
  <2> QED BY <2>1, <2>2, <2>3
<1>2. PICK d \in T : \A e \in T : e <= d
  <2> HIDE DEF T
  <2> QED BY <1>1, GreatestThere
<1>3. ASSUME NEW e \in some \ {d}, d \in C[e].anc PROVE FALSE
  <2>1. d \in 1 .. Len(C) /\ e \in 1 .. Len(C) OBVIOUS
  <2>2. d <= e /\ C[d].anc \subseteq C[e].anc BY <1>3, <2>1, AncestryFacts
  <2>3. e \in T /\ e <= d BY <1>2, <2>2
  <2> QED BY <1>3, <2>1, <2>2, <2>3
<1> QED BY <1>2, <1>3 DEF Latest, IsAncestor

(* The states of ReviewedMerge, one after each number.                      *)
Turned(C, base, heads, n, f) ==
    f = [k \in 0 .. n |-> IF k = 0 THEN [at |-> C[base], lost |-> {}]
                          ELSE IF k \in Latest(C, heads) THEN MergeStep(C, f[k - 1], k) ELSE f[k - 1]]

TurnOf(C, heads, state, k) == IF k \in Latest(C, heads) THEN MergeStep(C, state, k) ELSE state

LEMMA TurnedExists ==
    ASSUME NEW C, NEW base, NEW heads, NEW n \in Nat
    PROVE  \E f : Turned(C, base, heads, n, f)
<1> DEFINE T == {i \in Nat : \E f : Turned(C, base, heads, i, f)}
<1>1. 0 \in T
  <2> DEFINE f == [k \in 0 .. 0 |-> [at |-> C[base], lost |-> {}]]
  <2>1. Turned(C, base, heads, 0, f)
    <3>1. \A k \in 0 .. 0 : k = 0 OBVIOUS
    <3> QED BY <3>1 DEF Turned
  <2> QED BY <2>1
<1>2. ASSUME NEW i \in T PROVE i + 1 \in T
  <2>1. PICK f : Turned(C, base, heads, i, f) OBVIOUS
  <2> DEFINE g == [k \in 0 .. i + 1 |-> IF k \in 0 .. i THEN f[k] ELSE TurnOf(C, heads, f[i], k)]
             start == [at |-> C[base], lost |-> {}]
  <2>2. \A k \in 0 .. i : f[k] = IF k = 0 THEN start ELSE TurnOf(C, heads, f[k - 1], k)
    BY <2>1 DEF Turned, TurnOf
  <2>3. ASSUME NEW k \in 0 .. i + 1
        PROVE  g[k] = IF k = 0 THEN start ELSE TurnOf(C, heads, g[k - 1], k)
    <3> HIDE DEF start
    <3>1. CASE k = 0 BY <2>2, <3>1
    <3>2. CASE k \in 0 .. i /\ k # 0
      <4>1. k - 1 \in 0 .. i /\ k - 1 \in 0 .. i + 1 BY <3>2
      <4>2. g[k] = f[k] /\ g[k - 1] = f[k - 1] BY <3>2, <4>1
      <4> QED BY <2>2, <3>2, <4>2
    <3>3. CASE k = i + 1
      <4>1. k \notin 0 .. i /\ k # 0 /\ k - 1 = i /\ i \in 0 .. i /\ i \in 0 .. i + 1 BY <3>3
      <4>2. g[k] = TurnOf(C, heads, f[i], k) /\ g[k - 1] = f[i] BY <4>1
      <4> QED BY <4>1, <4>2
    <3> QED BY <3>1, <3>2, <3>3
  <2>4. Turned(C, base, heads, i + 1, g)
    <3>1. g = [k \in 0 .. i + 1 |-> IF k = 0 THEN start ELSE TurnOf(C, heads, g[k - 1], k)]
      <4>1. g = [k \in 0 .. i + 1 |-> g[k]] OBVIOUS
      <4> HIDE DEF g, start
      <4> QED BY <2>3, <4>1
    <3> HIDE DEF g
    <3> QED BY <3>1 DEF Turned, TurnOf
  <2> HIDE DEF g
  <2> QED BY <2>4
<1>3. T = Nat BY <1>1, <1>2, Induction
<1> QED BY <1>3

LEMMA MergedInTurn ==
    ASSUME NEW C, Ancestry(C), NEW base, NEW heads
    PROVE  \E f : /\ ReviewedMerge(C, base, heads) = f[Len(C)]
                  /\ f[0] = [at |-> C[base], lost |-> {}]
                  /\ \A k \in 1 .. Len(C) : f[k] = TurnOf(C, heads, f[k - 1], k)
<1> DEFINE N == Len(C)
           f == CHOOSE g : Turned(C, base, heads, N, g)
<1>1. N \in Nat BY DEF Ancestry, IsSeq
<1>2. Turned(C, base, heads, N, f) BY <1>1, TurnedExists
<1>3. ReviewedMerge(C, base, heads) = f[N] BY DEF ReviewedMerge, Turned
<1> HIDE DEF f
<1>4. f[0] = [at |-> C[base], lost |-> {}] BY <1>1, <1>2 DEF Turned
<1>5. ASSUME NEW k \in 1 .. N PROVE f[k] = TurnOf(C, heads, f[k - 1], k)
  <2>1. k \in 0 .. N /\ k # 0 BY <1>1
  <2> QED BY <1>2, <2>1 DEF Turned, TurnOf
<1> QED BY <1>3, <1>4, <1>5 DEF N

(* A step takes what there is, the head's, or git's merge of the two: a     *)
(* side gives way where it holds what all the bases hold.                   *)
Common(C, x, y, p, content) ==
    MergeBases(C, x, y) # {} /\ \A b \in MergeBases(C, x, y) : C[b].tree[p] = content

StepsTo(C, state, next, h, p) ==
    LET here == state.at
    IN /\ next.at.anc = here.anc \cup C[h].anc /\ state.lost \subseteq next.lost
       /\ \/ p \in next.lost
          \/ C[h].anc \subseteq here.anc /\ next.at.tree[p] = here.tree[p]
          \/ here.anc \subseteq C[h].anc /\ next.at.tree[p] = C[h].tree[p]
          \/ /\ next.at.tree[p] = here.tree[p]
             /\ here.tree[p] = C[h].tree[p] \/ Common(C, here, C[h], p, C[h].tree[p])
          \/ /\ next.at.tree[p] = C[h].tree[p] /\ here.tree[p] # C[h].tree[p]
             /\ Common(C, here, C[h], p, here.tree[p])

LEMMA StepIs ==
    ASSUME NEW C, NEW state, NEW h, NEW p \in Path
    PROVE  StepsTo(C, state, MergeStep(C, state, h), h, p)
<1> DEFINE here == state.at
           auto == AutoMerge(C, here, C[h])
           taken == IF C[h].anc \subseteq here.anc THEN here
                    ELSE IF here.anc \subseteq C[h].anc THEN C[h] ELSE auto
           next == MergeStep(C, state, h)
<1>1. /\ next.at.anc = taken.anc /\ next.at.tree = taken.tree
      /\ next.lost = state.lost \cup Conflicted(taken)
  BY DEF MergeStep
<1>2. /\ auto.anc = here.anc \cup C[h].anc
      /\ auto.tree[p] = IF here.tree[p] = C[h].tree[p] \/ Common(C, here, C[h], p, C[h].tree[p]) THEN here.tree[p]
                        ELSE IF Common(C, here, C[h], p, here.tree[p]) THEN C[h].tree[p] ELSE Marks
  BY DEF AutoMerge, Common
<1>3. p \in Conflicted(taken) <=> taken.tree[p] = Marks BY DEF Conflicted
<1> HIDE DEF auto, next, here
<1>4. CASE C[h].anc \subseteq here.anc BY <1>1, <1>4 DEF next, here, StepsTo
<1>5. CASE ~(C[h].anc \subseteq here.anc) /\ here.anc \subseteq C[h].anc BY <1>1, <1>5 DEF next, here, StepsTo
<1>6. CASE ~(C[h].anc \subseteq here.anc) /\ ~(here.anc \subseteq C[h].anc)
  <2>1. taken = auto BY <1>6
  <2> HIDE DEF taken
  <2>2. next.at.anc = here.anc \cup C[h].anc /\ next.at.tree[p] = auto.tree[p] /\ state.lost \subseteq next.lost
        /\ (auto.tree[p] = Marks => p \in next.lost)
    BY <1>1, <1>2, <1>3, <2>1
  <2> QED BY <1>2, <2>2 DEF next, here, StepsTo
<1> QED BY <1>4, <1>5, <1>6

(* A content of which a head is the one that brought it: it is another one  *)
(* at a commit of the head's that lies beneath none that main has, too.     *)
Brought(C, m, h, p, content) ==
    /\ C[h].tree[p] = content
    /\ \E b \in C[h].anc :
          C[b].tree[p] # content /\ \A a \in C[h].anc \cap C[m].anc : b \in C[a].anc => b = a

Merging(C, m, heads, f) ==
    /\ Ancestry(C) /\ m \in 1 .. Len(C) /\ heads \subseteq 1 .. Len(C)
    /\ f[0] = [at |-> C[m], lost |-> {}]
    /\ \A k \in 1 .. Len(C) : f[k] = TurnOf(C, heads, f[k - 1], k)

By(C, heads, n) == {h \in Latest(C, heads) : h <= n}

TurnInv(C, m, heads, p, f, n) ==
    /\ f[n].at.anc = C[m].anc \cup UNION {C[h].anc : h \in By(C, heads, n)}
    /\ \/ p \in f[n].lost
       \/ \A i \in 0 .. n : f[i].at.tree[p] = C[m].tree[p] /\ p \notin f[i].lost
       \/ \E h \in By(C, heads, n) : Brought(C, m, h, p, f[n].at.tree[p])

LEMMA TurnKeeps ==
    ASSUME NEW C, NEW m, NEW heads, NEW f, Merging(C, m, heads, f), NEW p \in Path,
           NEW n \in 1 .. Len(C), TurnInv(C, m, heads, p, f, n - 1)
    PROVE  TurnInv(C, m, heads, p, f, n)
<1> DEFINE latest == Latest(C, heads)
           here == f[n - 1].at
           was == C[m].tree[p]
           old == By(C, heads, n - 1)
           new == By(C, heads, n)
<1>1. /\ Len(C) \in Nat /\ n - 1 \in Nat /\ m \in 1 .. Len(C)
      /\ \A i \in 0 .. n : i \in 0 .. n - 1 \/ i = n
      /\ \A h \in latest : h \in 1 .. Len(C)
  BY AncestryFacts DEF Merging, Latest
<1>2. \A h \in latest : h <= n <=> h <= n - 1 \/ h = n BY <1>1
<1>3. \A h : h \in new <=> h \in old \/ (h = n /\ n \in latest) BY <1>2 DEF By
<1>4. f[n] = TurnOf(C, heads, f[n - 1], n) BY DEF Merging
<1> HIDE DEF old, new
<1>5. /\ here.anc = C[m].anc \cup UNION {C[h].anc : h \in old}
      /\ \/ p \in f[n - 1].lost
         \/ \A i \in 0 .. n - 1 : f[i].at.tree[p] = was /\ p \notin f[i].lost
         \/ \E h \in old : Brought(C, m, h, p, here.tree[p])
  BY DEF TurnInv, old
<1>6. CASE n \notin latest
  <2>1. f[n] = f[n - 1] /\ new = old BY <1>3, <1>4, <1>6 DEF TurnOf
  <2>2. n - 1 \in 0 .. n - 1 BY <1>1
  <2> QED BY <1>1, <1>5, <2>1, <2>2 DEF TurnInv, new
<1>7. CASE n \in latest
  <2> DEFINE next == f[n].at
             content == C[n].tree[p]
  <2>0. f[n] = MergeStep(C, f[n - 1], n) BY <1>4, <1>7 DEF TurnOf
  <2>1. /\ next.anc = here.anc \cup C[n].anc /\ f[n - 1].lost \subseteq f[n].lost
        /\ \/ p \in f[n].lost
           \/ C[n].anc \subseteq here.anc /\ next.tree[p] = here.tree[p]
           \/ here.anc \subseteq C[n].anc /\ next.tree[p] = content
           \/ /\ next.tree[p] = here.tree[p]
              /\ here.tree[p] = content \/ Common(C, here, C[n], p, content)
           \/ /\ next.tree[p] = content /\ here.tree[p] # content
              /\ Common(C, here, C[n], p, here.tree[p])
    <3>1. StepsTo(C, f[n - 1], f[n], n, p) BY <2>0, StepIs
    <3> QED BY <3>1 DEF StepsTo
  <2> HIDE DEF next
  <2>2. next.anc = C[m].anc \cup UNION {C[h].anc : h \in new} BY <1>3, <1>5, <1>7, <2>1
  <2>3. n \in new /\ n \in 1 .. Len(C) /\ n - 1 \in 0 .. n - 1 BY <1>1, <1>3, <1>7
  <2>4. ASSUME p \notin f[n].lost, next.tree[p] = here.tree[p]
        PROVE  \/ \A i \in 0 .. n : f[i].at.tree[p] = was /\ p \notin f[i].lost
               \/ \E h \in new : Brought(C, m, h, p, next.tree[p])
    <3>1. p \notin f[n - 1].lost BY <2>1, <2>4
    <3>2. CASE \A i \in 0 .. n - 1 : f[i].at.tree[p] = was /\ p \notin f[i].lost
      BY <1>1, <2>3, <2>4, <3>2 DEF next
    <3>3. CASE \E h \in old : Brought(C, m, h, p, here.tree[p]) BY <1>3, <2>4, <3>3
    <3> QED BY <1>5, <3>1, <3>2, <3>3
  <2>5. ASSUME p \notin f[n].lost, here.anc \subseteq C[n].anc, next.tree[p] = content, here.tree[p] # content
        PROVE  Brought(C, m, n, p, content)
    <3>1. old = {}
      <4> SUFFICES ASSUME NEW h \in old PROVE FALSE
        OBVIOUS
      <4>1. h \in latest /\ h <= n - 1 /\ h # n /\ h \in 1 .. Len(C) BY <1>1 DEF old, By
      <4>2. h \in C[h].anc BY <4>1, AncestryFacts DEF Merging
      <4>3. h \in C[n].anc BY <1>5, <2>5, <4>2
      <4> QED BY <1>7, <4>1, <4>3 DEF Latest, IsAncestor
    <3>2. here.tree[p] = was BY <1>5, <2>1, <2>3, <2>5, <3>1
    <3>3. m \in C[n].anc /\ C[m].tree[p] # content
      <4>1. m \in C[m].anc BY AncestryFacts DEF Merging
      <4> QED BY <1>5, <2>5, <3>2, <4>1
    <3>4. ASSUME NEW a \in C[n].anc \cap C[m].anc, m \in C[a].anc PROVE m = a
      <4>1. a \in 1 .. Len(C) BY <1>1, AncestryFacts DEF Merging
      <4> QED BY <1>1, <3>4, <4>1, AncestryFacts DEF Merging
    <3> QED BY <3>3, <3>4 DEF Brought
  <2>6. ASSUME here.tree[p] # content, Common(C, here, C[n], p, here.tree[p])
        PROVE  Brought(C, m, n, p, content)
    <3>1. PICK b \in MergeBases(C, here, C[n]) : C[b].tree[p] = here.tree[p] BY <2>6 DEF Common
    <3>2. b \in here.anc \cap C[n].anc /\ \A a \in here.anc \cap C[n].anc : b \in C[a].anc => b = a
      BY DEF MergeBases, Latest, IsAncestor
    <3>3. C[m].anc \subseteq here.anc BY <1>5
    <3> QED BY <2>6, <3>1, <3>2, <3>3 DEF Brought
  <2>7. \/ p \in f[n].lost
        \/ \A i \in 0 .. n : f[i].at.tree[p] = was /\ p \notin f[i].lost
        \/ \E h \in new : Brought(C, m, h, p, next.tree[p])
    BY <2>1, <2>3, <2>4, <2>5, <2>6
  <2> QED BY <2>2, <2>7 DEF TurnInv, new, next
<1> QED BY <1>6, <1>7

LEMMA EveryTurn ==
    ASSUME NEW C, NEW m, NEW heads, NEW f, Merging(C, m, heads, f), NEW p \in Path
    PROVE  \A n \in 0 .. Len(C) : TurnInv(C, m, heads, p, f, n)
<1> DEFINE T == {n \in Nat : n <= Len(C) => TurnInv(C, m, heads, p, f, n)}
<1>0. Len(C) \in Nat BY DEF Merging, Ancestry, IsSeq
<1>1. TurnInv(C, m, heads, p, f, 0)
  <2>1. \A h \in Latest(C, heads) : ~(h <= 0) BY <1>0 DEF Merging, Latest
  <2>2. By(C, heads, 0) = {} BY <2>1 DEF By
  <2>3. f[0].at = C[m] /\ f[0].lost = {} BY DEF Merging
  <2>4. \A i \in 0 .. 0 : i = 0 OBVIOUS
  <2> QED BY <2>2, <2>3, <2>4 DEF TurnInv
<1>2. ASSUME NEW n \in T PROVE n + 1 \in T
  <2>1. SUFFICES ASSUME n + 1 <= Len(C) PROVE TurnInv(C, m, heads, p, f, n + 1)
    OBVIOUS
  <2>2. n + 1 \in 1 .. Len(C) /\ (n + 1) - 1 = n /\ n <= Len(C) BY <1>0, <2>1
  <2> QED BY <2>2, TurnKeeps
<1>3. 0 \in T BY <1>1
<1>4. T \subseteq Nat OBVIOUS
<1> HIDE DEF T
<1>5. T = Nat BY <1>2, <1>3, <1>4, Induction
<1> QED BY <1>0, <1>5 DEF T

(* A head whose content none of its forks from main has gives way to main's *)
(* only where an older head has a commit with that content.                 *)
GivesWay(C, m, heads, p) ==
    \A h \in Latest(C, heads) : \A k \in MergeBases(C, C[h], C[m]) :
        (C[h].tree[p] # C[m].tree[p] /\ C[k].tree[p] # C[h].tree[p] /\ h \notin C[m].anc) =>
            \E i \in Latest(C, heads) : \E b \in C[i].anc \ C[m].anc : i < h /\ C[b].tree[p] = C[h].tree[p]

LEMMA GivingWay ==
    ASSUME NEW C, NEW m, NEW heads, NEW f, Merging(C, m, heads, f), NEW p \in Path,
           \A i \in 0 .. Len(C) : f[i].at.tree[p] = C[m].tree[p] /\ p \notin f[i].lost
    PROVE  GivesWay(C, m, heads, p)
<1> SUFFICES ASSUME NEW h \in Latest(C, heads), NEW k \in MergeBases(C, C[h], C[m]),
                    C[h].tree[p] # C[m].tree[p], C[k].tree[p] # C[h].tree[p], h \notin C[m].anc
             PROVE  \E i \in Latest(C, heads) : \E b \in C[i].anc \ C[m].anc : i < h /\ C[b].tree[p] = C[h].tree[p]
  BY DEF GivesWay
<1> DEFINE here == f[h - 1].at
           older == By(C, heads, h - 1)
<1>1. h \in 1 .. Len(C) /\ m \in 1 .. Len(C) /\ Len(C) \in Nat BY DEF Merging, Latest, Ancestry, IsSeq
<1>2. h \in 0 .. Len(C) /\ h - 1 \in 0 .. Len(C) BY <1>1
<1>3. here.anc = C[m].anc \cup UNION {C[i].anc : i \in older} BY <1>2, EveryTurn DEF TurnInv
<1>4. \A i \in older : i \in Latest(C, heads) /\ i < h /\ i \in 1 .. Len(C) BY <1>1 DEF By, Merging, Latest
<1>5. f[h] = MergeStep(C, f[h - 1], h) BY <1>1 DEF Merging, TurnOf
<1>6. StepsTo(C, f[h - 1], f[h], h, p) BY <1>5, StepIs
<1>7. here.tree[p] = C[m].tree[p] /\ f[h].at.tree[p] = C[m].tree[p] /\ p \notin f[h].lost BY <1>2
<1>8. h \in C[h].anc /\ C[h].anc \subseteq 1 .. Len(C) /\ C[m].anc \subseteq 1 .. Len(C)
  BY <1>1, AncestryFacts DEF Merging
<1>9. ~(C[h].anc \subseteq here.anc)
  <2> SUFFICES ASSUME h \in here.anc PROVE FALSE
    BY <1>8
  <2>1. PICK i \in older : h \in C[i].anc BY <1>3
  <2> QED BY <1>4, <2>1, <1>1 DEF Latest, IsAncestor
<1>10. Common(C, here, C[h], p, C[h].tree[p]) BY <1>6, <1>7, <1>9 DEF StepsTo
<1> HIDE DEF here, older
<1>11. k \in C[h].anc \cap C[m].anc /\ \A d \in C[h].anc \cap C[m].anc : k \in C[d].anc => k = d
  BY DEF MergeBases, Latest, IsAncestor
<1>12. PICK b \in MergeBases(C, here, C[h]) : k \in C[b].anc
  <2>1. k \in here.anc \cap C[h].anc /\ here.anc \cap C[h].anc \subseteq 1 .. Len(C) BY <1>3, <1>8, <1>11
  <2>2. \E b \in Latest(C, here.anc \cap C[h].anc) : k \in C[b].anc
    <3> DEFINE both == here.anc \cap C[h].anc
    <3>1. k \in both /\ both \subseteq 1 .. Len(C) BY <2>1
    <3> HIDE DEF both
    <3>2. \E b \in Latest(C, both) : k \in C[b].anc BY <3>1, LatestAbove DEF Merging
    <3> QED BY <3>2 DEF both
  <2> QED BY <2>2 DEF MergeBases
<1>13. C[b].tree[p] = C[h].tree[p] /\ b \in here.anc /\ b \in C[h].anc
  BY <1>10, <1>12 DEF Common, MergeBases, Latest
<1>14. b \notin C[m].anc BY <1>11, <1>12, <1>13
<1>15. PICK i \in older : b \in C[i].anc BY <1>3, <1>13, <1>14
<1> QED BY <1>4, <1>13, <1>14, <1>15

(* What a merge of heads holds is main's, or what one of them brought.      *)
LEMMA HeadsBring ==
    ASSUME NEW C, Ancestry(C), NEW m \in 1 .. Len(C), NEW heads, heads \subseteq 1 .. Len(C), NEW p \in Path,
           p \notin ReviewedMerge(C, m, heads).lost
    PROVE  LET content == ReviewedMerge(C, m, heads).at.tree[p]
           IN \/ content = C[m].tree[p] /\ GivesWay(C, m, heads, p)
              \/ \E h \in Latest(C, heads) : Brought(C, m, h, p, content)
<1>1. PICK f : /\ ReviewedMerge(C, m, heads) = f[Len(C)]
               /\ f[0] = [at |-> C[m], lost |-> {}]
               /\ \A k \in 1 .. Len(C) : f[k] = TurnOf(C, heads, f[k - 1], k)
  BY MergedInTurn
<1>2. Merging(C, m, heads, f) BY <1>1 DEF Merging
<1>3. Len(C) \in Nat /\ Len(C) \in 0 .. Len(C) BY DEF Ancestry, IsSeq
<1>4. TurnInv(C, m, heads, p, f, Len(C)) BY <1>2, <1>3, EveryTurn
<1>5. CASE \A i \in 0 .. Len(C) : f[i].at.tree[p] = C[m].tree[p] /\ p \notin f[i].lost
  <2>1. GivesWay(C, m, heads, p) BY <1>2, <1>5, GivingWay
  <2> QED BY <1>1, <1>3, <1>5, <2>1
<1>6. CASE \E h \in By(C, heads, Len(C)) : Brought(C, m, h, p, f[Len(C)].at.tree[p])
  BY <1>1, <1>6 DEF By
<1> QED BY <1>1, <1>4, <1>5, <1>6 DEF TurnInv

(* A head that stands alone brings its own.                                 *)
LEMMA AloneBrings ==
    ASSUME NEW C, Ancestry(C), NEW m \in 1 .. Len(C), NEW h \in 1 .. Len(C), NEW p \in Path,
           p \notin ReviewedMerge(C, m, {h}).lost
    PROVE  LET content == ReviewedMerge(C, m, {h}).at.tree[p]
           IN \/ content = C[h].tree[p]
              \/ /\ content = C[m].tree[p]
                 /\ h \in C[m].anc \/ \A k \in MergeBases(C, C[h], C[m]) : C[k].tree[p] = C[h].tree[p]
<1> DEFINE content == ReviewedMerge(C, m, {h}).at.tree[p]
<1>1. \A i \in Latest(C, {h}) : i = h BY DEF Latest
<1>2. {h} \subseteq 1 .. Len(C) OBVIOUS
<1>3. \/ content = C[m].tree[p] /\ GivesWay(C, m, {h}, p)
      \/ \E i \in Latest(C, {h}) : Brought(C, m, i, p, content)
  BY <1>2, HeadsBring
<1>4. h \in Latest(C, {h}) BY DEF Latest
<1> HIDE DEF content
<1>5. CASE \E i \in Latest(C, {h}) : Brought(C, m, i, p, content) BY <1>1, <1>5 DEF Brought, content
<1>6. CASE content = C[m].tree[p] /\ GivesWay(C, m, {h}, p)
  <2>1. SUFFICES ASSUME content # C[h].tree[p], h \notin C[m].anc, NEW k \in MergeBases(C, C[h], C[m]),
                        C[k].tree[p] # C[h].tree[p]
                 PROVE  FALSE
    BY <1>6 DEF content
  <2>2. PICK i \in Latest(C, {h}) : i < h BY <1>4, <1>6, <2>1 DEF GivesWay
  <2>3. i = h BY <1>1
  <2>4. h \in Nat /\ h < h BY <2>2, <2>3, AncestryFacts
  <2> QED BY <2>4
<1> QED BY <1>3, <1>5, <1>6

(* What is known of the reviews a tip is judged by: those whose head it     *)
(* carries begin on main.                                                   *)
CanJudge(C, tp, m, own, others) ==
    /\ Ancestry(C) /\ m \in 1 .. Len(C) /\ tp \in 1 .. Len(C) /\ IsFiniteSet(others)
    /\ own.head \in 1 .. Len(C) /\ own.base \in C[own.head].anc
    /\ own.head \in C[tp].anc \cup C[m].anc => own.base \in C[m].anc
    /\ \A r \in others : r.head \in C[tp].anc => r.base \in C[r.head].anc \cap C[m].anc

Ranged(C, tp, own, others) == {own} \cup {r \in others : r.head \in C[tp].anc}

LEMMA MainIsThere ==
    ASSUME NEW C, Ancestry(C), NEW m \in 1 .. Len(C), NEW h \in 1 .. Len(C)
    PROVE  /\ m \in C[m].anc /\ h \in C[h].anc /\ C[h].anc \subseteq 1 .. Len(C)
           /\ MergeBases(C, C[h], C[m]) # {} /\ MergeBases(C, C[h], C[m]) \subseteq C[m].anc
<1> DEFINE both == C[h].anc \cap C[m].anc
<1>1. 1 \in both /\ both \subseteq 1 .. Len(C) BY AncestryFacts DEF Ancestry
<1>2. MergeBases(C, C[h], C[m]) = Latest(C, both) BY DEF MergeBases
<1>3. Latest(C, both) \subseteq C[m].anc BY DEF Latest
<1> HIDE DEF both
<1>4. Latest(C, both) # {} BY <1>1, LatestAbove
<1> QED BY <1>2, <1>3, <1>4, AncestryFacts

LEMMA RangesAre ==
    ASSUME NEW C, NEW tp, NEW m, NEW own, NEW others, CanJudge(C, tp, m, own, others)
    PROVE  /\ own \in Ranged(C, tp, own, others) /\ IsFiniteSet(Ranged(C, tp, own, others))
           /\ \A b : Judging(C, tp, b, own, others) \subseteq Ranged(C, tp, own, others)
           /\ \A r \in Ranged(C, tp, own, others) :
                 /\ r.head \in 1 .. Len(C) /\ r.base \in 1 .. Len(C) /\ r.base \in C[r.head].anc
                 /\ r = own \/ r.base \in C[m].anc
<1> DEFINE R == Ranged(C, tp, own, others)
<1>1. R \subseteq {own} \cup others BY DEF Ranged
<1>2. IsFiniteSet({own} \cup others) BY FS_Singleton, FS_Union DEF CanJudge
<1>3. IsFiniteSet(R)
  <2> HIDE DEF R
  <2> QED BY <1>1, <1>2, FS_Subset
<1>4. C[tp].anc \subseteq 1 .. Len(C) /\ C[own.head].anc \subseteq 1 .. Len(C) BY AncestryFacts DEF CanJudge
<1>5. ASSUME NEW r \in others, r.head \in C[tp].anc
      PROVE  r.head \in 1 .. Len(C) /\ r.base \in 1 .. Len(C) /\ r.base \in C[r.head].anc /\ r.base \in C[m].anc
  <2>1. r.head \in 1 .. Len(C) BY <1>4, <1>5
  <2>2. C[r.head].anc \subseteq 1 .. Len(C) BY <2>1, AncestryFacts DEF CanJudge
  <2> QED BY <1>5, <2>1, <2>2 DEF CanJudge
<1>6. \A b : Judging(C, tp, b, own, others) \subseteq R BY DEF Judging, Above, Ranged
<1> QED BY <1>3, <1>4, <1>5, <1>6 DEF CanJudge, Ranged

(* The rounds in which ranges come to count whole.                          *)
Started(C, tp, m, own, others, before) ==
    LET ranges == Judging(C, tp, m, own, others)
        first == {r \in ranges : CountsWhole(C, m, Above(C, tp, m), own, r)}
    IN [whole |-> Heads(first), partial |-> before \cup (ranges \ first)]

Rounded(C, m, start, n, f) ==
    f = [k \in 0 .. n |-> IF k = 0 THEN start ELSE Promotion(C, m, f[k - 1])]

LEMMA RoundedExists ==
    ASSUME NEW C, NEW m, NEW start, NEW n \in Nat
    PROVE  \E f : Rounded(C, m, start, n, f)
<1> DEFINE T == {i \in Nat : \E f : Rounded(C, m, start, i, f)}
<1>1. 0 \in T
  <2> DEFINE f == [k \in 0 .. 0 |-> start]
  <2>1. Rounded(C, m, start, 0, f)
    <3>1. \A k \in 0 .. 0 : k = 0 OBVIOUS
    <3> QED BY <3>1 DEF Rounded
  <2> QED BY <2>1
<1>2. ASSUME NEW i \in T PROVE i + 1 \in T
  <2>1. PICK f : Rounded(C, m, start, i, f) OBVIOUS
  <2> DEFINE g == [k \in 0 .. i + 1 |-> IF k \in 0 .. i THEN f[k] ELSE Promotion(C, m, f[i])]
  <2>2. \A k \in 0 .. i : f[k] = IF k = 0 THEN start ELSE Promotion(C, m, f[k - 1]) BY <2>1 DEF Rounded
  <2>3. ASSUME NEW k \in 0 .. i + 1
        PROVE  g[k] = IF k = 0 THEN start ELSE Promotion(C, m, g[k - 1])
    <3>1. CASE k = 0 BY <2>2, <3>1
    <3>2. CASE k \in 0 .. i /\ k # 0
      <4>1. k - 1 \in 0 .. i /\ k - 1 \in 0 .. i + 1 BY <3>2
      <4>2. g[k] = f[k] /\ g[k - 1] = f[k - 1] BY <3>2, <4>1
      <4> QED BY <2>2, <3>2, <4>2
    <3>3. CASE k = i + 1
      <4>1. k \notin 0 .. i /\ k # 0 /\ k - 1 = i /\ i \in 0 .. i /\ i \in 0 .. i + 1 BY <3>3
      <4>2. g[k] = Promotion(C, m, f[i]) /\ g[k - 1] = f[i] BY <4>1
      <4> QED BY <4>1, <4>2
    <3> QED BY <3>1, <3>2, <3>3
  <2>4. Rounded(C, m, start, i + 1, g)
    <3>1. g = [k \in 0 .. i + 1 |-> IF k = 0 THEN start ELSE Promotion(C, m, g[k - 1])]
      <4>1. g = [k \in 0 .. i + 1 |-> g[k]] OBVIOUS
      <4> HIDE DEF g
      <4> QED BY <2>3, <4>1
    <3> HIDE DEF g
    <3> QED BY <3>1 DEF Rounded
  <2> HIDE DEF g
  <2> QED BY <2>4
<1>3. T \subseteq Nat OBVIOUS
<1> HIDE DEF T
<1>4. T = Nat BY <1>1, <1>2, <1>3, Induction
<1> QED BY <1>4 DEF T

LEMMA WeighedInRounds ==
    ASSUME NEW C, NEW tp, NEW m, NEW own, NEW others, NEW before,
           IsFiniteSet(Judging(C, tp, m, own, others) \cup before)
    PROVE  \E n \in Nat : \E f :
              /\ Weighed(C, tp, m, own, others, before) = f[n] /\ f[0] = Started(C, tp, m, own, others, before)
              /\ \A k \in 1 .. n : f[k] = Promotion(C, m, f[k - 1])
<1> DEFINE ranges == Judging(C, tp, m, own, others)
           N == Cardinality(ranges \cup before)
           start == Started(C, tp, m, own, others, before)
           f == CHOOSE g : Rounded(C, m, start, N, g)
<1>1. N \in Nat BY FS_CardinalityType
<1>2. Rounded(C, m, start, N, f) BY <1>1, RoundedExists
<1>3. Weighed(C, tp, m, own, others, before) = f[N] BY DEF Weighed, Rounded, Started
<1>4. 0 \in 0 .. N /\ \A k \in 1 .. N : k \in 0 .. N /\ k # 0 BY <1>1
<1> HIDE DEF f, start, N
<1>5. f[0] = start /\ \A k \in 1 .. N : f[k] = Promotion(C, m, f[k - 1]) BY <1>2, <1>4 DEF Rounded
<1> QED BY <1>1, <1>3, <1>5 DEF start

LEMMA PromotionIs ==
    ASSUME NEW C, NEW m, NEW was
    PROVE  LET next == Promotion(C, m, was)
           IN /\ next.partial \subseteq was.partial /\ was.whole \subseteq next.whole
              /\ \A h \in next.whole \ was.whole :
                    \E r \in was.partial : r.head = h /\ Promotes(C, m, was.whole, r)
BY DEF Promotion, Heads

(* A content a review saw come, or go, in its range (Saw, Undid).           *)
InRange(C, r) == {r.base} \cup (C[r.head].anc \ C[r.base].anc)
SawCome(C, r, p, content) == C[r.head].tree[p] = content /\ \E c \in InRange(C, r) : C[c].tree[p] # content
SawGo(C, r, p, content) == C[r.head].tree[p] # content /\ \E c \in InRange(C, r) : C[c].tree[p] = content

OnMain(C, m, p, content) == \E c \in C[m].anc : C[c].tree[p] = content

(* A content main never held comes by a range that saw it come, whatever    *)
(* counts whole where the tip met main and however it came to.              *)
CameBy(C, R, p, content) == \E r \in R : SawCome(C, r, p, content)

LEMMA PromotedSeen ==
    ASSUME NEW C, NEW tp, NEW m, NEW own, NEW others, CanJudge(C, tp, m, own, others),
           NEW b \in C[m].anc, NEW p \in Path, NEW content, ~OnMain(C, m, p, content),
           NEW whole, whole \subseteq 1 .. Len(C),
           \A h \in whole : C[h].tree[p] = content => CameBy(C, Ranged(C, tp, own, others), p, content),
           NEW r \in Ranged(C, tp, own, others), Promotes(C, b, whole, r), C[r.head].tree[p] = content
    PROVE  CameBy(C, Ranged(C, tp, own, others), p, content)
<1>1. r.head \in 1 .. Len(C) /\ r.base \in 1 .. Len(C) BY RangesAre
<1>2. CASE C[r.base].tree[p] # content BY <1>2 DEF CameBy, SawCome, InRange
<1>3. CASE C[r.base].tree[p] = content
  <2> DEFINE inside == {w \in whole : IsAncestor(C, w, r.base)}
  <2>1. PICK k \in MergeBases(C, C[r.base], C[b]) :
           Changed(ReviewedMerge(C, k, inside).at, C[r.base]) \cup ReviewedMerge(C, k, inside).lost = {}
    BY DEF Promotes
  <2>2. inside \subseteq 1 .. Len(C) /\ inside \subseteq whole OBVIOUS
  <2> HIDE DEF inside
  <2>3. k \in C[m].anc /\ k \in 1 .. Len(C)
    <3>1. b \in 1 .. Len(C) /\ C[b].anc \subseteq C[m].anc /\ C[m].anc \subseteq 1 .. Len(C)
      BY AncestryFacts DEF CanJudge, Ancestry
    <3>2. k \in C[b].anc BY <1>1, <3>1, MainIsThere DEF CanJudge
    <3> QED BY <3>1, <3>2
  <2>4. C[k].tree[p] # content BY <2>3 DEF OnMain
  <2>5. p \notin ReviewedMerge(C, k, inside).lost /\ ReviewedMerge(C, k, inside).at.tree[p] = content
    BY <1>3, <2>1 DEF Changed
  <2>6. PICK h \in Latest(C, inside) : Brought(C, k, h, p, content)
    BY <2>2, <2>3, <2>4, <2>5, HeadsBring DEF CanJudge
  <2>7. h \in whole /\ C[h].tree[p] = content BY <2>2, <2>6 DEF Latest, Brought
  <2> QED BY <2>7
<1> QED BY <1>2, <1>3

LEMMA WeighedSeen ==
    ASSUME NEW C, NEW tp, NEW m, NEW own, NEW others, CanJudge(C, tp, m, own, others),
           NEW b \in C[m].anc, NEW p \in Path, NEW content, ~OnMain(C, m, p, content),
           NEW before, before \subseteq Ranged(C, tp, own, others)
    PROVE  LET here == Weighed(C, tp, b, own, others, before)
           IN /\ here.partial \subseteq Ranged(C, tp, own, others) /\ here.whole \subseteq 1 .. Len(C)
              /\ \A h \in here.whole : C[h].tree[p] = content => CameBy(C, Ranged(C, tp, own, others), p, content)
<1> DEFINE R == Ranged(C, tp, own, others)
           ranges == Judging(C, tp, b, own, others)
           Good(x) == /\ x.partial \subseteq R /\ x.whole \subseteq 1 .. Len(C)
                      /\ \A h \in x.whole : C[h].tree[p] = content => CameBy(C, R, p, content)
<1>1. /\ ranges \subseteq R /\ IsFiniteSet(R) /\ own \in R
      /\ \A r \in R : r.head \in 1 .. Len(C) /\ (r = own \/ r.base \in C[m].anc)
  BY RangesAre
<1>2. b \in 1 .. Len(C) /\ C[b].anc \subseteq C[m].anc
  <2>1. C[m].anc \subseteq 1 .. Len(C) BY AncestryFacts DEF CanJudge
  <2> QED BY <2>1 DEF CanJudge, Ancestry
<1> HIDE DEF R, ranges
<1>3. IsFiniteSet(ranges \cup before)
  <2>1. ranges \cup before \subseteq R BY <1>1 DEF R
  <2> QED BY <1>1, <2>1, FS_Subset
<1>0. PICK n \in Nat : \E f :
         /\ Weighed(C, tp, b, own, others, before) = f[n] /\ f[0] = Started(C, tp, b, own, others, before)
         /\ \A k \in 1 .. n : f[k] = Promotion(C, b, f[k - 1])
  BY <1>3, WeighedInRounds DEF ranges
<1>4. PICK f : /\ Weighed(C, tp, b, own, others, before) = f[n]
               /\ f[0] = Started(C, tp, b, own, others, before)
               /\ \A k \in 1 .. n : f[k] = Promotion(C, b, f[k - 1])
  BY <1>0
<1>5. Good(f[0])
  <2> DEFINE first == {r \in ranges : CountsWhole(C, b, Above(C, tp, b), own, r)}
  <2>1. f[0].whole = Heads(first) /\ f[0].partial = before \cup (ranges \ first) BY <1>4 DEF Started, ranges
  <2>2. ASSUME NEW r \in first, C[r.head].tree[p] = content PROVE CameBy(C, R, p, content)
    <3>1. r \in R /\ CountsWhole(C, b, Above(C, tp, b), own, r) BY <1>1
    <3>2. r.base \in C[m].anc
      BY <1>1, <1>2, <3>1 DEF CountsWhole, IsAncestor, Above, CanJudge
    <3>3. C[r.base].tree[p] # content BY <3>2 DEF OnMain
    <3> QED BY <2>2, <3>1, <3>3 DEF CameBy, SawCome, InRange
  <2>3. first \subseteq R BY <1>1
  <2> HIDE DEF first
  <2>4. f[0].partial \subseteq R BY <1>1, <2>1 DEF R
  <2>5. f[0].whole \subseteq 1 .. Len(C) BY <1>1, <2>1, <2>3 DEF Heads
  <2>6. ASSUME NEW h \in f[0].whole, C[h].tree[p] = content PROVE CameBy(C, R, p, content)
    <3>1. PICK r \in first : r.head = h BY <2>1, <2>6 DEF Heads
    <3> QED BY <2>2, <2>6, <3>1
  <2> QED BY <2>4, <2>5, <2>6
<1>6. ASSUME NEW k \in Nat, k + 1 <= n, Good(f[k]) PROVE Good(f[k + 1])
  <2> DEFINE was == f[k]
             next == f[k + 1]
  <2>1. k + 1 \in 1 .. n /\ (k + 1) - 1 = k BY <1>6
  <2>2. next = Promotion(C, b, was) BY <1>4, <2>1
  <2> HIDE DEF was, next
  <2>3. /\ next.partial \subseteq was.partial /\ was.whole \subseteq next.whole
        /\ \A h \in next.whole \ was.whole : \E r \in was.partial : r.head = h /\ Promotes(C, b, was.whole, r)
    BY <2>2, PromotionIs
  <2>4. was.partial \subseteq R /\ was.whole \subseteq 1 .. Len(C)
        /\ \A h \in was.whole : C[h].tree[p] = content => CameBy(C, R, p, content)
    BY <1>6 DEF was
  <2>5. next.whole \subseteq 1 .. Len(C) BY <1>1, <2>3, <2>4
  <2>6. ASSUME NEW h \in next.whole, C[h].tree[p] = content PROVE CameBy(C, R, p, content)
    <3>1. CASE h \in was.whole BY <2>4, <2>6, <3>1
    <3>2. CASE h \notin was.whole
      <4>1. PICK r \in R : r.head = h /\ Promotes(C, b, was.whole, r) BY <2>3, <2>4, <3>2
      <4> QED BY <2>4, <2>6, <4>1, PromotedSeen DEF R
    <3> QED BY <3>1, <3>2
  <2>7. next.partial \subseteq R BY <2>3, <2>4
  <2> QED BY <2>5, <2>6, <2>7 DEF next
<1>7. Good(f[n])
  <2> DEFINE T == {k \in Nat : k <= n => Good(f[k])}
  <2>1. 0 \in T BY <1>5
  <2>2. ASSUME NEW k \in T PROVE k + 1 \in T
    <3> HIDE DEF Good
    <3>1. SUFFICES ASSUME k + 1 <= n PROVE Good(f[k + 1])
      OBVIOUS
    <3>2. k <= n BY <3>1
    <3> QED BY <1>6, <3>1, <3>2
  <2>3. T \subseteq Nat OBVIOUS
  <2> HIDE DEF T, Good
  <2>4. T = Nat BY <2>1, <2>2, <2>3, Induction
  <2>5. n \in T /\ n <= n BY <2>4
  <2> QED BY <2>5 DEF T
<1> QED BY <1>4, <1>7 DEF R

(* Where a tip met main once, those whose head it adds over that commit     *)
(* begin there or beneath; main now gives way to that commit.               *)
Judges(C, tp, m, own, others) ==
    /\ Ancestry(C) /\ m \in 1 .. Len(C) /\ tp \in 1 .. Len(C) /\ IsFiniteSet(others)
    /\ own.head \in 1 .. Len(C) /\ own.base \in C[own.head].anc
    /\ own.head \in Above(C, tp, m) \cup C[m].anc => own.base \in C[m].anc
    /\ \A r \in others : r.head \in Above(C, tp, m) => r.base \in C[r.head].anc \cap C[m].anc

BeginsOnMain(C, m, r) == r.base \in C[r.head].anc \cap C[m].anc

(* The judged work's own range, rebased away with a base above main, counts *)
(* whole where that base is what main and the whole ranges beneath it hold. *)
RestsOn(C, m, own, inside) ==
    \E k \in MergeBases(C, C[own.base], C[m]) :
        LET below == ReviewedMerge(C, k, inside)
        IN Changed(below.at, C[own.base]) \cup below.lost = {}

Added(C, tp, m, others) == {r \in others : r.head \in Above(C, tp, m)}

Rests(C, tp, m, own, others) ==
    /\ own.base \notin C[m].anc
    /\ \E inside : /\ \A i \in inside : \E r \in Added(C, tp, m, others) : r.head = i
                   /\ RestsOn(C, m, own, inside)

LEMMA MetOnce ==
    ASSUME NEW C, NEW tp, NEW m, NEW own, NEW others, CanJudge(C, tp, m, own, others),
           NEW b, Meetings(C, tp, m) = {b}
    PROVE  /\ Judges(C, tp, b, own, others) /\ b \in C[m].anc /\ C[b].anc \subseteq C[m].anc
           /\ C[tp].anc \cap C[m].anc \subseteq C[b].anc
<1> DEFINE both == C[tp].anc \cap C[m].anc
<1>1. /\ Ancestry(C) /\ m \in 1 .. Len(C) /\ tp \in 1 .. Len(C)
      /\ C[m].anc \subseteq 1 .. Len(C) /\ C[tp].anc \subseteq 1 .. Len(C)
  BY AncestryFacts DEF CanJudge
<1>2. Latest(C, both) = {b} BY DEF Meetings, MergeBases
<1>3. b \in both BY <1>2 DEF Latest
<1>4. b \in 1 .. Len(C) /\ C[b].anc \subseteq C[m].anc /\ C[b].anc \subseteq C[tp].anc BY <1>1, <1>3 DEF Ancestry
<1>5. both \subseteq C[b].anc
  <2> SUFFICES ASSUME NEW c \in both PROVE c \in C[b].anc
    OBVIOUS
  <2>1. both \subseteq 1 .. Len(C) BY <1>1
  <2> HIDE DEF both
  <2>2. \E d \in Latest(C, both) : c \in C[d].anc BY <1>1, <2>1, LatestAbove
  <2> QED BY <1>2, <2>2
<1>6. own.head \in C[tp].anc \cup C[b].anc => own.base \in C[b].anc
  <2>0. own.head \in 1 .. Len(C) /\ own.base \in C[own.head].anc BY DEF CanJudge
  <2>1. CASE own.head \in C[b].anc
    <3>1. C[own.head].anc \subseteq C[b].anc BY <1>1, <1>4, <2>1 DEF Ancestry
    <3> QED BY <2>0, <3>1
  <2>2. CASE own.head \in C[tp].anc
    <3>1. C[own.head].anc \subseteq C[tp].anc BY <1>1, <2>2 DEF Ancestry
    <3>2. own.base \in C[m].anc BY <2>2 DEF CanJudge
    <3> QED BY <1>5, <2>0, <3>1, <3>2
  <2> QED BY <2>1, <2>2
<1>7. ASSUME NEW r \in others, r.head \in C[tp].anc PROVE r.base \in C[r.head].anc \cap C[b].anc
  <2>1. r.base \in C[r.head].anc \cap C[m].anc BY <1>7 DEF CanJudge
  <2>2. C[r.head].anc \subseteq C[tp].anc BY <1>1, <1>7 DEF Ancestry
  <2> QED BY <1>5, <2>1, <2>2
<1>8. Judges(C, tp, b, own, others) BY <1>1, <1>4, <1>6, <1>7 DEF Judges, CanJudge, Above
<1> QED BY <1>3, <1>4, <1>5, <1>8

LEMMA WeighedIs ==
    ASSUME NEW C, NEW tp, NEW m, NEW own, NEW others, Judges(C, tp, m, own, others)
    PROVE  LET ranges == Judging(C, tp, m, own, others)
               here == Weighed(C, tp, m, own, others, {})
           IN /\ here.whole \subseteq 1 .. Len(C) /\ here.partial \subseteq {own}
              /\ \A h \in here.whole : \/ \E r \in ranges : r.head = h /\ BeginsOnMain(C, m, r)
                                       \/ h = own.head /\ Rests(C, tp, m, own, others)
<1> DEFINE ranges == Judging(C, tp, m, own, others)
           above == Above(C, tp, m)
           first == {r \in ranges : CountsWhole(C, m, above, own, r)}
           BeginsAt(h) == \E r \in ranges : r.head = h /\ BeginsOnMain(C, m, r)
           Good(x) == /\ x.whole \subseteq 1 .. Len(C) /\ x.partial \subseteq {own}
                      /\ x.partial # {} => ~BeginsOnMain(C, m, own)
                      /\ \A h \in x.whole : BeginsAt(h) \/ (h = own.head /\ Rests(C, tp, m, own, others))
<1>1. above \subseteq 1 .. Len(C) /\ Ancestry(C) BY AncestryFacts DEF Judges, Above
<1>2. \A r \in ranges : r = own \/ (r \in Added(C, tp, m, others) /\ r.head # own.head)
  BY DEF Judging, Added
<1>3. \A r \in ranges : r.head \in 1 .. Len(C) BY <1>1, <1>2 DEF Judges, Added
<1>4. IsFiniteSet(ranges \cup {})
  <2>1. ranges \subseteq {own} \cup others BY DEF Judging
  <2>2. IsFiniteSet({own} \cup others) BY FS_Singleton, FS_Union DEF Judges
  <2> HIDE DEF ranges
  <2>3. IsFiniteSet(ranges) BY <2>1, <2>2, FS_Subset
  <2>4. ranges \cup {} = ranges OBVIOUS
  <2> QED BY <2>3, <2>4
<1>5. ASSUME NEW r \in ranges PROVE CountsWhole(C, m, above, own, r) <=> BeginsOnMain(C, m, r)
  <2>1. CASE r = own BY <2>1 DEF CountsWhole, BeginsOnMain, IsAncestor, Judges
  <2>2. CASE r # own BY <1>2, <2>2 DEF CountsWhole, BeginsOnMain, IsAncestor, Judges, Added
  <2> QED BY <2>1, <2>2
<1>6. \A r \in ranges : r # own => BeginsOnMain(C, m, r) BY <1>2 DEF BeginsOnMain, Judges, Added
<1>0. PICK n \in Nat : \E f :
         /\ Weighed(C, tp, m, own, others, {}) = f[n] /\ f[0] = Started(C, tp, m, own, others, {})
         /\ \A k \in 1 .. n : f[k] = Promotion(C, m, f[k - 1])
  BY <1>4, WeighedInRounds
<1>7. PICK f : /\ Weighed(C, tp, m, own, others, {}) = f[n]
               /\ f[0] = Started(C, tp, m, own, others, {})
               /\ \A k \in 1 .. n : f[k] = Promotion(C, m, f[k - 1])
  BY <1>0
<1>8. Good(f[0])
  <2>1. f[0].whole = Heads(first) /\ f[0].partial = ranges \ first BY <1>7 DEF Started
  <2>2. \A r \in ranges : r \in first <=> BeginsOnMain(C, m, r) BY <1>5
  <2> HIDE DEF first, ranges
  <2>3. \A h \in f[0].whole : \E r \in first : r.head = h BY <2>1 DEF Heads
  <2>4. first \subseteq ranges BY DEF first
  <2>5. f[0].whole \subseteq 1 .. Len(C) /\ \A h \in f[0].whole : BeginsAt(h) BY <1>3, <2>2, <2>3, <2>4
  <2>6. f[0].partial \subseteq {own} /\ (f[0].partial # {} => ~BeginsOnMain(C, m, own)) BY <1>6, <2>1, <2>2
  <2> QED BY <2>5, <2>6
<1> HIDE DEF first, ranges
<1>9. ASSUME NEW k \in Nat, k + 1 <= n, Good(f[k]) PROVE Good(f[k + 1])
  <2> DEFINE was == f[k]
             next == f[k + 1]
  <2>1. k + 1 \in 1 .. n /\ (k + 1) - 1 = k BY <1>9
  <2>2. next = Promotion(C, m, was) BY <1>7, <2>1
  <2>3. /\ was.whole \subseteq 1 .. Len(C) /\ was.partial \subseteq {own}
        /\ was.partial # {} => ~BeginsOnMain(C, m, own)
        /\ \A h \in was.whole : BeginsAt(h) \/ (h = own.head /\ Rests(C, tp, m, own, others))
    BY <1>9
  <2> HIDE DEF was, next
  <2>4. /\ next.partial \subseteq was.partial /\ was.whole \subseteq next.whole
        /\ \A h \in next.whole \ was.whole : \E r \in was.partial : r.head = h /\ Promotes(C, m, was.whole, r)
    BY <2>2, PromotionIs
  <2>5. ASSUME NEW h \in next.whole \ was.whole
        PROVE  h = own.head /\ Rests(C, tp, m, own, others)
    <3>1. own.head = h /\ Promotes(C, m, was.whole, own) /\ ~BeginsOnMain(C, m, own) BY <2>3, <2>4
    <3> DEFINE inside == {w \in was.whole : IsAncestor(C, w, own.base)}
    <3>2. RestsOn(C, m, own, inside) BY <3>1 DEF Promotes, RestsOn
    <3>3. ASSUME NEW i \in inside PROVE \E s \in Added(C, tp, m, others) : s.head = i
      <4>1. i \in was.whole /\ i # own.head BY <2>5, <3>1
      <4>2. PICK r \in ranges : r.head = i BY <2>3, <4>1
      <4> QED BY <1>2, <4>1, <4>2
    <3>4. own.base \notin C[m].anc BY <3>1 DEF BeginsOnMain, Judges
    <3> HIDE DEF inside
    <3> QED BY <3>1, <3>2, <3>3, <3>4 DEF Rests
  <2>6. own.head \in 1 .. Len(C) BY DEF Judges
  <2>7. next.whole \subseteq 1 .. Len(C) BY <2>3, <2>5, <2>6
  <2>8. \A h \in next.whole : BeginsAt(h) \/ (h = own.head /\ Rests(C, tp, m, own, others)) BY <2>3, <2>5
  <2>9. next.partial \subseteq {own} /\ (next.partial # {} => ~BeginsOnMain(C, m, own)) BY <2>3, <2>4
  <2> QED BY <2>7, <2>8, <2>9 DEF next
<1>10. Good(f[n])
  <2> DEFINE T == {k \in Nat : k <= n => Good(f[k])}
  <2>1. 0 \in T BY <1>8
  <2>2. ASSUME NEW k \in T PROVE k + 1 \in T
    <3> HIDE DEF Good
    <3>1. SUFFICES ASSUME k + 1 <= n PROVE Good(f[k + 1])
      OBVIOUS
    <3>2. k <= n BY <3>1
    <3> QED BY <1>9, <3>1, <3>2
  <2>3. T \subseteq Nat OBVIOUS
  <2> HIDE DEF T, Good
  <2>4. T = Nat BY <2>1, <2>2, <2>3, Induction
  <2>5. n \in T /\ n <= n BY <2>4
  <2> QED BY <2>5 DEF T
<1> QED BY <1>7, <1>10 DEF ranges

(* The commits where the tip met main, in turn.                             *)
OverStep(C, tp, m, own, others, was, k) ==
    IF Len(C) + 1 - k \in Meetings(C, tp, m) THEN AtMeeting(C, tp, Len(C) + 1 - k, own, others, was) ELSE was

NothingYet == [matched |-> {}, partial |-> {}]

TakenOver(C, tp, m, own, others, n, f) ==
    f = [k \in 0 .. n |-> IF k = 0 THEN NothingYet
                          ELSE IF Len(C) + 1 - k \in Meetings(C, tp, m)
                          THEN AtMeeting(C, tp, Len(C) + 1 - k, own, others, f[k - 1])
                          ELSE f[k - 1]]

LEMMA TakenOverExists ==
    ASSUME NEW C, NEW tp, NEW m, NEW own, NEW others, NEW n \in Nat
    PROVE  \E f : TakenOver(C, tp, m, own, others, n, f)
<1> DEFINE T == {i \in Nat : \E f : TakenOver(C, tp, m, own, others, i, f)}
           OverHere(was, k) == OverStep(C, tp, m, own, others, was, k)
<1>1. 0 \in T
  <2> DEFINE f == [k \in 0 .. 0 |-> NothingYet]
  <2>1. TakenOver(C, tp, m, own, others, 0, f)
    <3>1. \A k \in 0 .. 0 : k = 0 OBVIOUS
    <3> QED BY <3>1 DEF TakenOver
  <2> QED BY <2>1
<1>2. ASSUME NEW i \in T PROVE i + 1 \in T
  <2>1. PICK f : TakenOver(C, tp, m, own, others, i, f) OBVIOUS
  <2> DEFINE g == [k \in 0 .. i + 1 |-> IF k \in 0 .. i THEN f[k] ELSE OverHere(f[i], k)]
  <2>2. \A k \in 0 .. i : f[k] = IF k = 0 THEN NothingYet ELSE OverHere(f[k - 1], k)
    BY <2>1 DEF TakenOver, OverStep
  <2> HIDE DEF OverHere
  <2>3. ASSUME NEW k \in 0 .. i + 1
        PROVE  g[k] = IF k = 0 THEN NothingYet ELSE OverHere(g[k - 1], k)
    <3>1. CASE k = 0 BY <2>2, <3>1
    <3>2. CASE k \in 0 .. i /\ k # 0
      <4>1. k - 1 \in 0 .. i /\ k - 1 \in 0 .. i + 1 BY <3>2
      <4>2. g[k] = f[k] /\ g[k - 1] = f[k - 1] BY <3>2, <4>1
      <4> QED BY <2>2, <3>2, <4>2
    <3>3. CASE k = i + 1
      <4>1. k \notin 0 .. i /\ k # 0 /\ k - 1 = i /\ i \in 0 .. i /\ i \in 0 .. i + 1 BY <3>3
      <4>2. g[k] = OverHere(f[i], k) /\ g[k - 1] = f[i] BY <4>1
      <4> QED BY <4>1, <4>2
    <3> QED BY <3>1, <3>2, <3>3
  <2>4. TakenOver(C, tp, m, own, others, i + 1, g)
    <3>1. g = [k \in 0 .. i + 1 |-> IF k = 0 THEN NothingYet ELSE OverHere(g[k - 1], k)]
      <4>1. g = [k \in 0 .. i + 1 |-> g[k]] OBVIOUS
      <4> HIDE DEF g
      <4> QED BY <2>3, <4>1
    <3> HIDE DEF g
    <3> QED BY <3>1 DEF TakenOver, OverHere, OverStep
  <2> HIDE DEF g
  <2> QED BY <2>4
<1>3. T \subseteq Nat OBVIOUS
<1> HIDE DEF T
<1>4. T = Nat BY <1>1, <1>2, <1>3, Induction
<1> QED BY <1>4 DEF T

LEMMA OverInTurns ==
    ASSUME NEW C, Ancestry(C), NEW tp, NEW m, NEW own, NEW others
    PROVE  \E f : /\ OverMeetings(C, tp, m, own, others) = f[Len(C)] /\ f[0] = NothingYet
                  /\ \A k \in 1 .. Len(C) : f[k] = OverStep(C, tp, m, own, others, f[k - 1], k)
<1> DEFINE N == Len(C)
           f == CHOOSE g : TakenOver(C, tp, m, own, others, N, g)
<1>1. N \in Nat BY DEF Ancestry, IsSeq
<1>2. TakenOver(C, tp, m, own, others, N, f) BY <1>1, TakenOverExists
<1>3. OverMeetings(C, tp, m, own, others) = f[N] BY DEF OverMeetings, TakenOver, NothingYet
<1> HIDE DEF f
<1>4. f[0] = NothingYet BY <1>1, <1>2 DEF TakenOver
<1>5. ASSUME NEW k \in 1 .. N PROVE f[k] = OverStep(C, tp, m, own, others, f[k - 1], k)
  <2>1. k \in 0 .. N /\ k # 0 BY <1>1
  <2> QED BY <1>2, <2>1 DEF TakenOver, OverStep
<1> QED BY <1>3, <1>4, <1>5 DEF N

(* A path with nothing unreviewed holds what the whole reviews merge to, or *)
(* what a partial range that changed it brings.                             *)
Matches(C, tp, m, own, whole, p) ==
    LET state == ReviewedMerge(C, m, whole)
    IN /\ p \notin state.lost /\ state.at.tree[p] = C[tp].tree[p]
       /\ own.head \in whole \/ C[own.base].tree[p] = C[own.head].tree[p]

Vouched(C, tp, m, r, p) ==
    /\ C[r.base].tree[p] # C[r.head].tree[p]
    /\ p \notin ReviewedMerge(C, m, {r.head}).lost
    /\ ReviewedMerge(C, m, {r.head}).at.tree[p] = C[tp].tree[p]

LEMMA MatchedIs ==
    ASSUME NEW C, NEW tp, NEW m, NEW own, NEW whole, NEW p \in Path
    PROVE  p \in Matched(C, tp, m, whole, own) <=> Matches(C, tp, m, own, whole, p)
<1> DEFINE state == ReviewedMerge(C, m, whole)
<1>1. Matched(C, tp, m, whole, own) = Path \ (Changed(state.at, C[tp]) \cup state.lost \cup Undone(C, whole, own))
  BY DEF Matched
<1>2. Matches(C, tp, m, own, whole, p) <=>
        /\ p \notin state.lost /\ state.at.tree[p] = C[tp].tree[p]
        /\ own.head \in whole \/ C[own.base].tree[p] = C[own.head].tree[p]
  BY DEF Matches
<1> HIDE DEF state
<1> QED BY <1>1, <1>2 DEF Changed, Undone

LEMMA VouchedIs ==
    ASSUME NEW C, NEW tp, NEW m, NEW r, NEW p \in Path
    PROVE  Vouches(C, tp, m, r, p) <=> Vouched(C, tp, m, r, p)
<1> DEFINE alone == ReviewedMerge(C, m, {r.head})
<1>1. Vouches(C, tp, m, r, p) <=> p \in Changed(C[r.base], C[r.head]) \ alone.lost /\ alone.at.tree[p] = C[tp].tree[p]
  BY DEF Vouches
<1>2. Vouched(C, tp, m, r, p) <=>
        C[r.base].tree[p] # C[r.head].tree[p] /\ p \notin alone.lost /\ alone.at.tree[p] = C[tp].tree[p]
  BY DEF Vouched
<1> HIDE DEF alone
<1> QED BY <1>1, <1>2 DEF Changed

ReviewedThere(C, tp, m, own, others, p) ==
    LET here == Weighed(C, tp, m, own, others, {})
    IN Matches(C, tp, m, own, here.whole, p) \/ \E r \in here.partial : Vouched(C, tp, m, r, p)

LEMMA ReviewedOnce ==
    ASSUME NEW C, NEW tp, NEW m, NEW own, NEW others, CanJudge(C, tp, m, own, others),
           UnreviewedAt(C, tp, m, own, others) = {}, NEW b, Meetings(C, tp, m) = {b}, NEW p \in Path
    PROVE  ReviewedThere(C, tp, b, own, others, p)
<1> DEFINE over == OverMeetings(C, tp, m, own, others)
           N == Len(C)
           t == N + 1 - b
           here == Weighed(C, tp, b, own, others, {})
           reached == [matched |-> Matched(C, tp, b, here.whole, own), partial |-> here.partial]
<1>1. N \in Nat /\ b \in 1 .. N
  <2>1. b \in C[m].anc /\ Ancestry(C) BY MetOnce DEF CanJudge
  <2> QED BY <2>1, AncestryFacts DEF CanJudge, Ancestry, IsSeq
<1>2. PICK f : /\ over = f[N] /\ f[0] = NothingYet
               /\ \A k \in 1 .. N : f[k] = OverStep(C, tp, m, own, others, f[k - 1], k)
  BY OverInTurns DEF CanJudge
<1>3. t \in 1 .. N /\ \A k \in 1 .. N : N + 1 - k \in {b} <=> k = t BY <1>1
<1>4. AtMeeting(C, tp, b, own, others, NothingYet) = reached
  <2>1. {} \cup Matched(C, tp, b, here.whole, own) = Matched(C, tp, b, here.whole, own) OBVIOUS
  <2> QED BY <2>1 DEF AtMeeting, NothingYet
<1> HIDE DEF over, reached
<1>5. \A k \in 1 .. N : f[k] = IF k = t THEN AtMeeting(C, tp, b, own, others, f[k - 1]) ELSE f[k - 1]
  <2> SUFFICES ASSUME NEW k \in 1 .. N
               PROVE  f[k] = IF k = t THEN AtMeeting(C, tp, b, own, others, f[k - 1]) ELSE f[k - 1]
    OBVIOUS
  <2>1. f[k] = IF N + 1 - k \in Meetings(C, tp, m) THEN AtMeeting(C, tp, N + 1 - k, own, others, f[k - 1]) ELSE f[k - 1]
    BY <1>2 DEF OverStep
  <2>2. k = t => N + 1 - k = b BY <1>1
  <2> QED BY <1>3, <2>1, <2>2
<1> HIDE DEF t, N
<1>6. N \in Nat /\ t \in 1 .. N BY <1>1, <1>3
<1> DEFINE T == {k \in Nat : k <= N => f[k] = IF k < t THEN NothingYet ELSE reached}
<1>7. T = Nat
  <2>1. 0 \in T BY <1>2, <1>6
  <2>2. ASSUME NEW k \in T PROVE k + 1 \in T
    <3>1. SUFFICES ASSUME k + 1 <= N PROVE f[k + 1] = IF k + 1 < t THEN NothingYet ELSE reached
      OBVIOUS
    <3>2. k \in Nat /\ k + 1 \in 1 .. N /\ (k + 1) - 1 = k /\ k <= N BY <1>6, <3>1
    <3>3. f[k] = IF k < t THEN NothingYet ELSE reached BY <3>2
    <3>4. f[k + 1] = IF k + 1 = t THEN AtMeeting(C, tp, b, own, others, f[k]) ELSE f[k] BY <1>5, <3>2
    <3> QED BY <1>4, <1>6, <3>2, <3>3, <3>4
  <2>3. T \subseteq Nat OBVIOUS
  <2> HIDE DEF T
  <2> QED BY <2>1, <2>2, <2>3, Induction
<1>8. over = reached
  <2>1. N \in T /\ N <= N /\ ~(N < t) BY <1>6, <1>7
  <2> QED BY <1>2, <2>1
<1>9. UnreviewedAt(C, tp, m, own, others) =
        {q \in Path \ over.matched : ~\E r \in over.partial, met \in {b} : Vouches(C, tp, met, r, q)}
  BY DEF UnreviewedAt, Unmatched, over
<1>10. over.matched = Matched(C, tp, b, here.whole, own) /\ over.partial = here.partial BY <1>8 DEF reached
<1> HIDE DEF here
<1>11. p \in Matched(C, tp, b, here.whole, own) \/ \E r \in here.partial : Vouches(C, tp, b, r, p) BY <1>9, <1>10
<1> QED BY <1>11, MatchedIs, VouchedIs DEF ReviewedThere, here

(* Wherever and however often a tip met main: what main never held and is   *)
(* not unreviewed a review saw come.                                        *)
LEMMA NewIsSeen ==
    ASSUME NEW C, NEW tp, NEW m, NEW own, NEW others, CanJudge(C, tp, m, own, others),
           UnreviewedAt(C, tp, m, own, others) = {}, NEW p \in Path, ~OnMain(C, m, p, C[tp].tree[p])
    PROVE  CameBy(C, Ranged(C, tp, own, others), p, C[tp].tree[p])
<1> DEFINE over == OverMeetings(C, tp, m, own, others)
           N == Len(C)
           R == Ranged(C, tp, own, others)
           content == C[tp].tree[p]
           Good(x) == x.partial \subseteq R /\ (p \in x.matched => CameBy(C, R, p, content))
<1>0. Ancestry(C) /\ N \in Nat /\ m \in 1 .. Len(C) BY DEF CanJudge, Ancestry, IsSeq
<1> HIDE DEF content, R
<1>00. ~OnMain(C, m, p, content) BY DEF content
<1>1. PICK f : /\ over = f[N] /\ f[0] = NothingYet
               /\ \A k \in 1 .. N : f[k] = OverStep(C, tp, m, own, others, f[k - 1], k)
  BY <1>0, OverInTurns
<1>2. \A b \in Meetings(C, tp, m) : b \in C[m].anc /\ b \in 1 .. Len(C)
  <2>1. C[m].anc \subseteq 1 .. Len(C) BY <1>0, AncestryFacts
  <2> QED BY <2>1 DEF Meetings, MergeBases, Latest
<1>3. ASSUME NEW b \in Meetings(C, tp, m), NEW was, Good(was)
      PROVE  Good(AtMeeting(C, tp, b, own, others, was))
  <2> DEFINE here == Weighed(C, tp, b, own, others, was.partial)
             next == AtMeeting(C, tp, b, own, others, was)
  <2>1. next.matched = was.matched \cup Matched(C, tp, b, here.whole, own) /\ next.partial = here.partial
    BY DEF AtMeeting
  <2> HIDE DEF here, next
  <2>2. was.partial \subseteq R /\ b \in C[m].anc BY <1>2, <1>3
  <2>3. /\ here.partial \subseteq R /\ here.whole \subseteq 1 .. Len(C)
        /\ \A h \in here.whole : C[h].tree[p] = content => CameBy(C, R, p, content)
    BY <1>00, <2>2, WeighedSeen DEF here, R
  <2>4. ASSUME p \in Matched(C, tp, b, here.whole, own) PROVE CameBy(C, R, p, content)
    <3>1. p \notin ReviewedMerge(C, b, here.whole).lost /\ ReviewedMerge(C, b, here.whole).at.tree[p] = content
      BY <2>4, MatchedIs DEF Matches, content
    <3>2. C[b].tree[p] # content BY <1>00, <2>2 DEF OnMain
    <3>3. b \in 1 .. Len(C) BY <1>2
    <3>4. PICK h \in Latest(C, here.whole) : Brought(C, b, h, p, content) BY <1>0, <2>3, <3>1, <3>2, <3>3, HeadsBring
    <3> QED BY <2>3, <3>4 DEF Latest, Brought
  <2>5. Good(next) BY <1>3, <2>1, <2>3, <2>4
  <2> QED BY <2>5 DEF next
<1>4. Good(f[0]) BY <1>1 DEF NothingYet
<1> DEFINE T == {k \in Nat : k <= N => Good(f[k])}
<1> HIDE DEF N
<1>5. T = Nat
  <2>1. 0 \in T BY <1>4
  <2>2. ASSUME NEW k \in T PROVE k + 1 \in T
    <3> HIDE DEF Good
    <3>1. SUFFICES ASSUME k + 1 <= N PROVE Good(f[k + 1])
      OBVIOUS
    <3>2. k \in Nat /\ k + 1 \in 1 .. N /\ (k + 1) - 1 = k /\ k <= N BY <1>0, <3>1
    <3>3. Good(f[k]) /\ f[k + 1] = OverStep(C, tp, m, own, others, f[k], k + 1) BY <1>1, <3>2
    <3> QED BY <1>3, <3>3 DEF OverStep
  <2>3. T \subseteq Nat OBVIOUS
  <2> HIDE DEF T, Good
  <2> QED BY <2>1, <2>2, <2>3, Induction
<1>6. Good(over)
  <2>1. N \in T /\ N <= N BY <1>0, <1>5
  <2> HIDE DEF over
  <2> QED BY <1>1, <2>1
<1>7. UnreviewedAt(C, tp, m, own, others) =
        {q \in Path \ over.matched : ~\E r \in over.partial, met \in Meetings(C, tp, m) : Vouches(C, tp, met, r, q)}
  BY DEF UnreviewedAt, Unmatched
<1> HIDE DEF over
<1>8. CASE p \in over.matched BY <1>6, <1>8 DEF content, R
<1>9. CASE p \notin over.matched
  <2>1. PICK r \in over.partial, b \in Meetings(C, tp, m) : Vouches(C, tp, b, r, p) BY <1>7, <1>9
  <2>2. r \in R BY <1>6, <2>1
  <2>3. r.head \in 1 .. Len(C) BY <2>2, RangesAre DEF R
  <2>4. C[b].tree[p] # content BY <1>00, <1>2 DEF OnMain
  <2>5. Vouched(C, tp, b, r, p) BY <2>1, VouchedIs
  <2>6. b \in 1 .. Len(C) BY <1>2
  <2>7. content = C[r.head].tree[p] BY <1>0, <2>3, <2>4, <2>5, <2>6, AloneBrings DEF Vouched, content
  <2>8. SawCome(C, r, p, content) BY <2>5, <2>7 DEF SawCome, InRange, Vouched
  <2> QED BY <2>2, <2>8 DEF CameBy, content, R
<1> QED BY <1>8, <1>9

(* What a whole head brought, a review saw come, but for a slice that rests *)
(* on what main once held.                                                  *)
LEMMA BroughtIsSeen ==
    ASSUME NEW C, NEW tp, NEW m, NEW own, NEW others, Judges(C, tp, m, own, others), NEW p \in Path,
           NEW h \in Weighed(C, tp, m, own, others, {}).whole, NEW content, Brought(C, m, h, p, content)
    PROVE  \/ \E r \in Judging(C, tp, m, own, others) : SawCome(C, r, p, content)
           \/ /\ h = own.head /\ own.base \notin C[m].anc /\ OnMain(C, m, p, content)
              /\ C[own.base].tree[p] = content /\ C[own.head].tree[p] = content
<1> DEFINE ranges == Judging(C, tp, m, own, others)
<1>0. Ancestry(C) /\ m \in 1 .. Len(C) /\ own.head \in 1 .. Len(C) /\ own.base \in 1 .. Len(C) /\ own \in ranges
  BY AncestryFacts DEF Judges, Judging
<1>1. C[h].tree[p] = content BY DEF Brought
<1>2. ASSUME NEW r \in ranges, r.head = h, BeginsOnMain(C, m, r) PROVE SawCome(C, r, p, content)
  <2>1. r.base \in C[h].anc \cap C[m].anc BY <1>2 DEF BeginsOnMain
  <2>2. \E b \in {r.base} \cup (C[h].anc \ C[r.base].anc) : C[b].tree[p] # content
    BY <2>1 DEF Brought
  <2> QED BY <1>1, <1>2, <2>2 DEF SawCome, InRange
<1>3. CASE h = own.head /\ Rests(C, tp, m, own, others)
  <2>1. CASE C[own.base].tree[p] # content BY <1>0, <1>1, <1>3, <2>1 DEF SawCome, InRange
  <2>2. CASE C[own.base].tree[p] = content
    <3>1. PICK inside : /\ \A i \in inside : \E r \in Added(C, tp, m, others) : r.head = i
                        /\ RestsOn(C, m, own, inside)
      BY <1>3 DEF Rests
    <3>2. PICK k \in MergeBases(C, C[own.base], C[m]) :
             Changed(ReviewedMerge(C, k, inside).at, C[own.base]) \cup ReviewedMerge(C, k, inside).lost = {}
      BY <3>1 DEF RestsOn
    <3>3. k \in C[m].anc /\ k \in 1 .. Len(C) BY <1>0, MainIsThere
    <3>4. p \notin ReviewedMerge(C, k, inside).lost /\ ReviewedMerge(C, k, inside).at.tree[p] = content
      BY <2>2, <3>2 DEF Changed
    <3>5. own.base \notin C[m].anc /\ own.head \notin Above(C, tp, m) BY <1>3 DEF Rests, Judges
    <3>6. ASSUME NEW r \in Added(C, tp, m, others)
          PROVE  r \in ranges /\ r.base \in C[r.head].anc \cap C[m].anc
      BY <3>5 DEF Added, Judging, Judges
    <3>7. inside \subseteq 1 .. Len(C)
      <4>1. Above(C, tp, m) \subseteq 1 .. Len(C) BY AncestryFacts DEF Judges, Above
      <4> QED BY <3>1, <4>1 DEF Added
    <3>8. \/ content = C[k].tree[p]
          \/ \E i \in Latest(C, inside) : Brought(C, k, i, p, content)
      <4>1. LET here == ReviewedMerge(C, k, inside).at.tree[p]
            IN here = C[k].tree[p] \/ \E i \in Latest(C, inside) : Brought(C, k, i, p, here)
        BY <1>0, <3>3, <3>4, <3>7, HeadsBring
      <4> QED BY <3>4, <4>1
    <3>9. CASE content = C[k].tree[p] BY <1>1, <1>3, <2>2, <3>3, <3>5, <3>9 DEF OnMain
    <3>10. ASSUME NEW i \in Latest(C, inside), Brought(C, k, i, p, content)
           PROVE  OnMain(C, m, p, content) \/ \E r \in ranges : SawCome(C, r, p, content)
      <4>1. i \in inside /\ C[i].tree[p] = content BY <3>10 DEF Latest, Brought
      <4>2. PICK r \in Added(C, tp, m, others) : r.head = i BY <3>1, <4>1
      <4> QED BY <3>6, <4>1, <4>2 DEF OnMain, SawCome, InRange
    <3> QED BY <1>1, <1>3, <2>2, <3>5, <3>8, <3>9, <3>10
  <2> QED BY <2>1, <2>2
<1> QED BY <1>2, <1>3, WeighedIs

(* What a judged tip holds that main does not, a review saw come.           *)
LEMMA LandsSeen ==
    ASSUME NEW C, NEW tp, NEW m, NEW own, NEW others, Judges(C, tp, m, own, others),
           NEW p \in Path, ReviewedThere(C, tp, m, own, others, p), C[tp].tree[p] # C[m].tree[p]
    PROVE  LET content == C[tp].tree[p]
           IN \/ \E r \in Judging(C, tp, m, own, others) : SawCome(C, r, p, content)
              \/ /\ own.base \notin C[m].anc /\ OnMain(C, m, p, content)
                 /\ C[own.base].tree[p] = content /\ C[own.head].tree[p] = content
<1> DEFINE content == C[tp].tree[p]
           ranges == Judging(C, tp, m, own, others)
           here == Weighed(C, tp, m, own, others, {})
           whole == here.whole
           state == ReviewedMerge(C, m, whole)
<1>0. Ancestry(C) /\ m \in 1 .. Len(C) BY DEF Judges
<1> HIDE DEF content
<1>1. CASE p \notin state.lost /\ state.at.tree[p] = content
  <2>1. whole \subseteq 1 .. Len(C) BY WeighedIs
  <2> HIDE DEF whole
  <2>2. PICK h \in Latest(C, whole) : Brought(C, m, h, p, content) BY <1>0, <1>1, <2>1, HeadsBring DEF content
  <2>3. h \in whole BY DEF Latest
  <2> QED BY <2>2, <2>3, BroughtIsSeen DEF content, whole
<1>2. ASSUME NEW r \in ranges, Vouched(C, tp, m, r, p) PROVE SawCome(C, r, p, content)
  <2>1. r.head \in 1 .. Len(C) BY <1>0, AncestryFacts DEF Judging, Judges, Above
  <2>2. content = C[r.head].tree[p] BY <1>0, <1>2, <2>1, AloneBrings DEF content, Vouched
  <2> QED BY <1>2, <2>2 DEF SawCome, InRange, Vouched
<1>3. (p \notin state.lost /\ state.at.tree[p] = content) \/ \E r \in ranges : Vouched(C, tp, m, r, p)
  <2>1. Matches(C, tp, m, own, whole, p) \/ \E r \in here.partial : Vouched(C, tp, m, r, p) BY DEF ReviewedThere
  <2>2. here.partial \subseteq ranges BY WeighedIs DEF Judging
  <2> HIDE DEF here, ranges
  <2> QED BY <2>1, <2>2 DEF content, Matches
<1> QED BY <1>1, <1>2, <1>3 DEF content

(* What a review saw change the tip holds, or main has held it, or a review *)
(* saw it go, or come what is there instead.                                *)
LEMMA KeepsSeen ==
    ASSUME NEW C, NEW tp, NEW m, NEW own, NEW others, Judges(C, tp, m, own, others),
           NEW p \in Path, ReviewedThere(C, tp, m, own, others, p),
           C[own.base].tree[p] # C[own.head].tree[p]
    PROVE  LET content == C[own.head].tree[p]
           IN \/ C[tp].tree[p] = content \/ OnMain(C, m, p, content)
              \/ \E r \in Judging(C, tp, m, own, others) :
                    SawCome(C, r, p, C[tp].tree[p]) \/ SawGo(C, r, p, content)
<1> DEFINE content == C[own.head].tree[p]
           ranges == Judging(C, tp, m, own, others)
           here == Weighed(C, tp, m, own, others, {})
           whole == here.whole
           latest == Latest(C, whole)
           state == ReviewedMerge(C, m, whole)
<1> SUFFICES ASSUME C[tp].tree[p] # content, ~OnMain(C, m, p, content)
             PROVE  \E r \in ranges : SawCome(C, r, p, C[tp].tree[p]) \/ SawGo(C, r, p, content)
  OBVIOUS
<1>0. Ancestry(C) /\ m \in 1 .. Len(C) /\ own.head \in 1 .. Len(C) BY DEF Judges
<1>1. /\ own.head \notin C[m].anc /\ C[m].tree[p] # content /\ own.head \in C[own.head].anc
  BY <1>0, MainIsThere DEF OnMain
<1>2. /\ whole \subseteq 1 .. Len(C) /\ here.partial \subseteq {own}
      /\ \A h \in whole : (\E r \in ranges : r.head = h /\ BeginsOnMain(C, m, r)) \/ h = own.head
  BY WeighedIs
<1>00. Matches(C, tp, m, own, whole, p) \/ \E r \in here.partial : Vouched(C, tp, m, r, p) BY DEF ReviewedThere
<1> HIDE DEF content, ranges, here, state
<1>3. ASSUME NEW r \in here.partial, Vouched(C, tp, m, r, p) PROVE FALSE
  <2>1. r = own BY <1>2, <1>3
  <2>2. C[tp].tree[p] = ReviewedMerge(C, m, {own.head}).at.tree[p] /\ p \notin ReviewedMerge(C, m, {own.head}).lost
    BY <1>3, <2>1 DEF Vouched
  <2>3. \A k \in MergeBases(C, C[own.head], C[m]) : C[k].tree[p] = C[own.head].tree[p]
    BY <1>0, <1>1, <2>2, AloneBrings DEF content
  <2> QED BY <1>0, <2>3, MainIsThere DEF content, OnMain
<1>4. ASSUME NEW h \in whole, Brought(C, m, h, p, C[tp].tree[p])
      PROVE  \E r \in ranges : SawCome(C, r, p, C[tp].tree[p])
  BY <1>4, BroughtIsSeen DEF ranges, here, content
<1>5. ASSUME NEW h \in whole, NEW b \in C[h].anc \ C[m].anc, C[b].tree[p] = content, C[h].tree[p] # content
      PROVE  \E r \in ranges : SawGo(C, r, p, content)
  <2>1. h # own.head BY <1>5 DEF content
  <2>2. PICK r \in ranges : r.head = h /\ BeginsOnMain(C, m, r) BY <1>2, <2>1
  <2>3. C[r.base].anc \subseteq C[m].anc
    <3>1. r.base \in C[m].anc /\ r.base \in 1 .. Len(C) BY <1>0, <2>2, MainIsThere DEF BeginsOnMain
    <3> QED BY <1>0, <3>1, AncestryFacts
  <2> QED BY <1>5, <2>2, <2>3 DEF SawGo, InRange
<1> DEFINE T == {h \in latest : C[h].tree[p] = content /\ h \notin C[m].anc}
<1>6. ASSUME NEW h \in latest, NEW b \in C[h].anc \ C[m].anc, C[b].tree[p] = content
      PROVE  h \in T \/ \E r \in ranges : SawGo(C, r, p, content)
  <2>1. h \in whole /\ h \in 1 .. Len(C) BY <1>2 DEF Latest
  <2>2. h \notin C[m].anc BY <1>0, <1>6, <2>1, AncestryFacts
  <2> QED BY <1>5, <1>6, <2>1, <2>2
<1>7. CASE T = {}
  <2>1. CASE own.head \in whole
    <3>1. PICK h \in latest : own.head \in C[h].anc BY <1>0, <1>2, <2>1, LatestAbove
    <3> HIDE DEF latest, T
    <3> QED BY <1>1, <1>6, <1>7, <3>1 DEF content
  <2>2. CASE own.head \notin whole
    <3>1. ~Matches(C, tp, m, own, whole, p) BY <2>2 DEF Matches
    <3> QED BY <1>3, <1>00, <3>1
  <2> QED BY <2>1, <2>2
<1>8. CASE T # {}
  <2>1. T \in SUBSET Nat
    <3>1. \A h \in latest : h \in 1 .. Len(C) BY <1>2 DEF Latest
    <3> HIDE DEF latest
    <3> QED BY <3>1
  <2>2. PICK h \in T : \A i \in T : h <= i
    <3> HIDE DEF T
    <3> QED BY <1>8, <2>1, LeastThere
  <2>3. h \in latest /\ h \in 1 .. Len(C) /\ h \notin C[m].anc /\ C[h].tree[p] = content BY <1>2 DEF Latest
  <2>4. PICK k \in MergeBases(C, C[h], C[m]) : k \in C[m].anc /\ C[k].tree[p] # content
    <3>1. PICK k \in MergeBases(C, C[h], C[m]) : k \in C[m].anc BY <1>0, <2>3, MainIsThere
    <3> QED BY <3>1 DEF OnMain
  <2>6. p \notin state.lost /\ state.at.tree[p] = C[tp].tree[p] BY <1>3, <1>00 DEF Matches, state
  <2>7. \/ GivesWay(C, m, whole, p)
        \/ \E i \in latest : Brought(C, m, i, p, C[tp].tree[p])
    BY <1>0, <1>2, <2>6, HeadsBring DEF state
  <2>8. CASE \E i \in latest : Brought(C, m, i, p, C[tp].tree[p])
    <3>1. PICK i \in whole : Brought(C, m, i, p, C[tp].tree[p]) BY <2>8 DEF Latest
    <3> QED BY <1>4, <3>1
  <2>9. CASE GivesWay(C, m, whole, p)
    <3>1. PICK i \in latest : \E b \in C[i].anc \ C[m].anc : i < h /\ C[b].tree[p] = content
      BY <1>1, <2>3, <2>4, <2>9 DEF GivesWay
    <3>2. i \notin T
      <4>1. i \in Nat /\ h \in Nat /\ i < h BY <1>2, <2>3, <3>1 DEF Latest
      <4> HIDE DEF T
      <4> QED BY <2>2, <4>1
    <3> HIDE DEF latest, T
    <3> QED BY <1>6, <3>1, <3>2
  <2> QED BY <2>7, <2>8, <2>9
<1> QED BY <1>7, <1>8 DEF content

-----------------------------------------------------------------------------
(* The gate's reviews: of each history the ancestry, and the passes a head  *)
(* and a base of its; what a train made, and of which tips.                 *)
IsReview(C, r) == r.head \in 1 .. Len(C) /\ r.base \in C[r.head].anc

Links(C) ==
    /\ Ancestry(C)
    /\ \A c \in 1 .. Len(C) : IsFiniteSet(Passes(C[c].recs)) /\ \A r \in Passes(C[c].recs) : IsReview(C, r)

Linked(C, new) ==
    /\ \E x, y \in 1 .. Len(C) : new.anc = C[x].anc \cup C[y].anc \cup {Len(C) + 1}
    /\ \E x, y \in 1 .. Len(C) : \E R :
          /\ IsFiniteSet(R) /\ \A r \in R : IsReview(C, r)
          /\ new.recs \subseteq C[x].recs \cup C[y].recs \cup R

LEMMA LinksGrow ==
    ASSUME NEW C, Links(C), NEW new, Linked(C, new)
    PROVE  Links(Append(C, new))
<1> DEFINE D == Append(C, new)
           n == Len(C) + 1
<1>1. /\ IsSeq(D) /\ Len(D) = n /\ D[n] = new /\ \A c \in 1 .. Len(C) : D[c] = C[c]
      /\ Len(C) \in Nat /\ \A c \in 1 .. n : c \in 1 .. Len(C) \/ c = n
      /\ \A c \in 1 .. Len(C) : c \in 1 .. n
  BY Appended DEF Links, Ancestry
<1> HIDE DEF D, n
<1>2. PICK x \in 1 .. Len(C), y \in 1 .. Len(C) : new.anc = C[x].anc \cup C[y].anc \cup {n} BY DEF Linked, n
<1>3. \A c \in 1 .. Len(C) : /\ c \in C[c].anc /\ 1 \in C[c].anc /\ C[c].anc \subseteq 1 .. c
                             /\ C[c].anc \subseteq 1 .. Len(C)
                             /\ \A a \in C[c].anc : C[a].anc \subseteq C[c].anc
  BY AncestryFacts DEF Links, Ancestry
<1>4. ASSUME NEW c \in 1 .. n
      PROVE  /\ c \in D[c].anc /\ 1 \in D[c].anc /\ D[c].anc \subseteq 1 .. c
             /\ \A a \in D[c].anc : D[a].anc \subseteq D[c].anc
  <2>1. CASE c \in 1 .. Len(C) BY <1>1, <1>3, <2>1
  <2>2. CASE c = n
    <3>1. D[c].anc = C[x].anc \cup C[y].anc \cup {n} BY <1>1, <1>2, <2>2
    <3>2. \A a \in C[x].anc \cup C[y].anc : D[a].anc = C[a].anc BY <1>1, <1>3
    <3>3. D[c].anc \subseteq 1 .. n BY <1>1, <1>3, <3>1
    <3> QED BY <1>3, <2>2, <3>1, <3>2, <3>3
  <2> QED BY <1>1, <2>1, <2>2
<1>0. PICK a \in 1 .. Len(C), b \in 1 .. Len(C) :
         \E R : /\ IsFiniteSet(R) /\ \A r \in R : IsReview(C, r)
                /\ new.recs \subseteq C[a].recs \cup C[b].recs \cup R
  BY DEF Linked
<1>5. PICK R : /\ IsFiniteSet(R) /\ \A r \in R : IsReview(C, r)
               /\ new.recs \subseteq C[a].recs \cup C[b].recs \cup R
  BY <1>0
<1>6. \A r : IsReview(C, r) => IsReview(D, r) BY <1>1 DEF IsReview
<1>7. ASSUME NEW c \in 1 .. n
      PROVE  IsFiniteSet(Passes(D[c].recs)) /\ \A r \in Passes(D[c].recs) : IsReview(D, r)
  <2>1. CASE c \in 1 .. Len(C) BY <1>1, <1>6, <2>1 DEF Links
  <2>2. CASE c = n
    <3> DEFINE old == Passes(C[a].recs) \cup Passes(C[b].recs)
    <3>1. Passes(new.recs) \subseteq old \cup R BY <1>5 DEF Passes
    <3>2. IsFiniteSet(old) BY FS_Union DEF Links
    <3>3. \A r \in old \cup R : IsReview(C, r) BY <1>5 DEF Links
    <3> HIDE DEF old
    <3>4. IsFiniteSet(old \cup R) BY <1>5, <3>2, FS_Union
    <3>5. IsFiniteSet(Passes(new.recs)) BY <3>1, <3>4, FS_Subset
    <3> QED BY <1>1, <1>6, <2>2, <3>1, <3>3, <3>5
  <2> QED BY <1>1, <2>1, <2>2
<1> QED BY <1>1, <1>4, <1>7 DEF Links, Ancestry, D

(* A train is made of main, where it was staged, and of two passengers, one *)
(* merged onto the other: each path from a side where the bases hold what   *)
(* the other side holds.                                                    *)
Blends(C, x, y, p, content) ==
    \/ content = y.tree[p] /\ (x.tree[p] = content \/ Common(C, x, y, p, x.tree[p]))
    \/ content = x.tree[p] /\ Common(C, x, y, p, y.tree[p])

IsStaged(C, t, u, v, from) ==
    /\ C[t - 1].anc = C[from].anc \cup C[u].anc \cup {t - 1}
    /\ C[t].anc = C[t - 1].anc \cup C[v].anc \cup {t}
    /\ \A p \in Path : /\ Blends(C, C[from], C[u], p, C[t - 1].tree[p])
                       /\ Blends(C, C[t - 1], C[v], p, C[t].tree[p])

IsTrain(C, t, boarded, from) ==
    /\ t \in 1 .. Len(C) /\ from \in 1 .. t - 2
    /\ \E u, v \in 1 .. t - 2 : boarded = {u, v} /\ IsStaged(C, t, u, v, from)

TrainHolds ==
    staging # NoTrain =>
        /\ main # staging.at - 1 /\ \A w \in Work : tip[w] \notin {staging.at - 1, staging.at}
        /\ \E from \in commit[main].anc : IsTrain(commit, staging.at, staging.boarded, from)

ReviewInv == GateInv /\ Links(commit) /\ TrainHolds

(* A step moves main on, makes a commit, or stages a train.                 *)
MovesMain ==
    /\ UNCHANGED <<commit, tip, staging>>
    /\ \/ main' = main
       \/ /\ main \in commit[main'].anc
          /\ (\E w \in Work : main' = tip[w]) \/ (staging # NoTrain /\ main' = staging.at)

MakesCommit ==
    \E new : /\ commit' = Append(commit, new) /\ Linked(commit, new) /\ staging' = staging
             /\ main' = main \/ (main' = New /\ main \in new.anc)
             /\ \A w \in Work : tip'[w] \in {tip[w], New}

LEMMA BranchMakes ==
    ASSUME GateInv, NEW w \in Work, NEW X, DOMAIN X = CommitFields, Commit(w, X),
           NEW x \in 1 .. Len(commit), NEW y \in 1 .. Len(commit), X.anc = commit[x].anc \cup commit[y].anc,
           NEW a \in 1 .. Len(commit), NEW b \in 1 .. Len(commit), NEW R, IsFiniteSet(R),
           \A r \in R : IsReview(commit, r), X.recs \subseteq commit[a].recs \cup commit[b].recs \cup R
    PROVE  MakesCommit
<1> DEFINE new == [X EXCEPT !.anc = @ \cup {New}, !.claims = w]
<1>1. DOMAIN new = CommitFields /\ new.anc = X.anc \cup {New} /\ new.recs = X.recs BY Claiming
<1>2. commit' = Append(commit, new) /\ tip' = [tip EXCEPT ![w] = New] /\ UNCHANGED <<main, staging>>
  BY DEF Commit, Add
<1>3. DOMAIN tip = Work /\ New = Len(commit) + 1 BY DEF GateInv, HistoryInv, History, New
<1> HIDE DEF new
<1>4. Linked(commit, new) BY <1>1, <1>3 DEF Linked
<1>5. \A u \in Work : tip'[u] \in {tip[u], New} BY <1>2, <1>3
<1> QED BY <1>2, <1>4, <1>5 DEF MakesCommit

LEMMA StepsAre ==
    ASSUME GateInv, [Next]_vars
    PROVE  MovesMain \/ MakesCommit \/ \E w, v \in Work : Stage(w, v)
<1>1. /\ IsSeq(commit) /\ Len(commit) \in Nat /\ \A w \in Work : tip[w] \in 1 .. Len(commit)
      /\ \A c \in 1 .. Len(commit) : DOMAIN commit[c] = CommitFields
      /\ main \in 1 .. Len(commit) /\ main \in commit[main].anc /\ scene.works \subseteq Work
  BY GateFacts DEF GateInv
<1>2. \A w \in Work : On(w) = commit[tip[w]] /\ DOMAIN On(w) = CommitFields BY <1>1 DEF On
<1>3. ASSUME NEW w \in Work, NEW X, DOMAIN X = CommitFields, Commit(w, X), X.anc = On(w).anc,
             X.recs \subseteq On(w).recs
      PROVE  MakesCommit
  <2>1. X.anc = commit[tip[w]].anc \cup commit[tip[w]].anc BY <1>2, <1>3
  <2>2. X.recs \subseteq commit[tip[w]].recs \cup commit[tip[w]].recs \cup {} BY <1>2, <1>3
  <2> QED BY <1>1, <1>3, <2>1, <2>2, FS_EmptySet, BranchMakes
<1>4. ASSUME NEW w \in Work, NEW X, DOMAIN X = CommitFields, Commit(w, X), NEW y \in 1 .. Len(commit),
             X.anc = On(w).anc \cup commit[y].anc \/ X.anc = commit[y].anc, X.recs = On(w).recs \cup commit[y].recs
      PROVE  MakesCommit
  <2>1. PICK x \in 1 .. Len(commit) : X.anc = commit[x].anc \cup commit[y].anc
    <3>1. CASE X.anc = On(w).anc \cup commit[y].anc BY <1>1, <1>2, <3>1
    <3>2. CASE X.anc = commit[y].anc BY <3>2
    <3> QED BY <1>4, <3>1, <3>2
  <2>2. X.recs \subseteq commit[tip[w]].recs \cup commit[y].recs \cup {} BY <1>2, <1>4
  <2> QED BY <1>1, <1>4, <2>1, <2>2, FS_EmptySet, BranchMakes
<1>5. ASSUME NEW w \in Work, NEW p \in Path, Write(w, p) PROVE MakesCommit
  <2> DEFINE own == IF tip[w] = 1 /\ On(w).plan[w] = NoPlan THEN Plan("active", "no") ELSE On(w).plan[w]
             X == [[On(w) EXCEPT !.tree[p] = New] EXCEPT !.plan[w] = own]
  <2>1. Commit(w, X) BY <1>5 DEF Write
  <2>2. DOMAIN X = CommitFields /\ X.anc = On(w).anc /\ X.recs = On(w).recs BY <1>2 DEF CommitFields
  <2> HIDE DEF X
  <2> QED BY <1>3, <2>1, <2>2
<1>6. ASSUME NEW w \in Work, NEW p \in Path, Revert(w, p) PROVE MakesCommit
  <2> DEFINE X == [On(w) EXCEPT !.tree[p] = commit[main].tree[p]]
  <2>1. Commit(w, X) BY <1>6 DEF Revert
  <2>2. DOMAIN X = CommitFields /\ X.anc = On(w).anc /\ X.recs = On(w).recs BY <1>2 DEF CommitFields
  <2> HIDE DEF X
  <2> QED BY <1>3, <2>1, <2>2
<1>7. ASSUME NEW w \in Work, MergeMain(w) PROVE MakesCommit
  <2>1. PICK tree : Commit(w, Merged(On(w), commit[main], tree)) BY <1>7 DEF MergeMain
  <2> DEFINE X == Merged(On(w), commit[main], tree)
  <2>0. DOMAIN On(w) = CommitFields BY <1>2
  <2>2. /\ DOMAIN X = CommitFields /\ X.anc = On(w).anc \cup commit[main].anc
        /\ X.recs = On(w).recs \cup commit[main].recs
    BY <2>0 DEF Merged, CommitFields
  <2> HIDE DEF X
  <2> QED BY <1>1, <1>4, <2>1, <2>2 DEF X
<1>8. ASSUME NEW w \in Work, Rebase(w) PROVE MakesCommit
  <2>1. PICK tree : Commit(w, [Merged(On(w), commit[main], tree) EXCEPT !.anc = commit[main].anc])
    BY <1>8 DEF Rebase
  <2> DEFINE m == Merged(On(w), commit[main], tree)
             X == [m EXCEPT !.anc = commit[main].anc]
  <2>0. DOMAIN On(w) = CommitFields BY <1>2
  <2>2. DOMAIN m = CommitFields /\ m.recs = On(w).recs \cup commit[main].recs BY <2>0 DEF Merged, CommitFields
  <2>3. DOMAIN X = CommitFields /\ X.anc = commit[main].anc /\ X.recs = On(w).recs \cup commit[main].recs
    <3> HIDE DEF m
    <3> QED BY <2>2 DEF CommitFields
  <2>4. Commit(w, X) BY <2>1
  <2> HIDE DEF X
  <2> QED BY <1>1, <1>4, <2>3, <2>4
<1>9. ASSUME NEW w \in Work, NEW v \in Work, Stack(w, v) PROVE MakesCommit
  <2> DEFINE tree == AutoMerge(commit, On(w), On(v)).tree
             X == Merged(On(w), On(v), tree)
  <2>1. Commit(w, X) BY <1>9 DEF Stack
  <2> HIDE DEF tree
  <2>0. DOMAIN On(w) = CommitFields /\ On(v) = commit[tip[v]] BY <1>2
  <2>2. DOMAIN X = CommitFields /\ X.anc = On(w).anc \cup commit[tip[v]].anc
        /\ X.recs = On(w).recs \cup commit[tip[v]].recs
    BY <2>0 DEF Merged, CommitFields
  <2> HIDE DEF X
  <2> QED BY <1>1, <1>4, <2>1, <2>2
<1>10. ASSUME NEW w \in Work, NEW to, MovePlan(w, to) PROVE MakesCommit
  <2> DEFINE X == [On(w) EXCEPT !.plan[w] = to]
  <2>1. Commit(w, X) BY <1>10 DEF MovePlan
  <2>2. DOMAIN X = CommitFields /\ X.anc = On(w).anc /\ X.recs = On(w).recs BY <1>2 DEF CommitFields
  <2> HIDE DEF X
  <2> QED BY <1>3, <2>1, <2>2
<1>11. ASSUME NEW w \in Work, Archive(w) \/ Delete(w) \/ \E word \in {"signed", "unsigned"} : Waive(w, word)
       PROVE  MakesCommit
  BY <1>10, <1>11 DEF Archive, Delete, Waive
<1>12. ASSUME NEW w \in Work, Prune(w) PROVE MakesCommit
  <2> DEFINE X == [On(w) EXCEPT !.recs = On(w).recs \ commit[main].recs]
  <2>1. Commit(w, X) BY <1>12 DEF Prune
  <2>2. DOMAIN X = CommitFields /\ X.anc = On(w).anc /\ X.recs \subseteq On(w).recs BY <1>2 DEF CommitFields
  <2> HIDE DEF X
  <2> QED BY <1>3, <2>1, <2>2
<1>13. ASSUME NEW w \in Work, NEW h \in On(w).anc, NEW v, Attest(w, h, v) PROVE MakesCommit
  <2>0. h \in 1 .. Len(commit)
    BY <1>1, <1>2, GateFacts
  <2>1. PICK base : /\ base \in Forks(h) \/ base \in Brings(h) \ {h}
                    /\ Commit(w, [On(w) EXCEPT !.recs = @ \cup {Record(w, v, NextRound(@, w), base, h)}])
    BY <1>13 DEF Attest
  <2>2. base \in commit[h].anc BY <2>1 DEF Forks, MergeBases, Latest, Brings
  <2> DEFINE r == Record(w, v, NextRound(On(w).recs, w), base, h)
             X == [On(w) EXCEPT !.recs = On(w).recs \cup {r}]
  <2>3. r.head = h /\ r.base = base BY DEF Record
  <2>4. IsReview(commit, r) BY <2>0, <2>2, <2>3 DEF IsReview
  <2> HIDE DEF r
  <2>5. Commit(w, X) BY <2>1 DEF r
  <2>6. DOMAIN X = CommitFields /\ X.anc = On(w).anc /\ X.recs = On(w).recs \cup {r} BY <1>2 DEF CommitFields
  <2> HIDE DEF X
  <2>7. X.anc = commit[tip[w]].anc \cup commit[tip[w]].anc
        /\ X.recs \subseteq commit[tip[w]].recs \cup commit[tip[w]].recs \cup {r}
    BY <1>2, <2>6
  <2>8. IsFiniteSet({r}) /\ \A s \in {r} : IsReview(commit, s) BY <2>4, FS_Singleton
  <2> QED BY <1>1, <2>5, <2>6, <2>7, <2>8, BranchMakes
<1>14. ASSUME NEW p \in Path, OthersLand(p) PROVE MakesCommit
  <2> DEFINE new == [[[commit[main] EXCEPT !.anc = @ \cup {New}] EXCEPT !.tree[p] = New] EXCEPT !.claims = Nobody]
  <2>1. commit' = Append(commit, new) /\ main' = New /\ UNCHANGED <<scene, tip, staging>>
    BY <1>14 DEF OthersLand, Add
  <2>2. new.anc = commit[main].anc \cup {New} /\ new.recs = commit[main].recs BY <1>1 DEF CommitFields
  <2> HIDE DEF new
  <2>3. /\ new.anc = commit[main].anc \cup commit[main].anc \cup {Len(commit) + 1}
        /\ new.recs \subseteq commit[main].recs \cup commit[main].recs \cup {}
    BY <2>2 DEF New
  <2>4. Linked(commit, new) BY <1>1, <2>3, FS_EmptySet DEF Linked
  <2> QED BY <1>1, <2>1, <2>2, <2>4 DEF MakesCommit
<1>15. ASSUME (\E w \in Work : Push(w)) \/ PushTrain PROVE MovesMain
  BY <1>15 DEF Push, PushTrain, MovesMain, IsAncestor
<1>16. CASE UNCHANGED vars BY <1>16 DEF vars, MovesMain
<1> QED BY <1>1, <1>5, <1>6, <1>7, <1>8, <1>9, <1>11, <1>12, <1>13, <1>14, <1>15, <1>16 DEF Next

LEMMA ReviewStarts == Init => ReviewInv
<1> SUFFICES ASSUME Init PROVE ReviewInv
  OBVIOUS
<1> DEFINE blocks == {[work |-> w, verdict |-> "block", round |-> 1, base |-> 1, head |-> 1, nr |-> 0] :
                        w \in scene.blocked}
           first == [anc |-> {1}, tree |-> [p \in Path |-> 1], claims |-> Nobody, recs |-> blocks,
                     plan |-> [w \in Work |-> IF w \in scene.planned THEN Plan("active", "no") ELSE NoPlan]]
<1>1. commit = <<first>> /\ staging = NoTrain BY DEF Init
<1>2. Passes(blocks) = {} BY DEF Passes
<1> HIDE DEF blocks
<1>3. first.anc = {1} /\ first.recs = blocks OBVIOUS
<1> HIDE DEF first
<1>4. Len(commit) = 1 /\ commit[1] = first /\ IsSeq(commit)
  <2>1. commit \in Seq({first}) BY <1>1
  <2> QED BY <1>1, <2>1 DEF IsSeq
<1>5. \A c \in 1 .. Len(commit) : c = 1 BY <1>4
<1>6. Links(commit) BY <1>2, <1>3, <1>4, <1>5, FS_EmptySet DEF Links, Ancestry
<1> QED BY <1>1, <1>6, GateStarts DEF ReviewInv, TrainHolds

(* What a train is made of is not changed by what comes after it.           *)
LEMMA BasesStay ==
    ASSUME NEW C, NEW D, \A c \in 1 .. Len(C) : D[c] = C[c],
           NEW x, NEW y, x.anc \cap y.anc \subseteq 1 .. Len(C), NEW p
    PROVE  \A content : Blends(C, x, y, p, content) => Blends(D, x, y, p, content)
<1>1. \A c \in x.anc \cap y.anc : D[c] = C[c] OBVIOUS
<1>2. MergeBases(D, x, y) = MergeBases(C, x, y) BY <1>1 DEF MergeBases, Latest, IsAncestor
<1>3. \A b \in MergeBases(C, x, y) : D[b] = C[b] BY <1>1 DEF MergeBases, Latest
<1>4. \A content : Common(C, x, y, p, content) => Common(D, x, y, p, content) BY <1>2, <1>3 DEF Common
<1> QED BY <1>4 DEF Blends

LEMMA TrainStays ==
    ASSUME NEW C, Ancestry(C), NEW D, Len(D) \in Nat, Len(D) >= Len(C), \A c \in 1 .. Len(C) : D[c] = C[c],
           NEW t, NEW boarded, NEW from, IsTrain(C, t, boarded, from)
    PROVE  IsTrain(D, t, boarded, from)
<1>1. Len(C) \in Nat /\ t \in 1 .. Len(C) /\ from \in 1 .. t - 2 BY DEF Ancestry, IsSeq, IsTrain
<1>2. PICK u \in 1 .. t - 2, v \in 1 .. t - 2 : boarded = {u, v} /\ IsStaged(C, t, u, v, from) BY DEF IsTrain
<1>3. t - 1 \in 1 .. Len(C) /\ from \in 1 .. Len(C) /\ u \in 1 .. Len(C) /\ v \in 1 .. Len(C) BY <1>1
<1>4. D[t] = C[t] /\ D[t - 1] = C[t - 1] /\ D[from] = C[from] /\ D[u] = C[u] /\ D[v] = C[v] BY <1>1, <1>3
<1>5. C[from].anc \cap C[u].anc \subseteq 1 .. Len(C) /\ C[t - 1].anc \cap C[v].anc \subseteq 1 .. Len(C)
  BY <1>3, AncestryFacts
<1>6. ASSUME NEW p \in Path
      PROVE  /\ Blends(D, D[from], D[u], p, D[t - 1].tree[p])
             /\ Blends(D, D[t - 1], D[v], p, D[t].tree[p])
  <2>1. Blends(C, C[from], C[u], p, C[t - 1].tree[p]) /\ Blends(C, C[t - 1], C[v], p, C[t].tree[p])
    BY <1>2 DEF IsStaged
  <2>2. Blends(D, C[from], C[u], p, C[t - 1].tree[p]) BY <1>5, <2>1, BasesStay
  <2>3. Blends(D, C[t - 1], C[v], p, C[t].tree[p]) BY <1>5, <2>1, BasesStay
  <2> QED BY <1>4, <2>2, <2>3
<1>7. IsStaged(D, t, u, v, from) BY <1>2, <1>4, <1>6 DEF IsStaged
<1>8. t \in 1 .. Len(D) BY <1>1
<1> QED BY <1>1, <1>2, <1>7, <1>8 DEF IsTrain

LEMMA MakingKeeps ==
    ASSUME ReviewInv, MakesCommit
    PROVE  Links(commit') /\ TrainHolds'
<1>1. PICK new : /\ commit' = Append(commit, new) /\ Linked(commit, new) /\ staging' = staging
                 /\ main' = main \/ (main' = New /\ main \in new.anc)
                 /\ \A w \in Work : tip'[w] \in {tip[w], New}
  BY DEF MakesCommit
<1>2. Links(commit) /\ Ancestry(commit) /\ main \in 1 .. Len(commit) BY DEF ReviewInv, Links, GateInv
<1>3. Links(commit') BY <1>1, <1>2, LinksGrow
<1>4. /\ Len(commit') = Len(commit) + 1 /\ commit'[New] = new /\ New = Len(commit) + 1 /\ Len(commit) \in Nat
      /\ \A c \in 1 .. Len(commit) : commit'[c] = commit[c]
  BY <1>1, <1>2, Appended DEF New, Ancestry
<1>5. ASSUME staging # NoTrain PROVE TrainHolds'
  <2>1. PICK from \in commit[main].anc : IsTrain(commit, staging.at, staging.boarded, from)
    BY <1>5 DEF ReviewInv, TrainHolds
  <2>2. /\ main # staging.at - 1 /\ \A w \in Work : tip[w] \notin {staging.at - 1, staging.at}
    BY <1>5 DEF ReviewInv, TrainHolds
  <2>3. staging.at \in 1 .. Len(commit) /\ New \notin {staging.at - 1, staging.at} BY <1>4, <2>1 DEF IsTrain
  <2>4. IsTrain(commit', staging.at, staging.boarded, from) BY <1>2, <1>4, <2>1, TrainStays
  <2>5. main \in commit[main].anc /\ commit[main].anc \subseteq commit'[main'].anc
    <3>1. Ancestry(commit') /\ main \in commit[main].anc BY <1>2, <1>3, AncestryFacts DEF Links
    <3>2. CASE main' = main BY <1>2, <1>4, <3>1, <3>2
    <3>3. CASE main' = New /\ main \in new.anc
      <4>1. main' \in 1 .. Len(commit') /\ main \in commit'[main'].anc BY <1>4, <3>3
      <4>2. commit'[main].anc \subseteq commit'[main'].anc BY <3>1, <4>1 DEF Ancestry
      <4> QED BY <1>2, <1>4, <3>1, <4>2
    <3> QED BY <1>1, <3>2, <3>3
  <2>6. main' # staging.at - 1 /\ \A w \in Work : tip'[w] \notin {staging.at - 1, staging.at} BY <1>1, <2>2, <2>3
  <2>7. \E f \in commit'[main'].anc : IsTrain(commit', staging.at, staging.boarded, f) BY <2>1, <2>4, <2>5
  <2> QED BY <1>1, <2>6, <2>7 DEF TrainHolds
<1>6. CASE staging = NoTrain
  <2>1. staging' = NoTrain BY <1>1, <1>6
  <2> QED BY <1>3, <2>1 DEF TrainHolds
<1> QED BY <1>3, <1>5, <1>6

LEMMA MovingKeeps ==
    ASSUME ReviewInv, MovesMain
    PROVE  Links(commit') /\ TrainHolds'
<1>1. UNCHANGED <<commit, tip, staging>> /\ Links(commit) /\ Ancestry(commit) BY DEF MovesMain, ReviewInv, Links
<1>2. ASSUME staging # NoTrain, main' # main PROVE TrainHolds'
  <2>1. PICK from \in commit[main].anc : IsTrain(commit, staging.at, staging.boarded, from)
    BY <1>2 DEF ReviewInv, TrainHolds
  <2>2. main \in commit[main'].anc /\ ((\E w \in Work : main' = tip[w]) \/ main' = staging.at)
    BY <1>2 DEF MovesMain
  <2>3. \A w \in Work : tip[w] \notin {staging.at - 1, staging.at} BY <1>2 DEF ReviewInv, TrainHolds
  <2>4. staging.at \in Nat BY <1>1, <2>1 DEF IsTrain
  <2>5. main' # staging.at - 1 BY <2>2, <2>3, <2>4
  <2>6. main' \in 1 .. Len(commit) BY <2>1, <2>2, GateFacts DEF IsTrain, ReviewInv
  <2>7. commit[main].anc \subseteq commit[main'].anc BY <1>1, <2>2, <2>6 DEF Ancestry
  <2> QED BY <1>1, <2>1, <2>3, <2>5, <2>7 DEF TrainHolds
<1>3. CASE staging = NoTrain BY <1>1, <1>3 DEF TrainHolds
<1>4. CASE main' = main BY <1>1, <1>4 DEF TrainHolds, ReviewInv
<1> QED BY <1>1, <1>2, <1>3, <1>4

(* A merge without conflict takes each path from a side.                    *)
LEMMA MergeTakes ==
    ASSUME NEW C, NEW x, NEW y, Conflicted(AutoMerge(C, x, y)) = {}, NEW p \in Path
    PROVE  Blends(C, x, y, p, AutoMerge(C, x, y).tree[p])
<1> DEFINE auto == AutoMerge(C, x, y)
<1>1. auto.tree[p] = IF x.tree[p] = y.tree[p] \/ Common(C, x, y, p, y.tree[p]) THEN x.tree[p]
                     ELSE IF Common(C, x, y, p, x.tree[p]) THEN y.tree[p] ELSE Marks
  BY DEF AutoMerge, Common
<1> HIDE DEF auto
<1>2. auto.tree[p] # Marks BY DEF Conflicted, auto
<1> QED BY <1>1, <1>2 DEF auto, Blends

(* Staged, a train is made of main and its two passengers.                  *)
LEMMA StagingMakes ==
    ASSUME ReviewInv, NEW w \in Work, NEW v \in Work, Stage(w, v)
    PROVE  Links(commit') /\ TrainHolds'
<1> DEFINE first == Board(commit[main], w, New)
           second == Board(first, v, New + 1)
           C1 == Append(commit, first)
           C2 == Append(C1, second)
           a == tip[w]
           b == tip[v]
           one == AutoMerge(commit, commit[main], commit[a])
           two == AutoMerge(commit, first, commit[b])
<1>0. /\ Ancestry(commit) /\ Links(commit) /\ IsSeq(commit) /\ Len(commit) \in Nat
      /\ a \in 1 .. Len(commit) /\ b \in 1 .. Len(commit) /\ main \in 1 .. Len(commit)
      /\ \A u \in Work : tip[u] \in 1 .. Len(commit)
      /\ DOMAIN commit[main] = CommitFields
  BY GateFacts DEF ReviewInv, Links, GateInv
<1>1. ASSUME NEW c, DOMAIN c = CommitFields, NEW u \in Work, NEW n
      PROVE  /\ DOMAIN Board(c, u, n) = CommitFields
             /\ Board(c, u, n).anc = c.anc \cup commit[tip[u]].anc \cup {n}
             /\ Board(c, u, n).recs = c.recs \cup commit[tip[u]].recs
             /\ Board(c, u, n).tree = AutoMerge(commit, c, commit[tip[u]]).tree
  <2> DEFINE tree == AutoMerge(commit, c, On(u)).tree
             m == Merged(c, On(u), tree)
  <2>1. Board(c, u, n) = [m EXCEPT !.anc = @ \cup {n}, !.claims = Nobody] BY DEF Board
  <2> HIDE DEF tree
  <2>2. DOMAIN m = CommitFields /\ m.anc = c.anc \cup On(u).anc /\ m.recs = c.recs \cup On(u).recs /\ m.tree = tree
    BY <1>1 DEF Merged, CommitFields
  <2> HIDE DEF m
  <2>3. /\ DOMAIN Board(c, u, n) = CommitFields /\ Board(c, u, n).anc = m.anc \cup {n}
        /\ Board(c, u, n).recs = m.recs /\ Board(c, u, n).tree = m.tree
    BY <2>1, <2>2 DEF CommitFields
  <2> QED BY <2>2, <2>3 DEF On, tree
<1>2. New = Len(commit) + 1 BY DEF New
<1>3. /\ DOMAIN first = CommitFields /\ first.tree = one.tree
      /\ first.anc = commit[main].anc \cup commit[a].anc \cup {New}
      /\ first.recs = commit[main].recs \cup commit[a].recs
  <2>1. DOMAIN commit[main] = CommitFields BY <1>0
  <2> QED BY <1>1, <2>1
<1>4. /\ second.anc = first.anc \cup commit[b].anc \cup {New + 1} /\ second.tree = two.tree
      /\ second.recs = first.recs \cup commit[b].recs
  <2> HIDE DEF first
  <2> QED BY <1>1, <1>3
<1>5. /\ commit' = commit \o <<first, second>> /\ staging' = [at |-> New + 1, boarded |-> {a, b}]
      /\ UNCHANGED <<main, tip>> /\ Conflicted(first) = {} /\ Conflicted(second) = {}
  BY DEF Stage
<1> HIDE DEF first, second, one, two
<1>6. commit' = C2
  <2>1. PICK T : commit \in Seq(T) BY <1>0 DEF IsSeq
  <2>2. commit \in Seq(T \cup {first, second}) BY <2>1
  <2>3. commit \o <<first, second>> = Append(Append(commit, first), second) BY <2>2
  <2> QED BY <1>5, <2>3
<1>7. Links(C1)
  <2>1. Linked(commit, first)
    <3>1. first.recs \subseteq commit[main].recs \cup commit[a].recs \cup {} BY <1>3
    <3> QED BY <1>0, <1>2, <1>3, <3>1, FS_EmptySet DEF Linked
  <2> QED BY <1>0, <2>1, LinksGrow
<1>8. /\ Len(C1) = New /\ C1[New] = first /\ IsSeq(C1) /\ \A c \in 1 .. Len(commit) : C1[c] = commit[c]
  BY <1>0, <1>2, Appended
<1> HIDE DEF C1
<1>9. Links(C2)
  <2>1. New \in 1 .. Len(C1) /\ b \in 1 .. Len(C1) BY <1>0, <1>2, <1>8
  <2>2. second.anc = C1[New].anc \cup C1[b].anc \cup {Len(C1) + 1} BY <1>0, <1>4, <1>8
  <2>3. second.recs \subseteq C1[New].recs \cup C1[b].recs \cup {} BY <1>0, <1>4, <1>8
  <2>4. Linked(C1, second) BY <2>1, <2>2, <2>3, FS_EmptySet DEF Linked
  <2> QED BY <1>7, <2>4, LinksGrow
<1>10. /\ Len(C2) = New + 1 /\ C2[New + 1] = second /\ \A c \in 1 .. Len(commit) : C2[c] = commit[c]
  <2>1. \A c \in 1 .. Len(commit) : c \in 1 .. Len(C1) BY <1>0, <1>2, <1>8
  <2> QED BY <1>8, <2>1, Appended
<1>12. C2[New] = first
  <2>1. New \in 1 .. Len(C1) BY <1>0, <1>2, <1>8
  <2> QED BY <1>8, <2>1, Appended
<1> HIDE DEF C2
<1>11. ASSUME NEW p \in Path
       PROVE  /\ Blends(C2, commit[main], commit[a], p, first.tree[p])
              /\ Blends(C2, first, commit[b], p, second.tree[p])
  <2>1. Conflicted(one) = {} /\ Conflicted(two) = {} BY <1>3, <1>4, <1>5 DEF Conflicted
  <2>2. Blends(commit, commit[main], commit[a], p, first.tree[p]) BY <1>3, <2>1, MergeTakes DEF one
  <2>3. Blends(commit, first, commit[b], p, second.tree[p]) BY <1>4, <2>1, MergeTakes DEF two
  <2>4. commit[main].anc \cap commit[a].anc \subseteq 1 .. Len(commit) /\ first.anc \cap commit[b].anc \subseteq 1 .. Len(commit)
    BY <1>0, AncestryFacts
  <2> QED BY <1>10, <2>2, <2>3, <2>4, BasesStay
<1>15. IsTrain(C2, New + 1, {a, b}, main)
  <2>1. /\ C2[a] = commit[a] /\ C2[b] = commit[b] /\ C2[main] = commit[main] /\ C2[New + 1] = second
        /\ C2[(New + 1) - 1] = first
    BY <1>0, <1>2, <1>8, <1>10, <1>12
  <2>2. (New + 1) - 1 = New /\ (New + 1) - 2 = Len(commit) BY <1>0, <1>2
  <2>3. IsStaged(C2, New + 1, a, b, main) BY <1>3, <1>4, <1>11, <2>1, <2>2 DEF IsStaged
  <2>4. New + 1 \in 1 .. Len(C2) BY <1>0, <1>2, <1>10
  <2> QED BY <1>0, <2>2, <2>3, <2>4 DEF IsTrain
<1>16. TrainHolds'
  <2>1. staging'.at = New + 1 /\ staging'.boarded = {a, b} /\ main' = main /\ tip' = tip BY <1>5
  <2>2. main # (New + 1) - 1 /\ \A u \in Work : tip[u] \notin {(New + 1) - 1, New + 1} BY <1>0, <1>2
  <2>3. main \in C2[main].anc BY <1>0, <1>10, AncestryFacts
  <2> QED BY <1>6, <1>15, <2>1, <2>2, <2>3 DEF TrainHolds
<1> QED BY <1>6, <1>9, <1>16

LEMMA ReviewStep == ReviewInv /\ [Next]_vars => ReviewInv'
<1> SUFFICES ASSUME ReviewInv, [Next]_vars PROVE ReviewInv'
  OBVIOUS
<1>1. GateInv' /\ (MovesMain \/ MakesCommit \/ \E w, v \in Work : Stage(w, v))
  BY GateStep, StepsAre DEF ReviewInv
<1> QED BY <1>1, MovingKeeps, MakingKeeps, StagingMakes DEF ReviewInv

LEMMA ReviewInvariant == Spec => []ReviewInv
BY ReviewStarts, ReviewStep, PTL DEF Spec

-----------------------------------------------------------------------------
(* What a train changes on main one of its passengers holds, and has not    *)
(* always held: where it met main, or since.                                *)
Has(C, m, j, p, content) ==
    /\ C[j].tree[p] = content
    /\ \E c \in Meetings(C, j, m) \cup (C[j].anc \ C[m].anc) : C[c].tree[p] # content

LEMMA HasFrom ==
    ASSUME NEW C, NEW m, NEW j, NEW p, NEW content, C[j].tree[p] = content,
           NEW e \in C[j].anc, C[e].tree[p] # content,
           e \in C[m].anc => \A d \in C[j].anc \cap C[m].anc : e \in C[d].anc => d = e
    PROVE  Has(C, m, j, p, content)
<1>1. CASE e \notin C[m].anc BY <1>1 DEF Has
<1>2. CASE e \in C[m].anc
  <2>1. e \in Meetings(C, j, m) BY <1>2 DEF Meetings, MergeBases, Latest, IsAncestor
  <2> QED BY <2>1 DEF Has
<1> QED BY <1>1, <1>2

LEMMA BaseIs ==
    ASSUME NEW C, Ancestry(C), NEW x, NEW y, x.anc \cap y.anc \subseteq 1 .. Len(C), NEW e \in MergeBases(C, x, y)
    PROVE  e \in x.anc \cap y.anc /\ e \in 1 .. Len(C) /\ \A d \in x.anc \cap y.anc : e \in C[d].anc => d = e
BY DEF MergeBases, Latest, IsAncestor

LEMMA BaseAbove ==
    ASSUME NEW C, Ancestry(C), NEW x, NEW y, x.anc \cap y.anc \subseteq 1 .. Len(C), NEW c \in x.anc \cap y.anc
    PROVE  \E e \in MergeBases(C, x, y) : c \in C[e].anc
<1> DEFINE both == x.anc \cap y.anc
<1>1. c \in both /\ both \subseteq 1 .. Len(C) OBVIOUS
<1> HIDE DEF both
<1>2. \E e \in Latest(C, both) : c \in C[e].anc BY <1>1, LatestAbove
<1> QED BY <1>2 DEF MergeBases, both

LEMMA TrainBrings ==
    ASSUME NEW C, Ancestry(C), NEW m \in 1 .. Len(C), NEW t \in 1 .. Len(C), NEW from \in 1 .. t - 2,
           NEW u \in 1 .. t - 2, NEW v \in 1 .. t - 2, IsStaged(C, t, u, v, from),
           from \in C[m].anc, m \in C[t].anc, m \notin {t - 1, t},
           NEW p \in Path, C[t].tree[p] # C[m].tree[p]
    PROVE  \E j \in {u, v} : Has(C, m, j, p, C[t].tree[p])
<1> DEFINE f == t - 1
           X == C[t].tree[p]
           shared == C[f].anc \cap C[v].anc
<1>1. /\ Len(C) \in Nat /\ f \in 1 .. Len(C) /\ from \in 1 .. Len(C) /\ u \in 1 .. Len(C) /\ v \in 1 .. Len(C)
      /\ f \notin C[v].anc /\ f \notin C[u].anc /\ f \notin C[from].anc
  <2>1. Len(C) \in Nat /\ f \in 1 .. Len(C) /\ from \in 1 .. Len(C) /\ u \in 1 .. Len(C) /\ v \in 1 .. Len(C)
    BY DEF Ancestry, IsSeq
  <2>2. C[v].anc \subseteq 1 .. v /\ C[u].anc \subseteq 1 .. u /\ C[from].anc \subseteq 1 .. from
    BY <2>1 DEF Ancestry
  <2>3. f \notin 1 .. v /\ f \notin 1 .. u /\ f \notin 1 .. from OBVIOUS
  <2> QED BY <2>1, <2>2, <2>3
<1>2. /\ C[f].anc = C[from].anc \cup C[u].anc \cup {f} /\ C[t].anc = C[f].anc \cup C[v].anc \cup {t}
      /\ Blends(C, C[from], C[u], p, C[f].tree[p]) /\ Blends(C, C[f], C[v], p, X)
  BY DEF IsStaged
<1> HIDE DEF f, X
<1>0. X # C[m].tree[p] BY DEF X
<1>3. m \in C[from].anc \/ m \in C[u].anc \/ m \in C[v].anc BY <1>2 DEF f
<1>4. C[from].anc \subseteq C[m].anc BY <1>1, AncestryFacts
<1>5. /\ \A c \in 1 .. Len(C) : C[c].anc \subseteq 1 .. Len(C) /\ c \in C[c].anc
      /\ \A c, d \in 1 .. Len(C) : c \in C[d].anc => C[c].anc \subseteq C[d].anc
      /\ \A c, d \in 1 .. Len(C) : c \in C[d].anc /\ d \in C[c].anc => c = d
  BY AncestryFacts
<1>6. /\ shared \subseteq 1 .. Len(C) /\ C[from].anc \cap C[u].anc \subseteq 1 .. Len(C)
      /\ \A e \in shared : e \in C[from].anc \/ e \in C[u].anc
  BY <1>1, <1>2, <1>5
<1>7. \A e \in MergeBases(C, C[f], C[v]) :
         e \in shared /\ \A d \in shared : e \in C[d].anc => d = e
  BY <1>6, BaseIs
(* v's content, from a base where it is another one and main is among what  *)
(* v was merged onto                                                        *)
<1>8. ASSUME C[m].anc \subseteq C[f].anc, X = C[v].tree[p], C[f].tree[p] # X,
             Common(C, C[f], C[v], p, C[f].tree[p])
      PROVE  Has(C, m, v, p, X)
  <2>1. PICK e \in MergeBases(C, C[f], C[v]) : C[e].tree[p] = C[f].tree[p] BY <1>8 DEF Common
  <2>2. e \in C[v].anc /\ \A d \in C[v].anc \cap C[m].anc : e \in C[d].anc => d = e BY <1>7, <1>8
  <2> QED BY <1>8, <2>1, <2>2, HasFrom
(* the first passenger's, where main is among it                            *)
<1>9. ASSUME NEW j \in {u, v}, m \in C[j].anc, C[j].tree[p] = X
      PROVE  Has(C, m, j, p, X)
  <2>1. \A d \in C[j].anc \cap C[m].anc : m \in C[d].anc => d = m BY <1>1, <1>5
  <2> QED BY <1>0, <1>9, <2>1, HasFrom
<1>10. ASSUME from \in C[u].anc PROVE C[f].tree[p] = C[u].tree[p]
  <2>1. \A d \in C[from].anc \cap C[u].anc : from \in C[d].anc => d = from BY <1>1, <1>5
  <2>2. from \in C[from].anc \cap C[u].anc BY <1>1, <1>5, <1>10
  <2>3. from \in MergeBases(C, C[from], C[u]) BY <2>1, <2>2 DEF MergeBases, Latest, IsAncestor
  <2> QED BY <1>2, <2>3 DEF Blends, Common
<1>11. CASE m \in C[from].anc
  <2>1. m = from BY <1>1, <1>5, <1>11
  <2>2. ASSUME C[f].tree[p] = X PROVE Has(C, m, u, p, X)
    <3>1. C[u].tree[p] = X /\ Common(C, C[from], C[u], p, C[from].tree[p]) BY <1>0, <1>2, <2>1, <2>2 DEF Blends
    <3>2. PICK e \in MergeBases(C, C[from], C[u]) : C[e].tree[p] = C[from].tree[p] BY <3>1 DEF Common
    <3>3. e \in C[u].anc /\ \A d \in C[u].anc \cap C[m].anc : e \in C[d].anc => d = e BY <1>6, <2>1, BaseIs
    <3> QED BY <1>0, <2>1, <3>1, <3>2, <3>3, HasFrom
  <2>3. C[m].anc \subseteq C[f].anc BY <1>2, <2>1
  <2>4. C[f].tree[p] = X \/ (X = C[v].tree[p] /\ Common(C, C[f], C[v], p, C[f].tree[p])) BY <1>2 DEF Blends
  <2>5. Has(C, m, u, p, X) \/ Has(C, m, v, p, X) BY <1>8, <2>2, <2>3, <2>4
  <2> QED BY <2>5 DEF X
<1>12. CASE m \in C[u].anc
  <2>1. C[m].anc \subseteq C[u].anc BY <1>1, <1>5, <1>12
  <2>2. from \in C[u].anc /\ C[m].anc \subseteq C[f].anc BY <1>2, <2>1
  <2>3. C[f].tree[p] = X \/ (X = C[v].tree[p] /\ Common(C, C[f], C[v], p, C[f].tree[p])) BY <1>2 DEF Blends
  <2>4. Has(C, m, u, p, X) \/ Has(C, m, v, p, X) BY <1>8, <1>9, <1>10, <1>12, <2>2, <2>3
  <2> QED BY <2>4 DEF X
<1>13. CASE m \in C[v].anc /\ m \notin C[u].anc /\ m \notin C[from].anc
  <2>1. CASE C[v].tree[p] = X
    <3>1. Has(C, m, v, p, X) BY <1>9, <1>13, <2>1
    <3> QED BY <3>1 DEF X
  <2>2. CASE C[v].tree[p] # X
    <3>1. C[f].tree[p] = X /\ Common(C, C[f], C[v], p, C[v].tree[p]) BY <1>2, <2>2 DEF Blends
    <3>2. C[m].anc \subseteq C[v].anc BY <1>1, <1>5, <1>13
    (* a base of the second merge that the first passenger has              *)
    <3>3. ASSUME NEW e \in MergeBases(C, C[f], C[v]), e \in C[u].anc, C[u].tree[p] = X
          PROVE  Has(C, m, u, p, X)
      <4>1. C[e].tree[p] # X BY <2>2, <3>1 DEF Common
      <4>2. \A d \in C[u].anc \cap C[m].anc : e \in C[d].anc => d = e BY <1>2, <1>7, <3>2
      <4> QED BY <3>3, <4>1, <4>2, HasFrom
    <3>4. CASE C[from].tree[p] # X
      <4>1. C[u].tree[p] = X /\ Common(C, C[from], C[u], p, C[from].tree[p]) BY <1>2, <3>1, <3>4 DEF Blends
      <4>2. PICK g \in MergeBases(C, C[from], C[u]) : C[g].tree[p] = C[from].tree[p] BY <4>1 DEF Common
      <4>3. g \in C[from].anc \cap C[u].anc /\ \A d \in C[from].anc \cap C[u].anc : g \in C[d].anc => d = g
        BY <1>6, BaseIs
      <4>4. CASE \A d \in C[u].anc \cap C[m].anc : g \in C[d].anc => d = g
        <5>1. Has(C, m, u, p, X) BY <3>4, <4>1, <4>2, <4>3, <4>4, HasFrom
        <5> QED BY <5>1 DEF X
      <4>5. CASE ~\A d \in C[u].anc \cap C[m].anc : g \in C[d].anc => d = g
        <5>1. PICK d \in C[u].anc \cap C[m].anc : g \in C[d].anc /\ d # g BY <4>5
        <5>2. d \notin C[from].anc BY <4>3, <5>1
        <5>3. d \in shared BY <1>2, <3>2, <5>1
        <5>4. PICK e \in MergeBases(C, C[f], C[v]) : d \in C[e].anc BY <1>6, <5>3, BaseAbove
        <5>5. e \in shared /\ e \in 1 .. Len(C) BY <1>6, <1>7, <5>4
        <5>6. e \notin C[from].anc BY <1>1, <1>5, <5>2, <5>4, <5>5
        <5>7. Has(C, m, u, p, X) BY <1>6, <3>3, <4>1, <5>4, <5>5, <5>6
        <5> QED BY <5>7 DEF X
      <4> QED BY <4>4, <4>5
    <3>5. CASE C[from].tree[p] = X
      <4>1. from \in shared BY <1>1, <1>2, <1>5, <3>2
      <4>2. PICK e \in MergeBases(C, C[f], C[v]) : from \in C[e].anc BY <1>6, <4>1, BaseAbove
      <4>3. e \in shared /\ e \in 1 .. Len(C) BY <1>6, <1>7, <4>2
      <4>4. C[e].tree[p] # X BY <2>2, <3>1, <4>2 DEF Common
      <4>5. e \in C[u].anc BY <1>1, <1>5, <1>6, <3>5, <4>2, <4>3, <4>4
      <4>6. from \in C[u].anc BY <1>1, <1>5, <4>2, <4>3, <4>5
      <4>7. Has(C, m, u, p, X) BY <1>10, <3>1, <3>3, <4>2, <4>5, <4>6
      <4> QED BY <4>7 DEF X
    <3> QED BY <3>4, <3>5
  <2> QED BY <2>1, <2>2
<1> QED BY <1>3, <1>11, <1>12, <1>13

(* Main moves with no new commit by a push alone.                           *)
LEMMA LandsByPush ==
    ASSUME GateInv, [Next]_vars, main' # main, commit' = commit
    PROVE  (\E w \in scene.works : Push(w)) \/ PushTrain
<1>0. Len(commit) \in Nat /\ IsSeq(commit) BY GateFacts
<1>1. ASSUME NEW c, Add(c) PROVE FALSE
  <2>1. commit = Append(commit, c) BY <1>1 DEF Add
  <2>2. Len(Append(commit, c)) = Len(commit) + 1 BY <1>0, Appended
  <2> QED BY <1>0, <2>1, <2>2
<1>2. \A w, X : ~Commit(w, X) BY DEF Commit
<1>3. ~\E p \in Path : OthersLand(p) BY <1>1 DEF OthersLand
<1>4. ~UNCHANGED vars BY DEF vars
<1>5. \A w, p : ~Write(w, p) /\ ~Revert(w, p) BY <1>2 DEF Write, Revert
<1>6. \A w : ~MergeMain(w) BY <1>2 DEF MergeMain
<1>7. \A w : ~Rebase(w) BY <1>2 DEF Rebase
<1>8. \A w : ~Archive(w) /\ ~Delete(w) /\ \A word : ~Waive(w, word) BY <1>2 DEF Archive, Delete, Waive, MovePlan
<1>9. \A w : ~Prune(w) BY <1>2 DEF Prune
<1>10. \A w, v : ~Stack(w, v) /\ ~Stage(w, v) BY <1>2 DEF Stack, Stage
<1>11. \A w, h, v : ~Attest(w, h, v) BY <1>2 DEF Attest
<1> QED BY <1>3, <1>4, <1>5, <1>6, <1>7, <1>8, <1>9, <1>10, <1>11 DEF Next

(* A landing: of a branch, or of a train at its passengers.                 *)
LEMMA LandingIs ==
    ASSUME ReviewInv, [Next]_vars, Lands
    PROVE  /\ main' \in 1 .. Len(commit) /\ main \in 1 .. Len(commit) /\ commit' = commit /\ staging' = staging
           /\ main \in commit[main'].anc /\ Passable(main', Riders)
           /\ \A j \in Riders : j \in 1 .. Len(commit) /\ commit[j].anc \subseteq commit[main'].anc
           /\ Riders # {} =>
                 \A p \in Path : \/ commit[main'].tree[p] = commit[main].tree[p]
                                 \/ \E j \in Riders : Has(commit, main, j, p, commit[main'].tree[p])
<1>1. GateInv /\ commit' = commit /\ main' # main BY DEF ReviewInv, Lands
<1>2. main \in 1 .. Len(commit) /\ Ancestry(commit) /\ scene.works \subseteq Work
  BY <1>1, GateFacts DEF GateInv, ReviewInv, Links
<1>3. (\E w \in scene.works : Push(w)) \/ PushTrain BY <1>1, LandsByPush
<1>4. CASE \E w \in scene.works : Push(w)
  <2>1. PICK w \in Work : Push(w) BY <1>2, <1>4
  <2>2. main' = tip[w] /\ main \in commit[main'].anc /\ Passable(main', {}) /\ staging' = staging
    BY <2>1 DEF Push, IsAncestor
  <2>3. main' \in 1 .. Len(commit) BY <1>1, <2>2, GateFacts
  <2>4. Riders = {}
    <3>1. CASE staging = NoTrain BY <3>1 DEF Riders, NoTrain
    <3>2. CASE staging # NoTrain BY <2>2, <3>2 DEF Riders, ReviewInv, TrainHolds
    <3> QED BY <3>1, <3>2
  <2> QED BY <1>1, <1>2, <2>2, <2>3, <2>4
<1>5. CASE PushTrain
  <2> DEFINE t == staging.at
             boarded == staging.boarded
  <2>1. /\ staging # NoTrain /\ main' = t /\ main # t /\ main \in commit[t].anc /\ Passable(t, boarded)
        /\ staging' = staging
    BY <1>5 DEF PushTrain, IsAncestor
  <2>2. Riders = boarded BY <2>1 DEF Riders
  <2>3. PICK from \in commit[main].anc : IsTrain(commit, t, boarded, from)
    BY <2>1 DEF ReviewInv, TrainHolds
  <2>4. main # t - 1 BY <2>1 DEF ReviewInv, TrainHolds
  <2> HIDE DEF t, boarded
  <2>5. t \in 1 .. Len(commit) /\ from \in 1 .. t - 2 BY <2>3 DEF IsTrain
  <2>6. PICK u \in 1 .. t - 2, v \in 1 .. t - 2 : boarded = {u, v} /\ IsStaged(commit, t, u, v, from)
    BY <2>3 DEF IsTrain
  <2>7. ASSUME NEW j \in boarded PROVE j \in 1 .. Len(commit) /\ commit[j].anc \subseteq commit[t].anc
    <3>1. j \in 1 .. Len(commit) BY <2>5, <2>6
    <3> QED BY <2>6, <3>1 DEF IsStaged
  <2>8. ASSUME NEW p \in Path, commit[t].tree[p] # commit[main].tree[p]
        PROVE  \E j \in boarded : Has(commit, main, j, p, commit[t].tree[p])
    BY <1>2, <2>1, <2>3, <2>4, <2>5, <2>6, <2>8, TrainBrings
  <2> QED BY <1>1, <1>2, <2>1, <2>2, <2>5, <2>7, <2>8
<1> QED BY <1>3, <1>4, <1>5

(* A work that owes a review has one at each tip it is judged at, over      *)
(* reviews that begin on main.                                              *)
LEMMA OwedIsJudged ==
    ASSUME ReviewInv, [Next]_vars, Lands, NEW w \in Work, Owes(w)
    PROVE  \E own \in ReviewsOf(w) :
              /\ own \in Speaking(w) /\ Ranges(main', w) \subseteq Speaking(w)
              /\ \A j \in TipsOf(own) : /\ CanJudge(commit, j, main, own, Ranges(main', w))
                                        /\ UnreviewedAt(commit, j, main, own, Ranges(main', w)) = {}
<1> DEFINE t == main'
           recs == commit[t].recs
<1>0. /\ t \in 1 .. Len(commit) /\ main \in 1 .. Len(commit) /\ commit' = commit
      /\ Passable(t, Riders)
      /\ \A j \in Riders : j \in 1 .. Len(commit) /\ commit[j].anc \subseteq commit[t].anc
  BY LandingIs
<1>1. Ancestry(commit) /\ IsFiniteSet(Passes(recs)) /\ \A r \in Passes(recs) : IsReview(commit, r)
  BY <1>0 DEF ReviewInv, Links
<1>2. commit[t].plan[w].at \in {"active", "archived"} /\ ~Waived(t, w) /\ w \in Claimed(t) /\ Tier[w] >= 2
  <2>1. commit[t].plan[w] \in Plans BY <1>0, GateFacts DEF ReviewInv
  <2>2. commit[t].plan[w].at \in {"none", "active", "archived"} BY <2>1 DEF Plans, Plan, NoPlan
  <2>3. w # Nobody BY ReviewGateAssumption
  <2> QED BY <1>0, <2>2, <2>3 DEF Owes, Waived, Landed, Claimed, Brings
<1>3. Current(t, Riders, w)
  <2>1. ~PlanFindings(t, Riders, w) BY <1>0, <1>2 DEF Passable
  <2> QED BY <1>2, <2>1 DEF PlanFindings, Stands
<1>4. PICK own \in Clearing(t, w) : Fresh(t, Riders, own, w) BY <1>3 DEF Current
<1> DEFINE others == Ranges(t, w)
<1>5. own \in Passes(recs) /\ own.work = w /\ own \notin Invalid(recs, t)
  BY DEF Clearing, Of, ValidPasses
<1>6. others \subseteq Passes(recs) /\ \A r \in others : Tier[r.work] >= Tier[w] /\ r \notin Invalid(recs, t)
  BY DEF Ranges, ValidPasses
<1>7. own \in ReviewsOf(w) /\ own \in Speaking(w) /\ others \subseteq Speaking(w)
  <2>1. Tier[w] >= Tier[w] BY ReviewGateAssumption
  <2> HIDE DEF others
  <2> QED BY <1>0, <1>5, <1>6, <2>1 DEF ReviewsOf, Speaking, Of, Passes
<1>8. \A r \in Passes(recs) \ Invalid(recs, t) :
         Carries(t, r.head) => r.base \in commit[r.head].anc \cap commit[main].anc
  <2> SUFFICES ASSUME NEW r \in Passes(recs) \ Invalid(recs, t), Carries(t, r.head)
               PROVE  r.base \in commit[r.head].anc \cap commit[main].anc
    OBVIOUS
  <2>1. Forks(r.head) = {r.base} BY DEF Invalid, Passes
  <2>2. r.base \in Forks(r.head) BY <2>1
  <2> QED BY <2>2 DEF Forks, MergeBases, Latest
<1>9. ASSUME NEW j \in TipsOf(own)
      PROVE  CanJudge(commit, j, main, own, others) /\ UnreviewedAt(commit, j, main, own, others) = {}
  <2>1. UnreviewedAt(commit, j, main, own, others) = {} BY <1>4, <1>9 DEF Fresh, TipsOf, Carriers
  <2>2. j \in 1 .. Len(commit) /\ commit[j].anc \subseteq commit[t].anc
    BY <1>0, <1>9 DEF TipsOf, Carriers
  <2>3. \A h : h \in commit[j].anc \ commit[main].anc => Carries(t, h) BY <2>2 DEF Carries
  <2>4. IsFiniteSet(others) BY <1>1, <1>6, FS_Subset
  <2>5. own.head \in 1 .. Len(commit) /\ own.base \in commit[own.head].anc BY <1>1, <1>5 DEF IsReview
  <2>6. own.head \in commit[j].anc \cup commit[main].anc => own.base \in commit[main].anc
    <3>1. CASE own.head \in commit[j].anc \ commit[main].anc BY <1>5, <1>8, <2>3, <3>1
    <3>2. CASE own.head \in commit[main].anc
      <4>1. commit[own.head].anc \subseteq commit[main].anc BY <1>0, <1>1, <2>5, <3>2, AncestryFacts
      <4> QED BY <2>5, <4>1
    <3> QED BY <3>1, <3>2
  <2>7. ASSUME NEW r \in others, r.head \in commit[j].anc
        PROVE  r.base \in commit[r.head].anc \cap commit[main].anc
    <3>1. CASE r.head \notin commit[main].anc BY <1>6, <1>8, <2>3, <2>7, <3>1
    <3>2. CASE r.head \in commit[main].anc
      <4>1. r.head \in 1 .. Len(commit) /\ r.base \in commit[r.head].anc BY <1>1, <1>6 DEF IsReview
      <4>2. commit[r.head].anc \subseteq commit[main].anc BY <1>0, <1>1, <3>2, <4>1, AncestryFacts
      <4> QED BY <4>1, <4>2
    <3> QED BY <3>1, <3>2
  <2> HIDE DEF others
  <2> QED BY <1>0, <1>1, <2>1, <2>2, <2>4, <2>5, <2>6, <2>7 DEF CanJudge
<1> QED BY <1>7, <1>9

LEMMA JudgedSpeak ==
    ASSUME NEW C, NEW j, NEW m, NEW own, NEW others
    PROVE  Judging(C, j, m, own, others) \subseteq {own} \cup others
BY DEF Judging

LEMMA RangedSpeak ==
    ASSUME NEW C, NEW j, NEW own, NEW others
    PROVE  Ranged(C, j, own, others) \subseteq {own} \cup others
BY DEF Ranged

LEMMA MainMet ==
    ASSUME ReviewInv, [Next]_vars, Lands, NEW j \in Riders \cup {main'}
    PROVE  /\ j \in 1 .. Len(commit) /\ (j = main' => MetMain(j) = {main})
           /\ Cardinality(MetMain(j)) = 1 => \E b : MetMain(j) = {b}
<1>1. /\ j \in 1 .. Len(commit) /\ main \in 1 .. Len(commit) /\ main \in commit[main'].anc
      /\ main' \in 1 .. Len(commit) /\ Ancestry(commit)
  BY LandingIs DEF ReviewInv, Links
<1>2. ASSUME j = main' PROVE MetMain(j) = {main}
  <2>1. commit[main].anc \subseteq commit[j].anc /\ main \in commit[main].anc BY <1>1, <1>2, AncestryFacts
  <2>2. commit[j].anc \cap commit[main].anc = commit[main].anc BY <2>1
  <2>3. \A c \in commit[main].anc : c \in 1 .. Len(commit) BY <1>1, AncestryFacts
  <2>4. \A c \in commit[main].anc : main \in commit[c].anc => c = main BY <1>1, <2>3, AncestryFacts
  <2>5. Latest(commit, commit[main].anc) = {main} BY <2>1, <2>4 DEF Latest, IsAncestor
  <2> QED BY <2>2, <2>5 DEF MetMain, Meetings, MergeBases
<1>3. IsFiniteSet(MetMain(j))
  <2>1. MetMain(j) \subseteq 1 .. Len(commit)
    <3>1. commit[main].anc \subseteq 1 .. Len(commit) BY <1>1, AncestryFacts
    <3> QED BY <3>1 DEF MetMain, Meetings, MergeBases, Latest
  <2>2. IsFiniteSet(1 .. Len(commit))
    <3>1. Len(commit) \in Nat BY <1>1, AncestryFacts
    <3> QED BY <3>1, FS_Interval
  <2> QED BY <2>1, <2>2, FS_Subset
<1> QED BY <1>1, <1>2, <1>3, FS_Singleton

(* What a push brings to main for a work that owes a review, a reviewer who *)
(* passed it has had before him as it came - at each passenger of a train   *)
(* that carries the work's reviews, wherever it met main; what a train      *)
(* changes on main one of its passengers brings.                            *)
THEOREM LandsWhatWasSeen == Spec => LandedIsSeen
<1>1. ASSUME ReviewInv, [Next]_vars, Lands, NEW w \in Work, Owes(w), NEW j \in TipsFor(w), NEW p \in Path,
             Comes(j, p, commit[j].tree[p])
      PROVE  Read(w, p, commit[j].tree[p]) \/ RestsOnMain(w, p, commit[j].tree[p])
  <2> DEFINE content == commit[j].tree[p]
             others == Ranges(main', w)
  <2>0. /\ commit' = commit /\ j \in Riders \cup {main'}
        /\ \A m \in MetMain(j) : commit[m].tree[p] # content
        /\ Cardinality(MetMain(j)) = 1 \/ ~Once(p, content)
    BY <1>1, LandingIs DEF TipsFor, Comes
  <2>1. PICK own \in ReviewsOf(w) :
           /\ own \in Speaking(w) /\ others \subseteq Speaking(w)
           /\ \A i \in TipsOf(own) : /\ CanJudge(commit, i, main, own, others)
                                     /\ UnreviewedAt(commit, i, main, own, others) = {}
    BY <1>1, OwedIsJudged
  <2>2. j \in TipsOf(own) BY DEF TipsFor
  <2> HIDE DEF others
  <2>3. CanJudge(commit, j, main, own, others) /\ UnreviewedAt(commit, j, main, own, others) = {} BY <2>1, <2>2
  <2>4. CASE ~Once(p, content)
    <3>1. ~OnMain(commit, main, p, content) BY <2>4 DEF Once, OnMain
    <3>2. PICK r \in Ranged(commit, j, own, others) : SawCome(commit, r, p, content)
      BY <2>3, <3>1, NewIsSeen DEF CameBy
    <3>3. r \in Speaking(w) BY <2>1, RangedSpeak
    <3> HIDE DEF content
    <3>4. Saw(r, p, content) BY <3>2 DEF SawCome, InRange, Saw, RangeOf
    <3> QED BY <3>3, <3>4 DEF Read, content
  <2>5. CASE Cardinality(MetMain(j)) = 1
    <3>1. PICK b : MetMain(j) = {b} BY <1>1, <2>0, <2>5, MainMet
    <3>2. Meetings(commit, j, main) = {b} BY <3>1 DEF MetMain
    <3>3. /\ Judges(commit, j, b, own, others) /\ commit[b].anc \subseteq commit[main].anc
          /\ ReviewedThere(commit, j, b, own, others, p)
      BY <2>3, <3>2, MetOnce, ReviewedOnce
    <3>4. \/ \E r \in Judging(commit, j, b, own, others) : SawCome(commit, r, p, content)
          \/ /\ own.base \notin commit[b].anc /\ OnMain(commit, b, p, content)
             /\ commit[own.base].tree[p] = content /\ commit[own.head].tree[p] = content
      BY <2>0, <3>1, <3>3, LandsSeen
    <3> HIDE DEF content
    <3>5. CASE \E r \in Judging(commit, j, b, own, others) : SawCome(commit, r, p, content)
      <4>1. PICK r \in Speaking(w) : SawCome(commit, r, p, content) BY <2>1, <3>5, JudgedSpeak
      <4>2. Saw(r, p, content) BY <4>1 DEF SawCome, InRange, Saw, RangeOf
      <4> QED BY <4>2 DEF Read, content
    <3>6. CASE /\ own.base \notin commit[b].anc /\ OnMain(commit, b, p, content)
               /\ commit[own.base].tree[p] = content /\ commit[own.head].tree[p] = content
      <4>1. own.head \notin commit[j].anc BY <3>3, <3>6 DEF Judges, Above
      <4>2. j = main' BY <2>2, <4>1 DEF TipsOf, Carriers, IsAncestor
      <4>3. b = main BY <1>1, <2>0, <3>1, <4>2, MainMet
      <4>4. own \in Of(Speaking(w), w) BY <2>1 DEF ReviewsOf, Of
      <4> QED BY <2>0, <3>6, <4>1, <4>2, <4>3, <4>4 DEF RestsOnMain, Once, OnMain, content
    <3> QED BY <3>4, <3>5, <3>6
  <2> QED BY <2>0, <2>4, <2>5
<1>2. ASSUME ReviewInv, [Next]_vars, Lands, NEW p \in Path, Riders # {},
             commit[main'].tree[p] # commit[main].tree[p]
      PROVE  \E j \in Riders : commit[j].tree[p] = commit[main'].tree[p] /\ HasOther(j, p, commit[main'].tree[p])
  BY <1>2, LandingIs DEF Has, HasOther, MetMain
<1>3. ReviewInv /\ [Next]_vars =>
        [Lands =>
          /\ \A w \in Work : Owes(w) =>
                \A j \in TipsFor(w), p \in Path :
                    LET content == commit[j].tree[p]
                    IN Comes(j, p, content) => Read(w, p, content) \/ RestsOnMain(w, p, content)
          /\ \A p \in Path :
                LET content == commit[main'].tree[p]
                IN (Riders # {} /\ content # commit[main].tree[p]) =>
                      \E j \in Riders : commit[j].tree[p] = content /\ HasOther(j, p, content)]_vars
  BY <1>1, <1>2
<1> QED BY <1>3, ReviewInvariant, PTL DEF Spec, LandedIsSeen

(* What a review saw change lands with its work, or main has held it, or a  *)
(* reviewer saw it go, or come what is there instead; at every tip that met *)
(* main at one commit.                                                      *)
THEOREM KeepsWhatWasReviewed == Spec => ReviewedIsKept
<1>1. ASSUME ReviewInv, [Next]_vars, Lands, NEW w \in Work, Owes(w)
      PROVE  \E r \in ReviewsOf(w) : \A j \in TipsOf(r), p \in Changed(commit[r.base], commit[r.head]) :
                LET content == commit[r.head].tree[p]
                IN Cardinality(MetMain(j)) = 1 =>
                      \/ commit[j].tree[p] = content
                      \/ Once(p, content)
                      \/ \E s \in Speaking(w) : Saw(s, p, commit[j].tree[p]) \/ Undid(s, p, content)
  <2> DEFINE others == Ranges(main', w)
  <2>1. PICK own \in ReviewsOf(w) :
           /\ own \in Speaking(w) /\ others \subseteq Speaking(w)
           /\ \A i \in TipsOf(own) : /\ CanJudge(commit, i, main, own, others)
                                     /\ UnreviewedAt(commit, i, main, own, others) = {}
    BY <1>1, OwedIsJudged
  <2> HIDE DEF others
  <2>2. ASSUME NEW j \in TipsOf(own), NEW p \in Changed(commit[own.base], commit[own.head]),
               Cardinality(MetMain(j)) = 1
        PROVE  \/ commit[j].tree[p] = commit[own.head].tree[p]
               \/ Once(p, commit[own.head].tree[p])
               \/ \E s \in Speaking(w) : Saw(s, p, commit[j].tree[p]) \/ Undid(s, p, commit[own.head].tree[p])
    <3> DEFINE content == commit[own.head].tree[p]
               lands == commit[j].tree[p]
    <3>0. j \in Riders \cup {main'} BY <2>2 DEF TipsOf, Carriers
    <3>1. PICK b : MetMain(j) = {b} BY <1>1, <2>2, <3>0, MainMet
    <3>2. Meetings(commit, j, main) = {b} BY <3>1 DEF MetMain
    <3>3. p \in Path /\ commit[own.base].tree[p] # content BY DEF Changed
    <3>4. CanJudge(commit, j, main, own, others) /\ UnreviewedAt(commit, j, main, own, others) = {} BY <2>1, <2>2
    <3>5. /\ Judges(commit, j, b, own, others) /\ commit[b].anc \subseteq commit[main].anc
          /\ ReviewedThere(commit, j, b, own, others, p)
      BY <3>2, <3>3, <3>4, MetOnce, ReviewedOnce
    <3>6. \/ lands = content \/ OnMain(commit, b, p, content)
          \/ \E r \in Judging(commit, j, b, own, others) :
                SawCome(commit, r, p, lands) \/ SawGo(commit, r, p, content)
      BY <3>3, <3>5, KeepsSeen
    <3> HIDE DEF content, lands
    <3>7. \A r : SawCome(commit, r, p, lands) => Saw(r, p, lands)
      BY DEF SawCome, InRange, Saw, RangeOf
    <3>8. \A r : SawGo(commit, r, p, content) => Undid(r, p, content)
      BY DEF SawGo, InRange, Undid, RangeOf
    <3>9. Judging(commit, j, b, own, others) \subseteq Speaking(w) BY <2>1, JudgedSpeak
    <3> QED BY <3>5, <3>6, <3>7, <3>8, <3>9 DEF OnMain, Once, content, lands
  <2> QED BY <2>2
<1>2. ReviewInv /\ [Next]_vars =>
        [Lands => \A w \in Work : Owes(w) =>
          \E r \in ReviewsOf(w) : \A j \in TipsOf(r), p \in Changed(commit[r.base], commit[r.head]) :
              LET content == commit[r.head].tree[p]
              IN Cardinality(MetMain(j)) = 1 =>
                    \/ commit[j].tree[p] = content
                    \/ Once(p, content)
                    \/ \E s \in Speaking(w) : Saw(s, p, commit[j].tree[p]) \/ Undid(s, p, content)]_vars
  BY <1>1
<1> QED BY <1>2, ReviewInvariant, PTL DEF Spec, ReviewedIsKept
=============================================================================
