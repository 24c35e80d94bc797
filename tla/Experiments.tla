---------------------------- MODULE Experiments ----------------------------
(***************************************************************************)
(* The process-improvement records of optimize.py: one file per            *)
(* experiment, whose terms are reviewed, frozen at the start, and judged   *)
(* again by everyone who asks whether the experiment is on.  The commands  *)
(* `new`, `move`, `review` write a record; sessions also edit it by hand,  *)
(* in any place; commits keep every version.                               *)
(*                                                                         *)
(* A terms value stands for the hash of everything above `## Result`.      *)
(* Names are told truly to the commands; a hand may cut the log, change    *)
(* the state or the FROZEN line, but writes no line under another's name.  *)
(* Bounds: a story of deeds, LastDay days.                                 *)
(***************************************************************************)
EXTENDS Integers, Sequences, SequencesExt, FiniteSets

CONSTANTS
  Records,   \* the numbers records can have
  Workers,   \* people who are neither owner nor steward
  Mandates,  \* what the mandate file may come to say
  LastDay,   \* the last day of the model
  Stories,   \* the deeds a behaviour may hold, as often as each may happen
  NoOne

People == {"owner", "steward"} \cup Workers

Terminal == {"adopted", "rejected", "rolled-back", "superseded"}
States   == {"proposed", "designed", "piloting", "stopped", "evaluating"} \cup Terminal

MOVES == [s \in States |->
  CASE s = "proposed"   -> {"designed", "rejected"}
    [] s = "designed"   -> {"piloting", "rejected", "proposed"}
    [] s = "piloting"   -> {"stopped", "evaluating"}
    [] s = "stopped"    -> {"evaluating", "rolled-back"}
    [] s = "evaluating" -> Terminal
    [] OTHER            -> {}]

SAFE_MOVES == {"stopped", "evaluating"}
RIGHTS     == {"start", "roll-back", "adopt", "reject"}

Mandate == [days : Nat, may : SUBSET RIGHTS]
NoMandate == [days |-> 0, may |-> {}]
MANDATE_DEFAULTS == [days |-> 30, may |-> {"start", "roll-back"}]

TrialDeeds == {"new", "design", "reword", "reassign", "prolong", "review", "start",
          "decide", "commit", "state", "refreeze", "cut", "delete", "mandate"}

ASSUME PeopleAssumption   == NoOne \notin People /\ LastDay \in Nat
ASSUME MandatesAssumption == Mandates \subseteq Mandate
ASSUME StoriesAssumption  == Stories \subseteq [TrialDeeds -> Nat]

VARIABLES
  file,     \* the record under each number, or NoFile
  versions, \* its committed versions
  mandate,  \* the mandate file
  today,
  story,    \* the deeds left
  verdicts, \* the reviews that were given (history)
  ran       \* the terms each record was on with, when committed (history)

trialVars == <<file, versions, mandate, today, story, verdicts, ran>>

(* `text` is 0 in a skeleton, 1 once Observation, Hypothesis and Placement *)
(* are filled, 2 and more once the trial is.                               *)
Terms  == [text : Nat, implementer : People \cup {NoOne}, until : Nat]
NoFile == [state |-> "none"]

Line(is, who, to, terms, m) ==
  [is |-> is, who |-> who, to |-> to, terms |-> terms, day |-> today,
   days |-> m.days, may |-> m.may]
Moved(who, to)              == Line("move", who, to, NoOne, NoMandate)
ReviewLine(who, verdict, t) == Line("review", who, verdict, t, NoMandate)
Froze(who, t)               == Line("frozen", who, "frozen", t, mandate)

(* Where in a log its lines of a kind are.                                 *)
Lines(log, is) == {i \in DOMAIN log : log[i].is = is}
Frozen(log)    == Lines(log, "frozen")
Ran(log)       == Frozen(log) # {}

Least(S)    == CHOOSE n \in S : \A m \in S : n <= m
Greatest(S) == CHOOSE n \in S : \A m \in S : m <= n
Single(S)   == \E n \in S : S = {n}

OnFile == {r \in Records : file[r] # NoFile}

-----------------------------------------------------------------------------
(* Who may.                                                                *)

Right(to) == CASE to = "piloting" -> "start" [] to = "adopted" -> "adopt"
               [] to = "rolled-back" -> "roll-back" [] OTHER -> "reject"

(* The implementer neither starts nor adopts; what needs no right is       *)
(* anyone's; the rest is the owner's, or the steward's where delegated.    *)
MayMove(who, to, implementer, may, from) ==
  /\ ~(to \in {"piloting", "adopted"} /\ implementer # NoOne /\ who = implementer)
  /\ \/ to \in {"proposed", "designed", "stopped", "evaluating"}
     \/ who = "owner"
     \/ to = "rejected" /\ from \in {"proposed", "designed"}
     \/ who = "steward" /\ Right(to) \in may

(* The rights as they are.                                                 *)
RightsNow(log) == IF mandate # NoMandate THEN mandate.may ELSE MANDATE_DEFAULTS.may

(* The rights the way they were frozen, else as they are.                  *)
Snapshot(log) == IF Single(Frozen(log)) THEN log[Least(Frozen(log))].may
                 ELSE IF mandate # NoMandate THEN mandate.may ELSE MANDATE_DEFAULTS.may

-----------------------------------------------------------------------------
(* problems(): everything a record must answer for, from the record alone. *)

Moves(f) == Lines(f.log, "move")

Reached(f) ==
  CASE f.state = "proposed" -> {"proposed"}
    [] f.state = "designed" -> {"proposed", "designed"}
    [] f.state = "rejected" /\ \A i \in DOMAIN f.log :
         ~(f.log[i].is = "move" /\ f.log[i].to = "piloting") -> {}
    [] OTHER -> {"proposed", "designed", "piloting", f.state}

Filled(f) ==
  /\ "designed" \in Reached(f) => f.terms.text >= 1 /\ f.terms.implementer # NoOne
  /\ "piloting" \in Reached(f) => f.terms.text >= 2
  /\ f.state \in Terminal => f.decided \/ Reached(f) = {}

(* Reviews of the frozen terms by another than the implementer, before the *)
(* freeze.                                                                 *)
OnTerms(f, at) ==
  {i \in 1 .. at - 1 : /\ f.log[i].is = "review" /\ f.log[i].terms = f.log[at].terms
                       /\ f.log[i].who # f.terms.implementer}

FreezeHolds(f, m) ==
  LET at     == Least(Frozen(f.log))
      froze  == f.log[at]
      starts == {i \in Moves(f) : f.log[i].to = "piloting"}
      start  == f.log[Least(starts)]
      bounds == {froze.days} \cup (IF f.state = "piloting" /\ m # NoMandate THEN {m.days} ELSE {})
  IN  /\ Single(Frozen(f.log))
      /\ froze.terms = f.terms
      /\ froze.day <= today
      /\ \E i \in OnTerms(f, at) : f.log[i].to = "pass"
      /\ \A i \in OnTerms(f, at) : f.log[i].to # "block"
      /\ Single(starts)
      /\ start.day = froze.day
      /\ MayMove(start.who, "piloting", f.terms.implementer, froze.may, "designed")
      /\ f.state = "piloting" /\ m # NoMandate =>
           MayMove(start.who, "piloting", f.terms.implementer, m.may, "designed")
      /\ \A d \in bounds : f.terms.until - froze.day <= d

(* A history that only sees a log grow.                                    *)
LogGrows(r, f) == \A v \in versions[r] : Len(v.log) <= Len(f.log)

(* Every committed log is a prefix of today's, and every version that ran  *)
(* carries today's terms.                                                  *)
HistoryHolds(r, f) ==
  \A v \in versions[r] :
    /\ IsPrefix(v.log, f.log)
    /\ Ran(v.log) => v.terms = f.terms /\ v.log[Least(Frozen(v.log))].day <= v.day + 1

DecidedByRight(f) ==
  LET last    == Greatest(Moves(f))
      earlier == Moves(f) \ {last}
  IN  f.state \in Terminal /\ Moves(f) # {} =>
        MayMove(f.log[last].who, f.state, f.terms.implementer, Snapshot(f.log),
                IF earlier # {} THEN f.log[Greatest(earlier)].to ELSE "proposed")

Sound(r, f, m) ==
  /\ f.state \in States
  /\ Moves(f) # {} => f.log[Greatest(Moves(f))].to = f.state
  /\ Filled(f)
  /\ "piloting" \notin Reached(f) => ~Ran(f.log)
  /\ "piloting" \in Reached(f) => Ran(f.log) /\ FreezeHolds(f, m)
  /\ HistoryHolds(r, f)
  /\ DecidedByRight(f)

(* One live trial per project.                                             *)
Alone(r, files) ==
  files[r].state = "piloting" => \A q \in Records \ {r} : files[q].state # "piloting"

(* A record that ran never disappears.                                     *)
Vanished == {r \in Records : file[r] = NoFile /\ \E v \in versions[r] : Ran(v.log)}

(* active: whether the experiment of a record is on.                       *)
Active(r) ==
  /\ mandate # NoMandate
  /\ file[r].state = "piloting"
  /\ Vanished = {}
  /\ Sound(r, file[r], mandate) /\ Alone(r, file)
  /\ today <= file[r].terms.until

-----------------------------------------------------------------------------
Takes(deed) == story[deed] > 0 /\ story' = [story EXCEPT ![deed] = @ - 1]

TrialInit ==
  /\ file = [r \in Records |-> NoFile]
  /\ versions = [r \in Records |-> {}]
  /\ mandate \in Mandates
  /\ today = 0
  /\ story \in Stories
  /\ verdicts = {} /\ ran = [r \in Records |-> {}]

Writes(r, f) ==
  /\ file' = [file EXCEPT ![r] = f]
  /\ UNCHANGED <<versions, mandate, today, ran>>

(* new: a number no record has and no committed one had.                   *)
NewRecord(r, implementer) ==
  /\ file[r] = NoFile /\ versions[r] = {} /\ Takes("new")
  /\ Writes(r, [state |-> "proposed", decided |-> FALSE,
               terms |-> [text |-> 0, implementer |-> implementer, until |-> 0],
               log |-> <<Moved("steward", "proposed")>>])
  /\ UNCHANGED verdicts

(* A session fills in the sections, the trial's with a last day.           *)
Design(r, until) ==
  /\ r \in OnFile /\ file[r].terms.text = 0 /\ Takes("design")
  /\ Writes(r, [file[r] EXCEPT !.terms.text = 2, !.terms.until = until])
  /\ UNCHANGED verdicts

(* ... or edits them later, whatever the state.                            *)
Reword(r) ==
  /\ r \in OnFile /\ file[r].terms.text > 0 /\ Takes("reword")
  /\ Writes(r, [file[r] EXCEPT !.terms.text = IF @ = 2 THEN 3 ELSE 2])
  /\ UNCHANGED verdicts

Reassign(r, who) ==
  /\ r \in OnFile /\ file[r].terms.implementer # who /\ Takes("reassign")
  /\ Writes(r, [file[r] EXCEPT !.terms.implementer = who])
  /\ UNCHANGED verdicts

Prolong(r) ==
  /\ r \in OnFile /\ file[r].terms.text > 0 /\ Takes("prolong")
  /\ Writes(r, [file[r] EXCEPT !.terms.until = @ + 1])
  /\ UNCHANGED verdicts

(* review: before the start, never by the implementer.                     *)
Review(r, who, verdict) ==
  /\ r \in OnFile /\ Takes("review")
  /\ file[r].state \in {"proposed", "designed"}
  /\ file[r].terms.implementer \notin {NoOne, who}
  /\ Writes(r, [file[r] EXCEPT !.log = Append(@, ReviewLine(who, verdict, file[r].terms))])
  /\ verdicts' = verdicts \cup {[record |-> r, who |-> who, verdict |-> verdict,
                                 terms |-> file[r].terms]}

Transition(r, who, to) ==
  LET moved == Append(file[r].log, Moved(who, to))
  IN  [file[r] EXCEPT !.state = to,
                      !.log = IF to = "piloting" THEN Append(moved, Froze(who, file[r].terms))
                              ELSE moved]

(* The direction that is never refused.                                    *)
TurnOff(r, who, to) ==
  /\ r \in OnFile /\ to \in MOVES[file[r].state] \cap SAFE_MOVES
  /\ Writes(r, Transition(r, who, to))
  /\ UNCHANGED <<story, verdicts>>

RollBack(r, who) ==
  LET f == file[r] IN
  /\ r \in OnFile /\ "rolled-back" \in MOVES[f.state]
  /\ Takes("decide")
  /\ MayMove(who, "rolled-back", f.terms.implementer, Snapshot(f.log), f.state)
  /\ Writes(r, [Transition(r, who, "rolled-back") EXCEPT !.decided = TRUE])
  /\ UNCHANGED verdicts

Start(r, who) ==
  LET f == Transition(r, who, "piloting") IN
  /\ r \in OnFile /\ "piloting" \in MOVES[file[r].state] /\ Takes("start")
  /\ mandate # NoMandate
  /\ file[r].terms.until >= today
  /\ Sound(r, f, mandate) /\ Alone(r, [file EXCEPT ![r] = f])
  /\ Writes(r, f)
  /\ UNCHANGED verdicts

(* Every other move is judged by the mandate as it is now, and the record  *)
(* as it would be by what was frozen.                                      *)
DecideMove(r, who, to) ==
  LET f == [Transition(r, who, to) EXCEPT !.decided = to \in Terminal] IN
  /\ r \in OnFile
  /\ to \in MOVES[file[r].state] \ ({"rolled-back", "piloting"} \cup SAFE_MOVES)
  /\ IF to = "designed" THEN UNCHANGED story ELSE Takes("decide")
  /\ MayMove(who, to, file[r].terms.implementer, RightsNow(file[r].log), file[r].state)
  /\ Sound(r, f, mandate)
  /\ Writes(r, f)
  /\ UNCHANGED verdicts

(* What a hand does to a record: another state in the header, the FROZEN   *)
(* line made to fit the terms, the last line of the log cut, the file gone.*)
EditState(r, to) ==
  /\ r \in OnFile /\ file[r].state # to /\ Takes("state")
  /\ Writes(r, [file[r] EXCEPT !.state = to])
  /\ UNCHANGED verdicts

Refreeze(r) ==
  /\ r \in OnFile /\ Ran(file[r].log) /\ Takes("refreeze")
  /\ Writes(r, [file[r] EXCEPT !.log =
       [i \in DOMAIN @ |-> IF @[i].is = "frozen" THEN [@[i] EXCEPT !.terms = file[r].terms]
                           ELSE @[i]]])
  /\ UNCHANGED verdicts

Cut(r) ==
  /\ r \in OnFile /\ Len(file[r].log) > 1 /\ Takes("cut")
  /\ \E n \in 1 .. Len(file[r].log) - 1 :
       Writes(r, [file[r] EXCEPT !.log = SubSeq(@, 1, n)])
  /\ UNCHANGED verdicts

DeleteRecord(r) ==
  /\ r \in OnFile /\ Takes("delete")
  /\ Writes(r, NoFile)
  /\ UNCHANGED verdicts

CommitRecord(r) ==
  /\ r \in OnFile /\ Takes("commit")
  /\ versions' = [versions EXCEPT ![r] = @ \cup
       {[log |-> file[r].log, terms |-> file[r].terms, day |-> today]}]
  /\ ran' = IF Active(r) THEN [ran EXCEPT ![r] = @ \cup {file[r].terms}] ELSE ran
  /\ UNCHANGED <<file, mandate, today, verdicts>>

SetMandate(m) ==
  /\ m # mandate /\ Takes("mandate")
  /\ mandate' = m
  /\ UNCHANGED <<file, versions, today, verdicts, ran>>

Tomorrow ==
  /\ today < LastDay /\ today' = today + 1
  /\ UNCHANGED <<file, versions, mandate, story, verdicts, ran>>

(* Who makes a move that needs no right is judged by nothing: one makes it. *)
Judged(who, to) == to \in {"proposed", "designed"} \cup SAFE_MOVES => who = "steward"

TrialNext ==
  \/ \E r \in Records :
       \/ \E w \in Workers : NewRecord(r, w) \/ Reassign(r, w)
       \/ Reassign(r, "steward")
       \/ \E d \in 0 .. LastDay : Design(r, d)
       \/ Reword(r) \/ Prolong(r)
       \/ \E who \in Workers, verdict \in {"pass", "block"} : Review(r, who, verdict)
       \/ \E who \in People :
            \/ Start(r, who) \/ RollBack(r, who)
            \/ \E to \in States :
                 Judged(who, to) /\ (TurnOff(r, who, to) \/ DecideMove(r, who, to))
       \/ \E to \in {"designed", "piloting", "adopted"} : EditState(r, to)
       \/ Refreeze(r) \/ Cut(r) \/ DeleteRecord(r) \/ CommitRecord(r)
  \/ \E m \in Mandates \cup {NoMandate} : SetMandate(m)
  \/ Tomorrow

TrialSpec == TrialInit /\ [][TrialNext]_trialVars

-----------------------------------------------------------------------------
(* Once it was committed running, an experiment is never on with other     *)
(* terms.  optimize.history_problems.                                      *)
TermsNeverEase ==
  \A r \in Records : Active(r) => ran[r] \subseteq {file[r].terms}

(* What is adopted and stands up to the check was adopted by the owner, or *)
(* by a steward who had the right when the trial started and has it when   *)
(* it is decided; and not by who implements it.  optimize.move.            *)
AdoptedByRight ==
  [][\A r \in Records, who \in People : DecideMove(r, who, "adopted") =>
       /\ who # file[r].terms.implementer
       /\ \/ who = "owner"
          \/ /\ who = "steward" /\ "adopt" \in RightsNow(file[r].log)
             /\ "adopt" \in file[r].log[Least(Frozen(file[r].log))].may]_trialVars
=============================================================================
