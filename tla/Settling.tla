------------------------------ MODULE Settling ------------------------------
(***************************************************************************)
(* What a train's merge of a branch settles (train.py: _own_plans,         *)
(* _deviations, _settle_plans): which of the branch's own plans move to    *)
(* the archive in the merge, which issues its message closes and which it  *)
(* only refers to.                                                         *)
(*                                                                         *)
(* A plan has a stem, its date taken off a slug, an issue or several, a    *)
(* tier (0..3, or none), open tasks or not, a waiver, a `plan-stays-active`*)
(* and a `DoD-deviation`; it stands active, archived or in a spec. What    *)
(* its text has to look like is left out, and blocks against a pass are    *)
(* the review gate's (clearing_passes).                                    *)
(***************************************************************************)
EXTENDS Naturals, FiniteSets

NoTier == 9
PlanFile == [stem : STRING, slug : STRING, at : {"active", "archive", "spec"}, tier : Nat, open : BOOLEAN,
             waived : BOOLEAN, stays : BOOLEAN, issues : SUBSET STRING, added : BOOLEAN,
             holds : BOOLEAN, names : SUBSET STRING]
Passed == [of : STRING, work : STRING, tier : Nat]
Work == [plans : SUBSET PlanFile, passes : SUBSET Passed, issues : SUBSET STRING]

(* What a branch brings: its plans, `added` or changed; the REVIEW passes   *)
(* of its journal, each for one plan, naming it by a work id; the issues    *)
(* its name and its dispatch give it. What main and the wagons before it    *)
(* have: plans and passes.                                                  *)
After(line, wagon) == [plans |-> {p \in line.plans : \A q \in wagon.plans : q.stem # p.stem} \cup wagon.plans,
                       passes |-> line.passes \cup wagon.passes]

(* own_plans: added by it, or of an issue that is one of the branch's.      *)
Own(wagon, places) ==
    {p \in wagon.plans : p.at \in places /\ (p.added \/ p.issues \cap wagon.issues # {})}

(* _plan_work_ids: the slug only where one plan has it. Seeded fault: any.  *)
AnySlug(line, p) == TRUE
Unique(line, p) == Cardinality({q \in line.plans : q.slug = p.slug}) <= 1
WorkIds(line, p) == {p.stem} \cup p.issues \cup (IF Unique(line, p) THEN {p.slug} ELSE {})
Cleared(line, p) == \E r \in line.passes : r.work \in WorkIds(line, p) /\ r.tier >= p.tier

Finished(p) == ~p.stays /\ p.tier # NoTier /\ ~p.open
Archives(line, p) ==
    /\ p.at = "active" /\ Finished(p)
    /\ p.tier < 2 \/ p.waived \/ Cleared(line, p)
    /\ \A q \in line.plans : q.at = "archive" => q.stem # p.stem

(* _settle_plans: the plans archived, and the issues of what is finished.   *)
Settled(line, wagon) == {p \in Own(wagon, {"active", "archive"}) :
                            IF p.at = "active" THEN Archives(line, p) ELSE Finished(p)}

(* _deviations: an open AC or continuing work holds the issues it names,    *)
(* else its plan's.                                                         *)
Names(p) == IF p.names = {} THEN p.issues ELSE p.names
Held(wagon) == UNION {Names(p) : p \in {q \in Own(wagon, {"active", "archive", "spec"}) : q.holds}}

(* build_train: the merge of a wagon, its `Closes` and its `Refs`.          *)
Archived(p) == [p EXCEPT !.at = "archive"]
Settle(line, wagon) ==
    LET after == After(line, wagon)
        done == Settled(after, wagon)
        issues == UNION {p.issues : p \in done}
        held == Held(wagon)
        moved == {p \in done : p.at = "active"}
    IN [line |-> [after EXCEPT !.plans = (@ \ moved) \cup {Archived(p) : p \in moved}],
        closes |-> issues \ held, refs |-> issues \cap held, moved |-> moved]
=============================================================================
