------------------------------ MODULE BranchWork ------------------------------
(***************************************************************************)
(* What dispatch.py reads from the commits of a branch before it moves the *)
(* branch's work on: its own plan and who has passed which text of it, the *)
(* open tasks, code nobody has attested. A branch has one plan at most, of *)
(* the tier its work is dispatched with; that plan changes twice at most.  *)
(* Left out: fork points git cannot tell, an origin that does not answer,  *)
(* and a merge conflict with the integration branch; each of them makes    *)
(* the code wait or refuse.                                                *)
(***************************************************************************)
EXTENDS Naturals

Texts == 1..2  \* what the plan says, from one commit of it to the next

(* A commit, by what is told apart of its history: the text of the plan, 0  *)
(* for none; the texts a plan review passed; open tasks; code; code after   *)
(* the last attestation (`fresh`); whether the commit is an attestation.    *)
Tip == [plan : {0} \cup Texts, passed : SUBSET Texts,
        open : BOOLEAN, code : BOOLEAN, fresh : BOOLEAN, seal : BOOLEAN]

Bare == [plan |-> 0, passed |-> {}, open |-> FALSE,
         code |-> FALSE, fresh |-> FALSE, seal |-> FALSE]

(* The commits of workers.                                                  *)
PlanOn(t) == [t EXCEPT !.plan = @ + 1, !.open = TRUE, !.seal = FALSE]
CodeOn(t, open) == [t EXCEPT !.code = TRUE, !.fresh = TRUE, !.open = open, !.seal = FALSE]
AttestOn(t) == [t EXCEPT !.fresh = FALSE, !.seal = TRUE]
PassOn(t) == [AttestOn(t) EXCEPT !.passed = @ \cup {t.plan}]

-----------------------------------------------------------------------------
OwnPlan(t) == t.plan # 0

(* _plan_states: a pass counts for the text it was given to.                *)
Passed(t) == t.plan \in t.passed
Uncleared(t, tier) == OwnPlan(t) /\ tier >= 2 /\ ~Passed(t)

(* work_complete_on_origin, of a branch whose plan can be read.             *)
WorkComplete(t) == OwnPlan(t) /\ ~t.open

(* new_code_on_origin: newest commit first, as far as the last attestation. *)
NewCode(t) == t.fresh

(* plan_review_due_plans: plans and bookkeeping only, and one is uncleared. *)
PlanReviewDue(t, tier) == ~t.code /\ Uncleared(t, tier)

(* quick_start: neither origin nor the worktree has a plan of the branch's. *)
QuickStart(here, origin, tier) == tier <= 1 /\ ~OwnPlan(here) /\ ~OwnPlan(origin)

(* attest_on_origin: the local head is an attestation, and what origin has. *)
AttestOnOrigin(here, origin) == here = origin /\ here.seal

(* sync_worktree: a review does not start ahead of what origin has.         *)
Ahead(here, origin) == origin # Bare /\ here # origin
=============================================================================
