----------------------------- MODULE MCDispatch -----------------------------
(* Who runs what on a host, for TLC to run Dispatch with. *)
EXTENDS Dispatch, TLC

CONSTANTS b1, b2, p, q, r, n1, n2, n3

On(branch, phase) == [branch |-> branch, phase |-> phase]

Runs(doP, doQ, doR, line, dead, waiting, tier, tip) ==
    [does |-> (p :> doP) @@ (q :> doQ) @@ (r :> doR),
     asks |-> (p :> On(b1, "plan")) @@ (q :> On(b1, "review")) @@ (r :> line),
     dies |-> dead, queue |-> waiting,
     slow |-> FALSE, tier |-> (b1 :> tier) @@ (b2 :> 1),
     work |-> (b1 :> tip) @@ (b2 :> Bare), red |-> {}]

Planned == PlanOn(Bare)

(* The steward alone: two ticks that overlap, two drains that overlap.      *)
Steward == {
    Runs("tick", "tick", "add", On(b2, "review"), {}, <<On(b1, "plan")>>, 1, Bare),
    Runs("drain", "drain", "add", On(b2, "review"), {}, <<On(b1, "plan"), On(b2, "plan")>>, 1, Bare)}

(* A maintainer beside it, and a train; a drain that may be killed; a slow  *)
(* worker stopped before it pushed, and a review started on its branch.     *)
Attended == {
    Runs("tick", "stop", "start", On(b1, "plan"), {}, <<>>, 3, Planned),
    Runs("drain", "stop", "start", On(b1, "execute"), {}, <<On(b1, "plan")>>, 1, Bare),
    Runs("drain", "drain", "forget", On(b1, "plan"), {p},
         <<On(b1, "plan"), On(b2, "plan")>>, 1, Bare),
    [Runs("drain", "stop", "start", On(b1, "review"), {}, <<On(b1, "execute")>>,
          1, CodeOn(PlanOn(Bare), TRUE)) EXCEPT !.slow = TRUE]}

(* One branch all the way, of every tier; its gates may refuse its plan.    *)
Ways == {<<"plan", 1>>, <<"plan", 2>>, <<"plan", 3>>, <<"execute", 0>>}
OneBranch ==
    {[Runs("tick", other, "rest", On(b2, "plan"), {}, <<On(b1, way[1])>>, way[2], Bare)
        EXCEPT !.slow = TRUE, !.red = red] :
        other \in {"rest", "tick"}, way \in Ways, red \in {{}, {1}}}

Hosts == Steward \cup Attended \cup OneBranch
=============================================================================
