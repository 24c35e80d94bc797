----------------------------- MODULE MCEvidence -----------------------------
(***************************************************************************)
(* Small instances of Evidence. Each scene gives the people of one part    *)
(* of the evidence what they need: the rounds, the rules, the unknown      *)
(* facts, the plan review, the criteria. A pass takes one of the scene's   *)
(* calls at the bundle's head or at the tip.                               *)
(***************************************************************************)
EXTENDS Evidence

Line(kind, nr, what) == [kind |-> kind, nr |-> nr, what |-> what, by |-> "mine"]
Theirs(kind, nr, what) == [kind |-> kind, nr |-> nr, what |-> what, by |-> "theirs"]

Text == [state |-> "ok", plan |-> {"p"}, spec |-> {"s"}, cited |-> {}, bare |-> {},
         struck |-> {}, struckInSpec |-> {}, open |-> {},
         session |-> Unclear, gate |-> FALSE]
Code == [gate |-> FALSE, streak |-> 0, stands |-> TRUE]
Proven == [there |-> TRUE, refute |-> FALSE, claims |-> [c \in {"p", "s"} |-> "test"]]
Call == [review |-> "code", head |-> 0, rides |-> TRUE, tokens |-> {"cross-model"}, model |-> Top,
         report |-> Proven, at |-> 0]
Quiet == [tier |-> 2, steps |-> 5, blind |-> {}, policies |-> {Silent}, own |-> {},
          drafts |-> {}, earlier |-> {},
          texts |-> {Text}, edits |-> {Code}, calls |-> {Call}, sessions |-> {}]

Rounding == [Quiet EXCEPT !.steps = 6, !.drafts = {
        <<"today", Line("cause", 1, "test")>>, <<"plan", Line("replan", 2, "")>>},
    !.earlier = {Theirs("block", 1, ""), Theirs("cause", 1, "none")},
    !.edits = {[Code EXCEPT !.stands = s] : s \in BOOLEAN}]

Older == [Rounding EXCEPT !.steps = 5, !.drafts = {
        <<"older", Line("cause", 2, "none")>>, <<"today", Line("cause", 1, "test")>>,
        <<"today", Line("skip", 0, "class-test")>>, <<"plan", Line("replan", 2, "")>>}]

Ruling == [Quiet EXCEPT !.steps = 4,
    !.policies = {Silent, Rules(2, {Row("refute", [tier_from |-> 2])}), Broken},
    !.own = {Rules(2, {})},
    !.drafts = {<<"plan", Line("refute", 1, "")>>, <<"plan", Line("skip", 0, "cross-model")>>,
                <<"today", Line("skip", 0, "root-cause")>>},
    !.edits = {Code, [Code EXCEPT !.gate = TRUE], [Code EXCEPT !.streak = 3]},
    !.calls = {Call, [Call EXCEPT !.tokens = {"single-family"}, !.report.refute = TRUE],
               [Call EXCEPT !.rides = FALSE]}]

Blind == [Quiet EXCEPT !.steps = 4, !.drafts = {
        <<"plan", Line("refute", 1, "")>>, <<"plan", Line("skip", 0, "replan")>>,
        <<"plan", Line("skip", 0, "class-test")>>, <<"today", Line("skip", 0, "class-test")>>,
        <<"plan", Line("cause", 1, "none")>>},
    !.edits = {[Code EXCEPT !.gate = g] : g \in BOOLEAN}]

Planning == [Quiet EXCEPT !.steps = 4,
    !.texts = {[Text EXCEPT !.session = m, !.gate = g] : m \in {Unclear, 1}, g \in BOOLEAN},
    !.drafts = {<<"plan", Line("skip-plan", 0, "plan-review")>>},
    !.calls = {[Call EXCEPT !.review = "plan", !.model = m, !.tokens = t] :
                  m \in Unclear..Top, t \in {{}, {"cross-model"}}},
    !.sessions = {Unclear, Family, 1, Top}]

Tracing == [Quiet EXCEPT !.steps = 4,
    !.texts = {Text, [Text EXCEPT !.struck = {"s"}], [Text EXCEPT !.struck = {"p"}],
               [Text EXCEPT !.struckInSpec = {"s"}, !.open = {"p"}], [Text EXCEPT !.state = "missing"],
               [Text EXCEPT !.plan = {}, !.cited = {"p"}], [Text EXCEPT !.cited = {"p"}, !.bare = {"p"}]},
    !.drafts = {<<"plan", Line("skip", 0, "ac-trace")>>},
    !.calls = {[Call EXCEPT !.report = [@ EXCEPT !.there = t, !.claims = c]] :
                  t \in BOOLEAN, c \in [{"p", "s"} -> {"test", "struck"}]}]

MCScenes == [
    rounds |-> Rounding, older |-> Older, rules |-> Ruling, plan |-> Planning, trace |-> Tracing,
    diffless |-> [Blind EXCEPT !.blind = {"diff"}],
    forkless |-> [Blind EXCEPT !.blind = {"fork"}, !.tier = 3]]
=============================================================================
