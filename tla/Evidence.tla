------------------------------ MODULE Evidence ------------------------------
(***************************************************************************)
(* What a Tier 2+ pass must show before attest.py writes it                *)
(* (attest_evidence.py, required_records.py), and the review bundle that   *)
(* tells the reviewer of it beforehand (make_review_bundle.py). One work   *)
(* on one branch: its plan, its journal in two shards (today's and an      *)
(* older one), reviews that block and pass, and around them the worker who *)
(* writes and commits records, fixes code, rewrites the plan and the       *)
(* policy, main where an earlier work of the same issue lands its records, *)
(* and the sessions that plan.                                             *)
(*                                                                         *)
(* A record is [kind, nr, what, by]: the round it is of, what a skip lifts *)
(* or what a ROOT-CAUSE shows, and - for the properties alone - whose it   *)
(* is. A tree holds the plan's text and the records of the plan and of the *)
(* two shards. How a file's text yields records and criteria, and how a    *)
(* test file yields a test that runs, is not modelled.                     *)
(***************************************************************************)
EXTENDS Integers, Sequences, FiniteSets, FiniteSetsExt

CONSTANTS Settings    \* what a behaviour may meet, by name: see SettingsAssumption

Kinds == {"refute", "root-cause", "replan", "class-test", "owner-decision"}
Facts == {"tier_from", "gate_code", "fix_streak", "blocked_rounds", "waived"}
Row(kind, when) == [kind |-> kind, when |-> when, skippable |-> kind # "owner-decision"]
Thresholds == {"tier_from", "fix_streak", "blocked_rounds"}
Shards == {"today", "older"}

(* A reviewer's or planner's model, by the rank of its class; -1 for another *)
(* family, -2 for an unknown or unmeasured one.                              *)
Family == -1
Unclear == -2
Top == 2
Ranks == Unclear..Top

IsRow(row) == /\ row.kind \in Kinds /\ DOMAIN row.when \subseteq Facts
              /\ \A k \in DOMAIN row.when \cap Thresholds : row.when[k] \in Int
IsPolicy(p) == DOMAIN p = {"kind", "from", "rows"} /\ p.from \in Int /\ \A row \in p.rows : IsRow(row)

ASSUME SettingsAssumption ==
    \A n \in DOMAIN Settings : LET s == Settings[n] IN
        /\ s.tier \in 2..3 /\ s.steps \in Nat
        /\ s.blind \in SUBSET {"diff", "fork"}       \* what git cannot tell
        /\ s.policies # {}                           \* main's policies ...
        /\ \A p \in s.policies \cup s.own : IsPolicy(p)    \* ... and the branch's
        /\ \A d \in s.drafts :                      \* the <<file, record>> the worker may write:
              /\ d[1] \in {"plan", "today", "older"} /\ d[2].nr \in Nat /\ d[2].by = "mine"
              /\ d[1] = "plan" => d[2].kind # "block"   \* a plan holds no verdicts
        /\ \A l \in s.earlier : l.nr \in Nat /\ l.by = "theirs"   \* the earlier work's records
        /\ \A t \in s.texts : t.session \in Ranks     \* the plan's texts
        /\ \A e \in s.edits : e.streak \in Nat        \* the states of the code
        /\ \A c \in s.calls :                        \* how a pass is attested
              /\ DOMAIN c = {"review", "head", "rides", "tokens", "model", "report", "at"}
              /\ c.model \in Ranks
        /\ s.sessions \subseteq Ranks                 \* the models that plan
        /\ DOMAIN s = {"tier", "steps", "blind", "policies", "own", "drafts", "earlier",
                       "texts", "edits", "calls", "sessions"}

VARIABLES
    setting,
    trunk,      \* the integration branch: its records and its policy
    log,       \* the branch: trees, each with main as it was at its fork
    work,      \* the worktree's tree
    sessions,  \* the models of the `planned` reports, in order
    bundle,    \* the bundle the reviewer has, or NoBundle
    last,      \* the last pass and its commit, or NoPass
    steps

evidenceVars == <<setting, trunk, log, work, sessions, bundle, last, steps>>

S == Settings[setting]
NoBundle == [head |-> 0, warns |-> FALSE]
NoPass == [at |-> 0]
Tip == log[Len(log)]
In(tree) == tree.plan \cup tree.today \cup tree.older
OfKind(lines, kind) == {l \in lines : l.kind = kind}

-----------------------------------------------------------------------------
(* The table of owed records (required_records.py). A fact is the set of    *)
(* its value, empty when git cannot tell. An unknown fact leaves a row      *)
(* undecided, and owed, unless a known one settles it.                      *)
Misses(key, want, have) == IF key \in Thresholds THEN have < want ELSE have # want
Fails(row, facts) == \E k \in DOMAIN row.when : \E v \in facts[k] : Misses(k, row.when[k], v)
Unknown(row, facts) == \E k \in DOMAIN row.when : facts[k] = {}
Lifted(row, present, skipped) == row.kind \in present \/ (row.skippable /\ row.kind \in skipped)

Owed(rows, facts, present, skipped) ==
    {row \in rows : ~Fails(row, facts) /\ ~Lifted(row, present, skipped)}

(* The policy at the reviewed base (review_policy). A base older than the   *)
(* rules takes the template's, tightened by the branch's own tier floor.    *)
Template == {Row("refute", [gate_code |-> TRUE]), Row("refute", [tier_from |-> 3]),
             Row("root-cause", [fix_streak |-> 3]), Row("replan", [blocked_rounds |-> 2]),
             Row("class-test", [blocked_rounds |-> 1]), Row("owner-decision", [waived |-> TRUE])}
Rules(from, rows) == [kind |-> "rules", from |-> from, rows |-> rows]
Silent == [kind |-> "silent", from |-> 3, rows |-> Template]
Broken == [kind |-> "broken", from |-> 3, rows |-> {}]

Policy(base, own) ==
    IF base.kind = "silent" /\ own.kind = "rules" /\ own.from < base.from
    THEN [base EXCEPT !.from = own.from] ELSE base

-----------------------------------------------------------------------------
(* What an attestation reads. E: the reviewed head and what rides along;    *)
(* T0: the branch's tip and what rides along. Today's shard always rides.   *)
Carried(a) == {"today"} \cup (IF a.rides THEN {"plan"} ELSE {})
Under(tree, a, f) == IF f \in Carried(a) THEN work[f] ELSE tree[f]
Seen(a) == log[a.head]
T0(a) == Under(Tip.tree, a, "today") \cup Tip.tree.older

RecordsOnly(before, after) == after.text = before.text /\ before.plan \subseteq after.plan
PlanState(a) == IF Seen(a).tree.text.state # "ok" THEN Seen(a).tree.text.state
                ELSE IF RecordsOnly(Seen(a).tree, work) THEN "ok" ELSE "differs"
Own(a) == Seen(a).tree.plan \cup (IF a.rides /\ PlanState(a) = "ok" THEN work.plan ELSE {})

(* The blocked rounds the branch adds, and its journal's evidence, are what *)
(* the fork does not hold. Seeded fault: all the journal holds is the       *)
(* branch's.                                                                *)
AtFork(a) == Seen(a).fork.lines
Evident(lines) == OfKind(lines, "cause") \cup {l \in OfKind(lines, "skip") : l.what \in {"replan", "class-test"}}
Rounds(a) == {l.nr : l \in OfKind(T0(a), "block") \ AtFork(a)}
AllOfIt(a) == Evident(Under(Seen(a).tree, a, "today") \cup Seen(a).tree.older)
Journal(a) == Evident(Under(Seen(a).tree, a, "today") \cup Seen(a).tree.older) \ AtFork(a)
KnownLines(a) == IF "fork" \in S.blind THEN {} ELSE Journal(a)
Mine(a) == Own(a) \cup KnownLines(a)

(* A skip counts from the plan; two kinds, per round, from the journal too. *)
Skips(a) == {l.what : l \in OfKind(Own(a), "skip")} \cup {l.what : l \in OfKind(KnownLines(a), "skip")}

Reopened(a) == IF Rounds(a) = {} THEN {} ELSE Rounds(a) \ {Min(Rounds(a))}
ReplanOpen(a) == Reopened(a) \ {l.nr : l \in OfKind(Own(a), "replan")}
Shows(l, tree) == l.what = "none" \/ (l.what = "test" /\ tree.stands)
ClassTestOpen(a) == {r \in Rounds(a) :
    ~\E l \in OfKind(Mine(a), "cause") : l.nr = r /\ Shows(l, Seen(a).tree)}

(* In the worktree's older shard alone, a record is refused, never counted. *)
Foreign(a) == Evident(work.older) \ (AtFork(a) \cup Evident(Under(Seen(a).tree, a, "today") \cup Seen(a).tree.older))
UncommittedBlocks(a) == OfKind(work.older, "block") \ T0(a)

FactsOf(a) == [
    tier_from      |-> {S.tier},
    gate_code      |-> IF "diff" \in S.blind THEN {} ELSE {Seen(a).tree.gate},
    fix_streak     |-> IF "diff" \in S.blind THEN {} ELSE {Seen(a).tree.streak},
    blocked_rounds |-> IF "fork" \in S.blind THEN {} ELSE {Cardinality(Rounds(a))},
    waived         |-> {FALSE}]

RefutedIn(a) == OfKind(Own(a), "refute") # {} \/ (a.report.refute /\ "cross-model" \in a.tokens /\ S.tier < 3)
Provided(a) == {k \in Kinds :
    \/ k = "refute" /\ RefutedIn(a)
    \/ k = "root-cause" /\ OfKind(Mine(a), "cause") # {}
    \/ k = "replan" /\ "fork" \notin S.blind /\ ReplanOpen(a) = {}
    \/ k = "class-test" /\ "fork" \notin S.blind /\ ClassTestOpen(a) = {}
    \/ k = "owner-decision" /\ OfKind(Own(a), "owner") # {}}

-----------------------------------------------------------------------------
(* The criteria a pass traces: what the plan or its spec names, not what    *)
(* the plan cites of another issue; a plan strikes its own alone.           *)
Named(t) == t.plan \cup t.spec \cup (t.cited \cap t.bare)
Struck(t) == (t.struckInSpec \cup (t.struck \ t.spec)) \ t.open
Required(t) == Named(t) \ (t.open \cup Struck(t))

Traced(a) ==
    LET t == Seen(a).tree.text IN
    /\ a.report.there
    /\ PlanState(a) = "ok" =>
          /\ \A c \in Struck(t) \cap Named(t) : a.report.claims[c] = "struck"
          /\ Required(t) \cup (Struck(t) \cap Named(t)) # {}
          /\ \A c \in Required(t) : a.report.claims[c] = "test" /\ Seen(a).tree.stands

CrossModel(a) == "cross-model" \in a.tokens
                 \/ ("single-family" \in a.tokens /\ "cross-model" \in Skips(a))

(* A plan is reviewed by a model of at least its session's class. The       *)
(* newest report decides; the plan's own line stands in for none. Seeded    *)
(* fault: the plan's line stands in for an unmeasured report.               *)
OrItsOwnWord(t) == IF sessions = <<>> \/ sessions[Len(sessions)] = Unclear THEN t.session ELSE sessions[Len(sessions)]
Planner(t) == IF sessions = <<>> THEN t.session ELSE sessions[Len(sessions)]
PeerReviews(a) ==
    \/ a.model = Family
    \/ a.model > 0 /\ \/ a.model = Top
                      \/ Planner(Seen(a).tree.text) = Family
                      \/ (Planner(Seen(a).tree.text) # Unclear /\ a.model >= Planner(Seen(a).tree.text))

InForce(a) == Policy(Seen(a).fork.policy, Tip.tree.own)

DecideCode(a) ==
    /\ Foreign(a) = {} \/ "fork" \in S.blind
    /\ S.tier >= InForce(a).from => CrossModel(a)
    /\ Owed(InForce(a).rows, FactsOf(a), Provided(a), Skips(a)) = {}
    /\ "ac-trace" \in Skips(a) \/ Traced(a)

PlanSkips(a) == {l.what : l \in OfKind(Own(a), "skip-plan")}
DecidePlanReview(a) ==
    /\ "plan-review" \in PlanSkips(a) \/ PeerReviews(a)
    /\ Seen(a).tree.text.gate =>
          \/ "cross-model" \in a.tokens
          \/ ("single-family" \in a.tokens /\ "cross-model" \in PlanSkips(a))

Decide(a) ==
    /\ InForce(a).kind # "broken"
    /\ PlanState(a) = "ok"
    /\ IF a.review = "plan" THEN DecidePlanReview(a) ELSE DecideCode(a)

-----------------------------------------------------------------------------
(* The bundle. Its refute warning reads the worktree's plan and the table   *)
(* at the fork, by tier and gate code alone, and no skip. Seeded fault: the *)
(* table at the tip.                                                        *)
AtTheTip == Policy(Tip.tree.own, Tip.tree.own)
AtTheFork == Policy(Tip.fork.policy, Tip.tree.own)
RefuteRows(policy) == {row \in (IF policy.kind = "broken" THEN Silent ELSE policy).rows : row.kind = "refute"}
Shown == [tier_from |-> {S.tier}, gate_code |-> IF "diff" \in S.blind THEN {} ELSE {Tip.tree.gate},
          fix_streak |-> {}, blocked_rounds |-> {}, waived |-> {}]
Warns == /\ OfKind(work.plan, "refute") = {}
         /\ \E row \in RefuteRows(AtTheFork) : ~Fails(row, Shown) /\ ~Unknown(row, Shown)
CannotTell == "diff" \in S.blind

(* What the reviewer is shown: the branch's head, and the warning.          *)
Bundled == [head |-> Len(log), warns |-> Warns \/ CannotTell]

Conflict == trunk.clash /\ ~Tip.fork.clash

-----------------------------------------------------------------------------
EvidenceInit ==
    /\ setting \in DOMAIN Settings
    /\ \E p \in S.policies, t \in S.texts, e \in S.edits :
          /\ trunk = [lines |-> {}, policy |-> p, clash |-> FALSE]
          /\ work = [text |-> t, plan |-> {}, today |-> {}, older |-> {}, own |-> p,
                     gate |-> e.gate, streak |-> e.streak, stands |-> e.stands]
    /\ log = <<[tree |-> work, fork |-> trunk]>>
    /\ sessions = <<>>
    /\ bundle = NoBundle /\ last = NoPass
    /\ steps = S.steps

Step == steps > 0 /\ steps' = steps - 1
Grows(tree, fork) == log' = Append(log, [tree |-> tree, fork |-> fork])

(* Build: the range is the branch from its one fork; what does not merge,   *)
(* or has no fork, is not bundled.                                          *)
Build ==
    /\ ~Conflict /\ "fork" \notin S.blind
    /\ bundle' = Bundled
    /\ bundle.head = 0 \/ bundle' # bundle
    /\ UNCHANGED <<setting, trunk, log, work, sessions, last, steps>>

(* A review by hand names its head itself.                                  *)
Reviewable == IF bundle.head = 0 THEN {Len(log)} ELSE {bundle.head, Len(log)}

(* The line goes to today's shard, whose bytes the commit takes whole, and  *)
(* the plan's if it rides.                                                  *)
Committed(a, line) ==
    LET T == [Tip.tree EXCEPT !.today = work.today \cup line, !.plan = Under(Tip.tree, a, "plan"),
                              !.text = IF a.rides THEN work.text ELSE @]
    IN /\ Grows(T, Tip.fork)
       /\ work' = [work EXCEPT !.today = @ \cup line]

Highest(a) == Max({0} \cup {l.nr : l \in OfKind(T0(a), "block")})
Block(nr) ==
    LET a == [review |-> "code", head |-> Len(log), rides |-> FALSE] IN
    /\ Step
    /\ UncommittedBlocks(a) = {}
    /\ nr \in {Highest(a), Highest(a) + 1} \ {0}
    /\ Committed(a, {[kind |-> "block", nr |-> nr, what |-> "", by |-> "mine"]})
    /\ UNCHANGED <<setting, trunk, sessions, bundle, last>>

Pass(a) ==
    /\ a.head \in Reviewable
    /\ UncommittedBlocks(a) = {}
    /\ Decide(a)
    /\ Committed(a, {})
    /\ last' = [a EXCEPT !.at = Len(log) + 1]
    /\ Step
    /\ UNCHANGED <<setting, trunk, sessions, bundle>>

-----------------------------------------------------------------------------
(* The people.                                                              *)
WriteRecord(f, l) ==
    /\ Step
    /\ l \notin work[f] /\ work' = [work EXCEPT ![f] = @ \cup {l}]
    /\ UNCHANGED <<setting, trunk, log, sessions, bundle, last>>

Rewrite(t) ==
    /\ Step
    /\ t # work.text /\ work' = [work EXCEPT !.text = t]
    /\ UNCHANGED <<setting, trunk, log, sessions, bundle, last>>

CommitRecords ==
    /\ Step
    /\ work # Tip.tree /\ Grows(work, Tip.fork)
    /\ UNCHANGED <<setting, trunk, work, sessions, bundle, last>>

Fix(e) ==
    /\ Step
    /\ LET T(tree) == [tree EXCEPT !.gate = e.gate, !.streak = e.streak, !.stands = e.stands]
       IN T(work) # work /\ work' = T(work) /\ Grows(T(Tip.tree), Tip.fork)
    /\ UNCHANGED <<setting, trunk, sessions, bundle, last>>

OwnPolicy(p) ==
    /\ Step
    /\ p # work.own /\ work' = [work EXCEPT !.own = p]
    /\ Grows([Tip.tree EXCEPT !.own = p], Tip.fork)
    /\ UNCHANGED <<setting, trunk, sessions, bundle, last>>

Land(lines, p, clash) ==
    /\ Step
    /\ trunk' = [lines |-> trunk.lines \cup lines, policy |-> p, clash |-> clash]
    /\ trunk' # trunk
    /\ UNCHANGED <<setting, log, work, sessions, bundle, last>>

TakeMain ==
    /\ Step
    /\ trunk # Tip.fork
    /\ LET T(tree) == [tree EXCEPT !.older = @ \cup trunk.lines,
                                   !.own = IF @ = Tip.fork.policy THEN trunk.policy ELSE @]
       IN work' = T(work) /\ Grows(T(Tip.tree), trunk)
    /\ UNCHANGED <<setting, trunk, sessions, bundle, last>>

PlannedBy(model) ==
    /\ Step
    /\ sessions' = Append(sessions, model)
    /\ UNCHANGED <<setting, trunk, log, work, bundle, last>>

EvidenceNext ==
    \/ Build \/ \E nr \in 1..3 : Block(nr)
    \/ \E c \in S.calls, h \in Reviewable : Pass([c EXCEPT !.head = h])
    \/ \E d \in S.drafts : WriteRecord(d[1], d[2])
    \/ \E t \in S.texts : Rewrite(t)
    \/ CommitRecords \/ \E e \in S.edits : Fix(e)
    \/ \E p \in S.own : OwnPolicy(p)
    \/ \E l \in S.earlier : Land({l}, trunk.policy, trunk.clash)
    \/ \E p \in S.policies : Land({}, p, TRUE)
    \/ TakeMain
    \/ \E m \in S.sessions : PlannedBy(m)

EvidenceSpec == EvidenceInit /\ [][EvidenceNext]_evidenceVars

-----------------------------------------------------------------------------
(* What a row of the rules asks of the reviewed tree, and what meets it.     *)
Met(row, seen, blocked) ==
    \A k \in DOMAIN row.when :
        CASE k = "tier_from" -> S.tier >= row.when[k]
          [] k = "gate_code" -> seen.tree.gate = row.when[k]
          [] k = "fix_streak" -> seen.tree.streak >= row.when[k]
          [] k = "blocked_rounds" -> Cardinality(blocked) >= row.when[k]
          [] OTHER -> FALSE

LegOf(kind, mine, report, blocked) ==
    CASE kind = "refute" -> OfKind(mine, kind) # {} \/ report.refute
      [] kind = "root-cause" -> OfKind(mine, "cause") # {}
      [] kind = "replan" -> \A n \in blocked : (\E m \in blocked : m < n) =>
                                \E l \in OfKind(mine, kind) : l.nr = n
      [] kind = "class-test" -> \A n \in blocked : \E l \in OfKind(mine, "cause") : l.nr = n
      [] OTHER -> OfKind(mine, "owner") # {}

MineAt(at) == {l \in In(log'[at].tree) : l.by = "mine"}

StandsOnItsLegs(pass) ==
    LET seen == log[pass.head]
        mine == MineAt(pass.at)
        blocked == {l.nr : l \in OfKind(mine, "block")}
        skips == {l.what : l \in OfKind(mine, "skip")}
        t == seen.tree.text
    IN /\ \A row \in seen.fork.policy.rows :
             Met(row, seen, blocked) => LegOf(row.kind, mine, pass.report, blocked) \/ row.kind \in skips
       /\ S.tier >= seen.fork.policy.from => "cross-model" \in pass.tokens \/ "cross-model" \in skips
       /\ "ac-trace" \in skips \/
             \A c \in (t.spec \ t.struckInSpec) \cup (t.plan \ (t.struck \cup t.struckInSpec)) :
                 c \in t.open \/ (pass.report.claims[c] = "test" /\ seen.tree.stands)

(* A code pass has a leg to stand on: by the rules of the main it forked    *)
(* from, whatever of them the work truly meets - the rounds that blocked    *)
(* it, not those of the issue's earlier work, its gate code, its streak of  *)
(* fixes - has its record or its reasoned skip among the work's own lines   *)
(* in the attestation's commit, and every criterion its plan or spec still  *)
(* owes has a test that stands at the reviewed head                         *)
(* (attest_evidence.py: _branch_records, _owed_records, _decide_code).      *)
PassesAreBacked ==
    [][last'.at # last.at /\ last'.review = "code" => StandsOnItsLegs(last')]_evidenceVars

(* A plan passes only a reviewer who is no smaller than the session that    *)
(* planned last - which must be known, of another family, or met by the     *)
(* largest class - and never the smallest class, unless the plan skips it   *)
(* (attest_evidence.py: _planned_model, _decide_plan_review).               *)
PlanHasItsPeer ==
    [][(last'.at # last.at /\ last'.review = "plan") =>
       \/ \E l \in log'[last'.at].tree.plan : l.kind = "skip-plan" /\ l.what = "plan-review"
       \/ last'.model \in {Family, Top}
       \/ last'.model > 0 /\ sessions = <<>> /\ log[last'.head].tree.text.session \in Family..last'.model
       \/ last'.model > 0 /\ sessions[Len(sessions)] \in Family..last'.model]_evidenceVars

(* Silence is no trap: a bundle that warns of no refute is followed by no   *)
(* refusal of a pass at its head for want of one, as long as the plan rides *)
(* and is the one reviewed (make_review_bundle.py: _refute_rows: "the       *)
(* warning names the duty attest enforces"). A row that asks for more than  *)
(* the tier and the gate code the bundle does not read.                     *)
SilenceIsNoTrap ==
    \A c \in S.calls :
        LET a == [c EXCEPT !.head = bundle.head]
        IN bundle.head # 0 /\ ~bundle.warns /\ a.review = "code" /\ a.rides
           /\ InForce(a).kind # "broken" /\ PlanState(a) = "ok" =>
             \A row \in Owed(InForce(a).rows, FactsOf(a), Provided(a), Skips(a)) :
                 row.kind = "refute" => ~(DOMAIN row.when \subseteq {"tier_from", "gate_code"})
=============================================================================
