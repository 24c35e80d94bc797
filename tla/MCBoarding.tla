----------------------------- MODULE MCBoarding -----------------------------
(***************************************************************************)
(* Two branches: b1's session is on this host, b2's on another. Four scenes  *)
(* of the tower alone, two of a train beside it: one in which trees and    *)
(* host differ, one in which the branches bring plans.                     *)
(***************************************************************************)
EXTENDS Boarding, TLC
CONSTANTS b1, b2

Still == [time |-> 1, moves |-> 0, words |-> {}, may |-> {}, phase |-> "review", watched |-> FALSE,
          trains |-> 0, world |-> "none"]
MCScenes == [
  silence |-> [Still EXCEPT !.watched = TRUE, !.time = 3, !.moves = 3, !.words = {"blocked", "idle"},
                            !.may = {"commit", "report", "beat", "end"}],
  prompts |-> [Still EXCEPT !.watched = TRUE, !.time = 3, !.moves = 3, !.words = {"idle"},
                            !.may = {"write", "report", "kill"}],
  table   |-> [Still EXCEPT !.moves = 3, !.time = 3, !.words = {"blocked", "idle", "pushed"},
                            !.may = {"report", "publish", "ask", "write", "end", "turn"}, !.phase = "execute"],
  say     |-> [Still EXCEPT !.moves = 4, !.time = 2, !.may = {"say", "write", "end"}],
  check   |-> [Still EXCEPT !.trains = 1, !.moves = 1, !.world = "check", !.may = {"break"}],
  killed  |-> [Still EXCEPT !.trains = 2, !.moves = 3, !.world = "killed", !.may = {"die", "break", "own"}],
  plans   |-> [Still EXCEPT !.trains = 1, !.world = "plans"]]

-----------------------------------------------------------------------------
Make(op, dir, name) == [op |-> op, kind |-> "make", dir |-> dir, name |-> name]
Other(kind, name) == [op |-> "", kind |-> kind, dir |-> "", name |-> name]
Commands == {<<Make("", "", "check")>>, <<Make("", "sub", "check")>>, <<Other("script", "script")>>,
             <<Other("word", "tool")>>, <<Make("", "", "lint"), Make("&&", "", "check")>>,
             <<Make("", "", "check"), Make(";", "", "lint")>>}
Whole == {"sub", "check", "lint", "script"}

Nothing == [plans |-> {}, passes |-> {}, issues |-> {}]
Brings == [adds |-> {}, drops |-> {}, conflicts |-> FALSE, work |-> Nothing]
Harmless == {Brings, [Brings EXCEPT !.conflicts = TRUE]}
Faults == {[Brings EXCEPT !.adds = {f}] : f \in {"check-fails", "lint-fails", "script-fails", "tool-fails",
                "include-lost", "source-lost", "calls-nothing", "uses-net", "slow"}}
          \cup {[Brings EXCEPT !.drops = {f}] : f \in Whole}
          \cup {[Brings EXCEPT !.adds = {"check-fails", "slow"}], [Brings EXCEPT !.adds = {"uses-net", "lint-fails"}]}
Bases == {Whole, Whole \ {"check", "script"}}
NoWorld == [cmd |-> <<Make("", "", "check")>>, base |-> {}, plans |-> {}, orders |-> {},
            brings |-> [w \in {b1, b2} |-> Brings]]
CheckOf(commands, bases, xs, ys) ==
    {[NoWorld EXCEPT !.cmd = c, !.base = t, !.orders = {<<b1, b2>>}, !.brings = (b1 :> x @@ b2 :> y)] :
        c \in commands, t \in bases, x \in xs, y \in ys}
Netty == [Brings EXCEPT !.adds = {"uses-net"}]
MCCheck == CheckOf(Commands, Bases, Faults \cup Harmless, {Netty})
MCKilled == CheckOf({<<Make("", "", "check")>>}, {Whole}, Faults, {Brings})

Plan(stem, slug, issue) == [stem |-> stem, slug |-> slug, at |-> "active", tier |-> 2, open |-> FALSE, waived |-> FALSE,
                            stays |-> FALSE, issues |-> {issue}, added |-> TRUE, holds |-> FALSE, names |-> {}]
X == Plan("d1-x", "x", "#1")
Plans == {X, [X EXCEPT !.open = TRUE], [X EXCEPT !.stays = TRUE], [X EXCEPT !.tier = 1], [X EXCEPT !.at = "archive"],
          [X EXCEPT !.holds = TRUE], [X EXCEPT !.tier = NoTier], [X EXCEPT !.added = FALSE, !.issues = {"#9"}],
          [X EXCEPT !.tier = 3], [Plan("d1-y", "y", "#1") EXCEPT !.waived = TRUE],
          [Plan("d1-y", "y", "#1") EXCEPT !.at = "spec", !.holds = TRUE, !.names = {"#1"}]}
Pass(of, work, tier) == [of |-> of, work |-> work, tier |-> tier]
OfA == {{}, {Pass("d1-x", "x", 2)}, {Pass("d1-x", "d1-x", 2)}, {Pass("d1-x", "x", 3)}}
OfB == {{}, {Pass("d2-x", "x", 2)}, {Pass("d2-x", "d2-x", 2)}}
WorksOfA == {w \in [plans : {q \in SUBSET Plans : Cardinality({p.stem : p \in q}) = Cardinality(q)},
                      passes : OfA, issues : {{"#1"}}] :
                \A r \in w.passes : \E p \in w.plans : p.stem = r.of}
WorksOfB == {[plans |-> {Plan("d2-x", "x", "#2")}, passes |-> r, issues |-> {"#2"}] : r \in OfB}
MCPlans == {[NoWorld EXCEPT !.base = Whole, !.plans = ps, !.orders = {<<b1, b2>>, <<b2, b1>>},
                            !.brings = (b1 :> [Brings EXCEPT !.work = x] @@ b2 :> [Brings EXCEPT !.work = y])] :
                x \in WorksOfA, y \in WorksOfB, ps \in {{}, {[X EXCEPT !.at = "archive", !.issues = {"#9"}]}}}

MCWorlds == [none |-> {NoWorld}, check |-> MCCheck, killed |-> MCKilled, plans |-> MCPlans]
=============================================================================
