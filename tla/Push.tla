-------------------------------- MODULE Push --------------------------------
(***************************************************************************)
(* What a push has to pass and what it may remember: the pre-push frame    *)
(* (pre_push.py), the guard of the integration branch (merge_route.py),    *)
(* the tests (test_select.py), and the two memories that spare a run - the *)
(* stamps of a checkout and the certificates of a clone (certificate.py),  *)
(* written by the frame, by `test_select run --certify` and by             *)
(* `finish.py --tests`. One checkout: a push, a certifying run, and a user *)
(* who edits, commits, rebases and configures between any two of their     *)
(* steps, while others land on main.                                       *)
(*                                                                         *)
(* A code maps each part of the project to its version; the scene says in  *)
(* which parts the tests of a code are red. Bookkeeping is one word: does  *)
(* the last review verdict of the work block it.                           *)
(***************************************************************************)
EXTENDS Integers, Sequences, FiniteSets, SequencesExt

CONSTANTS
    Parts,       \* the stacks of the project, and the stages of its merge suite
    Stories,     \* what is red, who pushes how, how much the user does, see Story
    Theirs,      \* commits others may land, as <<code, bookkeeping>>
    Settings,    \* values of <<testing.local.json, the selector's addition>>
    MaxMain      \* commits on main

Codes == [Parts -> {0, 1}]
Old == [p \in Parts |-> 0]

Call == [
    to       : (SUBSET {"main", "branch"}) \ {{}},
    phases   : SUBSET {"review", "execute", "unknown"},  \* declared, or of a live record
    route    : BOOLEAN,                         \* PROCESS_MERGE_ROUTE names one
    override : BOOLEAN,                         \* PROCESS_OWNER_OVERRIDE, with a reason
    skips    : SUBSET {"gates", "tests"},       \* PROCESS_SKIP
    reason   : BOOLEAN,                         \* PROCESS_SKIP_REASON
    make     : {"plain", "altering", "noop"}]   \* what MAKEFLAGS carry

Story == [
    bad   : [Codes -> SUBSET Parts],   \* the parts whose tests are red
    calls : Seq(Call),                 \* the pushes, in their order
    runs  : Nat,                       \* certifying runs
    moves : Nat]                       \* steps of the user

ASSUME StoriesAssumption == \A s \in Stories : s \in Story /\ s.bad[Old] = {}
ASSUME SettingsAssumption == Settings \subseteq (SUBSET Parts) \X (SUBSET Parts)
ASSUME TheirsAssumption == Theirs \subseteq Codes \X {"clear", "block"}

VARIABLES
    story,    \* the story: what is left of it
    head,     \* the commit checked out: its code, its bookkeeping, its number
    base,     \* the history of main it stands on
    work,     \* the code in the worktree
    cfg,      \* testing.local.json: the parts it tests, {} for no configuration
    extra,    \* what the merge_scope selector adds to the parts a branch touches
    stages,   \* the `stages` file of the checkout, {} when missing or empty
    stamps,   \* process-push-ok
    certs,    \* the certificates of the clone
    main,     \* origin's main, the first commit below every branch
    ledger,   \* process-owner-overrides.log
    push,     \* the push under way
    test,     \* the certifying run under way
    count     \* commits made here so far

checkout == <<head, base, work>>
settings == <<cfg, extra>>
memory == <<stamps, certs>>
vars == <<story, checkout, settings, stages, memory, main, ledger, push, test, count>>

bad == story.bad
Idle == [at |-> "idle"]
Commit(code, book, n) == [code |-> code, book |-> book, n |-> n]
Forked == Last(LongestCommonPrefix({base, main}))
Changed(code, over) == {p \in Parts : code[p] # over[p]}
Touched == Changed(head.code, Forked.code)
(* The merge scope: what the branch touches, and what the selector adds.    *)
(* Seeded fault: what the selector says replaces what is touched.           *)
OnlyAdded(c) == c \cap extra
Selected(c) == c \cap (Touched \cup extra)
Clean == work = head.code
Fast(b) == IsPrefix(main, b)

(* What MAKEFLAGS do to a suite: any altering flag denies the certificate,  *)
(* and `make -n` runs nothing at all.                                       *)
Alters(make) == make # "plain"
RunsNothing(make) == make = "noop"

-----------------------------------------------------------------------------
(* The guard of main (merge_route.guard). A skipped gate run is a bypass:   *)
(* the owner's, with a reason, and the standing block goes with it. An      *)
(* update that drops commits of main needs the owner, and drops no block.   *)
(* Every decision has its line. Seeded fault: one line stands for two.      *)
Bypass(c) == "gates" \in c.skips
Owner(c) == c.phases = {}
Class(c) == IF "main" \in c.to THEN "merge" ELSE "branch"

MayGo(c) == /\ c.phases \cap {"review", "unknown"} = {}
            /\ \/ Bypass(c) /\ Owner(c) /\ c.reason
               \/ ~Bypass(c) /\ (c.route \/ (c.override /\ Owner(c)))

MayUpdate(c) == Fast(base) \/ (c.override /\ Owner(c) /\ Last(main).book # "block")

MayCarry(c) == Bypass(c) \/ head.book # "block"

OneEntry(c) == IF Bypass(c) THEN {"bypass"}
               ELSE IF ~c.route \/ ~Fast(base) THEN {"override"} ELSE {}
Entries(c) == (IF Bypass(c) THEN {"bypass"} ELSE {})
              \cup (IF (~Bypass(c) /\ ~c.route) \/ ~Fast(base) THEN {"override"} ELSE {})

Guard(c) == Class(c) = "merge" => MayGo(c) /\ MayUpdate(c) /\ MayCarry(c)

(* PROCESS_SKIP in the frame: the owner's, and logged; a gate skip on main  *)
(* is the guard's bypass already.                                           *)
Skips(c) == c.skips # {} /\ (Class(c) = "branch" \/ "tests" \in c.skips)
MaySkip(c) == Skips(c) => Owner(c) /\ c.reason

Lines(kinds, sha) == {[kind |-> k, sha |-> sha] : k \in kinds}

-----------------------------------------------------------------------------
(* The memories. A stamp names a commit, or an evidence tree (a code), the  *)
(* class, the scope and the configuration; a certificate names the tree and *)
(* what ran. The code it was pushed `over` is no part of a stamp's name,    *)
(* nor is whether the checkout lay `still` from the push's start: the frame *)
(* looks at the worktree when the tests are over, not before they begin.    *)
TreeOf(c) == [c EXCEPT !.book = "any", !.n = 0]
Stamp(what, f) == [what |-> what, class |-> f.class, scope |-> f.scope, cfg |-> f.cfg, over |-> f.over,
                  still |-> f.still]

Proved(s, f) == s.class = f.class /\ s.scope = f.scope /\ s.cfg = f.cfg
Known(what, f) == {s \in stamps : s.what = what /\ f.call.skips = {} /\ Proved(s, f)}

Cert(kind, scope, t) == [kind |-> kind, code |-> head.code, cfg |-> t.cfg, scope |-> scope,
                         parts |-> IF kind = "merge" THEN scope ELSE t.parts]

Kinds(class) == IF class = "merge" THEN {"merge"} ELSE {"push", "merge"}
Found(class, c) == \E k \in certs : /\ k.kind \in Kinds(class) /\ k.code = head.code /\ k.cfg = c
                                    /\ k.kind = "merge" => k.scope = Selected(c)

(* certificate.write: the tree still is the one seen clean before the run,  *)
(* and is clean now.                                                        *)
Proves(t) == t.before = {head.code} /\ Clean

(* The frame's stamps: nothing owed or skipped, a clean worktree, an        *)
(* environment that alters nothing, and the commit of the fingerprint.      *)
(* Seeded fault: what the host owes counts as passed.                       *)
StampsOwed(f) == f.call.skips = {} /\ Clean /\ ~Alters(f.call.make) /\ head = f.head
Stampable(f) == f.owed = {} /\ f.call.skips = {} /\ Clean /\ ~Alters(f.call.make) /\ head = f.head

(* clear_run, before the suite.                                             *)
Cleared(wrote) == IF wrote THEN Selected(cfg) ELSE {}

-----------------------------------------------------------------------------
Init ==
    /\ story \in Stories
    /\ main = <<Commit(Old, "clear", 0)>>
    /\ base = main
    /\ head \in {Commit(c, "clear", 1) : c \in Codes \ {Old}}
    /\ work = head.code
    /\ cfg = Parts /\ extra = {}
    /\ stages = {}
    /\ stamps = {} /\ certs = {} /\ ledger = {}
    /\ push = Idle /\ test = Idle
    /\ count = 1

(* A run of tests reads the worktree while it runs: what it says of a code  *)
(* edited under it is anything. Any code but what it started from: content  *)
(* that leaves and comes back while tests run is not modelled.              *)
Green(r) == r.mixed \/ r.parts \cap bad[r.start] = {}
Red(r) == r.mixed \/ r.parts \cap bad[r.start] # {}

Suites == {r \in {push, test} : r.at = "testing" /\ r.class = "merge"}

-----------------------------------------------------------------------------
(* git starts the hook: the ref lines, and the guard over them.             *)
Ask ==
    /\ push = Idle
    /\ story.calls # <<>> /\ story' = [story EXCEPT !.calls = Tail(@)]
    /\ head \notin Range(main)
    /\ LET c == Head(story.calls) IN
          IF Guard(c)
          THEN /\ ledger' = ledger \cup Lines(IF Class(c) = "merge" THEN Entries(c) ELSE {}, head)
               /\ push' = [at |-> "asked", call |-> c, sha |-> head, on |-> base, saw |-> main,
                           still |-> Clean]
          ELSE UNCHANGED <<ledger, push>>
    /\ UNCHANGED <<checkout, settings, stages, memory, main, test, count>>

(* The pushed commit is HEAD, a skip is the owner's.                        *)
Check ==
    /\ push.at = "asked"
    /\ push.sha = head /\ MaySkip(push.call)
    /\ push' = [push EXCEPT !.at = "checked"]
    /\ ledger' = ledger \cup Lines(IF Skips(push.call) THEN {"skip"} ELSE {}, head)
    /\ UNCHANGED <<story, checkout, settings, stages, memory, main, test, count>>

(* On the word of a stamp.                                                  *)
On(f, to, s) == [f EXCEPT !.at = to, !.over = s.over, !.still = @ /\ s.still]

(* Class, scope and fingerprint; a change git cannot list is code, for a    *)
(* merge. A stamp of the commit ends the push here, one of its tree spares  *)
(* the tests.                                                               *)
Fix(listed) ==
    /\ push.at = "checked"
    /\ listed \/ Class(push.call) = "merge" \/ cfg = {} \/ "tests" \in push.call.skips
    /\ LET f == [at    |-> "fixed", call |-> push.call, sha |-> push.sha, on |-> push.on,
                 saw   |-> push.saw, still |-> push.still, head |-> head, cfg |-> cfg,
                 class |-> Class(push.call),
                 scope |-> IF listed /\ Touched = {} /\ head \notin Range(main)
                           THEN "process-only" ELSE "code",
                 over  |-> Forked.code, parts |-> cfg \cap Touched,
                 owed |-> {}, start |-> work, mixed |-> FALSE]
       IN \/ \E s \in Known(head, f) : push' = On(f, "passed", s)
          \/ /\ Known(head, f) = {}
             /\ \E s \in Known(TreeOf(head), f) : push' = On(f, "spared", s)
          \/ Known(head, f) \cup Known(TreeOf(head), f) = {} /\ push' = f
    /\ UNCHANGED <<story, checkout, settings, stages, memory, main, ledger, test, count>>

(* The gates, and what needs no test after them. A merge counts only a      *)
(* merge certificate, a branch either.                                      *)
Spare ==
    /\ \/ push.at = "spared"
       \/ push.at = "fixed" /\ (push.scope # "code" \/ push.cfg = {} \/ "tests" \in push.call.skips)
       \/ push.at = "fixed" /\ Found(push.class, push.cfg)
    /\ push' = [push EXCEPT !.at = "ran"]
    /\ UNCHANGED <<story, checkout, settings, stages, memory, main, ledger, test, count>>

(* The run: the whole suite of a merge, the touched parts of a branch - but *)
(* for those this host cannot run. `make -n` is no run.                     *)
Run(owed, wrote) ==
    /\ push.at = "fixed"
    /\ push.scope = "code" /\ push.cfg # {} /\ "tests" \notin push.call.skips
    /\ ~Found(push.class, push.cfg)
    /\ owed \subseteq IF push.class = "merge" THEN {} ELSE push.parts
    /\ RunsNothing(push.call.make) => push.class = "branch" /\ push.parts \subseteq owed
    /\ push.class = "merge" => Suites = {}
    /\ push' = [push EXCEPT !.at = "testing", !.start = work, !.owed = owed,
                            !.parts = IF push.class = "merge" THEN Selected(push.cfg) ELSE @ \ owed]
    /\ stages' = IF push.class = "merge" /\ wrote THEN Selected(push.cfg) ELSE stages
    /\ UNCHANGED <<story, checkout, settings, memory, main, ledger, test, count>>

Ran ==
    /\ push.at = "testing"
    /\ Green(push)
    /\ push' = [push EXCEPT !.at = "ran", !.parts = @ \cup push.owed]
    /\ UNCHANGED <<story, checkout, settings, stages, memory, main, ledger, test, count>>

Remember ==
    /\ push.at = "ran"
    /\ stamps' = IF Stampable(push)
                 THEN {s \in stamps : s.what \notin {head, TreeOf(head)} \/ ~Proved(s, push)}
                      \cup {Stamp(head, push), Stamp(TreeOf(head), push)}
                 ELSE stamps
    /\ push' = [push EXCEPT !.at = "passed"]
    /\ UNCHANGED <<story, checkout, settings, stages, certs, main, ledger, test, count>>

(* Red gates or tests, a red preflight, a busy lane, a change or a          *)
(* configuration nobody can read: the frame refuses, and nothing stays.     *)
Refuse ==
    /\ push.at \in {"asked", "checked", "fixed", "spared"} \/ (push.at = "testing" /\ Red(push))
    /\ push' = Idle
    /\ UNCHANGED <<story, checkout, settings, stages, memory, main, ledger, test, count>>

(* origin takes the push if main is where git saw it - or nothing arrives.  *)
(* A branch that landed stands on its own commit.                           *)
Land(arrives) ==
    /\ push.at = "passed"
    /\ push' = Idle
    /\ IF arrives /\ "main" \in push.call.to /\ main = push.saw /\ Len(push.on) < MaxMain
       THEN /\ main' = Append(push.on, push.sha)
            /\ base' = IF base = push.on THEN main' ELSE base
       ELSE UNCHANGED <<main, base>>
    /\ UNCHANGED <<story, head, work, settings, stages, memory, ledger, test, count>>

-----------------------------------------------------------------------------
(* A certifying run: test_select --certify over the touched parts, or the   *)
(* merge suite of finish --tests, whose `stages` file is this run's.        *)
Begin(kind, make, owed, wrote) ==
    /\ test = Idle /\ cfg # {}
    /\ story.runs > 0 /\ story' = [story EXCEPT !.runs = @ - 1]
    /\ kind = "push" => ~Found("branch", cfg) /\ ~RunsNothing(make)
    /\ kind = "merge" => Suites = {} /\ owed = {}
    /\ owed \subseteq Touched
    /\ test' = [at |-> "testing", class |-> IF kind = "merge" THEN "merge" ELSE "branch",
                before |-> IF Clean /\ ~Alters(make) /\ owed = {} THEN {head.code} ELSE {},
                cfg |-> cfg, start |-> work, mixed |-> RunsNothing(make),
                parts |-> IF kind = "merge" THEN Selected(cfg) ELSE (cfg \cap Touched) \ owed]
    /\ stages' = IF kind = "merge" THEN Cleared(wrote) ELSE stages
    /\ UNCHANGED <<checkout, settings, memory, main, ledger, push, count>>

End ==
    /\ test.at = "testing"
    /\ test' = Idle
    /\ \/ Red(test) /\ UNCHANGED certs
       \/ /\ Green(test)
          /\ certs' = IF ~Proves(test) \/ (test.class = "merge" /\ stages = {}) THEN certs
                      ELSE certs \cup {IF test.class = "merge" THEN Cert("merge", stages, test)
                                       ELSE Cert("push", {}, test)}
    /\ UNCHANGED <<story, checkout, settings, stages, stamps, main, ledger, push, count>>

-----------------------------------------------------------------------------
(* The user. What a certifying run started from does not come back while it *)
(* runs.                                                                    *)
Stirred(r, code) == IF r.at = "testing" THEN [r EXCEPT !.mixed = @ \/ code # work] ELSE r
Disturbed(r) == IF r.at = "idle" THEN r ELSE [r EXCEPT !.still = FALSE]
Fresh(code) == test.at = "testing" /\ test.mixed => test.start # code

Move == story.moves > 0 /\ story' = [story EXCEPT !.moves = @ - 1]

Moved(code) ==
    /\ Move
    /\ Fresh(code)
    /\ work' = code
    /\ push' = Disturbed(Stirred(push, code))
    /\ test' = Stirred(test, code)

Edit(code) ==
    /\ code # work
    /\ Moved(code)
    /\ UNCHANGED <<head, base, settings, stages, memory, main, ledger, count>>

CommitAll(book) ==
    /\ work # head.code \/ book # head.book
    /\ Moved(work)
    /\ count' = count + 1 /\ head' = Commit(work, book, count + 1)
    /\ UNCHANGED <<base, settings, stages, memory, main, ledger>>

Rebase ==
    /\ Clean /\ base # main
    /\ LET theirs == Last(main).code
           code == [p \in Parts |-> IF head.code[p] = Forked.code[p] THEN theirs[p] ELSE head.code[p]]
       IN Moved(code) /\ head' = Commit(code, head.book, count + 1)
    /\ count' = count + 1
    /\ base' = main
    /\ UNCHANGED <<settings, stages, memory, main, ledger>>

(* The untracked configuration, the selector's answer, a suite run by hand. *)
Configure(s) ==
    /\ Move
    /\ s # settings /\ cfg' = s[1] /\ extra' = s[2]
    /\ UNCHANGED <<checkout, stages, memory, main, ledger, push, test, count>>

RunByHand(names) ==
    /\ Move
    /\ Suites = {} /\ stages' = names /\ names # stages
    /\ UNCHANGED <<checkout, settings, memory, main, ledger, push, test, count>>

OthersLand(code, book) ==
    /\ Len(main) < MaxMain /\ bad[code] = {}
    /\ main' = Append(main, Commit(code, book, -Len(main)))
    /\ UNCHANGED <<story, checkout, settings, stages, memory, ledger, push, test, count>>

Frame ==
    \/ Ask \/ Check
    \/ \E listed \in BOOLEAN : Fix(listed)
    \/ Spare
    \/ \E owed \in SUBSET Parts, wrote \in BOOLEAN : Run(owed, wrote)
    \/ Ran \/ Remember \/ Refuse
    \/ \E arrives \in BOOLEAN : Land(arrives)

Certify ==
    \/ \E kind \in {"push", "merge"}, make \in {"plain", "noop"},
          owed \in SUBSET Parts, wrote \in BOOLEAN : Begin(kind, make, owed, wrote)
    \/ End

User ==
    \/ \E code \in Codes : Edit(code)
    \/ \E book \in {"clear", "block"} : CommitAll(book)
    \/ Rebase
    \/ \E s \in Settings : Configure(s)
    \/ \E names \in SUBSET Parts : RunByHand(names)

Next == Frame \/ Certify \/ User \/ \E t \in Theirs : OthersLand(t[1], t[2])

Spec == Init /\ [][Next]_vars

-----------------------------------------------------------------------------
(* What spares a run is true of the code it names, however the worktree,    *)
(* HEAD, the `stages` file and the selector moved while it ran. The parts   *)
(* the run behind a certificate had to show are green. A stamp, unless the  *)
(* checkout was touched or dirty while its push was under way, was not      *)
(* written over a part another host owes, over a skip, nor on the word of a *)
(* stamp or certificate of another class, scope or configuration. Only the  *)
(* stamp of a branch may rest on a certificate that names the tree and the  *)
(* configuration, and not the parts that were touched when it was written.  *)
CertificatesHold == \A c \in certs : bad[c.code] \cap c.parts = {}
Certified(s) == \E c \in certs : c.kind = "push" /\ c.code = s.what.code /\ c.cfg = s.cfg
StampsHold ==
    \A s \in stamps :
        s.scope = "code" /\ s.still =>
            \/ bad[s.what.code] \cap s.cfg \cap Changed(s.what.code, s.over) = {}
            \/ s.class = "branch" /\ Certified(s)
WhatSparesARunIsTrue == CertificatesHold /\ StampsHold

Landing == main' # main /\ push.at = "passed" /\ push'.at = "idle"
In(kind) == [kind |-> kind, sha |-> push.sha] \in ledger

(* A push from a checkout nobody touched on the way puts no code on main    *)
(* that is red in a part it changes and the configuration tests, unless the *)
(* log has the owner's word: run now, certified, or stamped over the same   *)
(* main as now.                                                             *)
MainStaysGreen ==
    [][Landing /\ push.still
       => bad[push.sha.code] \cap push.cfg \cap Changed(push.sha.code, push.over) = {}
          \/ In("skip")]_vars

(* What goes past the train, past the gates or over commits of main is in   *)
(* the log, each decision by itself; no review or plan session lands; a     *)
(* block reaches main only over a logged bypass, and one that stands on     *)
(* main is not pushed away.                                                 *)
MainIsAccountedFor ==
    [][Landing
       => /\ push.call.phases \subseteq {"execute"}
          /\ ~push.call.route /\ "gates" \notin push.call.skips => In("override")
          /\ "gates" \in push.call.skips => In("bypass")
          /\ push.sha.book = "block" => In("bypass")
          /\ ~IsPrefix(main, main') => In("override") /\ Last(main).book # "block"]_vars
=============================================================================
