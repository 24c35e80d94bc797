------------------------------ MODULE Boarding ------------------------------
(***************************************************************************)
(* A train before its first round (train.py: departure, run, pre_board,    *)
(* decide and read_facts) and the merges it builds (build_train): whether  *)
(* it departs, the pre-board check of each candidate on the base merged    *)
(* with it, in a probe tree of its own, the `blocked` reports it writes    *)
(* into the file the tower reads, and what the merges settle.              *)
(*                                                                         *)
(* A tree is a set of atoms: what the check needs and has, and what fails  *)
(* in it. A command is a sequence of simple commands; how the shell's      *)
(* words are read is left out, what is read out of them is not. What the   *)
(* shell and make print of a run is theirs (external). The probe's owner   *)
(* and the first probe are one step.                                       *)
(***************************************************************************)
EXTENDS Tower, Settling

CONSTANT Worlds    \* the commands, trees and works a scene chooses from

VARIABLES
    world,    \* the check's command, main's tree, what each branch brings
    host,     \* what of the host is broken
    place,    \* what is at <root>-train-preboard
    run,      \* the run under way
    line      \* the train's own branch: plans, passes; history: its merges

(* What a world is. The check: a directory is entered by the first command  *)
(* of a chain of `&&`, a script is a command of the chain. Plans: a stem is *)
(* a date before a slug, and one branch's; no issue is named like either. A *)
(* pass names its plan by stem or slug. A train's branches are boarded once.*)
Command == [op : {"", "&&", ";", "||"}, kind : {"make", "script", "word"}, dir : STRING, name : STRING]
OwnCommands(cmd) == {i \in DOMAIN cmd : \A j \in 2..i : cmd[j].op = "&&"}
Check(cmd) ==
    /\ cmd \in Seq(Command) /\ cmd # <<>>
    /\ \A i \in DOMAIN cmd : /\ cmd[i].dir # "" => i = 1 /\ OwnCommands(cmd) = DOMAIN cmd
                             /\ cmd[i].kind = "script" => i \in OwnCommands(cmd)
Named(w) ==
    LET plans(b) == w.brings[b].work.plans
        all == w.plans \cup UNION {plans(b) : b \in Workers} IN
    /\ \A p, q \in all : /\ p.stem = q.stem => p.slug = q.slug
                         /\ p.stem # q.slug /\ p.stem \notin q.issues /\ p.slug \notin q.issues
    /\ \A b, c \in Workers : \A p \in plans(b), q \in plans(c) : p.stem = q.stem => b = c
    /\ \A b \in Workers : \A r \in w.brings[b].work.passes :
           \E p \in plans(b) : r.of = p.stem /\ r.work \in {p.stem, p.slug}
Branch == [adds : SUBSET STRING, drops : SUBSET STRING, conflicts : BOOLEAN, work : Work]
ASSUME WorldsAssumption == \A n \in DOMAIN Scenes :
    /\ Scenes[n].world \in DOMAIN Worlds
    /\ \A w \in Worlds[Scenes[n].world] :
           /\ Check(w.cmd) /\ w.base \in SUBSET STRING /\ w.brings \in [Workers -> Branch]
           /\ w.plans \in SUBSET PlanFile /\ IsFiniteSet(w.plans)
           /\ \A b \in Workers : IsFiniteSet(w.brings[b].work.plans)
           /\ Named(w)
           /\ \A o \in w.orders : o \in Seq(Workers) /\ \A i, j \in DOMAIN o : o[i] = o[j] => i = j

boardingVars == <<world, host, place, run, line>>
trainVars == <<towerVars, boardingVars>>

Tree(b) == (world.base \cup world.brings[b].adds) \ world.brings[b].drops

-----------------------------------------------------------------------------
(* A run of the check: what make and the shell do and print (external). A   *)
(* simple command is make (in a directory, a target), a script or a word;   *)
(* `truth` is the history of why it failed.                                 *)
Silent == [rc |-> 0, recipe |-> FALSE, needed |-> FALSE, norule |-> {}, includes |-> {}, lost |-> {}, truth |-> {}]
Failing == [check |-> "check-fails", lint |-> "lint-fails", script |-> "script-fails", tool |-> "tool-fails"]
Broken(c, tree, dead) == \/ Failing[c.name] \in tree
                         \/ "uses-net" \in tree /\ "net" \in dead
Simple(c, tree, dead) ==
    IF c.dir # "" /\ c.dir \notin tree THEN [Silent EXCEPT !.rc = 2, !.truth = {"absent"}]
    ELSE IF c.kind = "make" /\ "include-lost" \in tree
      THEN [Silent EXCEPT !.rc = 2, !.norule = {"x.mk"}, !.includes = {"x.mk"}, !.truth = {"broken"}]
    ELSE IF c.kind = "make" /\ c.name \notin tree
      THEN [Silent EXCEPT !.rc = 2, !.norule = {c.name}, !.truth = {"absent"}]
    ELSE IF c.kind = "make" /\ "source-lost" \in tree
      THEN [Silent EXCEPT !.rc = 2, !.needed = TRUE, !.truth = {"broken"}]
    ELSE IF (c.kind = "script" /\ c.name \notin tree) \/ (c.kind = "word" /\ "tool" \in dead)
      THEN [Silent EXCEPT !.rc = 127, !.lost = {c.name}, !.truth = {"absent"}]
    ELSE IF "calls-nothing" \in tree /\ c.kind = "script"
      THEN [Silent EXCEPT !.rc = 127, !.truth = {"broken"}]
    ELSE IF Broken(c, tree, dead)
      THEN [Silent EXCEPT !.rc = IF c.kind = "make" THEN 2 ELSE 1, !.recipe = c.kind = "make",
                          !.truth = {"broken"}]
    ELSE Silent

Joined(x, y) == [f \in DOMAIN x |-> IF f = "rc" THEN y.rc
                                    ELSE IF f \in {"recipe", "needed"} THEN x[f] \/ y[f] ELSE x[f] \cup y[f]]
Shell(cmd, tree, dead) ==
    LET after[i \in 0..Len(cmd)] ==
            IF i = 0 THEN Silent
            ELSE LET before == after[i - 1] IN
                 IF \/ cmd[i].op = "&&" /\ before.rc # 0
                    \/ cmd[i].op = "||" /\ before.rc = 0 THEN before
                 ELSE Joined(before, Simple(cmd[i], tree, dead))
    IN after[Len(cmd)]

-----------------------------------------------------------------------------
(* read_facts and decide.                                                   *)
MakeTargets(c) == IF c.kind = "make" THEN {c.name} ELSE {}
EntryFiles(c) == (IF c.dir = "" THEN {} ELSE {c.dir}) \cup (IF c.kind = "script" THEN {c.name} ELSE {})

Targets(cmd) == UNION {MakeTargets(cmd[i]) : i \in DOMAIN cmd}
Words(cmd, tree) == {cmd[i].name : i \in {j \in OwnCommands(cmd) :
                        cmd[j].kind = "word" \/ (cmd[j].kind = "script" /\ cmd[j].name \notin tree)}}
(* Only of a chain of `&&`, whose absent first file stops it.               *)
Absent(cmd, tree) == IF OwnCommands(cmd) = DOMAIN cmd THEN EntryFiles(cmd[1]) \ tree ELSE {}

(* The first row that applies.                                             *)
Decide(cmd, tree, f) ==
    IF f.rc = 0 THEN "green"
    ELSE IF f.recipe \/ f.needed \/ f.norule \cap f.includes # {} THEN "red"
    ELSE IF \/ Absent(cmd, tree) # {}
            \/ f.rc = 2 /\ f.norule # {} /\ f.norule \subseteq Targets(cmd)
            \/ f.rc = 127 /\ f.lost \cap Words(cmd, tree) # {} THEN "undefined"
    ELSE "red"

(* _sh: past its limit it is killed, and says nothing about the tree.       *)
Verdicts(tree) == {Decide(world.cmd, tree, Shell(world.cmd, tree, host))}
                  \cup (IF "slow" \in tree THEN {"undefined"} ELSE {})
(* probe: a fresh tree, the branch merged into it, the check run there.     *)
Probe(b) == IF "disk" \in host THEN {"not built"}
            ELSE IF world.brings[b].conflicts THEN {"conflict"} ELSE Verdicts(Tree(b))
ProbeBase == IF "disk" \in host THEN {"not built"} ELSE Verdicts(world.base)

-----------------------------------------------------------------------------
NoRun == [pc |-> "off", nr |-> 0, preflight |-> FALSE, aboard |-> <<>>, at |-> 1, second |-> FALSE,
          kept |-> <<>>, checked |-> {}, dropped |-> <<>>, said |-> 0]

BoardingInit ==
    /\ TowerInit
    /\ world \in Worlds[T.world]
    /\ host = {} /\ place = "none" /\ run = NoRun
    /\ line = [plans |-> world.plans, passes |-> {}, merges |-> <<>>]

At(pc) == run.pc = pc
BoardingSame == UNCHANGED <<towerVars, world, host, line>>
Goes2(pc) == run' = [run EXCEPT !.pc = pc]
Keeps(bs) == [run EXCEPT !.kept = bs, !.dropped = <<>>, !.pc = "leave"]

(* run, pre_board; whether lanes, gates, --force and the number aboard let  *)
(* it depart is a choice. A foreign tree at the probe's path is left alone  *)
(* and nobody checked; a killed run's tree goes, and then its branches.     *)
Departs(aboard) ==
    /\ At("off") /\ run.nr < T.trains
    /\ aboard # <<>>
    /\ \E preflight \in BOOLEAN :
         LET new == [NoRun EXCEPT !.nr = run.nr + 1, !.preflight = preflight, !.aboard = aboard] IN
         IF place = "foreign"
         THEN run' = [new EXCEPT !.kept = aboard, !.pc = "build"] /\ UNCHANGED place
         ELSE \E state \in ProbeBase :
                /\ place' = IF state = "not built" THEN "none" ELSE "probe"
                /\ run' = IF state = "green" THEN [new EXCEPT !.pc = "candidate"]
                          ELSE [new EXCEPT !.kept = aboard, !.pc = "leave"]
    /\ line' = [plans |-> world.plans, passes |-> {}, merges |-> <<>>]
    /\ UNCHANGED <<towerVars, world, host>>

(* Red is asked once more, on a tree built again.                           *)
Candidate ==
    /\ At("candidate") /\ run.at <= Len(run.aboard)
    /\ LET b == run.aboard[run.at]
           next == [run EXCEPT !.at = @ + 1, !.second = FALSE] IN
         \E state \in Probe(b) :
           /\ run' = IF state = "red"
                     THEN IF run.second THEN [next EXCEPT !.dropped = Append(@, b)] ELSE [run EXCEPT !.second = TRUE]
                     ELSE [next EXCEPT !.kept = Append(@, b), !.checked = @ \cup (IF state = "green" THEN {b} ELSE {})]
           /\ place' = IF state = "not built" THEN "none" ELSE "probe"
    /\ BoardingSame

(* The base once more, and the host by the preflight. Seeded fault: the     *)
(* base alone speaks for the host.                                          *)
OnTheBase == IF host \cap {"disk"} # {} THEN "red" ELSE "green"
Preflight == IF host # {} THEN "red" ELSE "green"
Again ==
    /\ At("candidate") /\ run.at > Len(run.aboard)
    /\ IF run.dropped = <<>> THEN Goes2("leave") /\ UNCHANGED place
       ELSE \E state \in ProbeBase :
              /\ run' = IF state # "green" THEN Keeps(run.aboard)
                        ELSE [run EXCEPT !.pc = IF run.preflight THEN "preflight" ELSE "tell"]
              /\ place' = IF state = "not built" THEN "none" ELSE "probe"
    /\ BoardingSame
Confirmed ==
    /\ At("preflight")
    /\ run' = IF Preflight = "green" THEN [run EXCEPT !.pc = "tell"]
              ELSE [run EXCEPT !.kept = <<>>, !.dropped = <<>>, !.pc = "leave"]
    /\ BoardingSame /\ UNCHANGED place

Tells ==
    /\ At("tell")
    /\ IF run.said = Len(run.dropped) THEN Goes2("leave") /\ UNCHANGED <<file, count>>
       ELSE /\ run' = [run EXCEPT !.said = @ + 1]
            /\ file' = Append(file, Report(run.dropped[run.said + 1], "blocked", "train"))
            /\ Stirs(run.dropped[run.said + 1], {"stale"})
    /\ UNCHANGED <<scene, now, origin, fetched, session, commit, moves, watch, seen, told, talk,
                   world, host, place, line>>

(* Its `finally`; with nobody kept nothing is built.                        *)
Leaves ==
    /\ At("leave") /\ place' = "none"
    /\ Goes2(IF run.kept = <<>> THEN "off" ELSE "build")
    /\ BoardingSame

(* build_train: those kept, in order; a conflict drops one.                 *)
Merges ==
    /\ At("build") /\ run.kept # <<>>
    /\ LET b == Head(run.kept)
           s == Settle(line, world.brings[b].work) IN
         line' = IF world.brings[b].conflicts THEN line
                 ELSE [plans |-> s.line.plans, passes |-> s.line.passes,
                       merges |-> Append(line.merges, [branch |-> b, closes |-> s.closes, refs |-> s.refs])]
    /\ run' = [run EXCEPT !.kept = Tail(@)]
    /\ UNCHANGED <<towerVars, world, host, place>>
Built == /\ At("build") /\ run.kept = <<>> /\ Goes2("off") /\ BoardingSame /\ UNCHANGED place

-----------------------------------------------------------------------------
(* Around it: it is killed anywhere; the host breaks, and stays broken;     *)
(* dispatch adds and removes a worktree whose name is the probe's.          *)
Dies == /\ ~At("off") /\ Moves("die") /\ Goes2("off")
        /\ UNCHANGED <<scene, now, file, origin, fetched, seeing, watch, seen, told, talk,
                       world, host, place, line>>
HostBreaks(what) ==
    /\ Moves("break") /\ host' = host \cup {what}
    /\ UNCHANGED <<scene, now, file, origin, fetched, seeing, watch, seen, told, talk,
                   world, place, run, line>>
OwnerMoves(to) ==
    /\ Moves("own") /\ At("off") /\ place = (IF to = "foreign" THEN "none" ELSE "foreign") /\ place' = to
    /\ UNCHANGED <<scene, now, file, origin, fetched, seeing, watch, seen, told, talk,
                   world, host, run, line>>

Boards == \/ \E aboard \in world.orders : Departs(aboard)
          \/ Candidate \/ Again \/ Confirmed \/ Tells \/ Leaves \/ Merges \/ Built
          \/ Dies \/ (\E what \in {"net", "tool", "disk"} : HostBreaks(what))
          \/ (\E to \in {"none", "foreign"} : OwnerMoves(to))

BoardingNext == (TowerNext /\ UNCHANGED boardingVars) \/ Boards
BoardingFair == WF_trainVars(Watches /\ UNCHANGED boardingVars) /\ WF_trainVars(Minute /\ UNCHANGED boardingVars)
                /\ WF_trainVars(Tick /\ UNCHANGED boardingVars)
BoardingSpec == BoardingInit /\ [][BoardingNext]_trainVars /\ BoardingFair

-----------------------------------------------------------------------------
(* Properties.                                                              *)

(* pre_board: a candidate is reported only when the check, on main with it, *)
(* fails at something that is there, on a host in order - if the run has a  *)
(* preflight that asks what the check needs of the host, and a host does    *)
(* not heal in between; and who boards as checked passes it there. However  *)
(* the host breaks, whatever another run left, a check slow or absent.      *)
Guilty(b) == LET f == Shell(world.cmd, Tree(b), {}) IN f.rc # 0 /\ "broken" \in f.truth
PreboardIsFair ==
    /\ run.preflight => \A i \in 1..run.said : Guilty(run.dropped[i])
    /\ \A b \in run.checked : Shell(world.cmd, Tree(b), {}).rc = 0

(* _settle_plans, train.md: the issues a merge closes are those of a plan   *)
(* of the branch's own that is archived now, with no task open, and that    *)
(* was itself reviewed for its tier (or needs no review, or came archived)  *)
(* - not of a namesake's review, nor one a deviation of the branch keeps.   *)
Deserves(wagon, p) ==
    \/ p.tier < 2 \/ p.waived \/ p.at = "archive"
    \/ \E r \in line.passes : r.of = p.stem /\ r.tier >= p.tier
ClosesOnlyFinished == \A i \in DOMAIN line.merges :
    LET m == line.merges[i]
        wagon == world.brings[m.branch].work IN
    \A n \in m.closes :
        /\ \E p \in wagon.plans : n \in p.issues /\ Finished(p) /\ Deserves(wagon, p)
                /\ \E q \in line.plans : q.stem = p.stem /\ q.at = "archive"
        /\ \A p \in wagon.plans : p.holds /\ (p.added \/ p.issues \cap wagon.issues # {}) => n \notin Names(p)
=============================================================================
