----------------------------- MODULE GateModes -----------------------------
(***************************************************************************)
(* Whether a gate blocks: gate_modes.py, and the gate runner as its user.  *)
(* The one source of a gate's mode is an append-only record of changes,    *)
(* committed like any file: every branch has a copy, writes its own rows,  *)
(* and brings them to the integration branch by merging, in whichever      *)
(* order the one who resolves the conflict puts them.  A session can write *)
(* a row by hand.  A restore counts in the tree that holds it, a weakening *)
(* only from the integration branch as this clone last fetched it.  The    *)
(* sentinel reads the clone's event log and only restores.                 *)
(*                                                                         *)
(* Bounds: a story of deeds besides the sentinel's, MaxRuns failing runs,  *)
(* MaxLands landings.  One clone, so one event log, which never rolls over here; every  *)
(* guardrail touches every weakening.                                      *)
(***************************************************************************)
EXTENDS Integers, Sequences, SequencesExt, FiniteSets

CONSTANTS Branches, Gates, MaxRuns, MaxLands

(* What each gate is: "core", "local" (one the project defines), "observed" *)
(* (on OBSERVE_FIRST) or "template".                                        *)
CONSTANT Kinds

(* What the sessions may still do: how often each deed is left.            *)
CONSTANT Stories
Deeds == {"weaken", "off", "observe", "restore", "lock", "unlock", "byhand",
          "unprotect", "drop"}
ASSUME StoriesAssumption == Stories \subseteq [Deeds -> Nat]
ASSUME GatesAssumption == IsFiniteSet(Gates)

Weak  == {"shadow", "sampled", "off"}
Modes == Weak \cup {"block"}

VARIABLES
  kind,   \* what each gate is
  story,  \* the deeds left
  base,   \* the integration branch: record, local gates, protected gates
  tree,   \* each branch's working tree, the same three
  fork,   \* the integration branch as each checkout last fetched and merged it
  log,    \* each clone's failing runs of weak gates, on clean trees
  now,    \* rows written so far, which is the clock
  runs,   \* failing runs so far
  lands   \* landings so far

modesVars == <<kind, story, base, tree, fork, log, now, runs, lands>>

(* A row of the record.  `ok` stands for all a weakening needs to be judged *)
(* at all: the owner's line, a known mode, a rate, an aware timestamp; for  *)
(* an unlock it is the triage.                                              *)
Row == [gate : Gates, action : {"weaken", "restore", "unlock"}, to : Modes,
        ok : BOOLEAN, observe : BOOLEAN, lock : BOOLEAN,
        by : {"manual", "sentinel"}, ts : Nat]

Tree == [rows : Seq(Row), own : SUBSET Gates, prot : SUBSET Gates]

Weakening(g, to, ok, observe) ==
  [gate |-> g, action |-> "weaken", to |-> to, ok |-> ok, observe |-> observe,
   lock |-> FALSE, by |-> "manual", ts |-> now + 1]

Restoring(g, lock, by) ==
  [gate |-> g, action |-> "restore", to |-> "block", ok |-> TRUE,
   observe |-> FALSE, lock |-> lock, by |-> by, ts |-> now + 1]

Unlocking(g, ok) ==
  [gate |-> g, action |-> "unlock", to |-> "block", ok |-> ok,
   observe |-> FALSE, lock |-> FALSE, by |-> "manual", ts |-> now + 1]

Core     == {g \in Gates : kind[g] = "core"}
Template == {g \in Gates : kind[g] # "local"}
ObserveFirst == {g \in Gates : kind[g] = "observed"}

-----------------------------------------------------------------------------
(* Replaying a record.                                                     *)

Fresh == [mode |-> "block", since |-> 0, record |-> "none",
          locked |-> FALSE, armed |-> FALSE, observe |-> FALSE]

Observing == [Fresh EXCEPT !.mode = "shadow", !.record = "default",
                           !.observe = TRUE]

(* Observing is for a gate no record but the template's default has named. *)
NeverBlocked(st) == st.record \in {"none", "default"} /\ ~st.armed

IgnoresTheLock(st, row) == row.ok /\ row.to \in Weak

Lawful(st, row) == row.ok /\ row.to \in Weak /\ ~st.locked

Replayed(st, row) ==
  CASE row.action = "weaken" /\ Lawful(st, row) ->
         [st EXCEPT !.mode = row.to, !.since = row.ts, !.record = "row",
                    !.observe = row.to = "shadow" /\ row.observe
                                  /\ NeverBlocked(st)]
    [] row.action = "restore" ->
         [st EXCEPT !.mode = "block", !.since = row.ts, !.record = "row",
                    !.locked = row.lock, !.armed = TRUE, !.observe = FALSE]
    [] row.action = "unlock" /\ row.ok -> [st EXCEPT !.locked = FALSE]
    [] OTHER -> st

(* No row weakens a core or a protected gate.                              *)
AtFirst(g, shielded, defaults) == IF g \in defaults \ shielded THEN Observing ELSE Fresh

Replays(st, row, g, shielded) ==
  IF row.gate = g /\ ~(row.action = "weaken" /\ g \in shielded) THEN Replayed(st, row) ELSE st

Fold(rows, g, shielded, defaults) ==
  LET after[n \in 0..Len(rows)] ==
        IF n = 0 THEN AtFirst(g, shielded, defaults)
        ELSE Replays(after[n - 1], rows[n], g, shielded)
  IN  after[Len(rows)]

Names(rows, g, shielded, defaults) ==
  \/ g \in defaults \ shielded
  \/ \E i \in DOMAIN rows : rows[i].gate = g

(* What a checkout goes by: its tree and the integration branch it fetched. *)
Shielded(b) == Core \cup tree[b].prot \cup fork[b].prot
Defaults(b) == (ObserveFirst \ tree[b].own) \ fork[b].own

Here(b, g)  == Fold(tree[b].rows, g, Shielded(b), Defaults(b))
There(b, g) == Fold(fork[b].rows, g, Shielded(b), Defaults(b))

(* The rule without the integration branch.                                *)
TreesOwn(b, g) == Here(b, g)

(* A restore in the tree counts at once, a weakening only from the         *)
(* integration branch.                                                     *)
Effective(b, g) ==
  IF Names(tree[b].rows, g, Shielded(b), Defaults(b)) /\ Here(b, g).mode = "block"
  THEN Here(b, g)
  ELSE IF Names(fork[b].rows, g, Shielded(b), Defaults(b)) THEN There(b, g)
  ELSE Fresh

Blocks(b, g) == Effective(b, g).mode = "block"

(* A local gate of an observed name that this branch dropped, with no      *)
(* record the replay honours.                                              *)
Handover(b) ==
  {g \in (ObserveFirst \cap fork[b].own) \ tree[b].own :
      Fold(tree[b].rows, g, Shielded(b), {}).record = "none"}

(* Failing runs since the weakening, of a gate that used to block.         *)
Failed(b, g) ==
  LET st == Effective(b, g) IN
  /\ st.mode \in {"shadow", "sampled"} /\ ~st.observe
  /\ \E e \in log[b] : e.gate = g /\ e.ts >= st.since

-----------------------------------------------------------------------------
ModesInit ==
  /\ kind \in Kinds /\ story \in Stories
  /\ \E own \in SUBSET {g \in Gates : kind[g] = "observed"},
        prot \in SUBSET {g \in Gates : kind[g] = "template"} :
       base = [rows |-> <<>>, prot |-> prot,
               own |-> own \cup {g \in Gates : kind[g] = "local"}]
  /\ tree = [b \in Branches |-> base]
  /\ fork = tree
  /\ log = [b \in Branches |-> {}] /\ now = 0 /\ runs = 0 /\ lands = 0

(* append: the rows on disk, then one line more.                           *)
Takes(deed) == story[deed] > 0 /\ story' = [story EXCEPT ![deed] = @ - 1]

AppendRow(b, row) ==
  /\ tree' = [tree EXCEPT ![b].rows = Append(@, row)]
  /\ now' = now + 1
  /\ UNCHANGED <<kind, base, fork, log, runs, lands>>

(* weaken: the proposal is replayed behind the tree's rows and refused if  *)
(* the replay refuses it.                                                  *)
Weaken(b, g, to, observe) ==
  /\ ~(observe /\ to = "shadow" /\ g \in Template \ ObserveFirst)
  /\ g \notin Shielded(b)
  /\ ~Fold(tree[b].rows, g, Shielded(b), {}).locked
  /\ Takes(IF observe THEN "observe" ELSE IF to = "off" THEN "off" ELSE "weaken")
  /\ AppendRow(b, Weakening(g, to, TRUE, observe))

Restore(b, g, lock) ==
  /\ Takes(IF lock THEN "lock" ELSE "restore")
  /\ AppendRow(b, Restoring(g, lock, "manual"))

Unlock(b, g) == Takes("unlock") /\ AppendRow(b, Unlocking(g, TRUE))

(* A session writes a line the command would have refused.                 *)
ByHand(b, g) ==
  /\ Takes("byhand")
  /\ \/ AppendRow(b, Weakening(g, "off", FALSE, FALSE))
     \/ AppendRow(b, Unlocking(g, FALSE))

(* A branch edits what else decides: its mandate, its local gates.         *)
Unprotect(b, g) ==
  /\ g \in tree[b].prot /\ Takes("unprotect")
  /\ tree' = [tree EXCEPT ![b].prot = @ \ {g}]
  /\ UNCHANGED <<kind, base, fork, log, now, runs, lands>>

DropLocal(b, g) ==
  /\ g \in tree[b].own /\ kind[g] = "observed" /\ Takes("drop")
  /\ tree' = [tree EXCEPT ![b].own = @ \ {g}]
  /\ UNCHANGED <<kind, base, fork, log, now, runs, lands>>

(* sentinel: restores, locked, every gate that failed where it does not    *)
(* block, and on a breached guardrail every weakening of a gate that used  *)
(* to block.                                                               *)
Due(b, breach) ==
  {g \in Gates : \/ Failed(b, g)
                 \/ breach /\ ~Blocks(b, g) /\ ~Effective(b, g).observe}

Sentinel(b, breach) ==
  LET due  == Due(b, breach)
      rows == SetToSeq({Restoring(g, TRUE, "sentinel") : g \in due})
  IN  /\ due # {}
      /\ tree' = [tree EXCEPT ![b].rows = @ \o rows]
      /\ now' = now + 1
      /\ UNCHANGED <<kind, story, base, fork, log, runs, lands>>

(* Every line of both, in the order either has them: `ours` at the places   *)
(* `at`, what only `theirs` has at the others.                             *)
Follows(rows, joined) ==
  \A i, j \in DOMAIN rows : i < j =>
    \E k, l \in DOMAIN joined : k < l /\ joined[k] = rows[i] /\ joined[l] = rows[j]

OnlyIn(theirs, ours) ==
  LET fresh(row) == row \notin ToSet(ours) IN SelectSeq(theirs, fresh)

Shuffled(ours, rest, at, places) ==
  [i \in places |-> IF i \in at THEN ours[Cardinality(at \cap 1..i)]
                                ELSE rest[Cardinality((1..i) \ at)]]

Joins(ours, theirs) ==
  LET lines  == ToSet(ours) \cup ToSet(theirs)
      places == 1..Cardinality(lines)
  IN  {joined \in {Shuffled(ours, OnlyIn(theirs, ours), at, places) :
                     at \in kSubset(Len(ours), places)} :
         ToSet(joined) = lines /\ Follows(theirs, joined)}

(* What both have, and what one of them added.                             *)
Both(ours, theirs, old) == (ours \cap theirs) \cup ((ours \cup theirs) \ old)

(* The branch takes the integration branch in.  Both sides appended, and    *)
(* the one who resolves the conflict keeps every line.                      *)
Merge(b) ==
  /\ fork[b] # base
  /\ \E joined \in Joins(tree[b].rows, base.rows) :
       tree' = [tree EXCEPT ![b] =
                  [rows |-> joined, own |-> Both(tree[b].own, base.own, fork[b].own),
                   prot |-> Both(tree[b].prot, base.prot, fork[b].prot)]]
  /\ fork' = [fork EXCEPT ![b] = base]
  /\ UNCHANGED <<kind, story, base, log, now, runs, lands>>

Events(b, bad) ==
  {[gate |-> g, ts |-> now] :
      g \in {h \in bad : Effective(b, h).mode \in {"shadow", "sampled"}}}

(* The gates run on a branch's tree and some fail; nothing lands.          *)
Run(b, bad) ==
  /\ runs < MaxRuns
  /\ ~(Events(b, bad) \subseteq log[b])
  /\ log' = [log EXCEPT ![b] = @ \cup Events(b, bad)]
  /\ runs' = runs + 1
  /\ UNCHANGED <<kind, story, base, tree, fork, now, lands>>

(* The gates run on a branch that holds the integration branch, none that  *)
(* blocks fails, and the branch lands.                                     *)
Land(b, bad) ==
  /\ fork[b] = base /\ tree[b] # base
  /\ lands < MaxLands /\ lands' = lands + 1
  /\ Handover(b) = {}
  /\ \A g \in bad : ~Blocks(b, g)
  /\ bad # {} => runs < MaxRuns
  /\ runs' = IF bad # {} THEN runs + 1 ELSE runs
  /\ log' = [log EXCEPT ![b] = @ \cup Events(b, bad)]
  /\ base' = tree[b]
  /\ fork' = [fork EXCEPT ![b] = tree[b]]
  /\ UNCHANGED <<kind, story, tree, now>>

ModesNext ==
  \E b \in Branches :
    \/ \E g \in Gates :
         \/ \E to \in {"shadow", "off"} : Weaken(b, g, to, FALSE)
         \/ Weaken(b, g, "shadow", TRUE)
         \/ \E lock \in BOOLEAN : Restore(b, g, lock)
         \/ Unlock(b, g) \/ ByHand(b, g)
         \/ Unprotect(b, g) \/ DropLocal(b, g)
    \/ \E breach \in BOOLEAN : Sentinel(b, breach)
    \/ Merge(b)
    \/ \E bad \in SUBSET Gates : Run(b, bad) \/ Land(b, bad)

ModesSpec == ModesInit /\ [][ModesNext]_modesVars

-----------------------------------------------------------------------------
(* The record read as a reader reads it, line against line.                *)

TriagedBetween(rows, g, i, j) ==
  \E k \in i + 1 .. j - 1 : rows[k].gate = g /\ rows[k].action = "unlock" /\ rows[k].ok

LockedAt(rows, g, i) ==
  \E j \in 1 .. i - 1 :
    /\ rows[j].gate = g /\ rows[j].action = "restore" /\ rows[j].lock
    /\ ~TriagedBetween(rows, g, j, i)
    /\ \A k \in j + 1 .. i - 1 : ~(rows[k].gate = g /\ rows[k].action = "restore")

WeakenedByOwner(rows, g) ==
  \E i \in DOMAIN rows :
    /\ rows[i].gate = g /\ rows[i].action = "weaken" /\ rows[i].ok
    /\ ~LockedAt(rows, g, i)
    /\ \A j \in i + 1 .. Len(rows) : ~(rows[j].gate = g /\ rows[j].action = "restore")

NeverArmed(t, g) ==
  /\ kind[g] = "observed" /\ g \notin t.own
  /\ \A i \in DOMAIN t.rows : ~(t.rows[i].gate = g /\ t.rows[i].action = "restore")

(* No branch weakens a gate for its own landing: what lands in spite of a  *)
(* failing gate does so by an owner's line that was on the integration     *)
(* branch before, in force there and not restored by the branch itself, or *)
(* because the gate is a new one nobody has armed; never past a core gate  *)
(* or one protected there.  gate_modes.effective, gate_runner.main.        *)
NoBranchWeakensItsOwn ==
  [][base' # base =>
       \A b \in Branches, bad \in SUBSET Gates : Land(b, bad) =>
         \A g \in bad :
           /\ g \notin Core \cup base.prot
           /\ WeakenedByOwner(base.rows, g) \/ NeverArmed(base, g)
           /\ WeakenedByOwner(base'.rows, g) \/ NeverArmed(base', g)]_modesVars

(* What the sentinel locked stays blocking in every copy of the record,    *)
(* however the rows of several branches were put together, while no        *)
(* triaged unlock and no other restore follows it.  gate_modes.fold.       *)
LockOutlivesMerges ==
  \A t \in {base} \cup {tree[b] : b \in Branches}, g \in Gates :
    (\E i \in DOMAIN t.rows :
       /\ t.rows[i].gate = g /\ t.rows[i].by = "sentinel"
       /\ \A j \in i + 1 .. Len(t.rows) :
            t.rows[j].gate = g => t.rows[j].action = "weaken" \/ ~t.rows[j].ok)
    => Fold(t.rows, g, Core, ObserveFirst).mode = "block"

=============================================================================
