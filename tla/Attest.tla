------------------------------- MODULE Attest -------------------------------
(***************************************************************************)
(* How attest.py writes a REVIEW line: the snapshot it decides on (class   *)
(* Snapshot of attest_evidence.py), the round it counts, and the write     *)
(* phase - index.lock, the checks W1 and W2, the append, the index rename, *)
(* the hooks and update-ref - beside other attests and a user who edits,   *)
(* saves, stages and commits at any point. Each read or write another      *)
(* process can get in front of is one step.                                *)
(*                                                                         *)
(* A file is a sequence of lines; a line is a REVIEW of an attest or       *)
(* something the user wrote. What the evidence table says of a pass is a   *)
(* choice here (see Evidence).                                             *)
(***************************************************************************)
EXTENDS Naturals, Sequences, FiniteSets

CONSTANTS
    Procs,      \* attests
    Scenes,     \* who calls with what, beside how many steps of the user, on which shard
    NoFile      \* no such file, no such entry

Shard == "shard"      \* today's journal shard, where the line goes
Report == "report"    \* records that may ride along with --with: a review's report,
Plan == "plan"        \* the work's plan
Paths == {Shard, Report, Plan}

Job == [
    verdict : {"pass", "block"},
    claim   : Nat,           \* --round, 0 for none
    commit  : BOOLEAN,       \* --commit
    with    : SUBSET {Report, Plan}]    \* --with

Review(v, r, p) == [kind |-> "review", verdict |-> v, round |-> r, by |-> p]
Words(n) == [kind |-> "words", nr |-> n]

ASSUME ScenesAssumption ==
    \A s \in Scenes : /\ s.moves \in Nat /\ s.touches \subseteq Paths /\ s.reported \in BOOLEAN
                      /\ {"calls", "touches"} \subseteq DOMAIN s /\ \E P \in SUBSET Procs : s.calls \in [P -> Job]

(* The journal as it is found: lines of other reviewers, their rounds       *)
(* counted as attest.py counts them - a round is new or one more than the   *)
(* last that blocked.                                                       *)
Earlier == [kind : {"review"}, verdict : {"pass", "block"}, round : Nat, by : STRING]
ASSUME JournalAssumption ==
    \A s \in Scenes : s.shard # NoFile =>
        /\ s.shard \in Seq(Earlier)
        /\ \A i \in DOMAIN s.shard : s.shard[i].by \notin Procs
        /\ \E m \in 0..Len(s.shard) :
               {s.shard[i].round : i \in {k \in DOMAIN s.shard : s.shard[k].verdict = "block"}} = 1..m

ASSUME NoFileAssumption == NoFile \notin Procs

VARIABLES
    scene,    \* who was called with what, and the files the user touches
    pc,       \* where it is
    snap,     \* what it fixed: old, the bytes and inodes it read, the index entries
    round,    \* the round it writes
    laid,     \* the index it lays down, made under the lock
    fd,       \* the inode it appends to
    name,     \* the worktree: path -> inode, 0 for none
    bytes,    \* inode -> its lines
    index,    \* path -> the staged lines
    lock,     \* who holds index.lock
    log,      \* the commits up to HEAD
    moves     \* steps of the user so far, at most scene.moves

attest == <<scene, pc, snap, round, laid, fd>>
files == <<name, bytes>>
git == <<index, lock, log>>
vars == <<attest, files, git, moves>>

job == scene.calls
Called == DOMAIN job
Old(p) == log[snap[p].old].tree
Held(f) == IF name[f] = 0 THEN NoFile ELSE bytes[name[f]]
Carried(p) == {Shard} \cup job[p].with
Staging(p) == job[p].commit \/ job[p].with # {}

-----------------------------------------------------------------------------
(* The round (round_problems), over the lines of T0. Several lines of one   *)
(* round are one round; gaps count. A claim stands if it is the next round, *)
(* or, for another reviewer, the one that just blocked; a later one is      *)
(* written as the next one, an earlier one refused. Seeded fault: a later   *)
(* one is written as claimed.                                               *)
Blocks(lines) == {l \in {lines[i] : i \in DOMAIN lines} : l.kind = "review" /\ l.verdict = "block"}
Highest(lines) == IF Blocks(lines) = {} THEN 0
                  ELSE CHOOSE r \in {l.round : l \in Blocks(lines)} :
                           \A l \in Blocks(lines) : l.round <= r
Counted(lines) == 1 + Highest(lines)
TooEarly(claim, lines) == claim \notin {0, Highest(lines)} /\ claim < Counted(lines)

AsClaimed(claim, lines) == IF claim = 0 THEN Counted(lines) ELSE claim
RoundFor(claim, lines) == IF claim # 0 /\ claim = Highest(lines) THEN claim ELSE Counted(lines)

Line(p) == Review(job[p].verdict, round[p], p)
Lines(data) == IF data = NoFile THEN <<>> ELSE data
Known(p) == Lines(snap[p].data[Shard])

(* What the target holds once the line is in it.                            *)
Target(p) == Append(Known(p), Line(p))
Laid(p, f) == IF f = Shard THEN Target(p) ELSE snap[p].data[f]
Over(tree, p) == [f \in Paths |-> IF f \in Carried(p) THEN Laid(p, f) ELSE tree[f]]

-----------------------------------------------------------------------------
Blank == [old |-> 0, data |-> [f \in Paths |-> NoFile], ino |-> [f \in Paths |-> 0],
          index |-> [f \in Paths |-> NoFile]]

(* The shard is committed as it stands, or not there yet, the plan is; the  *)
(* report is new, or still to be written.                                   *)
Init ==
    /\ scene \in Scenes
    /\ pc = [p \in Procs |-> IF p \in Called THEN "head" ELSE "uncalled"]
    /\ snap = [p \in Procs |-> Blank]
    /\ round = [p \in Procs |-> 0]
    /\ laid = [p \in Procs |-> Blank.data]
    /\ fd = [p \in Procs |-> 0]
    /\ name = [f \in Paths |-> IF f = Plan THEN 2
                               ELSE IF f = Report THEN (IF scene.reported THEN 3 ELSE 0)
                               ELSE IF scene.shard = NoFile THEN 0 ELSE 1]
    /\ bytes = <<Lines(scene.shard), <<Words(0)>>, <<Words(0)>> >>
    /\ index = [f \in Paths |-> IF f = Shard THEN scene.shard
                                ELSE IF f = Plan THEN <<Words(0)>> ELSE NoFile]
    /\ log = <<[tree |-> index, parent |-> 0]>>
    /\ lock = NoFile
    /\ moves = 0

Extends(more, less) ==
    less = NoFile \/ (Len(less) <= Len(more) /\ less = SubSeq(more, 1, Len(less)))

Goes(p, to) == pc' = [pc EXCEPT ![p] = to]

(* A refusal drops the lock, if this attest holds it (_Refused).            *)
Refuses(p) == Goes(p, "refused") /\ lock' = IF lock = p THEN NoFile ELSE lock
Release == lock' = NoFile
OnlyAt(p) == UNCHANGED <<scene, files, moves>>

-----------------------------------------------------------------------------
(* snapshot: `old` first, then each file through its descriptor, then the   *)
(* index entries.                                                           *)
ReadHead(p) ==
    /\ pc[p] = "head"
    /\ snap' = [snap EXCEPT ![p].old = Len(log)]
    /\ Goes(p, "shard")
    /\ UNCHANGED <<round, laid, fd, git>> /\ OnlyAt(p)

ReadFile(p, f, next) ==
    /\ pc[p] = f
    /\ IF f \in Carried(p)
         THEN snap' = [snap EXCEPT ![p].data[f] = Held(f), ![p].ino[f] = name[f]]
         ELSE UNCHANGED snap
    /\ IF f # Shard /\ f \in Carried(p) /\ name[f] = 0
         THEN Refuses(p) ELSE Goes(p, next) /\ UNCHANGED lock
    /\ UNCHANGED <<round, laid, fd, index, log>> /\ OnlyAt(p)

(* Work somebody else left in the index, or a file gone from the worktree.  *)
Foreign(data, was, staged) ==
    \/ data = NoFile /\ was # NoFile
    \/ staged = NoFile /\ was # NoFile
    \/ staged # NoFile /\ staged \notin {data, was}

(* The evidence of a pass and the line's own checks: a choice.              *)
Evidence == {TRUE, FALSE}

Decide(p) ==
    /\ pc[p] = "decide"
    /\ snap' = [snap EXCEPT ![p].index = index]
    /\ round' = [round EXCEPT ![p] = RoundFor(job[p].claim, Known(p))]
    /\ \E fine \in Evidence :
           IF fine /\ ~TooEarly(job[p].claim, Known(p)) /\ \A f \in Carried(p) : ~Foreign(snap[p].data[f], Old(p)[f], index[f])
             THEN Goes(p, IF Staging(p) THEN "lock" ELSE "open")
             ELSE Goes(p, "refused")
    /\ UNCHANGED <<laid, fd, git>> /\ OnlyAt(p)

-----------------------------------------------------------------------------
(* The write phase. W1 takes the index's own lock and compares HEAD and the *)
(* entries with the snapshot. Seeded fault: the entries are not compared.   *)
TakeLock(p) ==
    /\ pc[p] = "lock"
    /\ IF lock = NoFile THEN lock' = p /\ Goes(p, "w1") ELSE Refuses(p)
    /\ UNCHANGED <<snap, round, laid, fd, index, log>> /\ OnlyAt(p)

AnyEntry(p, f) == TRUE
EntryAllowed(p, f) ==
    IF index[f] = NoFile THEN snap[p].index[f] = NoFile
    ELSE index[f] \in {snap[p].index[f], snap[p].data[f], Old(p)[f]}

CheckIndex(p) ==
    /\ pc[p] = "w1"
    /\ IF Len(log) = snap[p].old /\ \A f \in Carried(p) : EntryAllowed(p, f)
         THEN /\ laid' = [laid EXCEPT ![p] = Over(index, p)]
              /\ Goes(p, "open") /\ UNCHANGED lock
         ELSE Refuses(p) /\ UNCHANGED laid
    /\ UNCHANGED <<snap, round, fd, index, log>> /\ OnlyAt(p)

(* W2: the shard is the file the snapshot read, byte for byte; a new one is *)
(* made only now and never over another. Then the line goes to the open     *)
(* descriptor's end, whoever has the name by then.                          *)
OpenShard(p) ==
    /\ pc[p] = "open"
    /\ LET fresh == snap[p].data[Shard] = NoFile
           same == name[Shard] # 0 /\ name[Shard] = snap[p].ino[Shard] /\ Held(Shard) = snap[p].data[Shard]
       IN IF fresh \/ same
            THEN /\ fd' = [fd EXCEPT ![p] = IF fresh THEN 0 ELSE name[Shard]]
                 /\ Goes(p, "append") /\ UNCHANGED lock
            ELSE Refuses(p) /\ UNCHANGED fd
    /\ UNCHANGED <<snap, round, laid, index, log>> /\ OnlyAt(p)

Appended(p, lines) == Append(lines, Line(p))

AppendLine(p) ==
    /\ pc[p] = "append"
    /\ \/ /\ fd[p] # 0
          /\ bytes' = [bytes EXCEPT ![fd[p]] = Appended(p, @)]
          /\ Goes(p, "after") /\ UNCHANGED <<fd, name, lock>>
       \/ /\ fd[p] = 0 /\ name[Shard] = 0
          /\ bytes' = Append(bytes, <<Line(p)>>)
          /\ name' = [name EXCEPT ![Shard] = Len(bytes')]
          /\ fd' = [fd EXCEPT ![p] = Len(bytes')]
          /\ Goes(p, "after") /\ UNCHANGED lock
       \/ /\ fd[p] = 0 /\ name[Shard] # 0
          /\ Refuses(p) /\ UNCHANGED <<fd, files>>
    /\ UNCHANGED <<scene, snap, round, laid, index, log, moves>>

SameFile(p) ==
    /\ pc[p] = "after"
    /\ IF name[Shard] = fd[p]
         THEN Goes(p, IF Staging(p) THEN "rename" ELSE "written") /\ UNCHANGED lock
         ELSE Refuses(p)
    /\ UNCHANGED <<snap, round, laid, fd, index, log>> /\ OnlyAt(p)

(* The lock, with the new index in it, is renamed onto the index.           *)
RenameIndex(p) ==
    /\ pc[p] = "rename"
    /\ index' = laid[p] /\ Release
    /\ Goes(p, IF job[p].commit THEN "hooks" ELSE "written")
    /\ UNCHANGED <<snap, round, laid, fd, log>> /\ OnlyAt(p)

(* git commit's hooks run on a private index of the commit's tree; then     *)
(* update-ref moves HEAD from `old` and from nothing else.                  *)
Hooks(p) ==
    /\ pc[p] = "hooks"
    /\ Goes(p, "ref") \/ Goes(p, "written")
    /\ UNCHANGED <<snap, round, laid, fd, git>> /\ OnlyAt(p)

AtAnyHead(p) == TRUE
AtOld(p) == Len(log) = snap[p].old

UpdateRef(p) ==
    /\ pc[p] = "ref"
    /\ IF AtOld(p)
         THEN /\ log' = Append(log, [tree |-> Over(Old(p), p), parent |-> snap[p].old])
              /\ Goes(p, "committed")
         ELSE Goes(p, "written") /\ UNCHANGED log
    /\ UNCHANGED <<snap, round, laid, fd, index, lock>> /\ OnlyAt(p)

Ends == {"refused", "written", "committed", "killed"}

(* Killed anywhere; its lock, if it has it, stays.                          *)
Die(p) ==
    /\ pc[p] \notin Ends
    /\ Goes(p, "killed")
    /\ UNCHANGED <<snap, round, laid, fd, git>> /\ OnlyAt(p)

Attesting(p) ==
    \/ ReadHead(p) \/ ReadFile(p, Shard, Report) \/ ReadFile(p, Report, Plan)
    \/ ReadFile(p, Plan, "decide") \/ Decide(p)
    \/ TakeLock(p) \/ CheckIndex(p) \/ OpenShard(p) \/ AppendLine(p) \/ SameFile(p)
    \/ RenameIndex(p) \/ Hooks(p) \/ UpdateRef(p) \/ Die(p)

-----------------------------------------------------------------------------
(* The user: writes to a file in place, saves another one over its name, or *)
(* removes it; stages, unstages and commits where no lock is held; removes  *)
(* the lock a killed attest left.                                           *)
Moves == moves < scene.moves /\ moves' = moves + 1 /\ UNCHANGED attest

Edit(f) ==
    /\ Moves /\ name[f] # 0
    /\ bytes' = [bytes EXCEPT ![name[f]] = Append(@, Words(moves'))]
    /\ UNCHANGED <<name, git>>

Save(f) ==
    /\ Moves
    /\ bytes' = Append(bytes, Append(Lines(Held(f)), Words(moves')))
    /\ name' = [name EXCEPT ![f] = Len(bytes')]
    /\ UNCHANGED git

Remove(f) ==
    /\ Moves /\ name[f] # 0
    /\ name' = [name EXCEPT ![f] = 0]
    /\ UNCHANGED <<bytes, git>>

Stage(f) ==
    /\ Moves /\ lock = NoFile /\ index[f] # Held(f)
    /\ index' = [index EXCEPT ![f] = Held(f)]
    /\ UNCHANGED <<files, lock, log>>

(* Bytes no file holds, as `git add -p` makes them.                         *)
StagePart(f) ==
    /\ Moves /\ lock = NoFile
    /\ index' = [index EXCEPT ![f] = Append(Lines(@), Words(moves'))]
    /\ UNCHANGED <<files, lock, log>>

Commit ==
    /\ Moves /\ lock = NoFile /\ index # log[Len(log)].tree
    /\ log' = Append(log, [tree |-> index, parent |-> Len(log)])
    /\ UNCHANGED <<files, index, lock>>

Unlock ==
    /\ Moves /\ lock # NoFile /\ pc[lock] = "killed"
    /\ Release
    /\ UNCHANGED <<files, index, log>>

User ==
    \/ Commit \/ Unlock
    \/ \E f \in scene.touches : Edit(f) \/ Save(f) \/ Remove(f) \/ Stage(f) \/ StagePart(f)

Next == User \/ \E p \in Called : Attesting(p)
Spec == Init /\ [][Next]_vars
-----------------------------------------------------------------------------

(* Design I6, I11, I13': no step of an attest throws away what somebody     *)
(* else has staged or written. Whatever it replaces in the index is kept in *)
(* the new entry or is committed; a file it touches keeps its name and its  *)
(* lines.                                                                   *)
KeepsForeignWork ==
    [][pc' # pc =>
          \A f \in Paths :
              /\ \/ Extends(index'[f], index[f])
                 \/ \E i \in DOMAIN log : log[i].tree[f] = index[f]
              /\ name[f] # 0 => name'[f] = name[f] /\ Extends(bytes'[name[f]], bytes[name[f]])]_vars

(* HEAD's history is one line: no attest commits over a commit it has not   *)
(* seen.                                                                    *)
NoCommitIsLost == \A i \in DOMAIN log : log[i].parent = i - 1

(* A pass clears by its round, and on a tie the block wins (latest_verdicts *)
(* of check_review.py). Wherever lines are read from - a file, the index,   *)
(* HEAD - a pass that stands outranks no block of a round it had not seen   *)
(* blocked: a lens that blocks meanwhile is not passed over.                *)
Standing(lines) ==
    {l \in {lines[i] : i \in DOMAIN lines} :
        /\ l.kind = "review" /\ l.verdict = "pass"
        /\ \A b \in Blocks(lines) : b.round < l.round}

Read == {Lines(Held(Shard)), Lines(index[Shard]), Lines(log[Len(log)].tree[Shard])}

PassesOverNoUnseenBlock ==
    \A lines \in Read : \A l \in Standing(lines) : \A b \in Blocks(lines) :
        l.by \in Procs => \E s \in Blocks(Known(l.by)) : s.round = b.round
=============================================================================
