----------------------------- MODULE ReviewGate -----------------------------
(***************************************************************************)
(* The review gate of a push to main (check_review.py) over everything its *)
(* branches may have become by then: work goes on beside and after a       *)
(* review, main moves, is merged in or rebased onto, conflicts are         *)
(* resolved by hand, one work is stacked on another, verdicts come again,  *)
(* plans are archived, waived or deleted, journal lines are lost, and the  *)
(* push is a branch or a train of two.                                     *)
(*                                                                         *)
(* A commit is its ancestors, its tree (see Reviewed), the REVIEW records  *)
(* in its journal, the plan of each work and the work it claims. One       *)
(* branch per work; its plan, its work id and its issue are one name. The  *)
(* clone has fetched: origin/main is main, and no local main is ahead.     *)
(***************************************************************************)
EXTENDS Reviewed

CONSTANTS
    Work,          \* works, a branch each
    Tier,          \* the tier a work's plan declares
    Scenes         \* stories: what may happen to which works, in how many commits

Nobody == "nobody"   \* a commit that claims no issue
Deeds == {"write", "revert", "merge", "rebase", "stack", "slice", "attest", "block", "archive",
          "waive", "delete", "prune", "others", "push", "train"}

ASSUME ReviewGateAssumption ==
    /\ Tier \in [Work -> 1 .. 3]
    /\ Nobody \notin Work
    /\ \A s \in Scenes :
           /\ s.does \subseteq Deeds /\ s.size \in Nat
           /\ s.works \subseteq Work /\ s.planned \subseteq Work /\ s.blocked \subseteq Work

VARIABLES
    scene,
    commit,    \* the commits, by number
    main,      \* the commit main is at, here and at the remote
    tip,       \* the commit each branch is at
    staging    \* the train's staging branch: its tip, and the tips that boarded

vars == <<scene, commit, main, tip, staging>>

Record(w, v, r, b, h) ==
    [work |-> w, verdict |-> v, round |-> r, base |-> b, head |-> h, nr |-> Len(commit)]
Plan(place, waiver) == [at |-> place, waiver |-> waiver]
NoPlan == Plan("none", "no")
NoTrain == [at |-> 0, boarded |-> {}]

-----------------------------------------------------------------------------
(* The records. A round is the one after the highest block of its work. The *)
(* verdict that stands is of the highest round, in a tie the block. Seeded  *)
(* fault: in a tie the pass.                                                  *)
Of(recs, w) == {r \in recs : r.work = w}
Passes(recs) == {r \in recs : r.verdict = "pass"}
BlocksIn(recs) == recs \ Passes(recs)

NextRound(recs, w) ==
    1 + LET rounds == {r.round : r \in BlocksIn(Of(recs, w))}
        IN IF rounds = {} THEN 0 ELSE CHOOSE n \in rounds : \A m \in rounds : m <= n

OutranksInATie(block, pass) == pass.round >= block.round
Outranks(block, pass) == pass.round > block.round

StandsBlocked(recs, w) ==
    \E r \in BlocksIn(Of(recs, w)) : \A s \in Passes(Of(recs, w)) : ~Outranks(r, s)

(* A full round's base is the fork point of its head from main; a head main *)
(* holds is judged no more. Of those `tip` carries, one that is not clears  *)
(* nothing, and a later valid round over it must supersede it.              *)
Forks(h) == MergeBases(commit, commit[h], commit[main])
Carries(t, c) == c \in commit[t].anc \ commit[main].anc
Invalid(recs, t) == {r \in recs : Carries(t, r.head) /\ Forks(r.head) # {r.base}}
ValidPasses(recs, t) == Passes(recs) \ Invalid(recs, t)

Superseded(r, recs, t) ==
    \E s \in recs \ Invalid(recs, t) :
        /\ s.work = r.work /\ IsAncestor(commit, r.head, s.head)
        /\ s.round > r.round \/ (s.round = r.round /\ s.verdict = "pass")
        /\ Forks(s.head) = {s.base}

-----------------------------------------------------------------------------
(* What a push of `t` carries: the works its commits claim, those of the    *)
(* records it adds, and those reviewed at a head it brings. A block of one  *)
(* of them must not stand: blocks at either end count, passes at the tip    *)
(* where valid, and those main judged. Seeded fault: main's blocks are      *)
(* forgotten where the tip's journal holds them no more.                    *)
Brings(t) == commit[t].anc \ commit[main].anc
Claimed(t) == {commit[c].claims : c \in Brings(t)} \ {Nobody}

Pushed(t) ==
    Claimed(t) \cup {r.work : r \in commit[t].recs \ commit[main].recs}
               \cup {r.work : r \in {s \in commit[t].recs \cup commit[main].recs : s.head \in Brings(t)}}

TipsVerdicts(t) == BlocksIn(commit[t].recs) \cup ValidPasses(commit[t].recs, t)
Verdicts(t) ==
    TipsVerdicts(t) \cup BlocksIn(commit[main].recs) \cup ValidPasses(commit[main].recs, t)

NoStandingBlock(t) == \A w \in Pushed(t) : ~StandsBlocked(Verdicts(t), w)

-----------------------------------------------------------------------------
(* A plan is cleared by a valid pass, and its code current where one of its *)
(* passes is fresh. On a train each passenger that carries the reviewed     *)
(* head is judged at its own tip, and from where that tip met main: main    *)
(* may have moved on since. Seeded fault: presence is enough.               *)
Clearing(t, w) == Of(ValidPasses(commit[t].recs, t), w)
Cleared(t, w) == Clearing(t, w) # {}

Known(t) == {w \in Work : commit[t].plan[w].at # "none"}
Ranges(t, w) ==
    {r \in ValidPasses(commit[t].recs, t) : r.work \in Known(t) /\ Tier[r.work] >= Tier[w]}

Fresh(t, boarded, r, w) ==
    LET carriers == {c \in boarded : IsAncestor(commit, r.head, c)}
        judged == IF carriers = {} THEN {t} ELSE carriers
    IN \A j \in judged : UnreviewedAt(commit, j, main, r, Ranges(t, w)) = {}

Present(t, boarded, w) == Cleared(t, w)
Current(t, boarded, w) == \E r \in Clearing(t, w) : Fresh(t, boarded, r, w)

(* The plans of Tier 2 and up, by where they stand: archived ones need a    *)
(* pass, active ones that are in flight a current one, deleted ones a pass, *)
(* the claimed ones a current one; a Tier 3 plan main already claims needs  *)
(* a pass. A waiver in flight stands on the owner's word. Seeded fault: a   *)
(* deleted plan owes nothing.                                               *)
Waived(t, w) == commit[t].plan[w].waiver # "no"
InFlight(t, w) == commit[t].plan[w] # commit[main].plan[w]
Stands(t, w, places) == commit[t].plan[w].at \in places /\ ~Waived(t, w)

Archived(t, w) == Stands(t, w, {"archived"}) /\ ~Cleared(t, w)
ForgetsDeleted(t, w) == FALSE
Deleted(t, w) ==
    /\ commit[t].plan[w].at = "none" /\ commit[main].plan[w].at = "active"
    /\ ~Waived(main, w) /\ ~Cleared(t, w)
MergedBefore(t, w) ==
    /\ Stands(t, w, {"active"}) /\ Tier[w] = 3 /\ ~Cleared(t, w)
    /\ \E c \in commit[main].anc : commit[c].claims = w

PlanFindings(t, boarded, w) ==
    \/ Archived(t, w) \/ Deleted(t, w) \/ MergedBefore(t, w)
    \/ Stands(t, w, {"active"}) /\ InFlight(t, w) /\ ~Current(t, boarded, w)
    \/ Stands(t, w, {"active", "archived"}) /\ w \in Claimed(t) /\ ~Current(t, boarded, w)
    \/ InFlight(t, w) /\ commit[t].plan[w].waiver = "unsigned"

Passable(t, boarded) ==
    /\ \A r \in Invalid(commit[t].recs, t) : Superseded(r, commit[t].recs, t)
    /\ \A w \in Work : Tier[w] >= 2 => ~PlanFindings(t, boarded, w)
    /\ NoStandingBlock(t)

-----------------------------------------------------------------------------
(* Main at first: one commit, some works planned there, some blocked by a   *)
(* round that came past the gate.                                           *)
Init ==
    /\ scene \in Scenes
    /\ commit = <<[anc |-> {1}, tree |-> [p \in Path |-> 1], claims |-> Nobody,
                   recs |-> {[work |-> w, verdict |-> "block", round |-> 1, base |-> 1,
                              head |-> 1, nr |-> 0] : w \in scene.blocked},
                   plan |-> [w \in Work |-> IF w \in scene.planned THEN Plan("active", "no")
                                                                  ELSE NoPlan]]>>
    /\ main = 1
    /\ tip = [w \in Work |-> 1]
    /\ staging = NoTrain

Does(deed) == deed \in scene.does
New == Len(commit) + 1
Add(c) == New <= scene.size /\ commit' = Append(commit, c)
On(w) == commit[tip[w]]

(* A commit on a branch: what it changes of the tip, claimed by the work.   *)
Commit(w, new) ==
    /\ Add([new EXCEPT !.anc = @ \cup {New}, !.claims = w])
    /\ tip' = [tip EXCEPT ![w] = New]
    /\ UNCHANGED <<scene, main, staging>>

(* A branch's first change brings its plan.                                 *)
Write(w, p) ==
    /\ Does("write")
    /\ Commit(w, [On(w) EXCEPT !.tree[p] = New,
                               !.plan[w] = IF tip[w] = 1 /\ @ = NoPlan THEN Plan("active", "no") ELSE @])

Revert(w, p) ==
    /\ Does("revert") /\ On(w).tree[p] # commit[main].tree[p]
    /\ Commit(w, [On(w) EXCEPT !.tree[p] = commit[main].tree[p]])

Merged(x, y, tree) ==
    [x EXCEPT !.anc = @ \cup y.anc, !.tree = tree, !.recs = @ \cup y.recs,
              !.plan = [w \in Work |-> IF x.plan[w] = commit[1].plan[w] THEN y.plan[w] ELSE x.plan[w]]]

(* Main merged into the branch: what conflicts is resolved as ours, theirs  *)
(* or something new; or the whole branch is kept as it was.                 *)
MergeMain(w) ==
    /\ Does("merge") /\ ~IsAncestor(commit, main, tip[w])
    /\ LET auto == AutoMerge(commit, On(w), commit[main])
           Resolved(side) == [p \in Path |-> IF p \in Conflicted(auto) THEN side[p] ELSE auto.tree[p]]
           fresh == [p \in Path |-> New]
       IN \E tree \in {Resolved(On(w).tree), Resolved(commit[main].tree), Resolved(fresh), On(w).tree} :
              Commit(w, Merged(On(w), commit[main], tree))

(* Rebased onto main, its commits as one.                                   *)
Rebase(w) ==
    /\ Does("rebase") /\ ~IsAncestor(commit, main, tip[w])
    /\ LET auto == AutoMerge(commit, On(w), commit[main])
       IN /\ Conflicted(auto) = {}
          /\ Commit(w, [Merged(On(w), commit[main], auto.tree) EXCEPT !.anc = commit[main].anc])

(* Another work's branch merged in.                                         *)
Stack(w, v) ==
    /\ Does("stack") /\ w # v /\ ~IsAncestor(commit, tip[v], tip[w])
    /\ LET auto == AutoMerge(commit, On(w), On(v))
       IN Conflicted(auto) = {} /\ Commit(w, Merged(On(w), On(v), auto.tree))

(* A verdict on a head the branch carries, written by a later commit. The   *)
(* range starts at the fork point; in a line of an older attest (a delta)   *)
(* anywhere.                                                                *)
Attest(w, h, v) ==
    /\ Does(IF v = "pass" THEN "attest" ELSE "block")
    /\ Carries(tip[w], h) /\ Cardinality(Forks(h)) = 1
    /\ \E base \in Forks(h) \cup (IF Does("slice") THEN Brings(h) \ {h} ELSE {}) :
           Commit(w, [On(w) EXCEPT !.recs = @ \cup {Record(w, v, NextRound(@, w), base, h)}])

(* Plans are archived or waived where they stand, or deleted.               *)
MovePlan(w, to) ==
    /\ On(w).plan[w].at = "active" /\ On(w).plan[w] # to
    /\ Commit(w, [On(w) EXCEPT !.plan[w] = to])

Archive(w) == Does("archive") /\ MovePlan(w, Plan("archived", On(w).plan[w].waiver))
Waive(w, word) == Does("waive") /\ ~Waived(tip[w], w) /\ MovePlan(w, Plan("active", word))
Delete(w) == Does("delete") /\ MovePlan(w, NoPlan)

(* Lines main holds are gone from the branch: pruned, or lost in a merge.   *)
Prune(w) ==
    /\ Does("prune") /\ On(w).recs \cap commit[main].recs # {}
    /\ Commit(w, [On(w) EXCEPT !.recs = @ \ commit[main].recs])

(* Somebody else's work lands meanwhile.                                    *)
OthersLand(p) ==
    /\ Does("others") /\ \A c \in commit[main].anc \ {1} : commit[c].claims # Nobody
    /\ Add([commit[main] EXCEPT !.anc = @ \cup {New}, !.tree[p] = New, !.claims = Nobody])
    /\ main' = New
    /\ UNCHANGED <<scene, tip, staging>>

Push(w) ==
    /\ Does("push")
    /\ tip[w] # main /\ IsAncestor(commit, main, tip[w])
    /\ Passable(tip[w], {})
    /\ main' = tip[w]
    /\ UNCHANGED <<scene, commit, tip, staging>>

(* The train's staging branch: passengers merged onto main, one onto the    *)
(* other, by git's own merges; its push is judged like any other.           *)
Board(c, w, n) ==
    LET merged == Merged(c, On(w), AutoMerge(commit, c, On(w)).tree)
    IN [merged EXCEPT !.anc = @ \cup {n}, !.claims = Nobody]
Boards(w) == Cardinality(Forks(tip[w])) = 1 /\ ~IsAncestor(commit, tip[w], main)

Stage(w, v) ==
    /\ Does("train") /\ w # v /\ Boards(w) /\ Boards(v)
    /\ Len(commit) + 2 <= scene.size
    /\ LET first == Board(commit[main], w, New)
           second == Board(first, v, New + 1)
       IN /\ Conflicted(first) = {} /\ Conflicted(second) = {}
          /\ commit' = commit \o <<first, second>>
    /\ staging' = [at |-> New + 1, boarded |-> {tip[w], tip[v]}]
    /\ UNCHANGED <<scene, main, tip>>

PushTrain ==
    /\ staging # NoTrain
    /\ IsAncestor(commit, main, staging.at) /\ main # staging.at
    /\ Passable(staging.at, staging.boarded)
    /\ main' = staging.at
    /\ UNCHANGED <<scene, commit, tip, staging>>

Next ==
    \/ \E w \in scene.works :
        \/ \E p \in Path : Write(w, p) \/ Revert(w, p)
        \/ MergeMain(w) \/ Rebase(w) \/ Archive(w) \/ Delete(w) \/ Prune(w) \/ Push(w)
        \/ \E word \in {"signed", "unsigned"} : Waive(w, word)
        \/ \E v \in scene.works : Stack(w, v) \/ Stage(w, v)
        \/ \E h \in On(w).anc, v \in {"pass", "block"} : Attest(w, h, v)
    \/ PushTrain \/ \E p \in Path : OthersLand(p)

Spec == Init /\ [][Next]_vars
-----------------------------------------------------------------------------
Lands == main' # main /\ commit' = commit
Landed(w) == w \in {commit[c].claims : c \in commit[main'].anc \ commit[main].anc}

(* The works of a push that owe a review of its code: they land, their plan *)
(* is there and nobody waived it.                                           *)
Owes(w) == Tier[w] >= 2 /\ Landed(w) /\ commit[main'].plan[w].at # "none" /\ ~Waived(main', w)

(* What a reviewer had before him: the range, and a content he saw come or  *)
(* go in it. The passes that speak for a work are of its tier or above.     *)
RangeOf(r) == {r.base} \cup (commit[r.head].anc \ commit[r.base].anc)
Saw(r, p, content) ==
    commit[r.head].tree[p] = content /\ \E c \in RangeOf(r) : commit[c].tree[p] # content
Undid(r, p, content) ==
    commit[r.head].tree[p] # content /\ \E c \in RangeOf(r) : commit[c].tree[p] = content

Speaking(w) == {r \in Passes(commit[main'].recs) : Tier[r.work] >= Tier[w]}
Read(w, p, content) == \E r \in Speaking(w) : Saw(r, p, content)
Once(p, content) == \E c \in commit[main].anc : commit[c].tree[p] = content

(* An older attest's slice of a branch, rebased away since, that begins and *)
(* ends with what main once held: whether it came back by a revert beneath  *)
(* the slice, no reviewer was asked.                                        *)
RestsOnMain(w, p, content) ==
    /\ Once(p, content)
    /\ \E r \in Of(Speaking(w), w) :
          /\ r.base \notin commit[main].anc /\ r.head \notin commit[main'].anc
          /\ commit[r.base].tree[p] = content /\ commit[r.head].tree[p] = content

(* The tips a push is judged at: of a train, the passengers that carry the  *)
(* review.                                                                  *)
Riders == IF main' = staging.at THEN staging.boarded ELSE {}
Carriers(r) == {j \in Riders : IsAncestor(commit, r.head, j)}
TipsOf(r) == IF Carriers(r) = {} THEN {main'} ELSE Carriers(r)
ReviewsOf(w) == Of(Passes(commit[main'].recs), w)
TipsFor(w) == {j \in Riders \cup {main'} : \A r \in ReviewsOf(w) : j \in TipsOf(r)}

(* What a tip brings of its own: a content that differs from what it met on *)
(* main; where it met main at several commits, one main has never held.     *)
MetMain(j) == Meetings(commit, j, main)
Comes(j, p, content) ==
    /\ commit[j].tree[p] = content /\ \A m \in MetMain(j) : commit[m].tree[p] # content
    /\ Cardinality(MetMain(j)) = 1 \/ ~Once(p, content)

(* Contents a passenger has, where it met main or in a commit of its own.   *)
HasOther(j, p, content) ==
    \E c \in MetMain(j) \cup (commit[j].anc \ commit[main].anc) : commit[c].tree[p] # content

(* What a push brings to main for a work that owes a review, a reviewer who *)
(* passed it has had before him as it came: no later commit, resolution or  *)
(* revert rides along, and a clean merge or rebase needs no second review.  *)
(* Of a train this is so at each passenger that carries the work's reviews, *)
(* wherever it met main; and what the train changes on main as main is by   *)
(* then, one of its passengers holds and has not always held.               *)
LandedIsSeen ==
    [][Lands =>
          /\ \A w \in Work : Owes(w) =>
                \A j \in TipsFor(w), p \in Path :
                    LET content == commit[j].tree[p]
                    IN Comes(j, p, content) => Read(w, p, content) \/ RestsOnMain(w, p, content)
          /\ \A p \in Path :
                LET content == commit[main'].tree[p]
                IN (Riders # {} /\ content # commit[main].tree[p]) =>
                      \E j \in Riders : commit[j].tree[p] = content /\ HasOther(j, p, content)]_vars

(* What a review saw change lands with its work, or main has held it, or a  *)
(* reviewer saw it go or saw what is there instead come: it is not lost in  *)
(* a merge, a resolution or a revert nobody has seen. A tip that met main   *)
(* at several commits may hold another one's content: not said of it.       *)
ReviewedIsKept ==
    [][Lands => \A w \in Work : Owes(w) =>
          \E r \in ReviewsOf(w) : \A j \in TipsOf(r), p \in Changed(commit[r.base], commit[r.head]) :
              LET content == commit[r.head].tree[p]
              IN Cardinality(MetMain(j)) = 1 =>
                    \/ commit[j].tree[p] = content
                    \/ Once(p, content)
                    \/ \E s \in Speaking(w) : Saw(s, p, commit[j].tree[p]) \/ Undid(s, p, content)]_vars

(* A work lands only where a pass came after every block of it that main or *)
(* the push holds, whatever rounds the two were counted as. A round is      *)
(* counted from the blocks at hand: this says nothing of a block written    *)
(* after lines of the work had been lost.                                   *)
Unlost(C, w, n) ==
    \A c \in 1 .. n : \A d \in C[c].anc : Of(C[d].recs, w) \subseteq C[c].recs

LastWordHolds ==
    [][Lands => \A w \in Work : Landed(w) =>
          LET held == Of(commit[main].recs \cup commit[main'].recs, w)
          IN \A b \in BlocksIn(held) : Unlost(commit, w, b.nr) => \E s \in Passes(held) : s.nr > b.nr]_vars

(* From Tier 2 on no work that has a plan, on main or in the push, lands    *)
(* without a pass or the owner's word - archived or deleted.                *)
NoPlanEscapes ==
    [][Lands => \A w \in Work :
          LET plans == {commit[main].plan[w], commit[main'].plan[w]}
          IN (Tier[w] >= 2 /\ Landed(w) /\ plans # {NoPlan}) =>
                \/ Passes(Of(commit[main'].recs \cup commit[main].recs, w)) # {}
                \/ \E p \in plans : p.waiver = "signed"]_vars
=============================================================================
