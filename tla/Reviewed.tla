------------------------------ MODULE Reviewed ------------------------------
(***************************************************************************)
(* What check_review.py calls reviewed content: a path of the judged tip   *)
(* is reviewed where it holds what git's own merge of the commit at which  *)
(* that tip met main with the reviewed heads holds there (_history,        *)
(* _unreviewed_at, _reviewed_merge). That commit is main itself only where *)
(* the tip holds main; a train's passenger may have met an older one, and  *)
(* where histories criss-cross it met several.                             *)
(*                                                                         *)
(* A commit is its ancestors (itself among them) and its tree; the content *)
(* of a path is a number that names the write it comes from. Operators     *)
(* only: ReviewGate keeps the commits and passes the sequence of them.     *)
(***************************************************************************)
EXTENDS Naturals, FiniteSets, Sequences

CONSTANT Path     \* code paths; journals and plans are fields of a commit

Marks == 0        \* what git leaves where a merge conflicts: nobody wrote it

IsAncestor(C, a, d) == a \in C[d].anc

(* git merge-base --all *)
Latest(C, S) == {c \in S : ~\E d \in S \ {c} : IsAncestor(C, c, d)}
MergeBases(C, x, y) == Latest(C, x.anc \cap y.anc)

Changed(x, y) == {p \in Path : x.tree[p] # y.tree[p]}

(* git merge-tree: a side that left the base alone gives way to the other.  *)
(* Bases that disagree are a base nobody holds.                             *)
AutoMerge(C, x, y) ==
    LET bases == MergeBases(C, x, y)
        Common(p, v) == bases # {} /\ \A b \in bases : C[b].tree[p] = v
        Merged(p) == IF x.tree[p] = y.tree[p] \/ Common(p, y.tree[p]) THEN x.tree[p]
                     ELSE IF Common(p, x.tree[p]) THEN y.tree[p]
                     ELSE Marks
    IN [anc |-> x.anc \cup y.anc, tree |-> [p \in Path |-> Merged(p)]]

Conflicted(x) == {p \in Path : x.tree[p] = Marks}

(* The base merged with each of the heads in turn; a head another one       *)
(* contains adds nothing, one that contains the state is taken as it is. A  *)
(* path that conflicted once stays conflicted.                              *)
MergeStep(C, state, h) ==
    LET here == state.at
        next == IF C[h].anc \subseteq here.anc THEN here
                ELSE IF here.anc \subseteq C[h].anc THEN C[h]
                ELSE AutoMerge(C, here, C[h])
    IN [at |-> [anc |-> next.anc, tree |-> next.tree],
        lost |-> state.lost \cup Conflicted(next)]

ReviewedMerge(C, base, heads) ==
    LET latest == Latest(C, heads)
        turn[n \in 0 .. Len(C)] ==
            IF n = 0 THEN [at |-> C[base], lost |-> {}]
            ELSE IF n \in latest THEN MergeStep(C, turn[n - 1], n) ELSE turn[n - 1]
    IN turn[Len(C)]

-----------------------------------------------------------------------------
(* A review is its range, [base, head]. At `met`, a commit where the judged *)
(* tip met main, one that saw all its branch adds over it counts whole;     *)
(* another one vouches for its own range only, unless its base is itself    *)
(* what the whole reviews below it merge to. The judged head's own work     *)
(* counts whole also where a rebase took it out of the history. Seeded      *)
(* fault: any review counts whole.                                          *)
Meetings(C, judged, main) == MergeBases(C, C[judged], C[main])
Above(C, judged, met) == C[judged].anc \ C[met].anc

Promotes(C, met, whole, r) ==
    LET known == MergeBases(C, C[r.base], C[met])
        inside == {w \in whole : IsAncestor(C, w, r.base)}
    IN \E k \in known :
           LET below == ReviewedMerge(C, k, inside)
           IN Changed(below.at, C[r.base]) \cup below.lost = {}

EachWhole(C, met, above, own, r) == TRUE
CountsWhole(C, met, above, own, r) ==
    \/ IsAncestor(C, r.base, met)
    \/ r = own /\ (r.head \in above \/ IsAncestor(C, r.head, met))

Judging(C, judged, met, own, others) ==
    {own} \cup {r \in others : r.head # own.head /\ r.head \in Above(C, judged, met)}

Heads(ranges) == {r.head : r \in ranges}

(* The heads that count whole and the ranges that stay partial, those left  *)
(* partial at another commit among them.                                    *)
Promotion(C, met, was) ==
    LET promoted == {r \in was.partial : Promotes(C, met, was.whole, r)}
    IN [whole |-> was.whole \cup Heads(promoted), partial |-> was.partial \ promoted]

Weighed(C, judged, met, own, others, before) ==
    LET ranges == Judging(C, judged, met, own, others)
        first == {r \in ranges : CountsWhole(C, met, Above(C, judged, met), own, r)}
        round[n \in 0 .. Cardinality(ranges \cup before)] ==
            IF n = 0 THEN [whole |-> Heads(first), partial |-> before \cup (ranges \ first)]
            ELSE Promotion(C, met, round[n - 1])
    IN round[Cardinality(ranges \cup before)]

(* The paths at which `judged` is the merge of the whole reviews. Where the *)
(* own head counts not whole, the paths it changed match no merge: what met *)
(* holds there may be a revert; seeded fault: they may.                     *)
NothingUndone(C, whole, own) == {}
Undone(C, whole, own) == IF own.head \in whole THEN {} ELSE Changed(C[own.base], C[own.head])

Matched(C, judged, met, whole, own) ==
    LET state == ReviewedMerge(C, met, whole)
    IN Path \ (Changed(state.at, C[judged]) \cup state.lost \cup Undone(C, whole, own))

(* The commits where the tip met main are taken in turn, newest first.      *)
AtMeeting(C, judged, met, own, others, was) ==
    LET here == Weighed(C, judged, met, own, others, was.partial)
    IN [matched |-> was.matched \cup Matched(C, judged, met, here.whole, own), partial |-> here.partial]

OverMeetings(C, judged, main, own, others) ==
    LET turn[n \in 0 .. Len(C)] ==
            IF n = 0 THEN [matched |-> {}, partial |-> {}]
            ELSE IF Len(C) + 1 - n \in Meetings(C, judged, main)
            THEN AtMeeting(C, judged, Len(C) + 1 - n, own, others, turn[n - 1])
            ELSE turn[n - 1]
    IN turn[Len(C)]

(* The paths of `judged` that are no reviewed state: they match the merge   *)
(* at no commit where it met main, nor, where a partial range changed them, *)
(* such a commit merged with that range's head alone.                       *)
Vouches(C, judged, met, r, p) ==
    LET alone == ReviewedMerge(C, met, {r.head})
    IN /\ p \in Changed(C[r.base], C[r.head]) \ alone.lost
       /\ alone.at.tree[p] = C[judged].tree[p]

Unmatched(C, judged, main, over) ==
    {p \in Path \ over.matched :
        ~\E r \in over.partial, met \in Meetings(C, judged, main) : Vouches(C, judged, met, r, p)}

UnreviewedAt(C, judged, main, own, others) ==
    Unmatched(C, judged, main, OverMeetings(C, judged, main, own, others))
=============================================================================
