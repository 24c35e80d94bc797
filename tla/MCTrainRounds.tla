---------------------------- MODULE MCTrainRounds ----------------------------
(* Situations for TLC to run TrainRounds in. *)
EXTENDS TrainRounds

Alone == [b \in Branches |-> {}]
Stacked == [b \in Branches |-> IF b = 1 THEN {} ELSE {1}]

(* Two that merge, every verdict function on their four trees: the others   *)
(* merge onto no tree.                                                      *)
Pair == Branches \ 3..N
OnPairs == {[S \in SUBSET Branches |-> f[S \cap Pair]] : f \in [SUBSET Pair -> Truths]}
Turned == {<<b, b>> : b \in Branches \ Pair}

PairsOf(branches, memos) ==
    [truth : OnPairs, clash : {Turned, Turned \cup {<<2, 1>>}, Turned \cup {<<1, 1>>}},
     contains : branches, memo : memos, retry : {"none", "narrow"}]

SmallWorlds == PairsOf({Alone}, {FALSE}) \cup PairsOf({Stacked}, {TRUE})

(* All of them merge: a tree is red where it holds a culprit - a set of     *)
(* passengers that do not work together, {} for a red base - unless one     *)
(* aboard repairs it, and has the suite where `has` says so: everywhere,    *)
(* nowhere, with or without one passenger.                                  *)
Tree(culprit, repair, has) ==
    [S \in SUBSET Branches |->
        IF S \notin has THEN "undefined"
        ELSE IF culprit \subseteq S /\ S \cap repair = {} THEN "suite" ELSE "green"]

SuiteOn ==
    {SUBSET Branches, {}} \cup
    UNION {{{S \in SUBSET Branches : b \in S}, {S \in SUBSET Branches : b \notin S}} : b \in Branches}

Searched ==
    [truth : {Tree(c, r, h) : c \in SUBSET Branches, r \in {{}, {3}}, h \in SuiteOn},
     clash : {{}, {<<3, 1>>}}, contains : {Stacked},
     memo : {FALSE}, retry : {"faithful"}]

Situations == SmallWorlds \cup Searched
=============================================================================
