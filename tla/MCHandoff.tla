------------------------------ MODULE MCHandoff ------------------------------
(* Two attests, a user and Codex runs, for TLC to run Handoff with. *)
EXTENDS Handoff, TLC

CONSTANTS p, q

Call(v, nr, commits, rides) == [verdict |-> v, claim |-> nr, commit |-> commits, with |-> rides]

Scene(called, steps) ==
    [calls |-> called, moves |-> steps, touches |-> {Shard, Report}, reported |-> TRUE, shard |-> NoFile,
     phase |-> "review", runs |-> {}, ended |-> "none", attests |-> 0, harm |-> 0]

(* No journal of the day yet, or blocks of the first round in it.           *)
Lens(r, who) == Review("block", r, who)
Shards == {NoFile, <<Lens(1, "x")>>, <<Lens(1, "x"), Lens(1, "y")>>}
OnEach(scenes, shards) == {[s EXCEPT !.shard = held] : s \in scenes, held \in shards}

(* One that commits, stages or only writes, and a user who takes two steps. *)
Alone == {Scene(p :> Call("pass", 0, f[1], f[2]), 2) :
             f \in {<<TRUE, {Report}>>, <<FALSE, {Report}>>, <<FALSE, {}>>}}

(* Two reviewers of one round, or one late for the round before.            *)
Both(first, second, steps) == Scene((p :> first) @@ (q :> second), steps)
Together ==
    {Both(Call("pass", said, c, IF c THEN {Report} ELSE {}), Call("block", late, d, {}), 1) :
        c \in BOOLEAN, d \in BOOLEAN, said \in {0, 3}, late \in {0, 1}}
    \cup {Both(Call("block", 0, TRUE, {}), Call("block", 0, TRUE, {Report}), 1)}

(* The life of two runs; one review from its start to its push; an ended    *)
(* review handed over beside a user, with kills or without; the user puts   *)
(* away what a killed handoff left.                                         *)
Codex == [Scene([c \in {} |-> Call("pass", 0, TRUE, {})], 0) EXCEPT !.reported = FALSE, !.harm = 1]
Lives == {[Codex EXCEPT !.runs = Runs, !.phase = ph] : ph \in {"review", "execute"}}
Wholes == {[Codex EXCEPT !.runs = {1}, !.attests = 1]}
Reviewed == [Codex EXCEPT !.touches = {Shard, Plan}, !.ended = "block"]
Handoffs == {[Reviewed EXCEPT !.moves = 2, !.attests = 1, !.harm = 0],
             [Reviewed EXCEPT !.moves = 1, !.attests = 1], [Reviewed EXCEPT !.attests = 2],
             [Reviewed EXCEPT !.moves = 1, !.attests = 2, !.harm = 0]}
Leftovers == {[Reviewed EXCEPT !.moves = 1, !.attests = 2, !.touches = {Report}]}

Scenery ==
    OnEach(Alone \cup Together, Shards) \cup OnEach(Lives \cup Leftovers, {NoFile})
    \cup OnEach(Wholes \cup Handoffs, {NoFile, <<Lens(1, "x")>>})
=============================================================================
