---------------------------- MODULE MCReviewGate ----------------------------
(* Two works and two paths, for TLC to run ReviewGate with: each story has  *)
(* its deeds, beside writing, reviewing and pushing. A train whose          *)
(* passengers met an older main is the sixth's; in the fifth main moves on  *)
(* while it waits.                                                          *)
EXTENDS ReviewGate, TLC

CONSTANTS u, v, p, q

Tiers == [w \in Work |-> IF w = u THEN 3 ELSE 2]
Paths == Permutations({p, q})

Story(deeds, works, planned, blocked, size) ==
    [does |-> {"write", "attest", "push"} \cup deeds, works |-> works,
     planned |-> planned, blocked |-> blocked, size |-> size]

Stories ==
    {Story({"others", "merge", "revert"}, {u}, {}, {}, 7),
     Story({"others", "rebase", "revert"}, {u}, {}, {}, 7),
     Story({"slice", "others", "rebase", "revert"}, {u}, {}, {}, 7),
     Story({"others", "stack", "rebase"}, {u, v}, {u}, {}, 6),
     Story({"stack", "train"}, {u, v}, {}, {}, 7),
     [Story({"others", "train"}, {u, v}, {}, {}, 8) EXCEPT !.does = @ \ {"push"}],
     Story({"block", "prune"}, {u}, {}, {u}, 7),
     Story({"block", "stack"}, {u, v}, {}, {}, 6),
     Story({"archive", "waive", "delete"}, {u}, {}, {}, 6),
     Story({"archive", "waive", "delete", "others", "merge"}, {v}, {v}, {}, 6)}
=============================================================================
