------------------------------- MODULE MCLane -------------------------------
(* Callers a and b, a call n from inside the command of a, and a fourth one *)
(* c: a `status`, a `wait`, or a call from inside the command of b - with n *)
(* and c in each other's lane, or each in its own.                          *)
EXTENDS Lane

CONSTANTS a, b, c, n, scoped, full

Asks(doesC, laneB, laneC, laneN, parentC) ==
    [does   |-> [p \in Procs |-> IF p = c THEN doesC ELSE "run"],
     lane   |-> [p \in Procs |-> IF p = a THEN scoped ELSE IF p = b THEN laneB
                                 ELSE IF p = c THEN laneC ELSE laneN],
     parent |-> [p \in Procs |-> IF p = n THEN a ELSE IF p = c THEN parentC ELSE Nobody]]

OneHost ==
    {Asks("status", scoped, scoped, full, Nobody),
     Asks("wait", scoped, scoped, scoped, Nobody),
     Asks("run", full, scoped, full, b),
     Asks("run", scoped, scoped, scoped, b)}
=============================================================================
