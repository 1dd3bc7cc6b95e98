--------------------------- MODULE MCAccessGrants ---------------------------
(* Two worker processes, one of them with two request threads.             *)
EXTENDS AccessGrants, TLC

CONSTANTS t1, t2, t3, w1, w2, g1, g2, i1, i2

MCWorkerOf == [t \in Threads |-> IF t = t3 THEN w2 ELSE w1]

(* The threads of one worker are alike.                                    *)
Siblings == Permutations({t1, t2})

(* Every grant has a request id of its own.                                *)
OwnIds == [g \in Grants |-> IF g = g1 THEN i1 ELSE i2]
=============================================================================
