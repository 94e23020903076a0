------------------------------ MODULE MCWorker ------------------------------
(* Two calls: one whose event depends on the answer, one worker.ts lacks.   *)
EXTENDS MetricsMiddleware

CONSTANTS c1, c2

MCCommandOf == [c \in Calls |-> IF c = c1 THEN "EXPIRE" ELSE "MSET"]
============================================================================
