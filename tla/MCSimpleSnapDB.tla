--------------------------- MODULE MCSimpleSnapDB ---------------------------
(* Callers that only count: no value is stored that parseInt would read.    *)
EXTENDS SimpleSnapDB

CONSTANT k1

MCNumberOf == [v \in Values |-> 0]
============================================================================
