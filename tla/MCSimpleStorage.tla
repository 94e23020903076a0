-------------------------- MODULE MCSimpleStorage --------------------------
(* Two keys are enough for a sweep to treat one and spare the other.  The   *)
(* ttls hold "not given", one already past, one shorter and one longer than *)
(* the unit of a TTL answer, so that rounding shows.                         *)
EXTENDS SimpleStorage

MCTTLs == {-1, 0, 1, 3}
============================================================================
