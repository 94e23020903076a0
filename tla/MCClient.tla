------------------------------ MODULE MCClient ------------------------------
(* Three kinds of callers, one per behaviour, over the whole client.        *)
(* The value v parses to the number 2, the value w to none.                 *)
EXTENDS SimpleSnapDB

CONSTANTS k1, k2, k3, v, w

MCNumberOf == [x \in Values |-> IF x = v THEN 2 ELSE 0]
Lists == {<<k1>>, <<k1, k2>>, <<k2, k1>>, <<k1, k2, k3>>}

VARIABLE workload  \* which callers this behaviour has

MCInit == Init /\ workload \in {"events", "counters", "batches"}

\* Two keys, every command that changes the store, and close().
EventCalls ==
  /\ Len(micro) < 3
  /\ \/ \E k \in {k1, k2}, ttl \in TTLs : Set(k, v, ttl) \/ Expire(k, ttl)
     \/ \E k \in {k1, k2} : Del(k)
     \/ \E b \in {<<k1, k2>>, <<k2, k1>>}, ttl \in TTLs : Mset(b, v, ttl)
     \/ Flushall \/ Look \/ Close

\* One key, counted up and down while it is set, deleted and flushed.
CounterCalls ==
  /\ Len(micro) < 3
  /\ \/ \E ttl \in TTLs : Set(k1, v, ttl) \/ Mset(<<k1>>, v, ttl)
     \/ Incr(k1) \/ Decr(k1) \/ Del(k1) \/ Get(k1) \/ Mget(<<k1>>)
     \/ Flushall \/ Look

\* One list of keys for everybody, set to two values and read.
BatchCalls ==
  \/ \E x \in {v, w} : Mset(<<k1, k2, k3>>, x, 0)
  \/ Mget(<<k1, k2, k3>>)
  \/ \E k \in Keys : Get(k)

MCNext ==
  /\ \/ workload = "events" /\ EventCalls
     \/ workload = "counters" /\ CounterCalls
     \/ workload = "batches" /\ BatchCalls
     \/ Emit \/ WriteCount \/ MsetNext \/ MgetNext \/ BatchReturns
     \/ Sweep \/ Tick
  /\ UNCHANGED workload

MCSpec == MCInit /\ [][MCNext]_<<vars, workload>>
============================================================================
