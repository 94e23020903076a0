------------------------------- MODULE MCLSM -------------------------------
(* Three kinds of owners, one per behaviour.  One entry with a ttl, or any  *)
(* two, fill the memtable; one without does not.                            *)
EXTENDS LSM

CONSTANT v

MCRank == [k \in Keys |-> k]
MCSizeOf == [x \in Values \cup {Null} |-> IF x = Null THEN 1 ELSE 2]
MCHashesOf == [k \in Keys |-> {k, 7 * k + 4, 13 * k + 8}]

VARIABLE workload  \* which owner this behaviour has

MCInit == Init /\ workload \in {"calls", "merges", "levels"}

\* Two keys and every call of the memtable, over two tables.
EveryCall == Use \/ (flushes < 2 /\ Flush)

\* Two keys, written and marked as deleted, over three tables.
ThreeTables ==
  \/ ~shouldFlush /\ \E k \in Keys, x \in {v, Null} : Set(k, x, 0)
  \/ flushes < 3 /\ Flush

\* More tables than a merge takes, of one entry each.
ManyTables ==
  \/ ~shouldFlush /\ now < 2 /\ \E k \in Keys : Set(k, v, 1)
  \/ Flush

MCNext ==
  /\ \/ workload = "calls" /\ EveryCall
     \/ workload = "merges" /\ ThreeTables
     \/ workload = "levels" /\ ManyTables
     \/ SetLevel \/ Compact \/ Tick
  /\ UNCHANGED workload

MCSpec == MCInit /\ [][MCNext]_<<vars, workload>>
============================================================================
