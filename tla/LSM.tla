-------------------------------- MODULE LSM --------------------------------
(***************************************************************************)
(* The parts of the log-structured merge tree: the memtable, the sorted      *)
(* tables with their Bloom filters, and the compaction that merges them.     *)
(*                                                                          *)
(* Nothing in the repository puts these parts together: StorageEngine calls  *)
(* methods that they do not have.  The owner here is external.  It does what *)
(* StorageEngine means to: it flushes a full memtable to a table of level 0, *)
(* has any run of its tables compacted, and reads the newest place first.    *)
(***************************************************************************)
EXTENDS Integers, Sequences, FiniteSets, Functions, SequencesExt

CONSTANTS
  Keys,       \* numbers, in the order in which '<' compares the keys
  Rank,       \* the place of each key in the order of localeCompare
  Values, Null, Missing,
  TTLs,       \* in milliseconds; 0 is none
  SizeOf,     \* bytes of each value; a key and its value's overhead are KeySize
  KeySize,
  MaxSizeBytes,
  enableBloomFilter,
  HashesOf,   \* the numHashes hash values of each key
  MaxFlushes, \* a bound on the flushes of the memtable
  MaxTime     \* a bound on the clock

Entry == [key : Keys, value : Values \cup {Null}, timestamp : 0..MaxTime,
          ttl : Nat]

Table == [level : Nat, createdAt : 0..MaxTime, entries : Seq(Entry),
          bits : SUBSET Nat]

ASSUME LSMAssumption ==
  /\ Keys \subseteq Nat /\ IsFiniteSet(Keys)
  /\ Rank \in [Keys -> Nat] /\ \A k, l \in Keys : Rank[k] = Rank[l] => k = l
  /\ Null \notin Values /\ Missing \notin Entry
  /\ TTLs \subseteq Nat
  /\ SizeOf \in [Values \cup {Null} -> Nat] /\ KeySize \in Nat
  /\ MaxSizeBytes \in Nat /\ MaxFlushes \in Nat /\ MaxTime \in Nat
  /\ enableBloomFilter \in BOOLEAN /\ HashesOf \in [Keys -> SUBSET Nat]

VARIABLES
  now,
  data,       \* the memtable's entry of each key
  sizeBytes,  \* what the memtable believes it holds
  tables,     \* the sorted tables, in the order their owner keeps them
  flushes,    \* so far
  newest,     \* history: the last entry written for each key and not deleted since
  tied,       \* history: keys whose last write is in one millisecond with an
              \* earlier one that had been flushed before it
  shuffled    \* history: more than four tables of level 1 were compacted at once

memtable == <<data, sizeBytes>>
history == <<newest, tied, shuffled>>
vars == <<now, memtable, tables, flushes, history>>

TypeOK ==
  /\ now \in 0..MaxTime
  /\ data \in [Keys -> Entry \cup {Missing}]
  /\ newest \in [Keys -> Entry \cup {Missing}]
  /\ sizeBytes \in Nat
  /\ tables \in Seq(Table)
  /\ flushes \in 0..MaxFlushes
  /\ tied \in SUBSET Keys
  /\ shuffled \in BOOLEAN

Init ==
  /\ now = 0
  /\ data = [k \in Keys |-> Missing]
  /\ sizeBytes = 0
  /\ tables = <<>>
  /\ flushes = 0
  /\ newest = [k \in Keys |-> Missing]
  /\ tied = {}
  /\ shuffled = FALSE

\* An entry at its deadline is not yet expired.
Expired(e) == e.ttl # 0 /\ e.ttl < now
----------------------------------------------------------------------------
(* Sorting *)

\* The elements of S in the order R.
Ascending(S, R) ==
  CHOOSE s \in [1..Cardinality(S) -> S] :
    \A i, j \in 1..Cardinality(S) : i < j => <<s[i], s[j]>> \in R

\* The elements of the array s at the places `at`, as they come.
Taken(s, at) ==
  LET places == Ascending(at, {p \in at \X at : p[1] < p[2]})
  IN  [i \in 1..Cardinality(at) |-> s[places[i]]]
----------------------------------------------------------------------------
(* Memtable *)

calculateEntrySize(e) ==
  KeySize + SizeOf[e.value] + 8 + (IF e.ttl # 0 THEN 8 ELSE 0) + 4

Bytes(e) == IF e = Missing THEN 0 ELSE calculateEntrySize(e)

Held(t) == {t.entries[i] : i \in 1..Len(t.entries)}

\* A table holds a version of the key that was written in this millisecond.
FlushedNow(k) == \E i \in 1..Len(tables) : \E e \in Held(tables[i]) :
  e.key = k /\ e.timestamp = now

Set(k, v, ttl) ==
  LET e == [key |-> k, value |-> v, timestamp |-> now,
            ttl |-> IF ttl = 0 THEN 0 ELSE now + ttl]
  IN  /\ sizeBytes' = sizeBytes - Bytes(data[k]) + calculateEntrySize(e)
      /\ data' = [data EXCEPT ![k] = e]
      /\ newest' = [newest EXCEPT ![k] = e]
      /\ tied' = IF FlushedNow(k) THEN tied \cup {k} ELSE tied \ {k}
      /\ UNCHANGED <<now, tables, flushes, shuffled>>

\* Mutant of Get: the lapsed entry goes, its size stays.
GetKeepsSize(k) ==
  /\ data[k] # Missing /\ Expired(data[k])
  /\ data' = [data EXCEPT ![k] = Missing]
  /\ UNCHANGED <<now, sizeBytes, tables, flushes, history>>

\* get() and getEntry(), where they change anything: on a lapsed entry.
Get(k) ==
  /\ data[k] # Missing /\ Expired(data[k])
  /\ data' = [data EXCEPT ![k] = Missing]
  /\ sizeBytes' = sizeBytes - calculateEntrySize(data[k])
  /\ UNCHANGED <<now, tables, flushes, history>>

\* delete() leaves no tombstone.
Delete(k) ==
  /\ data[k] # Missing
  /\ data' = [data EXCEPT ![k] = Missing]
  /\ sizeBytes' = sizeBytes - calculateEntrySize(data[k])
  /\ newest' = [newest EXCEPT ![k] = Missing]
  /\ UNCHANGED <<now, tables, flushes, tied, shuffled>>

shouldFlush == sizeBytes >= MaxSizeBytes

Sorted(E) == Ascending(E, {p \in E \X E : Rank[p[1].key] < Rank[p[2].key]})

getAllEntries ==
  Sorted({data[k] : k \in {l \in Keys : data[l] # Missing /\ ~Expired(data[l])}})
----------------------------------------------------------------------------
(* SSTable and BloomFilter *)

\* The bits of a filter over the keys of `entries`, ten bits for an entry.
BitsOf(k, size) == {h % size : h \in HashesOf[k]}
BloomBits(entries) ==
  UNION {BitsOf(entries[i].key, 10 * Len(entries)) : i \in 1..Len(entries)}

NewTable(level, entries) ==
  [level |-> level, createdAt |-> now, entries |-> entries,
   bits |-> BloomBits(entries)]

\* A table has a filter if it is enabled and there are entries.
contains(t, k) ==
  \/ ~enableBloomFilter \/ t.entries = <<>>
  \/ BitsOf(k, 10 * Len(t.entries)) \subseteq t.bits

Middle(window) == (window.left + window.right) \div 2

\* Mutant of Narrow: the upper half is searched from mid.
NarrowFromMid(entries, k, window) ==
  LET mid == Middle(window)
  IN  IF window.left > window.right \/ entries[mid].key = k THEN window
      ELSE IF entries[mid].key < k THEN [window EXCEPT !.left = mid]
                                   ELSE [window EXCEPT !.right = mid - 1]

\* One turn of the loop; it is over once the window is empty or mid is the key.
Narrow(entries, k, window) ==
  LET mid == Middle(window)
  IN  IF window.left > window.right \/ entries[mid].key = k THEN window
      ELSE IF entries[mid].key < k THEN [window EXCEPT !.left = mid + 1]
                                   ELSE [window EXCEPT !.right = mid - 1]

\* Each turn takes at least mid out of the window.
binarySearch(entries, k) ==
  LET turn[n \in Nat] ==
        IF n = 0 THEN [left |-> 1, right |-> Len(entries)]
        ELSE Narrow(entries, k, turn[n - 1])
      last == turn[Len(entries)]
  IN  IF last.left > last.right THEN Missing ELSE entries[Middle(last)]

\* The entry from which SSTable.get answers, if it has one to answer from.
LookUp(t, k) ==
  LET e == binarySearch(t.entries, k)
  IN  IF ~contains(t, k) \/ e = Missing THEN Missing
      ELSE IF Expired(e) THEN Missing ELSE e
----------------------------------------------------------------------------
(* CompactionEngine *)

Dropped(e) == e.value = Null \/ Expired(e)

\* Mutant of Latest: the first version that the loop meets is the one kept.
LatestIsFirst(all, k) ==
  all[CHOOSE i \in 1..Len(all) :
        /\ all[i].key = k
        /\ \A j \in 1..Len(all) : all[j].key = k => i <= j]

\* The loop over the entries of all tables keeps a later one only if its
\* timestamp is strictly greater: it ends with the first of the greatest.
Latest(all, k) ==
  LET greatest == {i \in 1..Len(all) :
                     /\ all[i].key = k
                     /\ \A j \in 1..Len(all) :
                          all[j].key = k => all[j].timestamp <= all[i].timestamp}
  IN  all[CHOOSE i \in greatest : \A j \in greatest : i <= j]

mergeSSTablesWithOverlap(ts) ==
  LET all  == FlattenSeq([i \in 1..Len(ts) |-> ts[i].entries])
      kept == {Latest(all, k) : k \in {all[i].key : i \in 1..Len(all)}}
  IN  Sorted({e \in kept : ~Dropped(e)})

\* One turn of the k-way merge: of the heads of the runs that are left, the
\* smallest goes, of equal ones the first.
MergeTurn(runs, s) ==
  LET live    == {i \in 1..Len(runs) : s.indices[i] < Len(runs[i])}
      head(i) == runs[i][s.indices[i] + 1]
      min     == CHOOSE i \in live : \A j \in live :
                   \/ head(i).key < head(j).key
                   \/ head(i).key = head(j).key /\ i <= j
  IN  IF live = {} THEN s
      ELSE [indices |-> [s.indices EXCEPT ![min] = @ + 1],
            merged  |-> IF Dropped(head(min)) THEN s.merged
                                              ELSE Append(s.merged, head(min))]

\* There is a turn for each entry.
mergeSSTables(ts) ==
  LET runs == [i \in 1..Len(ts) |-> ts[i].entries]
      turn[n \in Nat] ==
        IF n = 0 THEN [indices |-> [i \in 1..Len(ts) |-> 0], merged |-> <<>>]
        ELSE MergeTurn(runs, turn[n - 1])
  IN  turn[SumFunction([i \in 1..Len(ts) |-> Len(ts[i].entries)])].merged

compactLevel0(ts) == <<NewTable(1, mergeSSTablesWithOverlap(ts))>>

\* Up to four tables are merged; the others come before the merged one.
compactHigherLevel(level, ts) ==
  SubSeq(ts, 5, Len(ts))
    \o <<NewTable(level, mergeSSTables(SubSeq(ts, 1, IF Len(ts) < 4 THEN Len(ts) ELSE 4)))>>

\* Oldest first, of equal age as they come: the sort is stable.
byAge(ts) ==
  LET older  == {p \in (1..Len(ts)) \X (1..Len(ts)) :
                   \/ ts[p[1]].createdAt < ts[p[2]].createdAt
                   \/ ts[p[1]].createdAt = ts[p[2]].createdAt /\ p[1] < p[2]}
      places == Ascending(1..Len(ts), older)
  IN  [i \in 1..Len(ts) |-> ts[places[i]]]

compactLevel(level, ts) ==
  IF level = 0 THEN compactLevel0(byAge(ts)) ELSE compactHigherLevel(level, byAge(ts))

\* Mutant of groupByLevel: the levels from the last that it meets to the first.
LevelsBackward(ts) ==
  LET firsts == {i \in 1..Len(ts) : \A j \in 1..(i - 1) : ts[j].level # ts[i].level}
      first  == Taken(ts, firsts)
  IN  [i \in 1..Len(first) |-> first[Len(first) + 1 - i].level]

\* The levels in the order in which groupByLevel meets them.
groupByLevel(ts) ==
  LET firsts == {i \in 1..Len(ts) : \A j \in 1..(i - 1) : ts[j].level # ts[i].level}
      first  == Taken(ts, firsts)
  IN  [i \in 1..Len(first) |-> first[i].level]

\* A level is compacted if it has two tables.
compactGroup(level, ts) ==
  IF Len(ts) <= 1 THEN ts ELSE compactLevel(level, ts)

compact(ts) ==
  LET levels    == groupByLevel(ts)
      at(level) == Taken(ts, {i \in 1..Len(ts) : ts[i].level = level})
  IN  FlattenSeq([i \in 1..Len(levels) |-> compactGroup(levels[i], at(levels[i]))])
----------------------------------------------------------------------------
(* The owner, and the clock *)

\* Mutant of Flush: the memtable keeps its entries.
FlushKeepsData ==
  /\ shouldFlush /\ flushes < MaxFlushes
  /\ tables' = Append(tables, NewTable(0, getAllEntries))
  /\ sizeBytes' = 0
  /\ flushes' = flushes + 1
  /\ UNCHANGED <<now, data, history>>

\* clear() after getAllEntries(), by the owner: all of it in memory, so that the
\* next write may come within the same millisecond.
Flush ==
  /\ shouldFlush /\ flushes < MaxFlushes
  /\ tables' = Append(tables, NewTable(0, getAllEntries))
  /\ data' = [k \in Keys |-> Missing]
  /\ sizeBytes' = 0
  /\ flushes' = flushes + 1
  /\ UNCHANGED <<now, history>>

\* The oldest table of level 0 is moved to level 1 as it is.
SetLevel == \E i \in 1..Len(tables) :
  /\ tables[i].level = 0 /\ \A j \in 1..(i - 1) : tables[j].level = 1
  /\ tables' = [tables EXCEPT ![i].level = 1]
  /\ UNCHANGED <<now, memtable, flushes, history>>

\* The owner has a run of its tables compacted, of level 0 the oldest ones, and
\* puts the result in their place.
Compact == \E m, n \in 1..Len(tables) :
  LET run == SubSeq(tables, m, n)
  IN  /\ m < n /\ \A i \in 1..(m - 1) : tables[i].level = 1
      /\ tables' = SubSeq(tables, 1, m - 1) \o compact(run)
                     \o SubSeq(tables, n + 1, Len(tables))
      /\ shuffled' = (shuffled \/ Cardinality({i \in 1..Len(run) : run[i].level = 1}) > 4)
      /\ UNCHANGED <<now, memtable, flushes, newest, tied>>

\* What the owner reads: the memtable, then the tables, level 0 first and the
\* last of a level first; null and undefined send it on to the next place.
Read(k) ==
  LET hits == {i \in 1..Len(tables) : LET e == LookUp(tables[i], k)
                                     IN e # Missing /\ e.value # Null}
      before(i, j) == \/ tables[i].level < tables[j].level
                      \/ tables[i].level = tables[j].level /\ i >= j
  IN  IF data[k] # Missing /\ ~Dropped(data[k]) THEN data[k]
      ELSE IF hits = {} THEN Missing
      ELSE LookUp(tables[CHOOSE i \in hits : \A j \in hits : before(i, j)], k)

Tick ==
  /\ now < MaxTime
  /\ now' = now + 1
  /\ UNCHANGED <<memtable, tables, flushes, history>>

\* The owner writes nothing more to a full memtable before it has flushed it, and
\* writes null, without a ttl, to mark a key as deleted.
Use == \E k \in Keys :
  \/ ~shouldFlush /\ \E v \in Values, ttl \in TTLs : Set(k, v, ttl)
  \/ ~shouldFlush /\ Set(k, Null, 0)
  \/ Get(k)
  \/ Delete(k)

Next ==
  \/ Use
  \/ Flush \/ SetLevel \/ Compact \/ Tick

Spec == Init /\ [][Next]_vars
----------------------------------------------------------------------------
(* Properties *)

\* The memtable's size is the sum of what it holds, whatever overwrites,
\* deletions and lapses led there: a drift would flush it too soon or never.
SizeAccounted ==
  sizeBytes = SumFunction([k \in Keys |-> Bytes(data[k])])

Wanted(k) == newest[k] # Missing /\ ~Dropped(newest[k])

\* No flush and no compaction loses the last value written for a key, also where
\* levels overlap or were shuffled, unless an earlier version of the key, flushed
\* within the same millisecond, stands against it: of two equal timestamps the
\* merge of level 0 keeps the older entry.
NewestSurvives == \A k \in Keys : Wanted(k) /\ k \notin tied =>
  \/ data[k] = newest[k]
  \/ \E i \in 1..Len(tables) : newest[k] \in Held(tables[i])

InOrder(es) == \A m, n \in 1..Len(es) : m < n => es[m].key <= es[n].key
OneVersion(es, k) == \A m, n \in 1..Len(es) :
  es[m].key = k /\ es[n].key = k => m = n

\* In a table whose entries are in the order of '<', each live key of which it
\* holds one version is found: the filter never hides it and the search never
\* passes it by.  (Of two versions the search may meet the one that has lapsed.)
SortedMeansFound == \A i \in 1..Len(tables) :
  InOrder(tables[i].entries) =>
    \A e \in Held(tables[i]) :
      OneVersion(tables[i].entries, e.key) /\ ~Expired(e)
        => LookUp(tables[i], e.key) = e

\* Whoever reads the newest place first reads the last value written, however the
\* owner chose what to compact, unless a table is out of order or holds two versions
\* of the key, two versions share a millisecond, or more than four tables of level 1
\* were compacted at once: their merged oldest come to stand in the newest place.
ReadsNewest == ~shuffled => \A k \in Keys :
  /\ Wanted(k) /\ k \notin tied
  /\ \A i \in 1..Len(tables) : /\ InOrder(tables[i].entries)
                                /\ OneVersion(tables[i].entries, k)
  => Read(k) = newest[k]
============================================================================
