--------------------------- MODULE SimpleStorage ---------------------------
(***************************************************************************)
(* The in-memory store behind every SnapDB client: two maps, one from keys  *)
(* to entries and one from keys to the deadline of those that have a TTL.   *)
(* Nothing is removed when a deadline passes; an entry whose deadline is    *)
(* behind the clock stays until a command happens to look at it or until    *)
(* the periodic cleanup sweeps it.  Each action below is one uninterrupted  *)
(* run of a method of the store on the JavaScript thread.                   *)
(***************************************************************************)
EXTENDS Integers

CONSTANTS
  Keys,      \* the keys, after String(key)
  Values,    \* the values a caller may store
  TTLs,      \* the ttl arguments of SET; 0 stands for a ttl that is not given
  None,      \* no entry, or no deadline, in a map
  Null,      \* what GET answers for a missing key; a caller may store it too
  MsPerSec,  \* ticks of the clock in one unit of a TTL answer
  MaxTime    \* the clock stops here (a bound for model checking)

ASSUME StorageAssumption ==
  /\ TTLs \subseteq Int
  /\ MsPerSec \in Nat \ {0}
  /\ MaxTime \in Nat
  /\ None \notin Values
  /\ None \notin Int

VARIABLES
  now,      \* Date.now()
  data,     \* the value of each key's entry
  ttlData   \* the deadline of each key that was given one

vars == <<now, data, ttlData>>

TypeOK ==
  /\ now \in 0..MaxTime
  /\ data \in [Keys -> Values \cup {None}]
  /\ ttlData \in [Keys -> Int \cup {None}]

Init ==
  /\ now = 0
  /\ data = [k \in Keys |-> None]
  /\ ttlData = [k \in Keys |-> None]
----------------------------------------------------------------------------
(* Deadlines *)

\* `Date.now() > expiry`, the test of GET, EXISTS, KEYS, INFO and the cleanup.
Overdue == {k \in Keys : ttlData[k] # None /\ now > ttlData[k]}

\* Entries that are past their deadline and still in memory.
Lapsed == {k \in Overdue : data[k] # None}

\* `this.data.delete(k); this.ttlData.delete(k)` for every k of K.
Drop(K) ==
  /\ data' = [k \in Keys |-> IF k \in K THEN None ELSE data[k]]
  /\ ttlData' = [k \in Keys |-> IF k \in K THEN None ELSE ttlData[k]]
  /\ UNCHANGED now
----------------------------------------------------------------------------
(* Commands that write *)

\* Mutant of Set: a ttl that is not given is stored as a deadline of null.
SetNullDeadline(k, v, ttl) ==
  /\ data' = [data EXCEPT ![k] = v]
  /\ ttlData' = [ttlData EXCEPT ![k] = IF ttl # 0 THEN now + ttl ELSE Null]
  /\ UNCHANGED now

\* A ttl that is not given leaves an older deadline of the key in place.
Set(k, v, ttl) ==
  /\ data' = [data EXCEPT ![k] = v]
  /\ ttlData' = IF ttl # 0 THEN [ttlData EXCEPT ![k] = now + ttl] ELSE ttlData
  /\ UNCHANGED now

\* Mutant of Del: the deadline is forgotten.
DelEntryOnly(k) ==
  /\ data' = [data EXCEPT ![k] = None]
  /\ UNCHANGED <<now, ttlData>>

Del(k) == Drop({k})

\* Asks only whether an entry is in memory, never whether it has lapsed.
Expire(k, ttl) ==
  /\ ttlData' = IF data[k] # None THEN [ttlData EXCEPT ![k] = now + ttl]
                                  ELSE ttlData
  /\ UNCHANGED <<now, data>>

Flushall == Drop(Keys)
----------------------------------------------------------------------------
(* Commands that read; each first drops the lapsed entries it comes across *)

\* Mutant of Get: `>=` in place of `>`.
GetAtDeadline(k) ==
  Drop(IF ttlData[k] # None /\ now >= ttlData[k] THEN {k} ELSE {})

Get(k) == Drop({k} \cap Overdue)

GetResult(k) == IF k \in Overdue \/ data[k] = None THEN Null ELSE data[k]

\* Mutant of Exists: a lapsed key loses its deadline and not its entry.
ExistsDeadlineOnly(k) ==
  /\ ttlData' = IF k \in Overdue THEN [ttlData EXCEPT ![k] = None] ELSE ttlData
  /\ UNCHANGED <<now, data>>

Exists(k) == Drop({k} \cap Overdue)

ExistsResult(k) == k \notin Overdue /\ data[k] # None

\* The only reader that counts a key as gone at the very instant of its deadline.
Ttl(k) ==
  Drop(IF data[k] # None /\ ttlData[k] # None /\ ttlData[k] - now <= 0
       THEN {k} ELSE {})

\* Mutant of TtlResult: Math.floor in place of Math.ceil.
TtlResultFloor(k) ==
  IF data[k] = None THEN -2
  ELSE IF ttlData[k] = None THEN -1
  ELSE IF ttlData[k] - now <= 0 THEN -2 ELSE (ttlData[k] - now) \div MsPerSec

\* -2: no such key; -1: no deadline; otherwise the time left, rounded up.
TtlResult(k) ==
  IF data[k] = None THEN -2
  ELSE IF ttlData[k] = None THEN -1
  ELSE LET remaining == ttlData[k] - now
       IN  IF remaining <= 0 THEN -2
           ELSE (remaining + MsPerSec - 1) \div MsPerSec

\* KEYS and INFO walk over the entries and drop every lapsed one.
KeysCommand == Drop(Lapsed)
Info == Drop(Lapsed)
----------------------------------------------------------------------------
(* The periodic sweep and the clock *)

\* Mutant of the sweep: deadlines read in seconds, the clock in milliseconds.
SweepWrongUnit == Drop({k \in Lapsed : now > ttlData[k] * MsPerSec})

cleanupExpiredEntries == Drop(Lapsed)

Tick ==
  /\ now < MaxTime
  /\ now' = now + 1
  /\ UNCHANGED <<data, ttlData>>

Write ==
  \/ \E k \in Keys :
       \/ \E v \in Values, ttl \in TTLs : Set(k, v, ttl)
       \/ Del(k)
       \/ \E ttl \in TTLs : ttl > 0 /\ Expire(k, ttl)
  \/ Flushall

Read ==
  \/ \E k \in Keys : Get(k) \/ Exists(k) \/ Ttl(k)
  \/ KeysCommand
  \/ Info

Next == Write \/ Read \/ cleanupExpiredEntries \/ Tick

Spec == Init /\ [][Next]_vars

\* The client starts the sweep in its constructor and never stops it.
FairSpec == Spec /\ WF_vars(cleanupExpiredEntries)
----------------------------------------------------------------------------
(* Properties *)

\* What GET would answer, with None for a key that is not there.
View == [k \in Keys |-> IF k \in Overdue THEN None ELSE data[k]]

\* A deadline never outlives its entry: whichever of the seven places that
\* delete an entry runs, no deadline stays behind for the next SET of the key.
NoOrphanDeadline == \A k \in Keys : ttlData[k] # None => data[k] # None

\* Everything a caller can learn about a key.
Answers == [k \in Keys |-> <<GetResult(k), ExistsResult(k), TtlResult(k)>>]

CleansUp ==
  \/ cleanupExpiredEntries \/ KeysCommand \/ Info
  \/ \E k \in Keys : Get(k) \/ Exists(k)

\* Lazy expiry is invisible: GET, EXISTS, KEYS, INFO and the sweep delete entries
\* as they go, and yet what a caller would be told next about any key is the same
\* before and after.  TTL alone leaves a trace, on its own key and only when asked
\* at the very deadline.
ReadsLeaveNoTrace ==
  [][/\ CleansUp => Answers' = Answers
     /\ \A j, k \in Keys :
          Ttl(j) /\ Answers'[k] # Answers[k] => j = k /\ ttlData[k] = now]_vars

\* A key that GET does not see comes into view only through a SET, or through
\* an EXPIRE of a lapsed entry that nothing had dropped yet; reads, sweeps,
\* deletions and the clock never bring a value back.
BackOnlyByWrite ==
  [][\A k \in Keys : View[k] = None /\ View'[k] # None =>
        \/ \E v \in Values, ttl \in TTLs : Set(k, v, ttl)
        \/ k \in Lapsed /\ \E ttl \in TTLs : ttl > 0 /\ Expire(k, ttl)]_vars

\* TTL answers -2 exactly for the keys EXISTS denies, except at the instant of
\* the deadline, where EXISTS still says yes; and a positive answer is the time
\* left rounded up, so never less than it and less than one unit more.
TtlHonest == \A k \in Keys :
  /\ TtlResult(k) = -2 /\ ExistsResult(k) => ttlData[k] = now
  /\ ~ExistsResult(k) => TtlResult(k) = -2
  /\ TtlResult(k) > 0 =>
       /\ TtlResult(k) * MsPerSec >= ttlData[k] - now
       /\ (TtlResult(k) - 1) * MsPerSec < ttlData[k] - now

\* Memory of a lapsed entry is given back, or the entry revived, even if no
\* command ever names its key again: the sweep takes every lapsed entry.
Reclaimed == \A k \in Keys : k \in Lapsed ~> k \notin Lapsed

\* A value that was just SET without a ttl is the value the next GET returns.
ReadYourWrite ==
  [][\A k \in Keys, v \in Values : Set(k, v, 0) => View'[k] = v]_vars
============================================================================
