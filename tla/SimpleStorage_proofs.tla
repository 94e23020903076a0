------------------------ MODULE SimpleStorage_proofs ------------------------
(* What holds of the store for every set of keys, values and ttls.          *)
EXTENDS SimpleStorage, TLAPS

\* The inductive invariant: the types, and no deadline without an entry.
IInv == TypeOK /\ NoOrphanDeadline

\* Every deletion of the store is a Drop of some keys, and keeps the invariant:
\* it removes the deadline together with the entry.
LEMMA DropKeepsInvariant ==
  ASSUME IInv, NEW K, Drop(K)
  PROVE  IInv'
<1>1. TypeOK'
  BY DEF IInv, TypeOK, Drop
<1>2. NoOrphanDeadline'
  BY DEF IInv, TypeOK, NoOrphanDeadline, Drop
<1> QED
  BY <1>1, <1>2 DEF IInv

\* The initial state satisfies the invariant.
LEMMA InitInvariant == Init => IInv
  BY StorageAssumption DEF Init, IInv, TypeOK, NoOrphanDeadline

\* Every method of the store, the sweep and the clock keep the invariant.
LEMMA NextInvariant == IInv /\ [Next]_vars => IInv'
<1> SUFFICES ASSUME IInv, [Next]_vars
             PROVE  IInv'
  OBVIOUS
<1>1. ASSUME NEW k \in Keys, NEW v \in Values, NEW ttl \in TTLs, Set(k, v, ttl)
      PROVE  IInv'
  <2>1. ttl \in Int /\ now \in Int
    BY StorageAssumption DEF IInv, TypeOK
  <2>2. TypeOK'
    BY <1>1, <2>1, StorageAssumption DEF IInv, TypeOK, Set
  <2>3. NoOrphanDeadline'
    BY <1>1, <2>1, StorageAssumption
    DEF IInv, TypeOK, NoOrphanDeadline, Set
  <2> QED
    BY <2>2, <2>3 DEF IInv
<1>2. ASSUME NEW k \in Keys, NEW ttl \in TTLs, Expire(k, ttl)
      PROVE  IInv'
  <2>1. ttl \in Int /\ now \in Int
    BY StorageAssumption DEF IInv, TypeOK
  <2>2. TypeOK'
    BY <1>2, <2>1 DEF IInv, TypeOK, Expire
  <2>3. NoOrphanDeadline'
    BY <1>2, <2>1 DEF IInv, TypeOK, NoOrphanDeadline, Expire
  <2> QED
    BY <2>2, <2>3 DEF IInv
<1>3. CASE \E k \in Keys : Del(k)
  BY <1>3, DropKeepsInvariant DEF Del
<1>4. CASE Flushall
  BY <1>4, DropKeepsInvariant DEF Flushall
<1>5. CASE Read
  BY <1>5, DropKeepsInvariant DEF Read, Get, Exists, Ttl, KeysCommand, Info
<1>6. CASE cleanupExpiredEntries
  BY <1>6, DropKeepsInvariant DEF cleanupExpiredEntries
<1>7. CASE Tick
  BY <1>7, StorageAssumption
  DEF IInv, TypeOK, NoOrphanDeadline, Tick
<1>8. CASE UNCHANGED vars
  BY <1>8 DEF IInv, TypeOK, NoOrphanDeadline, vars
<1> QED
  BY <1>1, <1>2, <1>3, <1>4, <1>5, <1>6, <1>7, <1>8 DEF Next, Write

\* The invariant holds in every reachable state.
THEOREM Invariant == Spec => []IInv
  BY InitInvariant, NextInvariant, PTL DEF Spec

\* The three variables of the store always have their types.
THEOREM TypeCorrect == Spec => []TypeOK
<1>1. IInv => TypeOK
  BY DEF IInv
<1> QED
  BY <1>1, Invariant, PTL

\* Whatever deletes an entry deletes its deadline with it.
THEOREM DeadlinesHaveEntries == Spec => []NoOrphanDeadline
<1>1. IInv => NoOrphanDeadline
  BY DEF IInv
<1> QED
  BY <1>1, Invariant, PTL
----------------------------------------------------------------------------
(* What reads and the sweep leave behind *)

\* Dropping keys that are past their deadline changes no answer: they were
\* denied before because of the deadline, and are now for want of an entry.
LEMMA DropOfOverdueUnseen ==
  ASSUME IInv, NEW K \in SUBSET Overdue, Drop(K)
  PROVE  Answers' = Answers
<1> SUFFICES ASSUME NEW k \in Keys
             PROVE  /\ GetResult(k)' = GetResult(k)
                    /\ ExistsResult(k)' = ExistsResult(k)
                    /\ TtlResult(k)' = TtlResult(k)
  BY DEF Answers
<1>1. now' = now /\ now \in Int
  BY DEF Drop, IInv, TypeOK
<1>2. CASE k \in K
  <2>1. k \in Overdue /\ ttlData[k] # None /\ now > ttlData[k] /\ ttlData[k] \in Int
    BY <1>2 DEF Overdue, IInv, TypeOK
  <2>2. data'[k] = None
    BY <1>2 DEF Drop
  <2>3. GetResult(k) = Null /\ ~ExistsResult(k) /\ TtlResult(k) = -2
    BY <1>1, <2>1 DEF GetResult, ExistsResult, TtlResult
  <2>4. GetResult(k)' = Null /\ ~ExistsResult(k)' /\ TtlResult(k)' = -2
    BY <2>2 DEF GetResult, ExistsResult, TtlResult
  <2> QED
    BY <2>3, <2>4 DEF ExistsResult
<1>3. CASE k \notin K
  <2>1. data'[k] = data[k] /\ ttlData'[k] = ttlData[k]
    BY <1>3 DEF Drop
  <2>2. (k \in Overdue)' <=> k \in Overdue
    BY <1>1, <2>1 DEF Overdue
  <2> QED
    BY <1>1, <2>1, <2>2 DEF GetResult, ExistsResult, TtlResult
<1> QED
  BY <1>2, <1>3

\* TTL on a key that is neither past nor at its deadline deletes nothing; past
\* it, the deletion is unseen; and of other keys it never changes anything.
LEMMA TtlTracesOnlyAtDeadline ==
  ASSUME IInv, NEW j \in Keys, NEW k \in Keys, Ttl(j), Answers'[k] # Answers[k]
  PROVE  j = k /\ ttlData[k] = now
<1>0. now \in Int
  BY DEF IInv, TypeOK
<1>1. CASE data[j] # None /\ ttlData[j] # None /\ ttlData[j] - now <= 0
  <2>1. ttlData[j] \in Int
    BY <1>1 DEF IInv, TypeOK
  <2>2. Drop({j})
    BY <1>1 DEF Ttl
  <2>3. CASE ttlData[j] = now
    <3>1. SUFFICES ASSUME j # k PROVE Answers'[k] = Answers[k]
      BY <2>3
    <3>2. /\ data'[k] = data[k] /\ ttlData'[k] = ttlData[k] /\ now' = now
          /\ (k \in Overdue)' <=> k \in Overdue
      BY <2>2, <3>1 DEF Drop, Overdue
    <3> QED
      BY <3>2 DEF Answers, GetResult, ExistsResult, TtlResult
  <2>4. CASE now > ttlData[j]
    <3>1. {j} \in SUBSET Overdue
      BY <1>1, <2>4 DEF Overdue
    <3> QED
      BY <2>2, <3>1, DropOfOverdueUnseen
  <2> QED
    BY <1>0, <1>1, <2>1, <2>3, <2>4
<1>2. CASE ~(data[j] # None /\ ttlData[j] # None /\ ttlData[j] - now <= 0)
  <2>1. Drop({})
    BY <1>2 DEF Ttl
  <2> QED
    BY <2>1, DropOfOverdueUnseen
<1> QED
  BY <1>1, <1>2

\* No read and no sweep changes an answer, TTL at the very deadline excepted.
THEOREM ReadsAreUnobservable == Spec => ReadsLeaveNoTrace
<1> DEFINE Quiet ==
      /\ CleansUp => Answers' = Answers
      /\ \A j, k \in Keys :
           Ttl(j) /\ Answers'[k] # Answers[k] => j = k /\ ttlData[k] = now
<1>1. ASSUME IInv, [Next]_vars
      PROVE  [Quiet]_vars
  <2>1. Lapsed \in SUBSET Overdue /\ \A k \in Keys : {k} \cap Overdue \in SUBSET Overdue
    BY DEF Lapsed
  <2>2. ASSUME CleansUp
        PROVE  Answers' = Answers
    BY <1>1, <2>1, <2>2, DropOfOverdueUnseen
    DEF CleansUp, cleanupExpiredEntries, KeysCommand, Info, Get, Exists
  <2> QED
    BY <1>1, <2>2, TtlTracesOnlyAtDeadline
<1> QED
  BY <1>1, Invariant, PTL DEF Spec, ReadsLeaveNoTrace
----------------------------------------------------------------------------
(* What brings a key back *)

\* One step of the store brings a key into view only in the ways that
\* BackOnlyByWrite lists.
LEMMA StepKeepsInvisible ==
  ASSUME IInv, Next, NEW k \in Keys, View[k] = None, View'[k] # None
  PROVE  \/ \E v \in Values, ttl \in TTLs : Set(k, v, ttl)
         \/ k \in Lapsed /\ \E ttl \in TTLs : ttl > 0 /\ Expire(k, ttl)
<1> USE DEF IInv, TypeOK, View, Overdue
<1>0. now \in Int
  OBVIOUS
<1>1. ASSUME NEW j \in Keys, NEW v \in Values, NEW ttl \in TTLs, Set(j, v, ttl)
      PROVE  j = k
  BY <1>1 DEF Set
<1>2. ASSUME NEW j \in Keys, NEW ttl \in TTLs, ttl > 0, Expire(j, ttl)
      PROVE  j = k /\ k \in Lapsed
  BY <1>2 DEF Expire, Lapsed
<1>3. ASSUME NEW K, Drop(K)
      PROVE  FALSE
  BY <1>3 DEF Drop, NoOrphanDeadline
<1>4. CASE Tick
  BY <1>0, <1>4 DEF Tick
<1> QED
  BY <1>1, <1>2, <1>3, <1>4
  DEF Next, Write, Read, Del, Flushall, Get, Exists, Ttl, KeysCommand, Info,
      cleanupExpiredEntries

\* No read, sweep, deletion or tick brings a value back into view.
THEOREM NothingComesBackByItself == Spec => BackOnlyByWrite
<1> DEFINE Allowed == \A k \in Keys : View[k] = None /\ View'[k] # None =>
        \/ \E v \in Values, ttl \in TTLs : Set(k, v, ttl)
        \/ k \in Lapsed /\ \E ttl \in TTLs : ttl > 0 /\ Expire(k, ttl)
<1>1. IInv /\ [Next]_vars => [Allowed]_vars
  BY StepKeepsInvisible
<1> QED
  BY <1>1, Invariant, PTL DEF Spec, BackOnlyByWrite
----------------------------------------------------------------------------
(* TTL *)

\* Rounding up a quotient: Math.ceil(remaining / 1000).
LEMMA CeilingOfQuotient ==
  ASSUME NEW r \in Int, r > 0, NEW m \in Nat \ {0}
  PROVE  LET q == (r + m - 1) \div m
         IN  q \in Int /\ q > 0 /\ q * m >= r /\ (q - 1) * m < r
<1> DEFINE a == r + m - 1
           q == a \div m
<1>1. a \in Int /\ m \in Int /\ m > 0 /\ a >= m
  OBVIOUS
<1> HIDE DEF a
<1>2. q \in Int /\ a = m * q + (a % m) /\ a % m \in 0..(m - 1)
  BY <1>1, SMTT(30)
<1> HIDE DEF q
<1>3. q * m <= a /\ q * m > a - m
  BY <1>1, <1>2, SMTT(30)
<1>4. q > 0
  BY <1>1, <1>2, <1>3, SMTT(30)
<1>5. (q - 1) * m = q * m - m
  BY <1>1, <1>2, SMTT(30)
<1> QED
  BY <1>1, <1>2, <1>3, <1>4, <1>5 DEF a, q

\* What TTL answers follows from the invariant.
LEMMA TtlFollows == IInv => TtlHonest
<1> SUFFICES ASSUME IInv, NEW k \in Keys
             PROVE  /\ TtlResult(k) = -2 /\ ExistsResult(k) => ttlData[k] = now
                    /\ ~ExistsResult(k) => TtlResult(k) = -2
                    /\ TtlResult(k) > 0 =>
                         /\ TtlResult(k) * MsPerSec >= ttlData[k] - now
                         /\ (TtlResult(k) - 1) * MsPerSec < ttlData[k] - now
  BY DEF TtlHonest
<1>1. now \in Int /\ MsPerSec \in Nat \ {0}
  BY StorageAssumption DEF IInv, TypeOK
<1>2. CASE data[k] = None
  <2>1. TtlResult(k) = -2 /\ ~ExistsResult(k)
    BY <1>2 DEF TtlResult, ExistsResult
  <2> QED
    BY <2>1
<1>3. CASE data[k] # None /\ ttlData[k] = None
  <2>1. TtlResult(k) = -1 /\ ExistsResult(k)
    BY <1>3 DEF TtlResult, ExistsResult, Overdue
  <2> QED
    BY <2>1
<1>4. CASE data[k] # None /\ ttlData[k] # None /\ ttlData[k] - now <= 0
  <2>1. ttlData[k] \in Int
    BY <1>4 DEF IInv, TypeOK
  <2>2. TtlResult(k) = -2
    BY <1>4 DEF TtlResult
  <2>3. ExistsResult(k) => ttlData[k] = now
    BY <1>1, <1>4, <2>1 DEF ExistsResult, Overdue
  <2> QED
    BY <2>2, <2>3
<1>5. CASE data[k] # None /\ ttlData[k] # None /\ ~(ttlData[k] - now <= 0)
  <2> DEFINE r == ttlData[k] - now
             q == (r + MsPerSec - 1) \div MsPerSec
  <2>1. r \in Int /\ r > 0 /\ ~(now > ttlData[k])
    BY <1>1, <1>5 DEF IInv, TypeOK
  <2>2. TtlResult(k) = q
    BY <1>5 DEF TtlResult
  <2>3. ExistsResult(k)
    BY <1>5, <2>1 DEF ExistsResult, Overdue
  <2> HIDE DEF r
  <2>4. q \in Int /\ q > 0 /\ q * MsPerSec >= r /\ (q - 1) * MsPerSec < r
    BY <1>1, <2>1, CeilingOfQuotient
  <2> HIDE DEF q
  <2> QED
    BY <2>2, <2>3, <2>4 DEF r
<1> QED
  BY <1>2, <1>3, <1>4, <1>5

\* TTL and EXISTS disagree only at the instant of a deadline, and TTL rounds up.
THEOREM TtlAnswersAreHonest == Spec => []TtlHonest
  BY TtlFollows, Invariant, PTL
============================================================================
