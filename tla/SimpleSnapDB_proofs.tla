------------------------ MODULE SimpleSnapDB_proofs ------------------------
(* The client keeps to the store's commands, for every workload.            *)
EXTENDS SimpleSnapDB, TLAPS

StoreProofs == INSTANCE SimpleStorage_proofs WITH Values <- Contents

\* What a pending INCR or DECR is about to write lies in the range too.
PendingInRange == \A i \in 1..Len(micro) :
  micro[i].op = "count" =>
    /\ micro[i].seen + micro[i].step <= MaxSeed + incrs[micro[i].key]
    /\ micro[i].seen + micro[i].step >= -(MaxSeed + decrs[micro[i].key])

\* The inductive invariant.  The range of the counters is part of it because
\* it bounds what the second half of INCR and DECR hands to the store.
IInv ==
  /\ TypeOK
  /\ Store!NoOrphanDeadline
  /\ CounterInRange
  /\ PendingInRange

\* The store's assumptions hold for the contents that the client gives it.
LEMMA ContentsAssumption ==
  /\ TTLs \subseteq Int
  /\ MsPerSec \in Nat \ {0}
  /\ MaxTime \in Nat
  /\ None \notin Contents
  /\ None \notin Int
  BY ClientAssumption DEF Contents, Numbers

\* Bounds and constants that the arithmetic below needs.
LEMMA NumberFacts ==
  /\ MaxSeed \in Nat /\ MaxCounts \in Nat
  /\ Numbers \subseteq Int
  /\ \A n \in Int : n \in Numbers <=> /\ n <= MaxSeed + MaxCounts
                                      /\ n >= -(MaxSeed + MaxCounts)
  BY ClientAssumption DEF Numbers

\* The same, in the form that a single number needs.
LEMMA NumbersAreInts ==
  /\ MaxSeed \in Int
  /\ \A n \in Numbers : n \in Int
  BY ClientAssumption DEF Numbers

\* The fields of the tasks that go on using the store.
LEMMA TaskFields ==
  ASSUME NEW t \in Tasks
  PROVE  /\ t.op = "count" => t.key \in Keys /\ t.seen \in Numbers /\ t.step \in {1, -1}
         /\ t.op = "mset" => t.rest \in Seq(Keys) /\ t.value \in Values /\ t.ttl \in TTLs
         /\ t.op = "mget" => t.rest \in Seq(Keys) /\ t.got \in Seq(Contents \cup {Null})
         /\ t.op = "set" => t.key \in Keys /\ t.value \in Contents
  BY DEF Tasks

\* Every step of the client is a step of the store or leaves the store alone.
LEMMA StepOfStore ==
  ASSUME IInv, [Next]_vars
  PROVE  [Store!Next]_(Store!vars)
<1> USE DEF Store!vars, store
<1>1. CASE Call
  <2>1. ASSUME NEW k \in Keys, NEW v \in Values, NEW ttl \in TTLs, Set(k, v, ttl)
        PROVE  Store!Next
    BY <2>1 DEF Set, Store!Next, Store!Write, Contents
  <2>2. ASSUME NEW k \in Keys,
               Get(k) \/ Del(k) \/ Incr(k) \/ Decr(k)
        PROVE  Store!Next
    BY <2>2 DEF Get, Del, Incr, Decr, Count, Store!Next, Store!Write, Store!Read
  <2>3. ASSUME NEW k \in Keys, NEW ttl \in TTLs, Expire(k, ttl)
        PROVE  Store!Next
    BY <2>3 DEF Expire, Store!Next, Store!Write
  <2>4. ASSUME Flushall \/ Look
        PROVE  Store!Next
    BY <2>4 DEF Flushall, Look, Store!Next, Store!Write, Store!Read
  <2>5. ASSUME NEW b \in Batches, NEW v \in Values, NEW ttl \in TTLs, Mset(b, v, ttl)
        PROVE  Store!Next
    <3>1. Head(b) \in Keys /\ v \in Contents
      BY ClientAssumption DEF Contents
    <3> QED
      BY <2>5, <3>1 DEF Mset, Store!Next, Store!Write
  <2>6. ASSUME NEW b \in Batches, Mget(b)
        PROVE  Store!Next
    <3>1. Head(b) \in Keys
      BY ClientAssumption
    <3> QED
      BY <2>6, <3>1 DEF Mget, Store!Next, Store!Read
  <2> QED
    BY <1>1, <2>1, <2>2, <2>3, <2>4, <2>5, <2>6 DEF Call
<1>2. CASE WriteCount
  <2> DEFINE t == Head(micro)
  <2>1. t \in Tasks /\ t = micro[1] /\ 1 \in 1..Len(micro) /\ t.op = "count"
    BY <1>2 DEF WriteCount, IInv, TypeOK
  <2>2. t.key \in Keys /\ t.seen \in Int /\ t.step \in {1, -1}
    BY <2>1, TaskFields, NumberFacts
  <2>3. /\ t.seen + t.step <= MaxSeed + incrs[t.key]
        /\ t.seen + t.step >= -(MaxSeed + decrs[t.key])
    BY <2>1 DEF IInv, PendingInRange
  <2>4. incrs[t.key] \in 0..MaxCounts /\ decrs[t.key] \in 0..MaxCounts
    BY <2>2 DEF IInv, TypeOK
  <2>5. t.seen + t.step \in Int
    BY <2>2
  <2> HIDE DEF t
  <2>6. t.seen + t.step \in Contents
    BY <2>3, <2>4, <2>5, NumberFacts DEF Contents
  <2> QED
    BY <1>2, <2>2, <2>6, ClientAssumption DEF t, WriteCount, Store!Next, Store!Write
<1>3. CASE MsetNext
  <2>1. Head(micro) \in Tasks
    BY <1>3 DEF MsetNext, IInv, TypeOK
  <2>2. /\ Head(Head(micro).rest) \in Keys
        /\ Head(micro).value \in Contents
        /\ Head(micro).ttl \in TTLs
    BY <1>3, <2>1, TaskFields DEF MsetNext, Contents
  <2> QED
    BY <1>3, <2>2 DEF MsetNext, Store!Next, Store!Write
<1>4. CASE MgetNext
  <2>1. Head(micro) \in Tasks
    BY <1>4 DEF MgetNext, IInv, TypeOK
  <2>2. Head(Head(micro).rest) \in Keys
    BY <1>4, <2>1, TaskFields DEF MgetNext
  <2> QED
    BY <1>4, <2>2 DEF MgetNext, Store!Next, Store!Read
<1>5. CASE Emit \/ BatchReturns \/ Close \/ UNCHANGED vars
  BY <1>5 DEF Emit, BatchReturns, Close, vars
<1>6. CASE Sweep \/ Tick
  BY <1>6 DEF Sweep, Tick, Store!Next
<1> QED
  BY <1>1, <1>2, <1>3, <1>4, <1>5, <1>6 DEF Next

\* The store's own invariant carries over: its proofs hold for the contents
\* that the client gives it, and every step is one of its steps.
LEMMA StoreInvariant ==
  ASSUME IInv, [Next]_vars
  PROVE  Store!TypeOK' /\ Store!NoOrphanDeadline'
<1>1. [StoreProofs!Next]_(StoreProofs!vars)
  BY StepOfStore
    DEF Store!Next, StoreProofs!Next,
         Store!Write, StoreProofs!Write,
         Store!Read, StoreProofs!Read,
         Store!Set, StoreProofs!Set,
         Store!Del, StoreProofs!Del,
         Store!Expire, StoreProofs!Expire,
         Store!Flushall, StoreProofs!Flushall,
         Store!Get, StoreProofs!Get,
         Store!Exists, StoreProofs!Exists,
         Store!Ttl, StoreProofs!Ttl,
         Store!KeysCommand, StoreProofs!KeysCommand,
         Store!Info, StoreProofs!Info,
         Store!cleanupExpiredEntries, StoreProofs!cleanupExpiredEntries,
         Store!Tick, StoreProofs!Tick,
         Store!Drop, StoreProofs!Drop,
         Store!Lapsed, StoreProofs!Lapsed,
         Store!Overdue, StoreProofs!Overdue,
         Store!vars, StoreProofs!vars
<1>2. StoreProofs!IInv
  BY DEF IInv, TypeOK, Store!TypeOK, Store!NoOrphanDeadline,
         StoreProofs!IInv, StoreProofs!TypeOK, StoreProofs!NoOrphanDeadline
<1>3. StoreProofs!IInv'
  BY <1>1, <1>2, ContentsAssumption, StoreProofs!NextInvariant
<1> QED
  BY <1>3 DEF Store!TypeOK, Store!NoOrphanDeadline,
              StoreProofs!IInv, StoreProofs!TypeOK, StoreProofs!NoOrphanDeadline
----------------------------------------------------------------------------
(* The queue and the counters *)

\* The microtask queue holds tasks, at its head and behind it.
LEMMA QueueFacts ==
  ASSUME TypeOK, micro # <<>>
  PROVE  /\ Head(micro) \in Tasks /\ Head(micro) = micro[1] /\ 1 \in 1..Len(micro)
         /\ Tail(micro) \in Seq(Tasks)
         /\ Len(Tail(micro)) = Len(micro) - 1
         /\ \A i \in 1..Len(Tail(micro)) :
              i + 1 \in 1..Len(micro) /\ Tail(micro)[i] = micro[i + 1]
  BY DEF TypeOK

\* What INCR and DECR read is a number in the range of the counter.
LEMMA ReadInRange ==
  ASSUME IInv, NEW k \in Keys
  PROVE  /\ Store!GetResult(k) \in Contents \cup {Null}
         /\ CounterValue(Store!GetResult(k)) \in Numbers
         /\ CounterValue(Store!GetResult(k)) <= MaxSeed + incrs[k]
         /\ CounterValue(Store!GetResult(k)) >= -(MaxSeed + decrs[k])
<1> DEFINE x == Store!GetResult(k)
<1>1. x = Null \/ (x = data[k] /\ data[k] # None)
  BY DEF Store!GetResult
<1>2. data[k] \in Contents \cup {None}
  BY DEF IInv, TypeOK, Store!TypeOK
<1>3. incrs[k] \in Nat /\ decrs[k] \in Nat
  BY DEF IInv, TypeOK
<1>4. x \in Contents \cup {Null}
  BY <1>1, <1>2
<1>5. x \in Numbers => /\ x <= MaxSeed + incrs[k]
                       /\ x >= -(MaxSeed + decrs[k])
                       /\ x \notin Values /\ x # Null
  BY <1>1, <1>2, NumberFacts, ClientAssumption DEF IInv, CounterInRange
<1>6. \A v \in Values : /\ NumberOf[v] \in Int
                        /\ NumberOf[v] <= MaxSeed /\ NumberOf[v] >= -MaxSeed
  BY ClientAssumption
<1>7. CASE x = Null
  BY <1>7, <1>3, <1>4, NumberFacts DEF CounterValue
<1>8. CASE x # Null /\ x \in Values
  BY <1>8, <1>3, <1>4, <1>6, NumberFacts DEF CounterValue
<1>9. CASE x # Null /\ x \in Numbers
  BY <1>9, <1>4, <1>5 DEF CounterValue
<1> QED
  BY <1>4, <1>7, <1>8, <1>9 DEF Contents

\* A method that awaits leaves a queue of tasks.
LEMMA AwaitKeepsQueue ==
  ASSUME TypeOK, NEW task \in Tasks, Await(task)
  PROVE  micro' \in Seq(Tasks)
  BY DEF TypeOK, Await

\* Whatever a command announces, the announced keys are keys.
LEMMA AnnouncedAreKeys ==
  ASSUME NEW K, Announce(K)
  PROVE  announced' \in SUBSET Keys
  BY DEF Announce

\* Every step of the client keeps the types of its variables.
LEMMA TypeStep ==
  ASSUME IInv, [Next]_vars
  PROVE  TypeOK'
<1>1. Store!TypeOK'
  BY StoreInvariant
<1> USE DEF IInv, TypeOK, listener, counts, store
<1>a. TypeOK
  OBVIOUS
<1>2. ASSUME NEW k \in Keys, NEW v \in Values, NEW ttl \in TTLs, Set(k, v, ttl)
      PROVE  TypeOK'
  <2>1. [op |-> "set", key |-> k, value |-> v] \in Tasks
    BY DEF Tasks, Contents
  <2> QED
    BY <1>a, <1>1, <1>2, <2>1, AwaitKeepsQueue, AnnouncedAreKeys
    DEF Set
<1>3. ASSUME NEW k \in Keys, Get(k) \/ Del(k)
      PROVE  TypeOK'
  <2>1. /\ [op |-> "get", key |-> k] \in Tasks
        /\ [op |-> "del", key |-> k] \in Tasks
    BY DEF Tasks
  <2> QED
    BY <1>a, <1>1, <1>3, <2>1, AwaitKeepsQueue, AnnouncedAreKeys
    DEF Get, Del
<1>4. ASSUME NEW k \in Keys, NEW ttl \in TTLs, Expire(k, ttl)
      PROVE  TypeOK'
  <2>1. [op |-> "expire", key |-> k] \in Tasks
    BY DEF Tasks
  <2> QED
    BY <1>a, <1>1, <1>4, <2>1, AwaitKeepsQueue, AnnouncedAreKeys
    DEF Expire
<1>5. CASE Flushall
  <2>1. [op |-> "flush"] \in Tasks
    BY DEF Tasks
  <2> QED
    BY <1>a, <1>1, <1>5, <2>1, AwaitKeepsQueue, AnnouncedAreKeys
    DEF Flushall
<1>6. CASE Look
  BY <1>a, <1>1, <1>6, AnnouncedAreKeys
    DEF Look
<1>7. ASSUME NEW k \in Keys, Incr(k) \/ Decr(k)
      PROVE  TypeOK'
  <2>1. \A step \in {1, -1} :
          [op |-> "count", key |-> k, step |-> step,
           seen |-> CounterValue(Store!GetResult(k))] \in Tasks
    BY ReadInRange DEF Tasks
  <2>2. /\ micro' \in Seq(Tasks) /\ listening' \in BOOLEAN
        /\ mirror' = mirror /\ announced' \in SUBSET Keys
    BY <1>a, <1>7, <2>1, AwaitKeepsQueue, AnnouncedAreKeys
    DEF Incr, Decr, Count
  <2>3. incrs[k] + decrs[k] < MaxCounts
    BY <1>7 DEF Incr, Decr, Count
  <2>4. incrs[k] + 1 \in 0..MaxCounts /\ decrs[k] + 1 \in 0..MaxCounts
    BY <2>3, NumberFacts
  <2>5. incrs' \in [Keys -> 0..MaxCounts] /\ decrs' \in [Keys -> 0..MaxCounts]
    BY <1>7, <2>4 DEF Incr, Decr
  <2> QED
    BY <1>1, <2>2, <2>5
<1>8. ASSUME NEW b \in Batches, NEW v \in Values, NEW ttl \in TTLs, Mset(b, v, ttl)
      PROVE  TypeOK'
  <2>1. Tail(b) \in Seq(Keys)
    BY ClientAssumption
  <2>2. [op |-> "mset", rest |-> Tail(b), value |-> v, ttl |-> ttl] \in Tasks
    BY <2>1 DEF Tasks
  <2> QED
    BY <1>a, <1>1, <1>8, <2>2, AwaitKeepsQueue, AnnouncedAreKeys
    DEF Mset
<1>9. ASSUME NEW b \in Batches, Mget(b)
      PROVE  TypeOK'
  <2>1. Tail(b) \in Seq(Keys) /\ Head(b) \in Keys
    BY ClientAssumption
  <2>2. <<Store!GetResult(Head(b))>> \in Seq(Contents \cup {Null})
    BY <2>1, ReadInRange
  <2>3. [op |-> "mget", rest |-> Tail(b),
         got |-> <<Store!GetResult(Head(b))>>] \in Tasks
    BY <2>1, <2>2 DEF Tasks
  <2> QED
    BY <1>a, <1>1, <1>9, <2>3, AwaitKeepsQueue, AnnouncedAreKeys
    DEF Mget
<1>10. CASE Emit
  <2>1. mirror' \in [Keys -> Contents \cup {None}]
    BY <1>10, QueueFacts, TaskFields DEF Emit, Concerns, Told
  <2>2. micro' \in Seq(Tasks)
    BY <1>10, QueueFacts DEF Emit
  <2> QED
    BY <1>1, <1>10, <2>1, <2>2 DEF Emit
<1>11. CASE WriteCount \/ BatchReturns
  <2>1. micro' \in Seq(Tasks)
    BY <1>11, QueueFacts DEF WriteCount, BatchReturns
  <2> QED
    BY <1>a, <1>1, <1>11, <2>1, AnnouncedAreKeys
    DEF WriteCount, BatchReturns
<1>12. CASE MsetNext
  <2> DEFINE t == Head(micro)
  <2>1. t \in Tasks /\ t.op = "mset" /\ t.rest # <<>>
    BY <1>12, QueueFacts DEF MsetNext
  <2>2. Tail(t.rest) \in Seq(Keys)
    BY <2>1, TaskFields
  <2>3. [t EXCEPT !.rest = Tail(t.rest)] \in Tasks
    BY <2>1, <2>2 DEF Tasks
  <2>4. micro' \in Seq(Tasks)
    BY <1>12, <2>3, QueueFacts DEF MsetNext
  <2> QED
    BY <1>a, <1>1, <1>12, <2>4, AnnouncedAreKeys
    DEF MsetNext
<1>13. CASE MgetNext
  <2> DEFINE t == Head(micro)
             answer == Store!GetResult(Head(t.rest))
  <2>1. t \in Tasks /\ t.op = "mget" /\ t.rest # <<>>
    BY <1>13, QueueFacts DEF MgetNext
  <2>2. Tail(t.rest) \in Seq(Keys) /\ Head(t.rest) \in Keys
    BY <2>1, TaskFields
  <2>3. answer \in Contents \cup {Null}
    BY <2>2, ReadInRange
  <2>4. Append(t.got, answer) \in Seq(Contents \cup {Null})
    BY <2>1, <2>3, TaskFields
  <2> HIDE DEF answer
  <2>5. [t EXCEPT !.rest = Tail(t.rest), !.got = Append(t.got, answer)] \in Tasks
    BY <2>1, <2>2, <2>4 DEF Tasks
  <2>6. micro' \in Seq(Tasks)
    BY <1>13, <2>5, QueueFacts DEF MgetNext, answer
  <2> QED
    BY <1>a, <1>1, <1>13, <2>6, AnnouncedAreKeys
    DEF MgetNext
<1>14. CASE Sweep \/ Close \/ Tick
  BY <1>a, <1>1, <1>14, AnnouncedAreKeys
    DEF Sweep, Close, Tick
<1>15. CASE UNCHANGED vars
  BY <1>1, <1>15 DEF vars
<1> QED
  BY <1>2, <1>3, <1>4, <1>5, <1>6, <1>7, <1>8, <1>9, <1>10, <1>11, <1>12,
     <1>13, <1>14, <1>15 DEF Next, Call
\* The call counts never go down.
LEMMA CountsGrow ==
  ASSUME TypeOK, [Next]_vars, NEW k \in Keys
  PROVE  incrs'[k] >= incrs[k] /\ decrs'[k] >= decrs[k]
<1> USE DEF TypeOK
<1>1. incrs[k] \in Int /\ decrs[k] \in Int
  OBVIOUS
<1>0. incrs \in [Keys -> Int] /\ decrs \in [Keys -> Int]
  OBVIOUS
<1> HIDE DEF TypeOK
<1>2. ASSUME NEW j \in Keys, Incr(j) \/ Decr(j)
      PROVE  incrs'[k] >= incrs[k] /\ decrs'[k] >= decrs[k]
  BY <1>0, <1>1, <1>2 DEF Incr, Decr
<1>3. CASE UNCHANGED counts
  BY <1>1, <1>3 DEF counts
<1> QED
  BY <1>2, <1>3
  DEF Next, Call, Set, Get, Del, Expire, Flushall, Look, Mset, Mget, Emit,
      WriteCount, MsetNext, MgetNext, BatchReturns, Sweep, Close, Tick, vars

\* A step leaves in each key what it held, nothing, a value of a caller, or
\* what the second half of INCR or DECR writes.
LEMMA WhatAStepWrites ==
  ASSUME IInv, [Next]_vars, NEW k \in Keys
  PROVE  \/ data'[k] \in {data[k], None} \cup Values
         \/ /\ WriteCount
            /\ k = Head(micro).key
            /\ data'[k] = Head(micro).seen + Head(micro).step
<1> USE DEF IInv, TypeOK, Store!TypeOK
<1>1. ASSUME NEW K, Store!Drop(K)
      PROVE  data'[k] \in {data[k], None}
  BY <1>1 DEF Store!Drop
<1>2. ASSUME NEW j, NEW v \in Values, NEW ttl, Store!Set(j, v, ttl)
      PROVE  data'[k] \in {data[k]} \cup Values
  BY <1>2 DEF Store!Set
<1>3. CASE WriteCount
  BY <1>3 DEF WriteCount, Store!Set
<1>4. CASE MsetNext
  <2>1. Head(micro).value \in Values
    BY <1>4, QueueFacts, TaskFields DEF MsetNext
  <2> QED
    BY <1>2, <1>4, <2>1 DEF MsetNext
<1>5. CASE UNCHANGED store
  BY <1>5 DEF store
<1>6. CASE Call
  BY <1>1, <1>2, <1>6
  DEF Call, Set, Get, Del, Expire, Flushall, Look, Incr, Decr, Count, Mset, Mget,
      Store!Get, Store!Del, Store!Expire, Store!Flushall, Store!Exists, Store!Ttl,
      Store!KeysCommand, Store!Info
<1> QED
  BY <1>1, <1>3, <1>4, <1>5, <1>6
  DEF Next, Emit, MgetNext, BatchReturns, Sweep, Close, Tick, vars, Store!Get,
      Store!cleanupExpiredEntries, Store!Tick

\* What the second half of INCR or DECR writes is in range.
LEMMA HeadInRange ==
  ASSUME IInv, WriteCount
  PROVE  LET t == Head(micro)
         IN  /\ t.key \in Keys
             /\ t.seen + t.step \in Int
             /\ t.seen + t.step <= MaxSeed + incrs[t.key]
             /\ t.seen + t.step >= -(MaxSeed + decrs[t.key])
<1>1. /\ Head(micro) \in Tasks /\ Head(micro) = micro[1] /\ 1 \in 1..Len(micro)
      /\ Head(micro).op = "count"
  BY QueueFacts DEF WriteCount, IInv
<1>2. /\ Head(micro).key \in Keys
      /\ Head(micro).seen + Head(micro).step \in Int
  BY <1>1, TaskFields, NumbersAreInts
<1> QED
  BY <1>1, <1>2 DEF IInv, PendingInRange

\* Every step keeps the counters in range.
LEMMA CounterStep ==
  ASSUME IInv, [Next]_vars
  PROVE  CounterInRange'
<1> SUFFICES ASSUME NEW k \in Keys, data'[k] \in Numbers
             PROVE  /\ data'[k] <= MaxSeed + incrs'[k]
                    /\ data'[k] >= -(MaxSeed + decrs'[k])
  BY DEF CounterInRange
<1>1. /\ incrs[k] \in Int /\ incrs'[k] \in Int /\ incrs'[k] >= incrs[k]
      /\ decrs[k] \in Int /\ decrs'[k] \in Int /\ decrs'[k] >= decrs[k]
  BY TypeStep, CountsGrow DEF IInv, TypeOK
<1>2. MaxSeed \in Int /\ data'[k] \in Int
  BY NumbersAreInts
<1>3. CASE data'[k] \in {data[k], None} \cup Values
  <2>1. data'[k] = data[k]
    BY <1>2, <1>3, ClientAssumption
  <2> QED
    BY <1>1, <1>2, <2>1 DEF IInv, CounterInRange
<1>4. CASE /\ WriteCount
           /\ k = Head(micro).key
           /\ data'[k] = Head(micro).seen + Head(micro).step
  BY <1>1, <1>2, <1>4, HeadInRange
<1> QED
  BY <1>3, <1>4, WhatAStepWrites

\* Every step keeps what the pending INCR and DECR will write in range.
LEMMA PendingStep ==
  ASSUME IInv, [Next]_vars
  PROVE  PendingInRange'
<1> SUFFICES ASSUME NEW i \in 1..Len(micro'), micro'[i].op = "count"
             PROVE  LET t == micro'[i]
                    IN  /\ t.seen + t.step <= MaxSeed + incrs'[t.key]
                        /\ t.seen + t.step >= -(MaxSeed + decrs'[t.key])
  BY DEF PendingInRange
<1>1. micro' \in Seq(Tasks) /\ micro \in Seq(Tasks)
  BY TypeStep DEF IInv, TypeOK
<1>2. /\ micro'[i].key \in Keys /\ micro'[i].seen \in Int
      /\ micro'[i].step \in {1, -1}
  BY <1>1, TaskFields, NumbersAreInts
<1> DEFINE t == micro'[i]
<1>3. /\ incrs[t.key] \in Int /\ incrs'[t.key] \in Int /\ incrs'[t.key] >= incrs[t.key]
      /\ decrs[t.key] \in Int /\ decrs'[t.key] \in Int /\ decrs'[t.key] >= decrs[t.key]
      /\ MaxSeed \in Int
  BY <1>2, TypeStep, CountsGrow, NumbersAreInts DEF IInv, TypeOK
<1>4. ASSUME NEW j \in 1..Len(micro), micro'[i] = micro[j]
      PROVE  /\ t.seen + t.step <= MaxSeed + incrs'[t.key]
             /\ t.seen + t.step >= -(MaxSeed + decrs'[t.key])
  <2>1. micro[j].op = "count" /\ t = micro[j]
    BY <1>4
  <2>2. /\ t.seen + t.step <= MaxSeed + incrs[t.key]
        /\ t.seen + t.step >= -(MaxSeed + decrs[t.key])
    BY <2>1 DEF IInv, PendingInRange
  <2>3. t.seen + t.step \in Int
    BY <1>2
  <2> HIDE DEF t
  <2> QED
    BY <1>3, <2>2, <2>3
<1>5. ASSUME NEW k \in Keys, Incr(k) \/ Decr(k)
      PROVE  /\ t.seen + t.step <= MaxSeed + incrs'[t.key]
             /\ t.seen + t.step >= -(MaxSeed + decrs'[t.key])
  <2> DEFINE seen == CounterValue(Store!GetResult(k))
  <2>1. CASE i <= Len(micro)
    <3>0. PICK task : micro' = Append(micro, task)
      BY <1>5 DEF Incr, Decr, Count, Await
    <3>1. micro'[i] = micro[i] /\ i \in 1..Len(micro)
      BY <1>1, <2>1, <3>0
    <3> QED
      BY <1>1, <1>4, <2>1, <3>1
  <2>2. CASE i = Len(micro) + 1
    <3>1. t.key = k /\ t.seen = seen
      BY <1>1, <1>5, <2>2 DEF Incr, Decr, Count, Await
    <3>2. \/ t.step = 1 /\ incrs'[k] = incrs[k] + 1
          \/ t.step = -1 /\ decrs'[k] = decrs[k] + 1
      BY <1>1, <1>5, <2>2 DEF Incr, Decr, Count, Await, IInv, TypeOK
    <3>3. /\ seen <= MaxSeed + incrs[k] /\ seen >= -(MaxSeed + decrs[k])
          /\ seen \in Int
      BY ReadInRange, NumbersAreInts
    <3>4. t.step \in {1, -1}
      BY <1>2
    <3> HIDE DEF seen
    <3>a. /\ incrs[k] \in Int /\ incrs'[k] \in Int /\ incrs'[k] >= incrs[k]
          /\ decrs[k] \in Int /\ decrs'[k] \in Int /\ decrs'[k] >= decrs[k]
          /\ MaxSeed \in Int
      BY <1>3, <3>1
    <3>5. CASE t.step = 1 /\ incrs'[k] = incrs[k] + 1
      <4>1. t.seen + t.step = seen + 1
        BY <3>1, <3>5
      <4> HIDE DEF t
      <4> QED
        BY <3>a, <3>1, <3>3, <3>5, <4>1
    <3>6. CASE t.step = -1 /\ decrs'[k] = decrs[k] + 1
      <4>1. t.seen + t.step = seen - 1
        BY <3>1, <3>3, <3>6
      <4> HIDE DEF t
      <4> QED
        BY <3>a, <3>1, <3>3, <3>6, <4>1
    <3> QED
      BY <3>2, <3>5, <3>6
  <2> QED
    BY <1>1, <1>5, <2>1, <2>2 DEF Incr, Decr, Count, Await
<1>6. ASSUME NEW task, task.op # "count", Await(task)
      PROVE  i \in 1..Len(micro) /\ micro'[i] = micro[i]
  BY <1>1, <1>6 DEF Await
<1>7. ASSUME micro # <<>>, NEW task, task.op # "count",
             micro' = Append(Tail(micro), task) \/ micro' = Tail(micro)
      PROVE  i + 1 \in 1..Len(micro) /\ micro'[i] = micro[i + 1]
  BY <1>1, <1>7
<1>8. CASE Call
  <2>1. ASSUME NEW k \in Keys, NEW v \in Values, NEW ttl \in TTLs,
               Set(k, v, ttl)
        PROVE  i \in 1..Len(micro) /\ micro'[i] = micro[i]
    BY <1>6, <2>1 DEF Set
  <2>2. CASE Flushall \/ Look
    BY <1>4, <1>6, <2>2 DEF Flushall, Look
  <2>3. ASSUME NEW b \in Batches, NEW v \in Values, NEW ttl \in TTLs,
               Mset(b, v, ttl)
        PROVE  i \in 1..Len(micro) /\ micro'[i] = micro[i]
    BY <1>6, <2>3 DEF Mset
  <2>4. ASSUME NEW b \in Batches, Mget(b)
        PROVE  i \in 1..Len(micro) /\ micro'[i] = micro[i]
    BY <1>6, <2>4 DEF Mget
  <2>5. ASSUME NEW k \in Keys, Get(k) \/ Del(k)
        PROVE  i \in 1..Len(micro) /\ micro'[i] = micro[i]
    BY <1>6, <2>5 DEF Get, Del
  <2>6. ASSUME NEW k \in Keys, NEW ttl \in TTLs, Expire(k, ttl)
        PROVE  \E j \in 1..Len(micro) : micro'[i] = micro[j]
    <3>1. CASE UNCHANGED micro
      BY <3>1
    <3>2. CASE Await([op |-> "expire", key |-> k])
      BY <1>6, <3>2
    <3> QED
      BY <2>6, <3>1, <3>2 DEF Expire
  <2> QED
    BY <1>4, <1>5, <1>8, <2>1, <2>2, <2>3, <2>4, <2>5, <2>6 DEF Call
<1>9. CASE Emit \/ WriteCount \/ BatchReturns
  <2>1. micro # <<>> /\ micro' = Tail(micro)
    BY <1>9 DEF Emit, WriteCount, BatchReturns
  <2>2. i + 1 \in 1..Len(micro) /\ micro'[i] = micro[i + 1]
    BY <1>1, <2>1
  <2> QED
    BY <1>4, <2>2
<1>10. CASE MsetNext
  <2> DEFINE task == [Head(micro) EXCEPT !.rest = Tail(Head(micro).rest)]
  <2>1. micro # <<>> /\ micro' = Append(Tail(micro), task)
    BY <1>10 DEF MsetNext
  <2>2. task.op # "count"
    BY <1>10, QueueFacts DEF MsetNext, IInv, Tasks
  <2> HIDE DEF task
  <2> QED
    BY <1>4, <1>7, <2>1, <2>2
<1>11. CASE MgetNext
  <2> DEFINE task == [Head(micro) EXCEPT
                        !.rest = Tail(Head(micro).rest),
                        !.got = Append(Head(micro).got,
                                       Store!GetResult(Head(Head(micro).rest)))]
  <2>1. micro # <<>> /\ micro' = Append(Tail(micro), task)
    BY <1>11 DEF MgetNext
  <2>2. task.op # "count"
    BY <1>11, QueueFacts DEF MgetNext, IInv, Tasks
  <2> HIDE DEF task
  <2> QED
    BY <1>4, <1>7, <2>1, <2>2
<1>12. CASE UNCHANGED micro
  BY <1>4, <1>12
<1> QED
  BY <1>8, <1>9, <1>10, <1>11, <1>12 DEF Next, Sweep, Close, Tick, vars
----------------------------------------------------------------------------
(* Theorems *)

\* The initial state satisfies the invariant.
LEMMA InitInvariant == Init => IInv
<1> SUFFICES ASSUME Init
             PROVE  IInv
  OBVIOUS
<1>1. Store!TypeOK /\ Store!NoOrphanDeadline
  BY ContentsAssumption
  DEF Init, Store!Init, Store!TypeOK, Store!NoOrphanDeadline
<1>2. TypeOK
  BY <1>1, ClientAssumption DEF Init, TypeOK
<1>3. CounterInRange
  BY ClientAssumption DEF Init, Store!Init, CounterInRange, Numbers
<1>4. PendingInRange
  BY DEF Init, PendingInRange
<1> QED
  BY <1>1, <1>2, <1>3, <1>4 DEF IInv

\* Every step of the client keeps the invariant.
LEMMA NextInvariant == IInv /\ [Next]_vars => IInv'
  BY StoreInvariant, TypeStep, CounterStep, PendingStep DEF IInv

\* The invariant holds in every reachable state of the client.
THEOREM Invariant == Spec => []IInv
  BY InitInvariant, NextInvariant, PTL DEF Spec

\* The client's variables, the queue of pending tasks among them, keep their types.
THEOREM TypeCorrect == Spec => []TypeOK
<1>1. IInv => TypeOK
  BY DEF IInv
<1> QED
  BY <1>1, Invariant, PTL

\* Interleaved INCR and DECR may lose updates but never apply one twice.
THEOREM CountersStayInRange == Spec => []CounterInRange
<1>1. IInv => CounterInRange
  BY DEF IInv
<1> QED
  BY <1>1, Invariant, PTL

\* Whatever commands callers interleave, the store sees a run of its own.
THEOREM ClientImplementsStorage == Spec => ImplementsStorage
<1>1. Init => Store!Init
  BY DEF Init
<1>2. IInv /\ [Next]_vars => [Store!Next]_(Store!vars)
  BY StepOfStore
<1> QED
  BY <1>1, <1>2, Invariant, PTL DEF Spec, ImplementsStorage, Store!Spec
----------------------------------------------------------------------------
(* A listener's mirror catches up *)

\* MirrorCatchesUp for one key.
Matches(k) ==
  LET pending == {i \in 1..Len(micro) : Concerns(micro[i], k)}
  IN  /\ pending = {} => mirror[k] = data[k]
      /\ \A i \in pending : (\A j \in pending : j <= i) => Told(micro[i]) = data[k]

\* A command that has changed k and awaits with the event of that change.
LEMMA EventMatches ==
  ASSUME TypeOK, NEW k \in Keys, NEW task, Await(task),
         Concerns(task, k), Told(task) = data'[k]
  PROVE  Matches(k)'
<1>1. /\ micro \in Seq(Tasks) /\ micro' = Append(micro, task)
      /\ Len(micro') = Len(micro) + 1 /\ micro'[Len(micro')] = task
      /\ Len(micro) \in Nat
  BY DEF TypeOK, Await
<1>2. Len(micro') \in 1..Len(micro') /\ Concerns(micro'[Len(micro')], k)
  BY <1>1
<1>3. ASSUME NEW i \in 1..Len(micro'),
             \A j \in 1..Len(micro') : Concerns(micro'[j], k) => j <= i
      PROVE  Told(micro'[i]) = data'[k]
  BY <1>1, <1>2, <1>3
<1> QED
  BY <1>2, <1>3 DEF Matches, Concerns, Told

\* A step that leaves k as it is and queues at most a task that is no event of k.
LEMMA QuietMatches ==
  ASSUME TypeOK, NEW k \in Keys, Matches(k), data'[k] = data[k], mirror'[k] = mirror[k],
         \/ UNCHANGED micro
         \/ \E task : micro' = Append(micro, task) /\ ~Concerns(task, k)
         \/ micro # <<>> /\ ~Concerns(Head(micro), k) /\ micro' = Tail(micro)
         \/ /\ micro # <<>> /\ ~Concerns(Head(micro), k)
            /\ \E task : micro' = Append(Tail(micro), task) /\ ~Concerns(task, k)
  PROVE  Matches(k)'
<1> DEFINE events == {i \in 1..Len(micro) : Concerns(micro[i], k)}
           eventsNext == {i \in 1..Len(micro') : Concerns(micro'[i], k)}
<1>0. micro \in Seq(Tasks) /\ Len(micro) \in Nat
  BY DEF TypeOK
<1>1. CASE UNCHANGED micro
  BY <1>1 DEF Matches, Concerns, Told
<1>2. CASE \E task : micro' = Append(micro, task) /\ ~Concerns(task, k)
  <2>1. /\ eventsNext = events
        /\ \A i \in events : micro'[i] = micro[i]
    BY <1>0, <1>2
  <2> QED
    BY <2>1 DEF Matches, Concerns, Told
<1>3. CASE /\ micro # <<>> /\ ~Concerns(Head(micro), k)
           /\ \/ micro' = Tail(micro)
              \/ \E task : micro' = Append(Tail(micro), task) /\ ~Concerns(task, k)
  <2>1. \A i \in eventsNext : i + 1 \in events /\ micro'[i] = micro[i + 1]
    BY <1>0, <1>3
  <2>2. \A i \in events : i - 1 \in eventsNext
    BY <1>0, <1>3
  <2>3. events = {} <=> eventsNext = {}
    BY <2>1, <2>2
  <2>4. ASSUME NEW i \in eventsNext, \A j \in eventsNext : j <= i
        PROVE  Told(micro'[i]) = data'[k]
    <3>1. \A j \in events : j <= i + 1
      BY <2>2, <2>4
    <3> QED
      BY <2>1, <3>1 DEF Matches
  <2> QED
    BY <2>3, <2>4 DEF Matches, Concerns, Told
<1> QED
  BY <1>1, <1>2, <1>3

\* Delivering the event at the head of the queue to a listener.
LEMMA DeliveryMatches ==
  ASSUME TypeOK, NEW k \in Keys, Matches(k), Emit, listening
  PROVE  Matches(k)'
<1> DEFINE events == {i \in 1..Len(micro) : Concerns(micro[i], k)}
           eventsNext == {i \in 1..Len(micro') : Concerns(micro'[i], k)}
<1>0. /\ micro \in Seq(Tasks) /\ Len(micro) \in Nat
      /\ micro # <<>> /\ micro' = Tail(micro) /\ data' = data
  BY DEF TypeOK, Emit, store
<1>1. CASE ~Concerns(Head(micro), k)
  <2>1. mirror'[k] = mirror[k]
    BY <1>1 DEF Emit
  <2> QED
    BY <1>0, <1>1, <2>1, QuietMatches
<1>2. CASE Concerns(Head(micro), k)
  <2>1. mirror'[k] = Told(Head(micro)) /\ 1 \in events /\ Head(micro) = micro[1]
    BY <1>0, <1>2 DEF Emit
  <2>2. \A i \in eventsNext : i + 1 \in events /\ micro'[i] = micro[i + 1]
    BY <1>0
  <2>3. \A i \in events : i = 1 \/ i - 1 \in eventsNext
    BY <1>0
  <2>4. ASSUME eventsNext = {}
        PROVE  mirror'[k] = data'[k]
    <3>1. \A i \in events : i <= 1
      BY <2>3, <2>4
    <3> QED
      BY <1>0, <2>1, <3>1 DEF Matches
  <2>5. ASSUME NEW i \in eventsNext, \A j \in eventsNext : j <= i
        PROVE  Told(micro'[i]) = data'[k]
    <3>1. \A j \in events : j <= i + 1
      BY <2>3, <2>5
    <3> QED
      BY <1>0, <2>2, <3>1 DEF Matches
  <2> QED
    BY <2>4, <2>5 DEF Matches, Concerns, Told
<1> QED
  BY <1>1, <1>2
\* Every step keeps every announced key matched, or removes the listener.
LEMMA MirrorStep ==
  ASSUME IInv, MirrorCatchesUp, [Next]_vars
  PROVE  MirrorCatchesUp'
<1> SUFFICES ASSUME listening', NEW k \in announced'
             PROVE  Matches(k)'
  BY DEF MirrorCatchesUp, Matches, Concerns, Told
<1>0. k \in Keys /\ TypeOK
  BY TypeStep DEF IInv, TypeOK
<1>1. listening
  BY DEF IInv, TypeOK, Next, Call, Set, Get, Del, Expire, Flushall, Look, Incr, Decr,
         Count, Mset, Mget, Emit, WriteCount, MsetNext, MgetNext, BatchReturns,
         Sweep, Close, Tick, vars, listener
<1>2. k \in announced => Matches(k)
  BY <1>1 DEF MirrorCatchesUp, Matches
<1>3. ASSUME Announce({}), UNCHANGED listener,
             \/ UNCHANGED micro
             \/ \E task : micro' = Append(micro, task) /\ ~Concerns(task, k)
             \/ micro # <<>> /\ ~Concerns(Head(micro), k) /\ micro' = Tail(micro)
             \/ /\ micro # <<>> /\ ~Concerns(Head(micro), k)
                /\ \E task : micro' = Append(Tail(micro), task) /\ ~Concerns(task, k)
      PROVE  Matches(k)'
  <2>1. k \in announced /\ data'[k] = data[k] /\ mirror'[k] = mirror[k]
    BY <1>3 DEF Announce, listener
  <2> QED
    BY <1>0, <1>2, <1>3, <2>1, QuietMatches
<1>4. ASSUME NEW j \in Keys, NEW task, Await(task), Announce({j}), UNCHANGED listener,
             \A i \in Keys : Concerns(task, i) <=> i = j,
             Told(task) = data'[j]
      PROVE  Matches(k)'
  <2>1. CASE k = j
    BY <1>0, <1>4, <2>1, EventMatches
  <2>2. CASE k # j
    <3>1. k \in announced /\ data'[k] = data[k] /\ mirror'[k] = mirror[k]
      BY <1>4, <2>2 DEF Announce, listener
    <3>2. micro' = Append(micro, task) /\ ~Concerns(task, k)
      BY <1>0, <1>4, <2>2 DEF Await
    <3> QED
      BY <1>0, <1>2, <3>1, <3>2, QuietMatches
  <2> QED
    BY <2>1, <2>2
<1>5. CASE Call
  <2>1. ASSUME NEW j \in Keys, NEW v \in Values, NEW ttl \in TTLs, Set(j, v, ttl)
        PROVE  Matches(k)'
    <3> DEFINE task == [op |-> "set", key |-> j, value |-> v]
    <3>1. Told(task) = v /\ \A i \in Keys : Concerns(task, i) <=> i = j
      BY DEF Told, Concerns
    <3>2. data'[j] = v
      BY <2>1 DEF Set, Store!Set, IInv, TypeOK, Store!TypeOK
    <3>3. Await(task) /\ Announce({j}) /\ UNCHANGED listener
      BY <2>1 DEF Set
    <3> HIDE DEF task
    <3> QED
      BY <1>4, <3>1, <3>2, <3>3
  <2>2. ASSUME NEW j \in Keys, Del(j)
        PROVE  Matches(k)'
    <3> DEFINE task == [op |-> "del", key |-> j]
    <3>1. Told(task) = None /\ \A i \in Keys : Concerns(task, i) <=> i = j
      BY DEF Told, Concerns
    <3>2. data'[j] = None
      BY <2>2 DEF Del, Store!Del, Store!Drop
    <3>3. Await(task) /\ Announce({j}) /\ UNCHANGED listener
      BY <2>2 DEF Del
    <3> HIDE DEF task
    <3> QED
      BY <1>4, <3>1, <3>2, <3>3
  <2>3. CASE Flushall
    <3> DEFINE task == [op |-> "flush"]
    <3>1. Told(task) = None /\ Concerns(task, k)
      BY DEF Told, Concerns
    <3>2. data'[k] = None
      BY <1>0, <2>3 DEF Flushall, Store!Flushall, Store!Drop
    <3>3. Await(task)
      BY <2>3 DEF Flushall
    <3> HIDE DEF task
    <3> QED
      BY <1>0, <3>1, <3>2, <3>3, EventMatches
  <2>4. ASSUME NEW task, task.op \notin {"set", "del", "flush"}, Await(task),
               Announce({}), UNCHANGED listener
        PROVE  Matches(k)'
    BY <1>3, <2>4 DEF Await, Concerns
  <2>5. CASE Look
    BY <1>3, <2>5 DEF Look
  <2>6. ASSUME NEW j \in Keys, Get(j)
        PROVE  Matches(k)'
    BY <2>4, <2>6 DEF Get
  <2>7. ASSUME NEW j \in Keys, NEW ttl \in TTLs, Expire(j, ttl)
        PROVE  Matches(k)'
    <3>1. CASE UNCHANGED micro
      BY <1>3, <2>7, <3>1 DEF Expire
    <3>2. CASE Await([op |-> "expire", key |-> j])
      BY <2>4, <2>7, <3>2 DEF Expire
    <3> QED
      BY <2>7, <3>1, <3>2 DEF Expire
  <2>8. ASSUME NEW j \in Keys, Incr(j) \/ Decr(j)
        PROVE  Matches(k)'
    BY <2>4, <2>8 DEF Incr, Decr, Count
  <2>9. ASSUME NEW b \in Batches, NEW v \in Values, NEW ttl \in TTLs, Mset(b, v, ttl)
        PROVE  Matches(k)'
    BY <2>4, <2>9 DEF Mset
  <2>10. ASSUME NEW b \in Batches, Mget(b)
         PROVE  Matches(k)'
    BY <2>4, <2>10 DEF Mget
  <2> QED
    BY <1>5, <2>1, <2>2, <2>3, <2>5, <2>6, <2>7, <2>8, <2>9, <2>10 DEF Call
<1>6. CASE Emit
  <2>1. k \in announced
    BY <1>6 DEF Emit
  <2> QED
    BY <1>0, <1>1, <1>2, <1>6, <2>1, DeliveryMatches
<1>7. CASE WriteCount
  BY <1>3, <1>7 DEF WriteCount, Concerns
<1>8. CASE MsetNext
  <2> DEFINE task == [Head(micro) EXCEPT !.rest = Tail(Head(micro).rest)]
  <2>1. /\ micro # <<>> /\ micro' = Append(Tail(micro), task)
        /\ Head(micro).op = "mset" /\ Announce({}) /\ UNCHANGED listener
    BY <1>8 DEF MsetNext
  <2>2. task.op = "mset"
    BY <1>0, <2>1, QueueFacts DEF Tasks
  <2> HIDE DEF task
  <2> QED
    BY <1>3, <2>1, <2>2 DEF Concerns
<1>9. CASE MgetNext
  <2> DEFINE task == [Head(micro) EXCEPT
                        !.rest = Tail(Head(micro).rest),
                        !.got = Append(Head(micro).got,
                                       Store!GetResult(Head(Head(micro).rest)))]
  <2>1. /\ micro # <<>> /\ micro' = Append(Tail(micro), task)
        /\ Head(micro).op = "mget" /\ Announce({}) /\ UNCHANGED listener
    BY <1>9 DEF MgetNext
  <2>2. task.op = "mget"
    BY <1>0, <2>1, QueueFacts DEF Tasks
  <2> HIDE DEF task
  <2> QED
    BY <1>3, <2>1, <2>2 DEF Concerns
<1>10. CASE BatchReturns
  <2>1. k \in announced /\ data'[k] = data[k] /\ mirror'[k] = mirror[k]
    BY <1>10 DEF BatchReturns, store, listener
  <2>2. micro # <<>> /\ ~Concerns(Head(micro), k) /\ micro' = Tail(micro)
    BY <1>10 DEF BatchReturns, Concerns
  <2> QED
    BY <1>0, <1>2, <2>1, <2>2, QuietMatches
<1>11. CASE Sweep
  BY <1>3, <1>11 DEF Sweep
<1>12. CASE Tick \/ UNCHANGED vars
  <2>1. /\ k \in announced /\ data'[k] = data[k] /\ mirror'[k] = mirror[k]
        /\ UNCHANGED micro
    BY <1>12 DEF Tick, Store!Tick, vars, store, listener
  <2> QED
    BY <1>0, <1>2, <2>1, QuietMatches
<1>13. CASE Close
  BY <1>13 DEF Close
<1> QED
  BY <1>5, <1>6, <1>7, <1>8, <1>9, <1>10, <1>11, <1>12, <1>13 DEF Next

\* However commands, microtasks, timers and close() interleave, a listener is
\* never led astray by the order in which events reach it.
THEOREM EventsFollowTheStore == Spec => []MirrorCatchesUp
<1>1. Init => MirrorCatchesUp
  <2> SUFFICES ASSUME Init
               PROVE  MirrorCatchesUp
    OBVIOUS
  <2>1. \A i \in 1..Len(micro) : FALSE
    BY DEF Init
  <2>2. \A k \in Keys : mirror[k] = data[k]
    BY DEF Init, Store!Init
  <2> QED
    BY <2>1, <2>2 DEF Init, MirrorCatchesUp
<1>2. IInv /\ MirrorCatchesUp /\ [Next]_vars => MirrorCatchesUp'
  BY MirrorStep
<1> QED
  BY <1>1, <1>2, Invariant, PTL DEF Spec
----------------------------------------------------------------------------
(* Why an MGET never sees half an MSET, when all batches name the same keys *)
(* in the same order: on a first-in first-out queue no batch overtakes      *)
(* another.  The argument is about the queue alone, so the first part states *)
(* it of places: W holds those of the MSETs, R those of the MGETs, pos[x] is *)
(* how many keys the batch at place x has treated, val[x] what an MSET       *)
(* writes, got[x] what an MGET has read, and d[i] what the i-th key shows.   *)

\* The batch at x was called before the one at y.
Older(pos, x, y) == pos[x] > pos[y] \/ (pos[x] = pos[y] /\ x < y)

\* Whoever comes after the MSETs of S, and no others, and has treated p keys,
\* will read g from all the rest: the latest of S writes g, and a key that
\* none of them has still to write shows it already.
Foretold(n, pos, val, d, S, p, g) ==
  /\ \A i \in (p + 1)..n : (\A w \in S : pos[w] >= i) => d[i] = g
  /\ \A w \in S : (\A v \in S : v = w \/ Older(pos, v, w)) => val[w] = g

Queued(n, L, W, R, pos) ==
  /\ n \in Nat \ {0} /\ L \in Nat
  /\ W \subseteq 1..L /\ R \subseteq 1..L
  /\ \A x \in W \cup R : pos[x] \in 1..n

\* Every MGET under way, and the next one, reads of one MSET only.
Whole(n, W, R, pos, val, got, d) ==
  /\ \A x \in R : Foretold(n, pos, val, d, {w \in W : Older(pos, w, x)}, pos[x], got[x])
  /\ Foretold(n, pos, val, d, W, 1, d[1])
----------------------------------------------------------------------------
(* The queue *)

\* A new MSET writes its first key: nobody under way reads that any more.
LEMMA MsetComes ==
  ASSUME NEW n, NEW L, NEW W, NEW R, NEW pos, NEW val, NEW got, NEW d,
         Queued(n, L, W, R, pos), Whole(n, W, R, pos, val, got, d),
         NEW pos2, NEW val2, NEW got2, NEW d2,
         \A x \in W \cup R : pos2[x] = pos[x],
         \A x \in W : val2[x] = val[x], \A x \in R : got2[x] = got[x],
         pos2[L + 1] = 1, val2[L + 1] = d2[1],
         \A i \in 2..n : d2[i] = d[i]
  PROVE  Whole(n, W \cup {L + 1}, R, pos2, val2, got2, d2)
<1> USE DEF Queued
<1> DEFINE W2 == W \cup {L + 1}
<1>1. \A x \in W \cup R : x \in 1..L /\ pos[x] \in 1..n /\ x # L + 1
  OBVIOUS
<1>2. ASSUME NEW x \in W \cup R
      PROVE  ~Older(pos2, L + 1, x)
  BY <1>1 DEF Older
<1>3. \A x, y \in W \cup R : Older(pos2, x, y) <=> Older(pos, x, y)
  BY DEF Older
<1>4. ASSUME NEW x \in R
      PROVE  Foretold(n, pos2, val2, d2, {w \in W2 : Older(pos2, w, x)}, pos2[x], got2[x])
  <2>1. {w \in W2 : Older(pos2, w, x)} = {w \in W : Older(pos, w, x)}
    BY <1>2, <1>3
  <2> DEFINE S == {w \in W : Older(pos, w, x)}
  <2>2. Foretold(n, pos, val, d, S, pos[x], got[x])
    BY DEF Whole
  <2>3. pos2[x] = pos[x] /\ got2[x] = got[x] /\ pos[x] \in 1..n /\ S \subseteq W
    BY <1>1
  <2>4. \A i \in (pos[x] + 1)..n : i \in 2..n
    BY <2>3
  <2> HIDE DEF S
  <2>5. Foretold(n, pos2, val2, d2, S, pos[x], got[x])
    BY <1>3, <2>2, <2>3, <2>4 DEF Foretold
  <2> QED
    BY <2>1, <2>3, <2>5 DEF S
<1>5. Foretold(n, pos2, val2, d2, W2, 1, d2[1])
  <2>1. \A i \in 2..n : ~(\A w \in W2 : pos2[w] >= i)
    OBVIOUS
  <2>2. ASSUME NEW w \in W2, \A v \in W2 : v = w \/ Older(pos2, v, w)
        PROVE  val2[w] = d2[1]
    BY <1>1, <1>2, <2>2
  <2> QED
    BY <2>1, <2>2 DEF Foretold
<1> QED
  BY <1>4, <1>5 DEF Whole

\* A new MGET reads its first key, and comes after every MSET under way.
LEMMA MgetComes ==
  ASSUME NEW n, NEW L, NEW W, NEW R, NEW pos, NEW val, NEW got, NEW d,
         Queued(n, L, W, R, pos), Whole(n, W, R, pos, val, got, d),
         NEW pos2, NEW val2, NEW got2,
         \A x \in W \cup R : pos2[x] = pos[x],
         \A x \in W : val2[x] = val[x], \A x \in R : got2[x] = got[x],
         pos2[L + 1] = 1, got2[L + 1] = d[1]
  PROVE  Whole(n, W, R \cup {L + 1}, pos2, val2, got2, d)
<1> USE DEF Queued
<1>1. \A x \in W \cup R : x \in 1..L /\ pos[x] \in 1..n /\ x # L + 1
  OBVIOUS
<1>2. \A x, y \in W \cup R : Older(pos2, x, y) <=> Older(pos, x, y)
  BY DEF Older
<1>3. ASSUME NEW S \in SUBSET W, NEW p, NEW g, Foretold(n, pos, val, d, S, p, g)
      PROVE  Foretold(n, pos2, val2, d, S, p, g)
  BY <1>2, <1>3 DEF Foretold
<1>4. Foretold(n, pos2, val2, d, W, 1, d[1])
  BY <1>3 DEF Whole
<1>5. ASSUME NEW x \in R
      PROVE  Foretold(n, pos2, val2, d, {w \in W : Older(pos2, w, x)}, pos2[x], got2[x])
  <2>1. {w \in W : Older(pos2, w, x)} = {w \in W : Older(pos, w, x)}
    BY <1>2
  <2>2. Foretold(n, pos2, val2, d, {w \in W : Older(pos, w, x)}, pos[x], got[x])
    BY <1>3 DEF Whole
  <2> QED
    BY <2>1, <2>2
<1>6. {w \in W : Older(pos2, w, L + 1)} = W
  <2>1. ASSUME NEW w \in W
        PROVE  Older(pos2, w, L + 1)
    <3>1. /\ pos2[w] = pos[w] /\ pos[w] \in Int /\ pos[w] >= 1
          /\ w \in Int /\ w <= L /\ pos2[L + 1] = 1
      BY <1>1
    <3> QED
      BY <3>1 DEF Older
  <2> QED
    BY <2>1
<1> QED
  BY <1>4, <1>5, <1>6 DEF Whole

\* A task that is no batch leaves everything as it is.
LEMMA OtherComes ==
  ASSUME NEW n, NEW L, NEW W, NEW R, NEW pos, NEW val, NEW got, NEW d,
         Queued(n, L, W, R, pos), Whole(n, W, R, pos, val, got, d),
         NEW pos2, NEW val2, NEW got2,
         \A x \in W \cup R : pos2[x] = pos[x],
         \A x \in W : val2[x] = val[x], \A x \in R : got2[x] = got[x]
  PROVE  Whole(n, W, R, pos2, val2, got2, d)
<1>1. \A x, y \in W \cup R : Older(pos2, x, y) <=> Older(pos, x, y)
  BY DEF Older
<1>2. ASSUME NEW S \in SUBSET W, NEW p, NEW g, Foretold(n, pos, val, d, S, p, g)
      PROVE  Foretold(n, pos2, val2, d, S, p, g)
  BY <1>1, <1>2 DEF Foretold
<1>3. ASSUME NEW x \in R
      PROVE  Foretold(n, pos2, val2, d, {w \in W : Older(pos2, w, x)}, pos2[x], got2[x])
  <2>1. {w \in W : Older(pos2, w, x)} = {w \in W : Older(pos, w, x)}
    BY <1>1
  <2>2. Foretold(n, pos2, val2, d, {w \in W : Older(pos, w, x)}, pos[x], got[x])
    BY <1>2 DEF Whole
  <2> QED
    BY <2>1, <2>2
<1> QED
  BY <1>2, <1>3 DEF Whole

\* The head of the queue is done.  An MSET that has written its last key was
\* the oldest, and keeps nobody waiting.
LEMMA HeadLeaves ==
  ASSUME NEW n, NEW L, NEW W, NEW R, NEW pos, NEW val, NEW got, NEW d,
         Queued(n, L, W, R, pos), Whole(n, W, R, pos, val, got, d),
         L # 0, 1 \in W => pos[1] = n,
         NEW W2, NEW R2, NEW pos2, NEW val2, NEW got2,
         W2 = {x \in 1..(L - 1) : x + 1 \in W}, R2 = {x \in 1..(L - 1) : x + 1 \in R},
         \A x \in W2 \cup R2 : pos2[x] = pos[x + 1],
         \A x \in W2 : val2[x] = val[x + 1], \A x \in R2 : got2[x] = got[x + 1]
  PROVE  Whole(n, W2, R2, pos2, val2, got2, d)
<1> USE DEF Queued
<1>1. \A x \in W \cup R : x \in 1..L /\ pos[x] \in 1..n
  OBVIOUS
<1>2. \A x, y \in W2 \cup R2 : Older(pos2, x, y) <=> Older(pos, x + 1, y + 1)
  <2>1. \A x, y \in W2 \cup R2 : x < y <=> x + 1 < y + 1
    OBVIOUS
  <2> QED
    BY <2>1 DEF Older
<1>3. ASSUME NEW x \in W
      PROVE  x = 1 \/ (x - 1 \in W2 /\ x - 1 + 1 = x)
  <2>1. x \in 1..L /\ L \in Nat
    BY <1>1
  <2>2. x - 1 + 1 = x
    BY <2>1
  <2>3. x = 1 \/ x - 1 \in 1..(L - 1)
    BY <2>1
  <2> QED
    BY <2>2, <2>3
<1>4. ASSUME NEW S \in SUBSET W, NEW p \in 1..n, NEW g, NEW S2,
             S2 = {x \in W2 : x + 1 \in S},
             Foretold(n, pos, val, d, S, p, g)
      PROVE  Foretold(n, pos2, val2, d, S2, p, g)
  <2>1. \A x \in S : x = 1 \/ (x - 1 \in S2 /\ x - 1 + 1 = x)
    BY <1>3, <1>4
  <2>2. ASSUME NEW i \in (p + 1)..n, \A w \in S2 : pos2[w] >= i
        PROVE  d[i] = g
    <3>1. ASSUME NEW w \in S
          PROVE  pos[w] >= i
      <4>1. CASE w = 1
        BY <4>1
      <4>2. CASE w # 1
        <5>1. w - 1 \in S2 /\ w - 1 + 1 = w
          BY <2>1, <4>2
        <5>2. pos2[w - 1] = pos[w - 1 + 1]
          BY <1>4, <5>1
        <5> QED
          BY <2>2, <5>1, <5>2
      <4> QED
        BY <4>1, <4>2
    <3> QED
      BY <1>4, <3>1 DEF Foretold
  <2>3. ASSUME NEW w \in S2, \A v \in S2 : v = w \/ Older(pos2, v, w)
        PROVE  val2[w] = g
    <3>1. w \in W2 /\ w + 1 \in S /\ w + 1 \in 2..L
      BY <1>4
    <3>2. ASSUME NEW v \in S
          PROVE  v = w + 1 \/ Older(pos, v, w + 1)
      <4>1. CASE v = 1
        <5>1. pos[v] = n /\ pos[w + 1] \in 1..n
          BY <1>1, <3>1, <4>1
        <5> QED
          BY <3>1, <4>1, <5>1 DEF Older
      <4>2. CASE v # 1
        <5>1. v - 1 \in S2 /\ v - 1 + 1 = v
          BY <2>1, <4>2
        <5>2. v - 1 = w \/ Older(pos2, v - 1, w)
          BY <2>3, <5>1
        <5>3. Older(pos2, v - 1, w) => Older(pos, v - 1 + 1, w + 1)
          BY <1>2, <1>4, <5>1
        <5> QED
          BY <5>1, <5>2, <5>3
      <4> QED
        BY <4>1, <4>2
    <3>3. val[w + 1] = g
      BY <1>4, <3>1, <3>2 DEF Foretold
    <3> QED
      BY <3>1, <3>3
  <2> QED
    BY <2>2, <2>3 DEF Foretold
<1>5. Foretold(n, pos2, val2, d, W2, 1, d[1])
  <2>1. W2 = {x \in W2 : x + 1 \in W}
    OBVIOUS
  <2> QED
    BY <1>4, <2>1 DEF Whole
<1>6. ASSUME NEW x \in R2
      PROVE  Foretold(n, pos2, val2, d, {w \in W2 : Older(pos2, w, x)}, pos2[x], got2[x])
  <2> DEFINE S == {w \in W : Older(pos, w, x + 1)}
             S2 == {w \in W2 : Older(pos2, w, x)}
  <2>1. x + 1 \in R /\ pos2[x] = pos[x + 1] /\ got2[x] = got[x + 1]
    OBVIOUS
  <2>2. Foretold(n, pos, val, d, S, pos[x + 1], got[x + 1])
    BY <2>1 DEF Whole
  <2>3. S2 = {w \in W2 : w + 1 \in S}
    BY <1>2
  <2>4. S \in SUBSET W /\ pos[x + 1] \in 1..n
    BY <1>1, <2>1
  <2> HIDE DEF S, S2
  <2>5. Foretold(n, pos2, val2, d, S2, pos[x + 1], got[x + 1])
    BY <1>4, <2>2, <2>3, <2>4
  <2> QED
    BY <2>1, <2>5 DEF S2
<1> QED
  BY <1>5, <1>6 DEF Whole

\* An MGET at the head finds in its next key what it has read so far.
LEMMA HeadReads ==
  ASSUME NEW n, NEW L, NEW W, NEW R, NEW pos, NEW val, NEW got, NEW d,
         Queued(n, L, W, R, pos), Whole(n, W, R, pos, val, got, d), W \cap R = {},
         1 \in R, pos[1] < n
  PROVE  d[pos[1] + 1] = got[1]
<1> USE DEF Queued
<1> DEFINE S == {w \in W : Older(pos, w, 1)}
<1>1. Foretold(n, pos, val, d, S, pos[1], got[1])
  BY DEF Whole
<1>2. \A x \in W \cup R : x \in 1..L /\ pos[x] \in 1..n
  OBVIOUS
<1>3. \A w \in S : pos[w] >= pos[1] + 1
  BY <1>2 DEF Older
<1>4. pos[1] + 1 \in (pos[1] + 1)..n
  BY <1>2
<1> HIDE DEF S
<1> QED
  BY <1>1, <1>3, <1>4 DEF Foretold

\* The place that a task had before the head went to the end.
Came(L, x) == IF x = L THEN 1 ELSE x + 1

\* The head treats its next key and goes to the end: it stays as old as it was
\* among the batches.
LEMMA HeadGoesOn ==
  ASSUME NEW n, NEW L, NEW W, NEW R, NEW pos, NEW val, NEW got, NEW d,
         Queued(n, L, W, R, pos), Whole(n, W, R, pos, val, got, d), W \cap R = {},
         1 \in W \cup R, pos[1] < n,
         NEW W2, NEW R2, NEW pos2, NEW val2, NEW got2, NEW d2,
         W2 = {x \in 1..L : Came(L, x) \in W}, R2 = {x \in 1..L : Came(L, x) \in R},
         \A x \in W2 \cup R2 :
           pos2[x] = IF x = L THEN pos[1] + 1 ELSE pos[x + 1],
         \A x \in W2 : val2[x] = val[Came(L, x)],
         \A x \in R2 : got2[x] = got[Came(L, x)],
         \A i \in 1..n : d2[i] = IF 1 \in W /\ i = pos[1] + 1 THEN val[1] ELSE d[i]
  PROVE  Whole(n, W2, R2, pos2, val2, got2, d2)
<1> USE DEF Queued
<1>0. L \in Nat \ {0} /\ pos[1] \in 1..n /\ 1 \in 1..L
  OBVIOUS
<1>1. \A x \in W \cup R : x \in 1..L /\ pos[x] \in 1..n
  OBVIOUS
<1>2. \A x \in W \cup R : \E y \in 1..L : Came(L, y) = x
  <2> SUFFICES ASSUME NEW x \in W \cup R
               PROVE  \E y \in 1..L : Came(L, y) = x
    OBVIOUS
  <2>1. CASE x = 1
    <3>1. L \in 1..L /\ Came(L, L) = x
      BY <1>0, <2>1 DEF Came
    <3> QED
      BY <3>1
  <2>2. CASE x # 1
    <3>1. x - 1 \in 1..L /\ x - 1 # L /\ x - 1 + 1 = x
      BY <1>1, <2>2
    <3> QED
      BY <3>1 DEF Came
  <2> QED
    BY <2>1, <2>2
<1>3. \A x, y \in 1..L : Came(L, x) = Came(L, y) => x = y
  BY <1>0 DEF Came
<1>4. \A x, y \in W2 \cup R2 : Older(pos2, x, y) <=> Older(pos, Came(L, x), Came(L, y))
  <2> SUFFICES ASSUME NEW x \in W2 \cup R2, NEW y \in W2 \cup R2
               PROVE  Older(pos2, x, y) <=> Older(pos, Came(L, x), Came(L, y))
    OBVIOUS
  <2>1. /\ x \in 1..L /\ y \in 1..L
        /\ pos[Came(L, x)] \in Int /\ pos[Came(L, y)] \in Int
    <3>1. /\ x \in 1..L /\ Came(L, x) \in W \cup R
          /\ y \in 1..L /\ Came(L, y) \in W \cup R
      OBVIOUS
    <3>2. \A z \in W \cup R : pos[z] \in Int
      BY <1>1
    <3> HIDE DEF Queued
    <3> QED
      BY <3>1, <3>2
  <2>2. CASE x # L /\ y # L
    BY <2>1, <2>2 DEF Older, Came
  <2>3. CASE x = L /\ y # L
    BY <1>0, <2>1, <2>3 DEF Older, Came
  <2>4. CASE x # L /\ y = L
    BY <1>0, <2>1, <2>4 DEF Older, Came
  <2>5. CASE x = L /\ y = L
    BY <1>0, <2>1, <2>5 DEF Older, Came
  <2> QED
    BY <2>2, <2>3, <2>4, <2>5
<1>5. ASSUME NEW S \in SUBSET W, NEW p \in 1..n, NEW p2 \in p..n, NEW g, NEW S2,
             S2 = {x \in W2 : Came(L, x) \in S},
             1 \in W => 1 \in S \/ p > pos[1],
             Foretold(n, pos, val, d, S, p, g)
      PROVE  Foretold(n, pos2, val2, d2, S2, p2, g)
  <2>1. \A x \in S : \E y \in S2 : Came(L, y) = x
    BY <1>2, <1>5
  <2>2. ASSUME NEW i \in (p2 + 1)..n, \A w \in S2 : pos2[w] >= i
        PROVE  d2[i] = g
    <3>0. i \in (p + 1)..n /\ i \in 1..n
      BY <1>5
    <3>1. ASSUME NEW w \in S
          PROVE  pos[w] >= i \/ (w = 1 /\ pos[1] + 1 >= i)
      <4>1. PICK y \in S2 : Came(L, y) = w
        BY <2>1
      <4>2. y \in 1..L /\ y \in W2
        BY <1>5
      <4> QED
        BY <2>2, <4>1, <4>2 DEF Came
    <3>2. CASE 1 \in W /\ i = pos[1] + 1
      <4>1. 1 \in S
        BY <1>0, <1>5, <3>0, <3>2
      <4>2. \A v \in S : v = 1 \/ Older(pos, v, 1)
        BY <1>0, <1>1, <3>1, <3>2 DEF Older
      <4>3. val[1] = g
        BY <1>5, <4>1, <4>2 DEF Foretold
      <4> QED
        BY <3>0, <3>2, <4>3
    <3>3. CASE ~(1 \in W /\ i = pos[1] + 1)
      <4>1. \A w \in S : pos[w] >= i
        BY <1>0, <3>0, <3>1, <3>3
      <4>2. d[i] = g
        BY <1>5, <3>0, <4>1 DEF Foretold
      <4> QED
        BY <3>0, <3>3, <4>2
    <3> QED
      BY <3>2, <3>3
  <2>3. ASSUME NEW w \in S2, \A v \in S2 : v = w \/ Older(pos2, v, w)
        PROVE  val2[w] = g
    <3>1. w \in W2 /\ Came(L, w) \in S
      BY <1>5
    <3>2. ASSUME NEW v \in S
          PROVE  v = Came(L, w) \/ Older(pos, v, Came(L, w))
      <4>1. PICK y \in S2 : Came(L, y) = v
        BY <2>1
      <4>2. y \in W2
        BY <1>5
      <4> QED
        BY <1>4, <2>3, <3>1, <4>1, <4>2
    <3>3. val[Came(L, w)] = g
      BY <1>5, <3>1, <3>2 DEF Foretold
    <3> QED
      BY <3>1, <3>3
  <2> QED
    BY <2>2, <2>3 DEF Foretold
<1>6. Foretold(n, pos2, val2, d2, W2, 1, d2[1])
  <2>1. W2 = {x \in W2 : Came(L, x) \in W}
    OBVIOUS
  <2>2. d2[1] = d[1]
    BY <1>0
  <2>3. Foretold(n, pos2, val2, d2, W2, 1, d[1])
    BY <1>5, <2>1 DEF Whole
  <2> QED
    BY <2>2, <2>3
<1>7. ASSUME NEW y \in R2
      PROVE  Foretold(n, pos2, val2, d2, {w \in W2 : Older(pos2, w, y)}, pos2[y], got2[y])
  <2> DEFINE x == Came(L, y)
             S == {w \in W : Older(pos, w, x)}
             S2 == {w \in W2 : Older(pos2, w, y)}
  <2>1. x \in R /\ got2[y] = got[x] /\ y \in 1..L
    OBVIOUS
  <2>2. Foretold(n, pos, val, d, S, pos[x], got[x])
    BY <2>1 DEF Whole
  <2>3. S2 = {w \in W2 : Came(L, w) \in S}
    BY <1>4
  <2>4. S \in SUBSET W /\ pos[x] \in 1..n
    BY <1>1, <2>1
  <2>5. pos2[y] \in pos[x]..n
    BY <1>0, <2>1, <2>4 DEF Came
  <2>6. 1 \in W => 1 \in S \/ pos[x] > pos[1]
    <3>1. SUFFICES ASSUME 1 \in W, ~(pos[x] > pos[1])
                   PROVE  Older(pos, 1, x)
      OBVIOUS
    <3>2. x # 1 /\ x \in 1..L
      BY <1>1, <2>1, <3>1
    <3> QED
      BY <1>0, <2>4, <3>1, <3>2 DEF Older
  <2> HIDE DEF S, S2, x
  <2>7. Foretold(n, pos2, val2, d2, S2, pos2[y], got[x])
    BY <1>5, <2>2, <2>3, <2>4, <2>5, <2>6
  <2> QED
    BY <2>1, <2>7 DEF S2
<1> QED
  BY <1>6, <1>7 DEF Whole
----------------------------------------------------------------------------
(* The client as such a queue *)

\* Callers that write with MSET only, all with the same list of distinct keys
\* and without a ttl.
OneKeyList(B) ==
  /\ Batches = {B}
  /\ \A i, j \in 1..Len(B) : B[i] = B[j] => i = j
  /\ TTLs = {0}
  /\ Commands \subseteq {"mset", "mget", "get", "look", "close"}

Places(op) == {x \in 1..Len(micro) : micro[x].op = op}
Treated(B) == [x \in 1..Len(micro) |-> Len(B) - Len(micro[x].rest)]
Written == [x \in 1..Len(micro) |-> micro[x].value]
FirstRead == [x \in 1..Len(micro) |-> micro[x].got[1]]
Shown(B) == [i \in 1..Len(B) |-> Store!GetResult(B[i])]

NoDeadlines == \A k \in Keys : ttlData[k] = None

\* A task that such callers leave in the queue: a batch has treated a first
\* part of B, and an MGET has read one value over and over.
BatchTask(B, t) ==
  \/ t.op = "get"
  \/ /\ t.op \in {"mset", "mget"}
     /\ Len(t.rest) < Len(B)
     /\ \A j \in 1..Len(t.rest) : t.rest[j] = B[Len(B) - Len(t.rest) + j]
     /\ t.op = "mget" => t.got # <<>> /\ \A j \in 1..Len(t.got) : t.got[j] = t.got[1]

WholeQueue(B) ==
  Whole(Len(B), Places("mset"), Places("mget"), Treated(B), Written, FirstRead, Shown(B))

BatchInv(B) ==
  /\ NoDeadlines
  /\ \A x \in 1..Len(micro) : BatchTask(B, micro[x])
  /\ WholeQueue(B)

\* The list that the callers use.
LEMMA TheList ==
  ASSUME NEW B, OneKeyList(B)
  PROVE  /\ B \in Seq(Keys) /\ B # <<>> /\ Len(B) \in Nat \ {0}
         /\ Head(B) = B[1] /\ Tail(B) \in Seq(Keys) /\ Len(Tail(B)) = Len(B) - 1
         /\ \A j \in 1..Len(Tail(B)) : Tail(B)[j] = B[j + 1]
         /\ \A i \in 1..Len(B) : B[i] \in Keys
<1>1. B \in Seq(Keys) /\ B # <<>>
  BY ClientAssumption DEF OneKeyList
<1> QED
  BY <1>1

\* The queue has the form that the lemmas above ask for.
LEMMA QueueForm ==
  ASSUME NEW B, OneKeyList(B), TypeOK, \A x \in 1..Len(micro) : BatchTask(B, micro[x])
  PROVE  /\ Queued(Len(B), Len(micro), Places("mset"), Places("mget"), Treated(B))
         /\ Places("mset") \cap Places("mget") = {}
<1>1. Len(micro) \in Nat /\ Len(B) \in Nat \ {0}
  BY TheList DEF TypeOK
<1>2. ASSUME NEW x \in Places("mset") \cup Places("mget")
      PROVE  Treated(B)[x] \in 1..Len(B)
  <2>1. /\ x \in 1..Len(micro) /\ micro[x] \in Tasks
        /\ micro[x].op \in {"mset", "mget"}
    BY DEF Places, TypeOK
  <2>2. Len(micro[x].rest) < Len(B)
    BY <2>1 DEF BatchTask
  <2>3. Len(micro[x].rest) \in Nat
    BY <2>1, TaskFields
  <2> QED
    BY <1>1, <2>1, <2>2, <2>3 DEF Treated
<1> QED
  BY <1>1, <1>2 DEF Queued, Places

\* Without deadlines nothing lapses: whatever looks at the store leaves it alone.
LEMMA LooksOnly ==
  ASSUME TypeOK, NoDeadlines, NEW K, Store!Drop(K \cap Store!Overdue) \/ Store!Drop(Store!Lapsed)
  PROVE  UNCHANGED <<data, ttlData>>
<1>1. Store!Overdue = {} /\ Store!Lapsed = {}
  BY DEF NoDeadlines, Store!Overdue, Store!Lapsed
<1> QED
  BY <1>1 DEF Store!Drop, TypeOK, Store!TypeOK

\* What a key shows, when there are no deadlines.
LEMMA WhatShows ==
  ASSUME NEW B, OneKeyList(B), NoDeadlines, NEW i \in 1..Len(B)
  PROVE  Shown(B)[i] = IF data[B[i]] = None THEN Null ELSE data[B[i]]
<1>1. Store!Overdue = {}
  BY DEF NoDeadlines, Store!Overdue
<1> QED
  BY <1>1 DEF Shown, Store!GetResult

\* Nothing is queued, and the store shows what it showed.
LEMMA QuietStep ==
  ASSUME NEW B, OneKeyList(B), BatchInv(B), UNCHANGED <<data, ttlData, micro>>
  PROVE  BatchInv(B)'
<1>1. NoDeadlines'
  BY DEF BatchInv, NoDeadlines
<1>2. Shown(B)' = Shown(B)
  BY <1>1, TheList, WhatShows DEF BatchInv, NoDeadlines, Shown, Store!GetResult, Store!Overdue
<1> QED
  BY <1>1, <1>2 DEF BatchInv, WholeQueue, Places, Treated, Written, FirstRead, BatchTask

\* A task takes its place at the end of the queue.
LEMMA ComesLast ==
  ASSUME NEW B, TypeOK, \A x \in 1..Len(micro) : BatchTask(B, micro[x]),
         NEW task, BatchTask(B, task), micro' = Append(micro, task)
  PROVE  /\ Len(micro) \in Nat /\ Len(micro') = Len(micro) + 1
         /\ micro'[Len(micro) + 1] = task
         /\ \A x \in 1..Len(micro') : BatchTask(B, micro'[x])
         /\ \A op : Places(op)' = IF task.op = op THEN Places(op) \cup {Len(micro) + 1}
                                                  ELSE Places(op)
         /\ \A x \in Places("mset") \cup Places("mget") :
              /\ Treated(B)'[x] = Treated(B)[x] /\ Written'[x] = Written[x]
              /\ FirstRead'[x] = FirstRead[x]
<1> DEFINE L == Len(micro)
<1>1. /\ L \in Nat /\ Len(micro') = L + 1 /\ micro'[L + 1] = task
      /\ \A x \in 1..L : micro'[x] = micro[x]
  BY DEF TypeOK
<1> HIDE DEF L
<1>2. \A x \in 1..(L + 1) : x \in 1..L \/ x = L + 1
  BY <1>1
<1>3. 1..L \subseteq 1..(L + 1) /\ L + 1 \in 1..(L + 1) /\ L + 1 \notin 1..L
  BY <1>1
<1>4. ASSUME NEW x \in 1..Len(micro')
      PROVE  BatchTask(B, micro'[x])
  <2>1. x \in 1..L \/ x = L + 1
    BY <1>1, <1>2
  <2>2. CASE x = L + 1
    BY <1>1, <2>2
  <2>3. CASE x \in 1..L
    <3>1. micro'[x] = micro[x] /\ BatchTask(B, micro[x])
      BY <1>1, <2>3 DEF L
    <3> QED
      BY <3>1
  <2> QED
    BY <2>1, <2>2, <2>3
<1>5. ASSUME NEW op
      PROVE  Places(op)' = IF task.op = op THEN Places(op) \cup {L + 1} ELSE Places(op)
  BY <1>1, <1>2, <1>3 DEF Places, L
<1>6. ASSUME NEW x \in Places("mset") \cup Places("mget")
      PROVE  /\ Treated(B)'[x] = Treated(B)[x] /\ Written'[x] = Written[x]
             /\ FirstRead'[x] = FirstRead[x]
  BY <1>1, <1>3 DEF Places, Treated, Written, FirstRead, L
<1> QED
  BY <1>1, <1>4, <1>5, <1>6 DEF L

\* GET takes its place in the queue.
LEMMA GetStep ==
  ASSUME NEW B, OneKeyList(B), TypeOK, BatchInv(B), NEW k \in Keys, Get(k)
  PROVE  BatchInv(B)'
<1> DEFINE task == [op |-> "get", key |-> k]
<1>1. UNCHANGED <<data, ttlData>>
  BY LooksOnly DEF Get, Store!Get, BatchInv
<1>2. NoDeadlines'
  BY <1>1 DEF BatchInv, NoDeadlines
<1>3. Shown(B)' = Shown(B)
  BY <1>1, <1>2 DEF BatchInv, NoDeadlines, Shown, Store!GetResult, Store!Overdue
<1>4. micro' = Append(micro, task) /\ task.op = "get" /\ BatchTask(B, task)
  BY DEF Get, Await, BatchTask
<1> HIDE DEF task
<1>5. \A x \in 1..Len(micro') : BatchTask(B, micro'[x])
  BY <1>4, ComesLast DEF BatchInv
<1>6. Places("mset")' = Places("mset") /\ Places("mget")' = Places("mget")
  BY <1>4, ComesLast DEF BatchInv
<1>7. ASSUME NEW x \in Places("mset") \cup Places("mget")
      PROVE  /\ Treated(B)'[x] = Treated(B)[x] /\ Written'[x] = Written[x]
             /\ FirstRead'[x] = FirstRead[x]
  BY <1>4, ComesLast DEF BatchInv
<1>8. WholeQueue(B)'
  <2>1. /\ Queued(Len(B), Len(micro), Places("mset"), Places("mget"), Treated(B))
        /\ WholeQueue(B)
    BY QueueForm DEF BatchInv
  <2>2. Whole(Len(B), Places("mset"), Places("mget"), Treated(B)', Written', FirstRead',
              Shown(B))
    BY <1>7, <2>1, OtherComes DEF WholeQueue
  <2> QED
    BY <1>3, <1>6, <2>2 DEF WholeQueue
<1> QED
  BY <1>2, <1>5, <1>8 DEF BatchInv

\* SET of the i-th key, without a ttl.
LEMMA SetShows ==
  ASSUME NEW B, OneKeyList(B), TypeOK, NoDeadlines, NEW i \in 1..Len(B),
         NEW v \in Values, Store!Set(B[i], v, 0)
  PROVE  /\ NoDeadlines'
         /\ \A j \in 1..Len(B) : Shown(B)'[j] = IF j = i THEN v ELSE Shown(B)[j]
<1>1. B[i] \in Keys /\ v # None /\ \A j \in 1..Len(B) : B[j] \in Keys
  BY TheList, ClientAssumption
<1>2. NoDeadlines' /\ Store!Overdue = {} /\ Store!Overdue' = {}
  BY DEF NoDeadlines, Store!Set, Store!Overdue
<1>3. \A j \in 1..Len(B) : data'[B[j]] = IF j = i THEN v ELSE data[B[j]]
  BY <1>1 DEF OneKeyList, Store!Set, TypeOK, Store!TypeOK
<1> QED
  BY <1>1, <1>2, <1>3 DEF Shown, Store!GetResult

\* MSET writes the first key and takes its place in the queue.
LEMMA MsetStep ==
  ASSUME NEW B, OneKeyList(B), TypeOK, BatchInv(B),
         NEW b \in Batches, NEW v \in Values, NEW ttl \in TTLs, Mset(b, v, ttl)
  PROVE  BatchInv(B)'
<1> DEFINE task == [op |-> "mset", rest |-> Tail(B), value |-> v, ttl |-> ttl]
<1>1. b = B /\ ttl = 0 /\ 1 \in 1..Len(B)
  BY TheList DEF OneKeyList
<1>2. Store!Set(B[1], v, 0)
  BY <1>1, TheList DEF Mset
<1>3. /\ NoDeadlines'
      /\ \A j \in 1..Len(B) : Shown(B)'[j] = IF j = 1 THEN v ELSE Shown(B)[j]
  BY <1>1, <1>2, SetShows DEF BatchInv
<1>4. /\ micro' = Append(micro, task) /\ task.op = "mset"
      /\ task.rest = Tail(B) /\ task.value = v
  BY <1>1 DEF Mset, Await
<1> HIDE DEF task
<1>5. BatchTask(B, task)
  <2>1. /\ Len(Tail(B)) < Len(B) /\ Len(B) - Len(Tail(B)) = 1
        /\ \A j \in 1..Len(Tail(B)) : 1 + j = j + 1
    BY TheList
  <2>2. \A j \in 1..Len(Tail(B)) : Tail(B)[j] = B[Len(B) - Len(Tail(B)) + j]
    BY <2>1, TheList
  <2> QED
    BY <1>4, <2>1, <2>2 DEF BatchTask
<1>6. /\ Len(micro) \in Nat /\ Len(micro') = Len(micro) + 1
      /\ micro'[Len(micro) + 1] = task
      /\ \A x \in 1..Len(micro') : BatchTask(B, micro'[x])
      /\ Places("mset")' = Places("mset") \cup {Len(micro) + 1}
      /\ Places("mget")' = Places("mget")
      /\ \A x \in Places("mset") \cup Places("mget") :
           /\ Treated(B)'[x] = Treated(B)[x] /\ Written'[x] = Written[x]
           /\ FirstRead'[x] = FirstRead[x]
  BY <1>4, <1>5, ComesLast DEF BatchInv
<1>7. Treated(B)'[Len(micro) + 1] = 1 /\ Written'[Len(micro) + 1] = v
  BY <1>4, <1>6, TheList DEF Treated, Written
<1>8. WholeQueue(B)'
  <2>1. /\ Queued(Len(B), Len(micro), Places("mset"), Places("mget"), Treated(B))
        /\ WholeQueue(B)
    BY QueueForm DEF BatchInv
  <2>2. /\ Written'[Len(micro) + 1] = Shown(B)'[1]
        /\ \A i \in 2..Len(B) : Shown(B)'[i] = Shown(B)[i]
    BY <1>1, <1>3, <1>7, TheList
  <2>3. Whole(Len(B), Places("mset") \cup {Len(micro) + 1}, Places("mget"),
              Treated(B)', Written', FirstRead', Shown(B)')
    BY <1>6, <1>7, <2>1, <2>2, MsetComes DEF WholeQueue
  <2> QED
    BY <1>6, <2>3 DEF WholeQueue
<1> QED
  BY <1>3, <1>6, <1>8 DEF BatchInv

\* MGET reads the first key and takes its place in the queue.
LEMMA MgetStep ==
  ASSUME NEW B, OneKeyList(B), TypeOK, BatchInv(B), NEW b \in Batches, Mget(b)
  PROVE  BatchInv(B)'
<1> DEFINE g == Store!GetResult(Head(B))
           task == [op |-> "mget", rest |-> Tail(B), got |-> <<g>>]
<1>0. b = B
  BY DEF OneKeyList
<1>1. UNCHANGED <<data, ttlData>>
  BY LooksOnly DEF Mget, Store!Get, BatchInv
<1>2. NoDeadlines'
  BY <1>1 DEF BatchInv, NoDeadlines
<1>3. Shown(B)' = Shown(B)
  BY <1>1, <1>2 DEF BatchInv, NoDeadlines, Shown, Store!GetResult, Store!Overdue
<1>4. g = Shown(B)[1]
  BY TheList DEF Shown
<1> HIDE DEF g
<1>5. /\ micro' = Append(micro, task) /\ task.op = "mget"
      /\ task.rest = Tail(B) /\ task.got = <<g>>
  BY <1>0 DEF Mget, Await, g
<1> HIDE DEF task
<1>6. BatchTask(B, task)
  <2>1. /\ Len(Tail(B)) < Len(B) /\ Len(B) - Len(Tail(B)) = 1
        /\ \A j \in 1..Len(Tail(B)) : 1 + j = j + 1
    BY TheList
  <2>2. \A j \in 1..Len(Tail(B)) : Tail(B)[j] = B[Len(B) - Len(Tail(B)) + j]
    BY <2>1, TheList
  <2>3. task.got # <<>> /\ \A j \in 1..Len(task.got) : task.got[j] = task.got[1]
    BY <1>5
  <2> QED
    BY <1>5, <2>1, <2>2, <2>3 DEF BatchTask
<1>7. /\ Len(micro) \in Nat /\ Len(micro') = Len(micro) + 1
      /\ micro'[Len(micro) + 1] = task
      /\ \A x \in 1..Len(micro') : BatchTask(B, micro'[x])
      /\ Places("mset")' = Places("mset")
      /\ Places("mget")' = Places("mget") \cup {Len(micro) + 1}
      /\ \A x \in Places("mset") \cup Places("mget") :
           /\ Treated(B)'[x] = Treated(B)[x] /\ Written'[x] = Written[x]
           /\ FirstRead'[x] = FirstRead[x]
  BY <1>5, <1>6, ComesLast DEF BatchInv
<1>8. Treated(B)'[Len(micro) + 1] = 1 /\ FirstRead'[Len(micro) + 1] = Shown(B)[1]
  BY <1>4, <1>5, <1>7, TheList DEF Treated, FirstRead
<1>9. WholeQueue(B)'
  <2>1. /\ Queued(Len(B), Len(micro), Places("mset"), Places("mget"), Treated(B))
        /\ WholeQueue(B)
    BY QueueForm DEF BatchInv
  <2>2. Whole(Len(B), Places("mset"), Places("mget") \cup {Len(micro) + 1},
              Treated(B)', Written', FirstRead', Shown(B))
    BY <1>7, <1>8, <2>1, MgetComes DEF WholeQueue
  <2> QED
    BY <1>3, <1>7, <2>2 DEF WholeQueue
<1> QED
  BY <1>2, <1>7, <1>9 DEF BatchInv

\* The head of the queue is done.
LEMMA DoneStep ==
  ASSUME NEW B, OneKeyList(B), TypeOK, BatchInv(B), Emit \/ BatchReturns
  PROVE  BatchInv(B)'
<1> DEFINE L == Len(micro)
<1>1. /\ micro # <<>> /\ micro' = Tail(micro) /\ UNCHANGED <<data, ttlData>>
      /\ micro[1].op \in {"mset", "mget"} => micro[1].rest = <<>>
  BY QueueFacts DEF Emit, BatchReturns, store
<1>2. /\ L \in Nat \ {0} /\ Len(micro') = L - 1
      /\ \A x \in 1..(L - 1) : x + 1 \in 1..L /\ micro'[x] = micro[x + 1]
  BY <1>1, QueueFacts DEF TypeOK
<1> HIDE DEF L
<1>3. NoDeadlines'
  BY <1>1 DEF BatchInv, NoDeadlines
<1>4. Shown(B)' = Shown(B)
  BY <1>1, <1>3 DEF BatchInv, NoDeadlines, Shown, Store!GetResult, Store!Overdue
<1>5. ASSUME NEW x \in 1..Len(micro')
      PROVE  BatchTask(B, micro'[x])
  <2>1. x + 1 \in 1..Len(micro) /\ micro'[x] = micro[x + 1]
    BY <1>2 DEF L
  <2>2. BatchTask(B, micro[x + 1])
    BY <2>1 DEF BatchInv
  <2> QED
    BY <2>1, <2>2
<1>6. ASSUME NEW op
      PROVE  Places(op)' = {x \in 1..(L - 1) : x + 1 \in Places(op)}
  BY <1>2 DEF Places, L
<1>7. ASSUME NEW x \in 1..(L - 1)
      PROVE  /\ Treated(B)'[x] = Treated(B)[x + 1] /\ Written'[x] = Written[x + 1]
             /\ FirstRead'[x] = FirstRead[x + 1]
  BY <1>2 DEF Treated, Written, FirstRead, L
<1>8. 1 \in Places("mset") => Treated(B)[1] = Len(B)
  <2>1. ASSUME 1 \in Places("mset")
        PROVE  Treated(B)[1] = Len(B) - 0
    BY <1>1, <2>1 DEF Places, Treated
  <2> QED
    BY <2>1, TheList
<1>9. WholeQueue(B)'
  <2>1. /\ Queued(Len(B), L, Places("mset"), Places("mget"), Treated(B))
        /\ WholeQueue(B)
    BY QueueForm DEF BatchInv, L
  <2>2. /\ Places("mset")' \subseteq 1..(L - 1) /\ Places("mget")' \subseteq 1..(L - 1)
        /\ L # 0
    BY <1>2, <1>6
  <2>3. Whole(Len(B), Places("mset")', Places("mget")',
              Treated(B)', Written', FirstRead', Shown(B))
    BY <1>6, <1>7, <1>8, <2>1, <2>2, HeadLeaves DEF WholeQueue
  <2> QED
    BY <1>4, <2>3 DEF WholeQueue
<1> QED
  BY <1>3, <1>5, <1>9 DEF BatchInv

\* The next key of a batch under way, and what is left after it.
LEMMA NextKey ==
  ASSUME NEW B, OneKeyList(B), NEW t \in Tasks, BatchTask(B, t),
         t.op \in {"mset", "mget"}, t.rest # <<>>
  PROVE  /\ Len(B) - Len(t.rest) \in 1..(Len(B) - 1)
         /\ Head(t.rest) = B[Len(B) - Len(t.rest) + 1]
         /\ Len(Tail(t.rest)) = Len(t.rest) - 1
         /\ Len(Tail(t.rest)) < Len(B)
         /\ \A j \in 1..Len(Tail(t.rest)) :
              Tail(t.rest)[j] = B[Len(B) - Len(Tail(t.rest)) + j]
<1> DEFINE r == t.rest
           n == Len(B)
<1>1. /\ r \in Seq(Keys) /\ r # <<>> /\ n \in Nat /\ Len(r) < n
      /\ \A j \in 1..Len(r) : r[j] = B[n - Len(r) + j]
  BY TaskFields, TheList DEF BatchTask
<1> HIDE DEF r, n
<1>2. /\ Len(r) \in Nat \ {0} /\ Head(r) = r[1] /\ 1 \in 1..Len(r)
      /\ Len(Tail(r)) = Len(r) - 1
      /\ \A j \in 1..Len(Tail(r)) : j + 1 \in 1..Len(r) /\ Tail(r)[j] = r[j + 1]
  BY <1>1
<1>3. ASSUME NEW j \in 1..Len(Tail(r))
      PROVE  Tail(r)[j] = B[n - Len(Tail(r)) + j]
  <2>1. n - Len(r) + (j + 1) = n - Len(Tail(r)) + j
    BY <1>1, <1>2
  <2>2. j + 1 \in 1..Len(r) /\ Tail(r)[j] = r[j + 1]
    BY <1>2
  <2>3. r[j + 1] = B[n - Len(r) + (j + 1)]
    BY <1>1, <2>2
  <2> QED
    BY <2>1, <2>2, <2>3
<1>4. /\ n - Len(r) \in 1..(n - 1) /\ Head(r) = B[n - Len(r) + 1]
      /\ Len(Tail(r)) < n
  BY <1>1, <1>2
<1> QED
  BY <1>2, <1>3, <1>4 DEF r, n

\* Arithmetic that the lengths below need.
LEMMA Minus ==
  ASSUME NEW a \in Nat, NEW b \in Nat
  PROVE  a - (b - 1) = a - b + 1
  OBVIOUS

\* The batch at the head treats a key and goes to the end of the queue.
LEMMA GoesLast ==
  ASSUME NEW B, OneKeyList(B), TypeOK, \A x \in 1..Len(micro) : BatchTask(B, micro[x]),
         micro # <<>>, micro[1].op \in {"mset", "mget"}, micro[1].rest # <<>>,
         NEW task, BatchTask(B, task), micro' = Append(Tail(micro), task),
         task.op = micro[1].op, task.rest = Tail(micro[1].rest),
         task.op = "mset" => task.value = micro[1].value,
         task.op = "mget" => task.got[1] = micro[1].got[1]
  PROVE  /\ \A x \in 1..Len(micro') : BatchTask(B, micro'[x])
         /\ \A op : Places(op)' = {x \in 1..Len(micro) : Came(Len(micro), x) \in Places(op)}
         /\ \A x \in 1..Len(micro) :
              Treated(B)'[x] = IF x = Len(micro) THEN Treated(B)[1] + 1
                                                 ELSE Treated(B)[x + 1]
         /\ \A x \in Places("mset")' : Written'[x] = Written[Came(Len(micro), x)]
         /\ \A x \in Places("mget")' : FirstRead'[x] = FirstRead[Came(Len(micro), x)]
         /\ Treated(B)[1] = Len(B) - Len(micro[1].rest)
<1> DEFINE L == Len(micro)
<1>1. /\ L \in Nat \ {0} /\ Len(micro') = L /\ micro'[L] = task
      /\ \A x \in 1..(L - 1) : x + 1 \in 1..L /\ micro'[x] = micro[x + 1]
  BY QueueFacts DEF TypeOK
<1>2. 1 \in 1..L /\ micro[1] \in Tasks
  BY QueueFacts
<1> HIDE DEF L
<1>3. \A x \in 1..L : x = L \/ (x \in 1..(L - 1) /\ x # L)
  BY <1>1
<1>4. L \in 1..L
  BY <1>1
<1>5. ASSUME NEW x \in 1..Len(micro')
      PROVE  BatchTask(B, micro'[x])
  <2>1. CASE x = L
    BY <1>1, <2>1
  <2>2. CASE x # L
    <3>1. x + 1 \in 1..Len(micro) /\ micro'[x] = micro[x + 1]
      BY <1>1, <1>3, <2>2 DEF L
    <3>2. BatchTask(B, micro[x + 1])
      BY <3>1
    <3> QED
      BY <3>1, <3>2
  <2> QED
    BY <2>1, <2>2
<1>6. ASSUME NEW x \in 1..L
      PROVE  Came(L, x) \in 1..L /\ micro'[x].op = micro[Came(L, x)].op
  BY <1>1, <1>2, <1>3 DEF Came
<1>7. ASSUME NEW op
      PROVE  Places(op)' = {x \in 1..L : Came(L, x) \in Places(op)}
  BY <1>1, <1>6 DEF Places, L
<1>8. Treated(B)[1] = Len(B) - Len(micro[1].rest)
  BY <1>2 DEF Treated, L
<1>9. ASSUME NEW x \in 1..L
      PROVE  Treated(B)'[x] = IF x = L THEN Treated(B)[1] + 1 ELSE Treated(B)[x + 1]
  <2>0. Treated(B)'[x] = Len(B) - Len(micro'[x].rest)
    BY <1>1 DEF Treated
  <2>1. CASE x = L
    <3>1. BatchTask(B, micro[1])
      BY <1>2 DEF L
    <3>2. /\ Len(Tail(micro[1].rest)) = Len(micro[1].rest) - 1
          /\ micro[1].rest \in Seq(Keys)
      BY <1>2, <3>1, NextKey, TaskFields
    <3>3. Len(micro[1].rest) \in Nat /\ Len(B) \in Nat
      BY <3>2, TheList
    <3>4. Len(B) - Len(Tail(micro[1].rest)) = Len(B) - Len(micro[1].rest) + 1
      BY <3>2, <3>3, Minus
    <3>5. micro'[x].rest = Tail(micro[1].rest)
      BY <1>1, <2>1
    <3> QED
      BY <1>8, <2>0, <2>1, <3>4, <3>5
  <2>2. CASE x # L
    <3>1. x + 1 \in 1..L /\ micro'[x] = micro[x + 1]
      BY <1>1, <1>3, <2>2
    <3> QED
      BY <2>0, <2>2, <3>1 DEF Treated, L
  <2> QED
    BY <2>1, <2>2
<1>10. ASSUME NEW x \in Places("mset")'
       PROVE  Written'[x] = Written[Came(L, x)]
  <2>1. x \in 1..L /\ micro'[x].op = "mset" /\ Written'[x] = micro'[x].value
    BY <1>1 DEF Places, Written
  <2>2. Written[Came(L, x)] = micro[Came(L, x)].value
    BY <1>6, <2>1 DEF Written, L
  <2> QED
    BY <1>1, <1>3, <2>1, <2>2 DEF Came
<1>11. ASSUME NEW x \in Places("mget")'
       PROVE  FirstRead'[x] = FirstRead[Came(L, x)]
  <2>1. x \in 1..L /\ micro'[x].op = "mget" /\ FirstRead'[x] = micro'[x].got[1]
    BY <1>1 DEF Places, FirstRead
  <2>2. FirstRead[Came(L, x)] = micro[Came(L, x)].got[1]
    BY <1>6, <2>1 DEF FirstRead, L
  <2> QED
    BY <1>1, <1>3, <2>1, <2>2 DEF Came
<1> QED
  BY <1>5, <1>7, <1>8, <1>9, <1>10, <1>11 DEF L

\* MSET writes its next key and goes to the end of the queue.
LEMMA MsetNextStep ==
  ASSUME NEW B, OneKeyList(B), TypeOK, BatchInv(B), MsetNext
  PROVE  BatchInv(B)'
<1> DEFINE t == Head(micro)
           task == [t EXCEPT !.rest = Tail(t.rest)]
           i == Treated(B)[1] + 1
<1>1. /\ micro # <<>> /\ t = micro[1] /\ t \in Tasks /\ 1 \in 1..Len(micro)
      /\ t.op = "mset" /\ t.rest # <<>>
      /\ Store!Set(Head(t.rest), t.value, t.ttl)
      /\ micro' = Append(Tail(micro), task)
  BY QueueFacts DEF MsetNext
<1>2. BatchTask(B, t)
  BY <1>1 DEF BatchInv
<1>3. t.value \in Values /\ t.ttl = 0
  BY <1>1, TaskFields DEF OneKeyList
<1>4. /\ task.op = "mset" /\ task.rest = Tail(t.rest) /\ task.value = t.value
  BY <1>1 DEF Tasks
<1> HIDE DEF t, task
<1>k. /\ Len(B) - Len(t.rest) \in 1..(Len(B) - 1)
      /\ Head(t.rest) = B[Len(B) - Len(t.rest) + 1]
      /\ Len(Tail(t.rest)) < Len(B)
      /\ \A j \in 1..Len(Tail(t.rest)) :
           Tail(t.rest)[j] = B[Len(B) - Len(Tail(t.rest)) + j]
  BY <1>1, <1>2, NextKey
<1>5. BatchTask(B, task)
  BY <1>4, <1>k DEF BatchTask
<1>6. /\ \A x \in 1..Len(micro') : BatchTask(B, micro'[x])
      /\ \A op : Places(op)' = {x \in 1..Len(micro) : Came(Len(micro), x) \in Places(op)}
      /\ \A x \in 1..Len(micro) :
           Treated(B)'[x] = IF x = Len(micro) THEN Treated(B)[1] + 1
                                              ELSE Treated(B)[x + 1]
      /\ \A x \in Places("mset")' : Written'[x] = Written[Came(Len(micro), x)]
      /\ \A x \in Places("mget")' : FirstRead'[x] = FirstRead[Came(Len(micro), x)]
      /\ Treated(B)[1] = Len(B) - Len(t.rest)
  BY <1>1, <1>4, <1>5, GoesLast DEF BatchInv
<1>7. /\ Treated(B)[1] \in 1..(Len(B) - 1) /\ Head(t.rest) = B[i] /\ i \in 1..Len(B)
  <2>1. Len(B) \in Nat /\ Treated(B)[1] = Len(B) - Len(t.rest)
    BY <1>6, TheList
  <2>2. \A p \in 1..(Len(B) - 1) : p + 1 \in 1..Len(B)
    BY <2>1
  <2> QED
    BY <1>k, <2>1, <2>2
<1>8. 1 \in Places("mset") /\ Written[1] = t.value
  BY <1>1 DEF Places, Written
<1>9. /\ NoDeadlines'
      /\ \A j \in 1..Len(B) : Shown(B)'[j] = IF j = i THEN t.value ELSE Shown(B)[j]
  BY <1>1, <1>3, <1>7, SetShows DEF BatchInv
<1>10. WholeQueue(B)'
  <2>1. /\ Queued(Len(B), Len(micro), Places("mset"), Places("mget"), Treated(B))
        /\ Places("mset") \cap Places("mget") = {}
        /\ WholeQueue(B)
    BY QueueForm DEF BatchInv
  <2>2. /\ Places("mset")' = {x \in 1..Len(micro) : Came(Len(micro), x) \in Places("mset")}
        /\ Places("mget")' = {x \in 1..Len(micro) : Came(Len(micro), x) \in Places("mget")}
    BY <1>6
  <2>3. \A x \in Places("mset")' \cup Places("mget")' :
          Treated(B)'[x] = IF x = Len(micro) THEN Treated(B)[1] + 1
                                             ELSE Treated(B)[x + 1]
    BY <1>6, <2>2
  <2>4. 1 \in Places("mset") \cup Places("mget") /\ Treated(B)[1] < Len(B)
    BY <1>7, <1>8, TheList
  <2>5. \A j \in 1..Len(B) :
          Shown(B)'[j] = IF 1 \in Places("mset") /\ j = Treated(B)[1] + 1
                         THEN Written[1] ELSE Shown(B)[j]
    BY <1>8, <1>9
  <2>6. /\ \A x \in Places("mset")' : Written'[x] = Written[Came(Len(micro), x)]
        /\ \A x \in Places("mget")' : FirstRead'[x] = FirstRead[Came(Len(micro), x)]
    BY <1>6
  <2>7. Whole(Len(B), Places("mset")', Places("mget")',
              Treated(B)', Written', FirstRead', Shown(B)')
    BY <2>1, <2>2, <2>3, <2>4, <2>5, <2>6, HeadGoesOn DEF WholeQueue
  <2> QED
    BY <2>7 DEF WholeQueue
<1> QED
  BY <1>6, <1>9, <1>10 DEF BatchInv

\* MGET reads its next key, finds there what it read before, and goes to the
\* end of the queue.
LEMMA MgetNextStep ==
  ASSUME NEW B, OneKeyList(B), TypeOK, BatchInv(B), MgetNext
  PROVE  BatchInv(B)'
<1> DEFINE t == Head(micro)
           g == Store!GetResult(Head(t.rest))
           task == [t EXCEPT !.rest = Tail(t.rest), !.got = Append(t.got, g)]
           i == Treated(B)[1] + 1
<1>1. /\ micro # <<>> /\ t = micro[1] /\ t \in Tasks /\ 1 \in 1..Len(micro)
      /\ t.op = "mget" /\ t.rest # <<>>
      /\ micro' = Append(Tail(micro), task)
  BY QueueFacts DEF MgetNext
<1>2. UNCHANGED <<data, ttlData>>
  BY LooksOnly DEF MgetNext, Store!Get, BatchInv
<1>3. NoDeadlines'
  BY <1>2 DEF BatchInv, NoDeadlines
<1>4. Shown(B)' = Shown(B)
  BY <1>2, <1>3 DEF BatchInv, NoDeadlines, Shown, Store!GetResult, Store!Overdue
<1>5. BatchTask(B, t)
  BY <1>1 DEF BatchInv
<1> HIDE DEF g
<1>6. task.op = "mget" /\ task.rest = Tail(t.rest) /\ task.got = Append(t.got, g)
  BY <1>1 DEF Tasks
<1>7. Treated(B)[1] = Len(B) - Len(t.rest)
  BY <1>1 DEF Treated
<1>k. /\ Len(B) - Len(t.rest) \in 1..(Len(B) - 1)
      /\ Head(t.rest) = B[Len(B) - Len(t.rest) + 1]
      /\ Len(Tail(t.rest)) < Len(B)
      /\ \A j \in 1..Len(Tail(t.rest)) :
           Tail(t.rest)[j] = B[Len(B) - Len(Tail(t.rest)) + j]
  BY <1>1, <1>5, NextKey
<1>8. /\ Treated(B)[1] \in 1..(Len(B) - 1) /\ i \in 1..Len(B) /\ Head(t.rest) = B[i]
  <2>1. Len(B) \in Nat /\ Treated(B)[1] = Len(B) - Len(t.rest)
    BY <1>7, TheList
  <2>2. \A p \in 1..(Len(B) - 1) : p + 1 \in 1..Len(B)
    BY <2>1
  <2> QED
    BY <1>k, <2>1, <2>2
<1>9. g = Shown(B)[i]
  BY <1>8 DEF Shown, g
<1> HIDE DEF t, task
<1>10. /\ Queued(Len(B), Len(micro), Places("mset"), Places("mget"), Treated(B))
       /\ Places("mset") \cap Places("mget") = {}
       /\ WholeQueue(B)
  BY QueueForm DEF BatchInv
<1>11. 1 \in Places("mget") /\ FirstRead[1] = t.got[1]
  BY <1>1 DEF Places, FirstRead
<1>12. g = t.got[1]
  <2>1. Treated(B)[1] < Len(B)
    BY <1>8, TheList
  <2> QED
    BY <1>9, <1>10, <1>11, <2>1, HeadReads DEF WholeQueue
<1>13. task.got # <<>> /\ \A j \in 1..Len(task.got) : task.got[j] = task.got[1]
  <2>1. /\ t.got \in Seq(Contents \cup {Null}) /\ t.got # <<>>
        /\ \A j \in 1..Len(t.got) : t.got[j] = t.got[1]
    BY <1>1, <1>5, TaskFields DEF BatchTask
  <2>2. g \in Contents \cup {Null}
    BY <1>12, <2>1
  <2> QED
    BY <1>6, <1>12, <2>1, <2>2
<1>14. task.got[1] = t.got[1]
  BY <1>1, <1>5, <1>6, TaskFields DEF BatchTask
<1>15. BatchTask(B, task)
  BY <1>6, <1>13, <1>k DEF BatchTask
<1>16. /\ \A x \in 1..Len(micro') : BatchTask(B, micro'[x])
       /\ \A op : Places(op)' = {x \in 1..Len(micro) : Came(Len(micro), x) \in Places(op)}
       /\ \A x \in 1..Len(micro) :
            Treated(B)'[x] = IF x = Len(micro) THEN Treated(B)[1] + 1
                                               ELSE Treated(B)[x + 1]
       /\ \A x \in Places("mset")' : Written'[x] = Written[Came(Len(micro), x)]
       /\ \A x \in Places("mget")' : FirstRead'[x] = FirstRead[Came(Len(micro), x)]
  BY <1>1, <1>6, <1>14, <1>15, GoesLast DEF BatchInv
<1>17. WholeQueue(B)'
  <2>1. 1 \notin Places("mset") /\ Treated(B)[1] < Len(B)
    BY <1>8, <1>10, <1>11, TheList
  <2>2. \A x \in Places("mset")' \cup Places("mget")' : x \in 1..Len(micro)
    BY <1>16
  <2>3. Whole(Len(B), Places("mset")', Places("mget")',
              Treated(B)', Written', FirstRead', Shown(B))
    BY <1>10, <1>11, <1>16, <2>1, <2>2, HeadGoesOn DEF WholeQueue
  <2> QED
    BY <1>4, <2>3 DEF WholeQueue
<1> QED
  BY <1>3, <1>16, <1>17 DEF BatchInv
----------------------------------------------------------------------------
(* The invariant *)

\* Every step of such callers keeps the invariant.
LEMMA BatchStep ==
  ASSUME NEW B, OneKeyList(B), TypeOK, BatchInv(B), [Next]_vars
  PROVE  BatchInv(B)'
<1>1. CASE Call
  <2>1. ASSUME NEW k \in Keys, Get(k)
        PROVE  BatchInv(B)'
    BY <2>1, GetStep
  <2>2. ASSUME NEW b \in Batches, NEW v \in Values, NEW ttl \in TTLs, Mset(b, v, ttl)
        PROVE  BatchInv(B)'
    BY <2>2, MsetStep
  <2>3. ASSUME NEW b \in Batches, Mget(b)
        PROVE  BatchInv(B)'
    BY <2>3, MgetStep
  <2>4. CASE Look
    <3>1. ASSUME NEW k \in Keys, Store!Exists(k)
          PROVE  UNCHANGED <<data, ttlData>>
      BY <3>1, LooksOnly DEF Store!Exists, BatchInv
    <3>2. ASSUME NEW k \in Keys, Store!Ttl(k)
          PROVE  UNCHANGED <<data, ttlData>>
      BY <3>2 DEF Store!Ttl, Store!Drop, BatchInv, NoDeadlines, TypeOK, Store!TypeOK
    <3>3. ASSUME Store!KeysCommand \/ Store!Info
          PROVE  UNCHANGED <<data, ttlData>>
      <4>1. Store!Drop(Store!Lapsed)
        BY <3>3 DEF Store!KeysCommand, Store!Info
      <4> QED
        BY <4>1, LooksOnly DEF BatchInv
    <3>4. UNCHANGED <<data, ttlData>>
      BY <2>4, <3>1, <3>2, <3>3 DEF Look
    <3>5. UNCHANGED <<data, ttlData, micro>>
      BY <2>4, <3>4 DEF Look
    <3> QED
      BY <3>5, QuietStep
  <2>5. ASSUME NEW k \in Keys, NEW v \in Values, NEW ttl \in TTLs,
               Set(k, v, ttl)
        PROVE  FALSE
    BY <2>5 DEF OneKeyList, Set
  <2>6. ASSUME NEW k \in Keys, NEW ttl \in TTLs,
               Expire(k, ttl) \/ Del(k) \/ Incr(k) \/ Decr(k)
        PROVE  FALSE
    BY <2>6 DEF OneKeyList, Expire, Del, Incr, Decr
  <2>7. CASE Flushall
    BY <2>7 DEF OneKeyList, Flushall
  <2>8. CASE \E k \in Keys :
               \/ \E v \in Values, ttl \in TTLs : Set(k, v, ttl)
               \/ Get(k) \/ Del(k)
               \/ \E ttl \in TTLs : Expire(k, ttl)
               \/ Incr(k) \/ Decr(k)
    BY <2>1, <2>5, <2>6, <2>8 DEF OneKeyList
  <2>9. CASE \E b \in Batches :
               \/ \E v \in Values, ttl \in TTLs : Mset(b, v, ttl)
               \/ Mget(b)
    BY <2>2, <2>3, <2>9
  <2> QED
    BY <1>1, <2>4, <2>7, <2>8, <2>9 DEF Call
<1>2. CASE Emit \/ BatchReturns
  BY <1>2, DoneStep
<1>3. CASE WriteCount
  <2>1. Head(micro) = micro[1] /\ 1 \in 1..Len(micro) /\ Head(micro).op = "count"
    BY <1>3, QueueFacts DEF WriteCount
  <2>2. BatchTask(B, micro[1])
    BY <2>1 DEF BatchInv
  <2> QED
    BY <2>1, <2>2 DEF BatchTask
<1>4. CASE MsetNext
  BY <1>4, MsetNextStep
<1>5. CASE MgetNext
  BY <1>5, MgetNextStep
<1>6. CASE Sweep
  <2>1. UNCHANGED <<data, ttlData, micro>>
    BY <1>6, LooksOnly DEF Sweep, Store!cleanupExpiredEntries, BatchInv
  <2> QED
    BY <2>1, QuietStep
<1>7. CASE Close \/ Tick \/ UNCHANGED vars
  <2>1. UNCHANGED <<data, ttlData, micro>>
    BY <1>7 DEF Close, Tick, Store!Tick, vars, store
  <2> QED
    BY <2>1, QuietStep
<1> QED
  BY <1>1, <1>2, <1>3, <1>4, <1>5, <1>6, <1>7 DEF Next

\* With nothing stored and nobody under way, every key shows the same.
LEMMA BatchInit ==
  ASSUME NEW B, OneKeyList(B), Init
  PROVE  BatchInv(B)
<1>1. NoDeadlines /\ micro = <<>> /\ \A k \in Keys : data[k] = None
  BY DEF Init, Store!Init, NoDeadlines
<1>2. \A i \in 1..Len(B) : Shown(B)[i] = Null
  BY <1>1, TheList, WhatShows
<1>3. 1 \in 1..Len(B) /\ \A i \in 2..Len(B) : i \in 1..Len(B)
  BY TheList
<1>4. Places("mset") = {} /\ Places("mget") = {} /\ \A x \in 1..Len(micro) : FALSE
  BY <1>1 DEF Places
<1>5. WholeQueue(B)
  BY <1>2, <1>3, <1>4 DEF WholeQueue, Whole, Foretold
<1> QED
  BY <1>1, <1>4, <1>5 DEF BatchInv

\* When all callers write with MSETs of one and the same key list, an MGET of
\* that list that interleaves with them answers with the values of one MSET.
THEOREM BatchesStayWhole ==
  ASSUME NEW B, OneKeyList(B)
  PROVE  Spec => []BatchNeverTorn
<1>1. Init => BatchInv(B)
  BY BatchInit
<1>2. TypeOK /\ BatchInv(B) /\ [Next]_vars => BatchInv(B)'
  BY BatchStep
<1>3. TypeOK /\ BatchInv(B) => BatchNeverTorn
  BY DEF BatchInv, BatchTask, BatchNeverTorn
<1> QED
  BY <1>1, <1>2, <1>3, TypeCorrect, PTL DEF Spec
============================================================================
