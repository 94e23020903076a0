---------------------------- MODULE PubSub_proofs ----------------------------
(* Whatever callbacks do to the arrays that publish() walks, the arrays hold *)
(* the live subscriptions, and nobody is told twice or after leaving.        *)
EXTENDS PubSub, SequenceTheorems, DataLemmas

IncreasingIds(ids) == \A i, j \in 1..Len(ids) : i < j => ids[i] < ids[j]

\* Every id in an array was given out before, and so was the one that dates it;
\* an array that is out of the Map holds nobody who is subscribed.
GivenOut ==
  /\ \A p \in Patterns : patternSubscriptions[p].since < nextId
  /\ frame.stage = "pattern" =>
       /\ frame.since < nextId
       /\ patternSubscriptions[frame.pattern].since = frame.since =>
            frame.orphan = <<>>
       /\ IncreasingIds(frame.orphan)
       /\ \A i \in 1..Len(frame.orphan) :
            frame.orphan[i] < nextId /\ frame.orphan[i] \notin Live

\* Nobody whom publish() has yet to come to has been told.
YetUntold ==
  /\ \A id \in Ids : told[id] <= 1
  /\ frame.stage = "exact" => \A id \in Ids : told[id] = 0
  /\ frame.stage = "pattern" =>
       /\ \A id \in Ids : id >= nextId => told[id] = 0
       /\ \A i \in 1..Len(Walked) : i > frame.index => told[Walked[i]] = 0
       /\ \A p \in Patterns : patternSubscriptions[p].since > frame.since =>
            \A i \in 1..Len(patternSubscriptions[p].ids) :
              told[patternSubscriptions[p].ids[i]] = 0

IInv == TypeOK /\ PatternsFiled /\ GivenOut

----------------------------------------------------------------------------
(* Arrays *)

LEMMA EmptyArray ==
  ASSUME NEW S
  PROVE  <<>> \in Seq(S) /\ Len(<<>>) = 0
  OBVIOUS

\* What is in an array after a push was there before, or is new and last.
LEMMA Pushed ==
  ASSUME NEW S, NEW q \in Seq(S), NEW m \in S
  PROVE  /\ Append(q, m) \in Seq(S) /\ Len(Append(q, m)) = Len(q) + 1
         /\ \A i \in 1..Len(q) : Append(q, m)[i] = q[i]
         /\ Append(q, m)[Len(q) + 1] = m
  BY AppendProperties

\* splice closes the gap: what was behind the place moves up by one.
LEMMA Removed ==
  ASSUME NEW S, NEW q \in Seq(S), NEW i \in 1..Len(q)
  PROVE  /\ Remove(q, i) \in Seq(S) /\ Len(Remove(q, i)) = Len(q) - 1
         /\ \A j \in 1..(Len(q) - 1) :
              Remove(q, i)[j] = IF j < i THEN q[j] ELSE q[j + 1]
<1> DEFINE a == SubSeq(q, 1, i - 1)
           b == SubSeq(q, i + 1, Len(q))
<1>1. \A j \in 1..Len(q) : q[j] \in S
  OBVIOUS
<1>2. /\ a \in Seq(S) /\ Len(a) = i - 1
      /\ \A j \in 1..(i - 1) : a[j] = q[j]
  <2>1. \A j \in 1..(i - 1) : q[j] \in S
    BY <1>1
  <2>2. /\ a \in Seq(S) /\ Len(a) = IF 1 <= i - 1 THEN i - 1 - 1 + 1 ELSE 0
        /\ \A j \in 1..(i - 1 - 1 + 1) : a[j] = q[1 + j - 1]
    BY <2>1, SubSeqProperties, 1 \in Int, i - 1 \in Int
  <2> HIDE DEF a
  <2>3. i \in Int /\ \A j \in 1..(i - 1) : j \in 1..(i - 1 - 1 + 1) /\ 1 + j - 1 = j
    OBVIOUS
  <2>4. Len(a) = i - 1
    BY <2>2, <2>3
  <2> QED
    BY <2>2, <2>3, <2>4
<1>3. /\ b \in Seq(S) /\ Len(b) = Len(q) - i
      /\ \A j \in 1..(Len(q) - i) : b[j] = q[i + j]
  <2>1. \A j \in (i + 1)..Len(q) : q[j] \in S
    BY <1>1
  <2>2. /\ b \in Seq(S) /\ Len(b) = IF i + 1 <= Len(q) THEN Len(q) - (i + 1) + 1 ELSE 0
        /\ \A j \in 1..(Len(q) - (i + 1) + 1) : b[j] = q[i + 1 + j - 1]
    BY <2>1, SubSeqProperties, i + 1 \in Int, Len(q) \in Int
  <2> HIDE DEF b
  <2>3. \A j \in 1..(Len(q) - i) : j \in 1..(Len(q) - (i + 1) + 1) /\ i + 1 + j - 1 = i + j
    OBVIOUS
  <2> QED
    BY <2>2, <2>3
<1>4. Remove(q, i) = a \o b
  BY DEF Remove
<1> HIDE DEF a, b
<1>5. /\ a \o b \in Seq(S) /\ Len(a \o b) = Len(a) + Len(b)
      /\ \A j \in 1..(Len(a) + Len(b)) :
           (a \o b)[j] = IF j <= Len(a) THEN a[j] ELSE b[j - Len(a)]
  BY <1>2, <1>3, ConcatProperties
<1> QED
  BY <1>2, <1>3, <1>4, <1>5

\* Some places of an array have a last one.
LEMMA LastOf ==
  ASSUME NEW n \in Nat, NEW at, at \subseteq 1..n, at # {}
  PROVE  (CHOOSE i \in at : \A j \in at : j <= i) \in at
<1> DEFINE T == {n - j : j \in at}
<1>1. T \subseteq Nat /\ T # {}
  <2>1. \A j \in at : n - j \in Nat
    OBVIOUS
  <2> QED
    BY <2>1
<1>2. PICK x \in T : \A y \in T : x <= y
  BY <1>1, Least
<1>3. PICK i \in at : x = n - i
  OBVIOUS
<1>4. ASSUME NEW j \in at
      PROVE  j <= i
  <2>1. n - i <= n - j
    BY <1>2, <1>3
  <2>2. i \in 1..n /\ j \in 1..n
    OBVIOUS
  <2> QED
    BY <2>1, <2>2
<1> QED
  BY <1>4

\* In an increasing array splice takes out this id and no other.
LEMMA Spliced ==
  ASSUME NEW q \in Seq(Ids), IncreasingIds(q), NEW id
  PROVE  /\ Splice(q, id) \in Seq(Ids) /\ IncreasingIds(Splice(q, id))
         /\ {Splice(q, id)[j] : j \in 1..Len(Splice(q, id))}
              = {q[j] : j \in 1..Len(q)} \ {id}
         /\ \A j \in 1..Len(Splice(q, id)) :
              \E m \in 1..Len(q) : m >= j /\ q[m] = Splice(q, id)[j]
<1> DEFINE at == {i \in 1..Len(q) : q[i] = id}
<1>0. \A m \in 1..Len(q) : q[m] \in Int
  <2>1. \A m \in 1..Len(q) : q[m] \in Ids
    OBVIOUS
  <2> QED
    BY <2>1, PubSubAssumption DEF Ids
<1>1. CASE at = {}
  BY <1>1 DEF Splice
<1>2. CASE at # {}
  <2> DEFINE i == CHOOSE i \in at : \A j \in at : i <= j
             r == Remove(q, i)
  <2>1. i \in 1..Len(q) /\ q[i] = id
    <3>1. PICK k \in at : TRUE
      BY <1>2
    <3>2. \A j \in at : j = k
      <4> SUFFICES ASSUME NEW j \in at, j # k
                   PROVE  FALSE
        OBVIOUS
      <4>1. j \in 1..Len(q) /\ k \in 1..Len(q) /\ q[j] = q[k]
        BY <3>1
      <4>2. j < k \/ k < j
        BY <4>1
      <4>3. q[j] < q[k] \/ q[k] < q[j]
        BY <4>1, <4>2 DEF IncreasingIds
      <4> QED
        BY <1>0, <4>1, <4>3
    <3>3. k \in at /\ \A j \in at : k <= j
      BY <3>1, <3>2
    <3> QED
      BY <3>3
  <2>2. Splice(q, id) = r
    BY <1>2 DEF Splice
  <2> HIDE DEF i
  <2>3. /\ r \in Seq(Ids) /\ Len(r) = Len(q) - 1
        /\ \A j \in 1..(Len(q) - 1) : r[j] = IF j < i THEN q[j] ELSE q[j + 1]
    BY <2>1, Removed
  <2> HIDE DEF r
  <2>4. \A j \in 1..Len(r) : \E m \in 1..Len(q) : m >= j /\ m # i /\ q[m] = r[j]
    BY <2>1, <2>3
  <2>5. \A m \in 1..Len(q) : m # i => \E j \in 1..Len(r) : r[j] = q[m]
    <3> SUFFICES ASSUME NEW m \in 1..Len(q), m # i
                 PROVE  \E j \in 1..Len(r) : r[j] = q[m]
      OBVIOUS
    <3>1. CASE m < i
      BY <2>1, <2>3, <3>1
    <3>2. CASE m > i
      <4>1. m - 1 \in 1..Len(r) /\ r[m - 1] = q[m]
        BY <2>1, <2>3, <3>2
      <4> QED
        BY <4>1
    <3> QED
      BY <2>1, <3>1, <3>2
  <2>6. \A m \in 1..Len(q) : q[m] = id <=> m = i
    <3> SUFFICES ASSUME NEW m \in 1..Len(q), q[m] = q[i], m # i
                 PROVE  FALSE
      BY <2>1
    <3>1. m < i \/ i < m
      BY <2>1
    <3>2. q[m] < q[i] \/ q[i] < q[m]
      BY <2>1, <3>1 DEF IncreasingIds
    <3> QED
      BY <1>0, <2>1, <3>2
  <2>7. {r[j] : j \in 1..Len(r)} = {q[j] : j \in 1..Len(q)} \ {id}
    <3>1. ASSUME NEW j \in 1..Len(r)
          PROVE  r[j] \in {q[m] : m \in 1..Len(q)} \ {id}
      BY <2>4, <2>6
    <3>2. ASSUME NEW m \in 1..Len(q), q[m] # id
          PROVE  q[m] \in {r[j] : j \in 1..Len(r)}
      BY <2>5, <2>6, <3>2
    <3> QED
      BY <3>1, <3>2
  <2>8. IncreasingIds(r)
    BY <2>1, <2>3 DEF IncreasingIds
  <2> QED
    BY <2>2, <2>3, <2>4, <2>7, <2>8
<1> QED
  BY <1>1, <1>2
----------------------------------------------------------------------------
(* Types *)

\* What a new subscription does to the Map of subscriptions.
LEMMA Subscribed ==
  ASSUME TypeOK, NEW p \in Channels \cup Patterns, NEW f \in Callbacks,
         nextId <= MaxId, nextId' = nextId + 1,
         subscriptions' = WithSub(nextId, p, f)
  PROVE  /\ nextId \in Ids /\ nextId \notin Live /\ nextId' \in 1..(MaxId + 1)
         /\ Live' = Live \cup {nextId} /\ Live' \subseteq 1..(nextId' - 1)
         /\ \A id \in Live' : subscriptions'[id] =
              IF id = nextId THEN [pattern |-> p, callback |-> f] ELSE subscriptions[id]
         /\ \A id \in Live' : subscriptions'[id] \in Subscription
<1>1. nextId \in Ids /\ nextId \notin Live /\ nextId' \in 1..(MaxId + 1)
  BY PubSubAssumption DEF TypeOK, Ids
<1>2. Live' = Live \cup {nextId}
  BY DEF Live, WithSub
<1>3. Live' \subseteq 1..(nextId' - 1)
  BY <1>1, <1>2 DEF TypeOK, Ids
<1>4. \A id \in Live' : subscriptions'[id] =
        IF id = nextId THEN [pattern |-> p, callback |-> f] ELSE subscriptions[id]
  BY <1>2 DEF WithSub
<1>5. \A id \in Live' : subscriptions'[id] \in Subscription
  BY <1>2, <1>4 DEF TypeOK, Subscription
<1> QED
  BY <1>1, <1>2, <1>3, <1>4, <1>5

\* And what a removed one does.
LEMMA Unsubscribed ==
  ASSUME TypeOK, NEW id, subscriptions' = Without(subscriptions, id)
  PROVE  /\ Live' = Live \ {id}
         /\ \A other \in Live' : subscriptions'[other] = subscriptions[other]
  BY DEF Live, Without

LEMMA InitTypes == Init => TypeOK
<1> SUFFICES ASSUME Init
             PROVE  TypeOK
  OBVIOUS
<1>1. 1 \in 1..(MaxId + 1) /\ 0 \in 0..MaxId
  BY PubSubAssumption
<1>2. Live = {}
  BY DEF Init, Live
<1>3. /\ listeners \in [Channels -> Seq(Callbacks)]
      /\ patternSubscriptions \in [Patterns -> [since : 0..MaxId, ids : Seq(Ids)]]
  BY <1>1, EmptyArray DEF Init, NoEntry
<1> QED
  BY <1>1, <1>2, <1>3 DEF Init, TypeOK, Frames

LEMMA TellTypes ==
  ASSUME TypeOK, NEW id, Tell(id)
  PROVE  told' \in [Ids -> Nat]
<1>1. DOMAIN told' = Ids /\ told' = [x \in Ids |-> told'[x]]
  BY DEF TypeOK, Tell
<1>2. \A x \in Ids : told'[x] = IF x = id THEN told[x] + 1 ELSE told[x]
  BY DEF TypeOK, Tell
<1>3. \A x \in Ids : told'[x] \in Nat
  <2> TAKE x \in Ids
  <2>1. told[x] \in Nat
    BY DEF TypeOK
  <2>2. told[x] + 1 \in Nat
    BY <2>1
  <2> QED
    BY <1>2, <2>1, <2>2
<1> QED
  BY <1>1, <1>3

\* The steps of publish() itself.
LEMMA PublishTypes ==
  ASSUME TypeOK, PatternsFiled,
         \/ \E c \in Channels : publish(c)
         \/ CallExact \/ CallNext \/ NextPattern \/ Return \/ CallbackThrows
  PROVE  TypeOK'
<1>1. ASSUME NEW c \in Channels, publish(c)
      PROVE  TypeOK'
  <2>1. frame' \in Frames /\ told' \in [Ids -> Nat]
    BY <1>1 DEF TypeOK, publish, Frames
  <2>2. witnesses' \subseteq Ids
    BY <1>1, PubSubAssumption DEF TypeOK, publish, Ids
  <2> QED
    BY <1>1, <2>1, <2>2 DEF TypeOK, publish, books, Live
<1>2. CASE CallExact
  <2>1. /\ frame \in [stage : {"exact"}, channel : Channels, todo : Seq(Callbacks),
                     running : BOOLEAN]
        /\ frame.todo # <<>>
    BY <1>2 DEF TypeOK, CallExact, Frames, Idle
  <2>2. frame.todo \in Seq(Callbacks)
    BY <2>1
  <2>3. Tail(frame.todo) \in Seq(Callbacks)
    BY <2>1, <2>2
  <2>4. frame' \in Frames
    BY <1>2, <2>1, <2>3 DEF CallExact, Frames
  <2> QED
    BY <1>2, <2>4 DEF TypeOK, CallExact, books, audit, Live
<1>3. CASE CallNext
  <2>1. frame' \in Frames
    <3>1. frame \in [stage : {"pattern"}, channel : Channels, pattern : Patterns,
                     since : Ids, index : Nat \ {0}, orphan : Seq(Ids)]
      BY <1>3 DEF TypeOK, CallNext, Frames, Idle
    <3>2. frame' = [frame EXCEPT !.index = @ + 1]
      BY <1>3 DEF CallNext
    <3>3. frame' \in [stage : {"pattern"}, channel : Channels, pattern : Patterns,
                      since : Ids, index : Nat \ {0}, orphan : Seq(Ids)]
      BY <3>1, <3>2
    <3> QED
      BY <3>3 DEF Frames
  <2>2. told' \in [Ids -> Nat]
    BY <1>3, TellTypes DEF CallNext
  <2> QED
    BY <1>3, <2>1, <2>2 DEF TypeOK, CallNext, books, Live
<1>4. CASE NextPattern
  <2>1. PICK p \in Ahead :
          /\ frame' = [stage |-> "pattern", channel |-> frame.channel,
                       pattern |-> p, since |-> patternSubscriptions[p].since,
                       index |-> 1, orphan |-> <<>>]
          /\ Tell(patternSubscriptions[p].ids[1])
    BY <1>4 DEF NextPattern
  <2>2. p \in Patterns /\ patternSubscriptions[p].ids # <<>>
    BY DEF Ahead
  <2>3. patternSubscriptions[p].since \in 0..MaxId /\ patternSubscriptions[p].since # 0
    BY <2>2 DEF TypeOK, PatternsFiled
  <2>4. patternSubscriptions[p].since \in Ids
    BY <2>3, PubSubAssumption DEF Ids
  <2>5. frame.channel \in Channels
    BY <1>4 DEF TypeOK, NextPattern, Frames, Idle
  <2>6. frame' \in Frames
    BY <2>1, <2>2, <2>4, <2>5, EmptyArray DEF Frames
  <2>7. told' \in [Ids -> Nat]
    BY <2>1, TellTypes
  <2> QED
    BY <1>4, <2>6, <2>7 DEF TypeOK, NextPattern, books, Live
<1>5. CASE Return
  BY <1>5 DEF TypeOK, Return, Frames, books, audit, Live
<1>6. CASE CallbackThrows
  BY <1>6 DEF TypeOK, CallbackThrows, Frames, books, audit, Live
<1> QED
  BY <1>1, <1>2, <1>3, <1>4, <1>5, <1>6

\* The steps that the application takes, in a callback or outside.
LEMMA ApplicationTypes ==
  ASSUME TypeOK, PatternsFiled,
         \/ \E c \in Channels, f \in Callbacks : subscribe(c, f)
         \/ \E p \in Patterns, f \in Callbacks : psubscribe(p, f)
         \/ \E id \in Ids : unsubscribe(id) \/ punsubscribe(id)
         \/ destroy
  PROVE  TypeOK'
<1>1. ASSUME NEW c \in Channels, NEW f \in Callbacks, subscribe(c, f)
      PROVE  TypeOK'
  <2>1. /\ nextId' \in 1..(MaxId + 1) /\ Live' \subseteq 1..(nextId' - 1)
        /\ \A id \in Live' : subscriptions'[id] \in Subscription
    BY <1>1, Subscribed DEF subscribe
  <2>2. listeners' \in [Channels -> Seq(Callbacks)]
    <3>1. Append(listeners[c], f) \in Seq(Callbacks)
      BY Pushed DEF TypeOK
    <3> QED
      BY <1>1, <3>1 DEF TypeOK, subscribe
  <2>3. subscriberCount' \in [Channels -> Nat]
    BY <1>1 DEF TypeOK, subscribe
  <2> QED
    BY <1>1, <2>1, <2>2, <2>3 DEF TypeOK, subscribe, audit
<1>2. ASSUME NEW p \in Patterns, NEW f \in Callbacks, psubscribe(p, f)
      PROVE  TypeOK'
  <2>1. /\ nextId' \in 1..(MaxId + 1) /\ Live' \subseteq 1..(nextId' - 1)
        /\ nextId \in Ids
        /\ \A id \in Live' : subscriptions'[id] \in Subscription
    BY <1>2, Subscribed DEF psubscribe
  <2>2. Append(patternSubscriptions[p].ids, nextId) \in Seq(Ids)
    BY <2>1, Pushed DEF TypeOK
  <2>3. nextId \in 0..MaxId
    BY <2>1, PubSubAssumption DEF Ids
  <2>4. patternSubscriptions' \in [Patterns -> [since : 0..MaxId, ids : Seq(Ids)]]
    BY <1>2, <2>2, <2>3 DEF TypeOK, psubscribe
  <2> QED
    BY <1>2, <2>1, <2>4 DEF TypeOK, psubscribe, audit
<1>3. ASSUME NEW id \in Ids, unsubscribe(id)
      PROVE  TypeOK'
  <2> DEFINE c == subscriptions[id].pattern
             f == subscriptions[id].callback
  <2>1. c \in Channels /\ f \in Callbacks
    BY <1>3 DEF TypeOK, unsubscribe, Subscription, IsPattern
  <2>2. Off(listeners[c], f) \in Seq(Callbacks)
    <3>1. listeners[c] \in Seq(Callbacks)
      BY <2>1 DEF TypeOK
    <3>2. ASSUME NEW i \in 1..Len(listeners[c])
          PROVE  Remove(listeners[c], i) \in Seq(Callbacks)
      BY <3>1, Removed
    <3> DEFINE at == {i \in 1..Len(listeners[c]) : listeners[c][i] = f}
    <3>3. at # {} => (CHOOSE i \in at : \A j \in at : j <= i) \in 1..Len(listeners[c])
      <4>1. Len(listeners[c]) \in Nat
        BY <3>1
      <4>2. ASSUME at # {}
            PROVE  (CHOOSE i \in at : \A j \in at : j <= i) \in at
        BY <4>1, <4>2, LastOf
      <4> QED
        BY <4>2
    <3> QED
      BY <3>1, <3>2, <3>3 DEF Off
  <2>3. listeners' \in [Channels -> Seq(Callbacks)]
    BY <1>3, <2>1, <2>2 DEF TypeOK, unsubscribe
  <2>4. subscriberCount' \in [Channels -> Nat]
    <3>1. subscriberCount[c] \in Nat
      BY <2>1 DEF TypeOK
    <3>2. subscriberCount' = [subscriberCount EXCEPT ![c] =
                                IF subscriberCount[c] > 1 THEN subscriberCount[c] - 1 ELSE 0]
      BY <1>3 DEF unsubscribe
    <3>3. (IF subscriberCount[c] > 1 THEN subscriberCount[c] - 1 ELSE 0) \in Nat
      BY <3>1
    <3> QED
      BY <3>2, <3>3 DEF TypeOK
  <2>5. Live' \subseteq Live /\ \A other \in Live' : subscriptions'[other] \in Subscription
    BY <1>3, Unsubscribed DEF TypeOK, unsubscribe
  <2> QED
    BY <1>3, <2>3, <2>4, <2>5 DEF TypeOK, unsubscribe, audit
<1>4. ASSUME NEW id \in Ids, punsubscribe(id)
      PROVE  TypeOK'
  <2> DEFINE p == subscriptions[id].pattern
             left == Splice(patternSubscriptions[p].ids, id)
  <2>1. p \in Patterns
    BY <1>4 DEF punsubscribe, IsPattern
  <2>2. left \in Seq(Ids)
    BY <2>1, Spliced DEF TypeOK, PatternsFiled, IncreasingIds
  <2>3. patternSubscriptions' \in [Patterns -> [since : 0..MaxId, ids : Seq(Ids)]]
    <3> DEFINE e == IF left = <<>> THEN NoEntry
                     ELSE [patternSubscriptions[p] EXCEPT !.ids = left]
    <3>1. patternSubscriptions' = [patternSubscriptions EXCEPT ![p] = e]
      BY <1>4 DEF punsubscribe
    <3>2. patternSubscriptions[p] \in [since : 0..MaxId, ids : Seq(Ids)]
      BY <2>1 DEF TypeOK
    <3>3. NoEntry \in [since : 0..MaxId, ids : Seq(Ids)]
      BY PubSubAssumption, EmptyArray DEF NoEntry
    <3>4. e \in [since : 0..MaxId, ids : Seq(Ids)]
      BY <2>2, <3>2, <3>3
    <3> HIDE DEF e
    <3> QED
      BY <2>1, <3>1, <3>4 DEF TypeOK
  <2>4. disturbed' \subseteq Patterns
    BY <1>4, <2>1 DEF TypeOK, punsubscribe
  <2>5. Live' \subseteq Live /\ \A other \in Live' : subscriptions'[other] \in Subscription
    BY <1>4, Unsubscribed DEF TypeOK, punsubscribe
  <2> QED
    BY <1>4, <2>3, <2>4, <2>5 DEF TypeOK, punsubscribe
<1>5. CASE destroy
  <2>1. Live' = {}
    BY <1>5 DEF destroy, Live
  <2>2. /\ listeners' \in [Channels -> Seq(Callbacks)]
        /\ patternSubscriptions' \in [Patterns -> [since : 0..MaxId, ids : Seq(Ids)]]
        /\ subscriberCount' \in [Channels -> Nat]
    BY <1>5, PubSubAssumption, EmptyArray DEF destroy, NoEntry
  <2>3. frame' \in Frames
    BY <1>5 DEF TypeOK, destroy, Frames, Idle
  <2> QED
    BY <1>5, <2>1, <2>2, <2>3 DEF TypeOK, destroy, audit
<1> QED
  BY <1>1, <1>2, <1>3, <1>4, <1>5
----------------------------------------------------------------------------
(* The arrays hold the live subscriptions *)

LEMMA InitFiled == Init => PatternsFiled /\ GivenOut
<1> SUFFICES ASSUME Init
             PROVE  PatternsFiled /\ GivenOut
  OBVIOUS
<1>1. \A p \in Patterns : OfChannel(p) = {} /\ patternSubscriptions[p] = NoEntry
  BY DEF Init, OfChannel, Live
<1>2. PatternsFiled
  BY <1>1, EmptyArray DEF PatternsFiled, NoEntry
<1> QED
  BY <1>1, <1>2 DEF Init, GivenOut, NoEntry, Idle

\* What the invariant says of one array.
LEMMA Filed ==
  ASSUME TypeOK, PatternsFiled, NEW p \in Patterns
  PROVE  /\ patternSubscriptions[p].ids \in Seq(Ids)
         /\ patternSubscriptions[p].since \in 0..MaxId
         /\ IncreasingIds(patternSubscriptions[p].ids)
         /\ \A i \in 1..Len(patternSubscriptions[p].ids) :
              /\ patternSubscriptions[p].ids[i] \in Live
              /\ patternSubscriptions[p].ids[i] \in Ids
              /\ patternSubscriptions[p].ids[i] < nextId
              /\ subscriptions[patternSubscriptions[p].ids[i]].pattern = p
<1> DEFINE ids == patternSubscriptions[p].ids
<1>1. ids \in Seq(Ids) /\ patternSubscriptions[p].since \in 0..MaxId
  BY DEF TypeOK
<1>2. IncreasingIds(ids)
  BY DEF PatternsFiled, IncreasingIds
<1>3. \A i \in 1..Len(ids) : ids[i] \in OfChannel(p)
  BY DEF PatternsFiled
<1>4. \A id \in Live : id < nextId
  BY DEF TypeOK
<1> QED
  BY <1>1, <1>2, <1>3, <1>4 DEF OfChannel

\* What the types say of a publish() that walks an array.
LEMMA Orphan ==
  ASSUME TypeOK, frame.stage = "pattern"
  PROVE  /\ frame \in [stage : {"pattern"}, channel : Channels, pattern : Patterns,
                       since : Ids, index : Nat \ {0}, orphan : Seq(Ids)]
         /\ frame.pattern \in Patterns /\ frame.since \in Ids
         /\ frame.since \in Nat /\ frame.since # 0 /\ frame.index \in Nat
         /\ frame.orphan \in Seq(Ids)
         /\ \A i \in 1..Len(frame.orphan) : frame.orphan[i] \in Nat
<1>1. frame \in [stage : {"pattern"}, channel : Channels, pattern : Patterns,
                 since : Ids, index : Nat \ {0}, orphan : Seq(Ids)]
  BY DEF TypeOK, Frames, Idle
<1>2. /\ frame.pattern \in Patterns /\ frame.since \in Ids
      /\ frame.index \in Nat /\ frame.orphan \in Seq(Ids)
  BY <1>1
<1>3. \A i \in 1..Len(frame.orphan) : frame.orphan[i] \in Ids
  BY <1>2
<1>4. \A id \in Ids : id \in Nat /\ id # 0
  BY PubSubAssumption DEF Ids
<1> QED
  BY <1>1, <1>2, <1>3, <1>4

\* publish() itself moves no subscription.
LEMMA PublishFiled ==
  ASSUME IInv,
         \/ \E c \in Channels : publish(c)
         \/ CallExact \/ CallNext \/ NextPattern \/ Return \/ CallbackThrows
  PROVE  PatternsFiled' /\ GivenOut'
<1>0. TypeOK /\ PatternsFiled /\ GivenOut
  BY DEF IInv
<1>1. UNCHANGED books
  BY DEF publish, CallExact, CallNext, NextPattern, Return, CallbackThrows
<1>2. /\ nextId' = nextId /\ Live' = Live
      /\ patternSubscriptions' = patternSubscriptions
  BY <1>1 DEF books, Live
<1>3. PatternsFiled'
  BY <1>0, <1>1 DEF PatternsFiled, books, OfChannel, Live
<1>4. ASSUME frame'.stage # "pattern"
      PROVE  GivenOut'
  BY <1>0, <1>2, <1>4 DEF GivenOut
<1>5. CASE CallNext
  <2>1. /\ frame.stage = "pattern" /\ frame' = [frame EXCEPT !.index = @ + 1]
        /\ frame \in [stage : {"pattern"}, channel : Channels, pattern : Patterns,
                      since : Ids, index : Nat \ {0}, orphan : Seq(Ids)]
    BY <1>0, <1>5 DEF TypeOK, CallNext, Frames, Idle
  <2>2. /\ frame'.since = frame.since /\ frame'.orphan = frame.orphan
        /\ frame'.pattern = frame.pattern
    BY <2>1
  <2>3. /\ frame.since < nextId
        /\ patternSubscriptions[frame.pattern].since = frame.since =>
             frame.orphan = <<>>
        /\ IncreasingIds(frame.orphan)
        /\ \A i \in 1..Len(frame.orphan) :
             frame.orphan[i] < nextId /\ frame.orphan[i] \notin Live
    BY <1>0, <2>1 DEF GivenOut
  <2>4. /\ frame'.since < nextId'
        /\ patternSubscriptions'[frame'.pattern].since = frame'.since =>
             frame'.orphan = <<>>
        /\ IncreasingIds(frame'.orphan)
        /\ \A i \in 1..Len(frame'.orphan) :
             frame'.orphan[i] < nextId' /\ frame'.orphan[i] \notin Live'
    BY <1>2, <2>2, <2>3
  <2>5. \A p \in Patterns : patternSubscriptions'[p].since < nextId'
    BY <1>0, <1>2 DEF GivenOut
  <2> QED
    BY <1>3, <2>4, <2>5 DEF GivenOut
<1>6. CASE NextPattern
  <2>1. PICK p \in Patterns :
          frame' = [stage |-> "pattern", channel |-> frame.channel,
                    pattern |-> p, since |-> patternSubscriptions[p].since,
                    index |-> 1, orphan |-> <<>>]
    BY <1>6 DEF NextPattern, Ahead
  <2>2. /\ frame'.since = patternSubscriptions[p].since /\ frame'.orphan = <<>>
        /\ frame'.pattern = p
    BY <2>1
  <2>3. IncreasingIds(<<>>) /\ \A i \in 1..Len(<<>>) : FALSE
    BY EmptyArray DEF IncreasingIds
  <2>4. \A q \in Patterns : patternSubscriptions'[q].since < nextId'
    BY <1>0, <1>2 DEF GivenOut
  <2>5. frame'.since < nextId'
    BY <1>2, <2>2, <2>4
  <2>6. /\ frame'.orphan = <<>> /\ IncreasingIds(frame'.orphan)
        /\ \A i \in 1..Len(frame'.orphan) : FALSE
    BY <2>2, <2>3
  <2> QED
    BY <1>3, <2>4, <2>5, <2>6 DEF GivenOut
<1>7. ASSUME \/ \E c \in Channels : publish(c)
             \/ CallExact \/ Return \/ CallbackThrows
      PROVE  frame'.stage # "pattern"
  <2>1. CASE \E c \in Channels : publish(c)
    BY <2>1 DEF publish
  <2>2. CASE CallExact
    BY <1>0, <2>2 DEF TypeOK, Frames, CallExact, Idle
  <2>3. CASE Return \/ CallbackThrows
    BY <2>3 DEF Return, CallbackThrows, Idle
  <2> QED
    BY <1>7, <2>1, <2>2, <2>3
<1> QED
  BY <1>3, <1>4, <1>5, <1>6, <1>7

\* A channel's own listeners are another matter.
LEMMA ChannelsFiled ==
  ASSUME IInv,
         \/ \E c \in Channels, f \in Callbacks : subscribe(c, f)
         \/ \E id \in Ids : unsubscribe(id)
  PROVE  PatternsFiled' /\ GivenOut'
<1>0. TypeOK /\ PatternsFiled /\ GivenOut
  BY DEF IInv
<1>1. ASSUME NEW c \in Channels, NEW f \in Callbacks, subscribe(c, f)
      PROVE  PatternsFiled' /\ GivenOut'
  <2>1. /\ nextId \in Ids /\ nextId \notin Live /\ Live' = Live \cup {nextId}
        /\ \A id \in Live' : subscriptions'[id] =
             IF id = nextId THEN [pattern |-> c, callback |-> f] ELSE subscriptions[id]
    BY <1>0, <1>1, Subscribed DEF subscribe
  <2>2. \A p \in Patterns : OfChannel(p)' = OfChannel(p)
    BY <2>1, PubSubAssumption DEF OfChannel
  <2>3. PatternsFiled'
    BY <1>0, <1>1, <2>2 DEF PatternsFiled, subscribe
  <2>4. nextId' = nextId + 1 /\ nextId \in Nat
    BY <1>1, <2>1, PubSubAssumption DEF subscribe, Ids
  <2>5. \A p \in Patterns : patternSubscriptions[p].since \in Int
    BY <1>0, Filed
  <2>6. frame.stage = "pattern" =>
          /\ frame.since \in Nat
          /\ \A i \in 1..Len(frame.orphan) : frame.orphan[i] \in Nat
    BY <1>0, Orphan
  <2> QED
    BY <1>0, <1>1, <2>1, <2>3, <2>4, <2>5, <2>6 DEF GivenOut, subscribe
<1>2. ASSUME NEW id \in Ids, unsubscribe(id)
      PROVE  PatternsFiled' /\ GivenOut'
  <2>1. /\ Live' = Live \ {id}
        /\ \A other \in Live' : subscriptions'[other] = subscriptions[other]
    BY <1>0, <1>2, Unsubscribed DEF unsubscribe
  <2>2. \A p \in Patterns : OfChannel(p)' = OfChannel(p)
    BY <1>2, <2>1 DEF OfChannel, unsubscribe, IsPattern
  <2>3. PatternsFiled'
    BY <1>0, <1>2, <2>2 DEF PatternsFiled, unsubscribe
  <2> QED
    BY <1>0, <1>2, <2>1, <2>3 DEF GivenOut, unsubscribe
<1> QED
  BY <1>1, <1>2

\* A new subscription goes to the end of its pattern's array.
LEMMA PsubscribeFiled ==
  ASSUME IInv, NEW p \in Patterns, NEW f \in Callbacks, psubscribe(p, f)
  PROVE  PatternsFiled' /\ GivenOut'
<1> DEFINE ids == patternSubscriptions[p].ids
           pushed == Append(ids, nextId)
           since == IF patternSubscriptions[p] = NoEntry THEN nextId
                    ELSE patternSubscriptions[p].since
<1>0. TypeOK /\ PatternsFiled /\ GivenOut
  BY DEF IInv
<1>1. /\ nextId \in Ids /\ nextId \notin Live /\ Live' = Live \cup {nextId}
      /\ \A id \in Live' : subscriptions'[id] =
           IF id = nextId THEN [pattern |-> p, callback |-> f] ELSE subscriptions[id]
  BY <1>0, Subscribed DEF psubscribe
<1>2. nextId' = nextId + 1 /\ nextId \in Nat \ {0}
  BY <1>1, PubSubAssumption DEF psubscribe, Ids
<1>3. /\ ids \in Seq(Ids) /\ IncreasingIds(ids)
      /\ \A i \in 1..Len(ids) : ids[i] < nextId /\ ids[i] \in Nat
  BY <1>0, Filed, PubSubAssumption DEF Ids
<1>4. /\ Len(pushed) = Len(ids) + 1 /\ Len(ids) \in Nat
      /\ \A i \in 1..Len(ids) : pushed[i] = ids[i]
      /\ pushed[Len(ids) + 1] = nextId
  BY <1>1, <1>3, Pushed
<1>5. /\ patternSubscriptions'[p].ids = pushed
      /\ patternSubscriptions'[p].since = since
      /\ \A q \in Patterns \ {p} : patternSubscriptions'[q] = patternSubscriptions[q]
  BY <1>0 DEF psubscribe, TypeOK
<1> HIDE DEF pushed
<1>6. {pushed[i] : i \in 1..Len(pushed)} = {ids[i] : i \in 1..Len(ids)} \cup {nextId}
  <2>1. \A i \in 1..Len(pushed) : i \in 1..Len(ids) \/ i = Len(ids) + 1
    BY <1>4
  <2>2. Len(ids) + 1 \in 1..Len(pushed) /\ \A i \in 1..Len(ids) : i \in 1..Len(pushed)
    BY <1>4
  <2> QED
    BY <1>4, <2>1, <2>2
<1>7. \A q \in Patterns : OfChannel(q)' =
        IF q = p THEN OfChannel(q) \cup {nextId} ELSE OfChannel(q)
  BY <1>1 DEF OfChannel
<1>8. \A i, j \in 1..Len(pushed) : i < j => pushed[i] < pushed[j]
  BY <1>3, <1>4 DEF IncreasingIds
<1>9. since # 0 /\ since < nextId' /\ since \in Nat
  <2>1. CASE patternSubscriptions[p] = NoEntry
    BY <1>2, <2>1
  <2>2. CASE patternSubscriptions[p] # NoEntry
    <3>1. patternSubscriptions[p] \in [since : 0..MaxId, ids : Seq(Ids)]
      BY <1>0 DEF TypeOK
    <3>2. patternSubscriptions[p].since # 0
      <4>1. SUFFICES ASSUME patternSubscriptions[p].since = 0
                     PROVE  FALSE
        OBVIOUS
      <4>2. patternSubscriptions[p].ids = <<>>
        BY <1>0, <4>1 DEF PatternsFiled
      <4> QED
        BY <2>2, <3>1, <4>1, <4>2 DEF NoEntry
    <3>3. patternSubscriptions[p].since < nextId /\ patternSubscriptions[p].since \in Nat
      BY <1>0, <3>1, PubSubAssumption DEF GivenOut
    <3> QED
      BY <1>2, <2>2, <3>2, <3>3
  <2> QED
    BY <2>1, <2>2
<1>10. pushed # <<>>
  BY <1>4
<1> HIDE DEF ids, since
<1>11. PatternsFiled'
  <2>1. SUFFICES ASSUME NEW q \in Patterns
                 PROVE  /\ {patternSubscriptions'[q].ids[i] :
                              i \in 1..Len(patternSubscriptions'[q].ids)} = OfChannel(q)'
                        /\ \A i, j \in 1..Len(patternSubscriptions'[q].ids) : i < j =>
                             patternSubscriptions'[q].ids[i] < patternSubscriptions'[q].ids[j]
                        /\ patternSubscriptions'[q].since = 0
                             <=> patternSubscriptions'[q].ids = <<>>
    BY DEF PatternsFiled
  <2>2. CASE q = p
    <3>1. {ids[i] : i \in 1..Len(ids)} = OfChannel(p)
      BY <1>0 DEF PatternsFiled, ids
    <3>2. {pushed[i] : i \in 1..Len(pushed)} = OfChannel(q)'
      BY <1>6, <1>7, <2>2, <3>1
    <3> QED
      BY <1>5, <1>8, <1>9, <1>10, <2>2, <3>2
  <2>3. CASE q # p
    BY <1>0, <1>5, <1>7, <2>3 DEF PatternsFiled
  <2> QED
    BY <2>2, <2>3
<1>12. GivenOut'
  <2>1. ASSUME NEW q \in Patterns
        PROVE  patternSubscriptions'[q].since < nextId'
    <3>1. patternSubscriptions[q].since < nextId /\ patternSubscriptions[q].since \in Int
      BY <1>0, Filed DEF GivenOut
    <3> QED
      BY <1>2, <1>5, <1>9, <3>1
  <2>2. ASSUME frame.stage = "pattern"
        PROVE  /\ frame.since < nextId'
               /\ patternSubscriptions'[frame.pattern].since = frame.since =>
                    frame.orphan = <<>>
               /\ IncreasingIds(frame.orphan)
               /\ \A i \in 1..Len(frame.orphan) :
                    frame.orphan[i] < nextId' /\ frame.orphan[i] \notin Live'
    <3>1. /\ frame.since \in Nat /\ frame.pattern \in Patterns
          /\ \A i \in 1..Len(frame.orphan) : frame.orphan[i] \in Nat
      BY <1>0, <2>2, Orphan
    <3>2. patternSubscriptions'[frame.pattern].since = frame.since =>
            patternSubscriptions[frame.pattern].since = frame.since
      BY <1>0, <1>2, <1>5, <2>2, <3>1 DEF GivenOut, since
    <3> QED
      BY <1>0, <1>1, <1>2, <2>2, <3>1, <3>2 DEF GivenOut
  <2>3. frame' = frame
    BY DEF psubscribe
  <2> QED
    BY <2>1, <2>2, <2>3 DEF GivenOut
<1> QED
  BY <1>11, <1>12

\* What punsubscribe() makes of the arrays.
LEMMA Punsubscribed ==
  ASSUME TypeOK, PatternsFiled, NEW id \in Ids, punsubscribe(id)
  PROVE  LET p    == subscriptions[id].pattern
             ids  == patternSubscriptions[p].ids
             left == Splice(ids, id)
         IN  /\ p \in Patterns /\ ids \in Seq(Ids) /\ left \in Seq(Ids)
             /\ IncreasingIds(ids) /\ IncreasingIds(left)
             /\ {left[j] : j \in 1..Len(left)} = {ids[j] : j \in 1..Len(ids)} \ {id}
             /\ \A j \in 1..Len(left) : \E m \in 1..Len(ids) : m >= j /\ ids[m] = left[j]
             /\ patternSubscriptions'[p].ids = left
             /\ patternSubscriptions'[p].since =
                  IF left = <<>> THEN 0 ELSE patternSubscriptions[p].since
             /\ ids # <<>>
             /\ \A q \in Patterns \ {p} :
                  patternSubscriptions'[q] = patternSubscriptions[q]
<1> DEFINE p    == subscriptions[id].pattern
           ids  == patternSubscriptions[p].ids
           left == Splice(ids, id)
<1>1. p \in Patterns /\ id \in OfChannel(p)
  BY DEF punsubscribe, IsPattern, OfChannel
<1>2. ids \in Seq(Ids) /\ IncreasingIds(ids)
  BY <1>1, Filed
<1>3. /\ left \in Seq(Ids) /\ IncreasingIds(left)
      /\ {left[j] : j \in 1..Len(left)} = {ids[j] : j \in 1..Len(ids)} \ {id}
      /\ \A j \in 1..Len(left) : \E m \in 1..Len(ids) : m >= j /\ ids[m] = left[j]
  BY <1>2, Spliced
<1>4. ids # <<>>
  <2>1. PICK i \in 1..Len(ids) : ids[i] = id
    BY <1>1 DEF PatternsFiled
  <2> QED
    BY <2>1, EmptyArray
<1>5. /\ patternSubscriptions'[p] =
           IF left = <<>> THEN NoEntry ELSE [patternSubscriptions[p] EXCEPT !.ids = left]
      /\ \A q \in Patterns \ {p} : patternSubscriptions'[q] = patternSubscriptions[q]
  BY <1>1 DEF TypeOK, punsubscribe
<1>6. patternSubscriptions[p] \in [since : 0..MaxId, ids : Seq(Ids)]
  BY <1>1 DEF TypeOK
<1> HIDE DEF left
<1>7. /\ patternSubscriptions'[p].ids = left
      /\ patternSubscriptions'[p].since =
           IF left = <<>> THEN 0 ELSE patternSubscriptions[p].since
  BY <1>5, <1>6 DEF NoEntry
<1> QED
  BY <1>1, <1>2, <1>3, <1>4, <1>5, <1>7 DEF left

LEMMA PunsubscribeFiled ==
  ASSUME IInv, NEW id \in Ids, punsubscribe(id)
  PROVE  PatternsFiled' /\ GivenOut'
<1> DEFINE p    == subscriptions[id].pattern
           ids  == patternSubscriptions[p].ids
           left == Splice(ids, id)
<1>0. TypeOK /\ PatternsFiled /\ GivenOut
  BY DEF IInv
<1>1. /\ p \in Patterns /\ ids \in Seq(Ids) /\ left \in Seq(Ids)
      /\ IncreasingIds(left)
      /\ {left[j] : j \in 1..Len(left)} = {ids[j] : j \in 1..Len(ids)} \ {id}
      /\ patternSubscriptions'[p].ids = left
      /\ patternSubscriptions'[p].since =
           IF left = <<>> THEN 0 ELSE patternSubscriptions[p].since
      /\ ids # <<>>
      /\ \A q \in Patterns \ {p} : patternSubscriptions'[q] = patternSubscriptions[q]
  BY <1>0, Punsubscribed
<1>2. Live' = Live \ {id} /\ \A x \in Live' : subscriptions'[x] = subscriptions[x]
  BY <1>0, Unsubscribed DEF punsubscribe
<1>3. \A q \in Patterns : OfChannel(q)' = IF q = p THEN OfChannel(q) \ {id} ELSE OfChannel(q)
  BY <1>2 DEF OfChannel
<1> HIDE DEF p, ids, left
<1>4. PatternsFiled'
  <2>1. SUFFICES ASSUME NEW q \in Patterns
                 PROVE  /\ {patternSubscriptions'[q].ids[i] :
                              i \in 1..Len(patternSubscriptions'[q].ids)} = OfChannel(q)'
                        /\ \A i, j \in 1..Len(patternSubscriptions'[q].ids) : i < j =>
                             patternSubscriptions'[q].ids[i] < patternSubscriptions'[q].ids[j]
                        /\ patternSubscriptions'[q].since = 0
                             <=> patternSubscriptions'[q].ids = <<>>
    BY DEF PatternsFiled
  <2>2. CASE q = p
    <3>1. {ids[i] : i \in 1..Len(ids)} = OfChannel(p)
      BY <1>0, <1>1 DEF PatternsFiled, ids
    <3>2. {left[i] : i \in 1..Len(left)} = OfChannel(q)'
      BY <1>1, <1>3, <2>2, <3>1
    <3>3. patternSubscriptions[p].since # 0
      BY <1>0, <1>1 DEF PatternsFiled, ids
    <3> QED
      BY <1>1, <2>2, <3>2, <3>3 DEF IncreasingIds
  <2>3. CASE q # p
    BY <1>0, <1>1, <1>3, <2>3 DEF PatternsFiled
  <2> QED
    BY <2>2, <2>3
<1>5. GivenOut'
  <2>1. frame' = frame /\ nextId' = nextId
    BY DEF punsubscribe
  <2>2. 0 < nextId
    BY <1>0 DEF TypeOK
  <2>3. \A q \in Patterns : patternSubscriptions'[q].since < nextId'
    BY <1>0, <1>1, <2>1, <2>2 DEF GivenOut
  <2>4. ASSUME frame.stage = "pattern",
               patternSubscriptions'[frame.pattern].since = frame.since
        PROVE  frame.orphan = <<>>
    BY <1>0, <1>1, <2>4, Orphan DEF GivenOut
  <2> QED
    BY <1>0, <1>2, <2>1, <2>3, <2>4 DEF GivenOut
<1> QED
  BY <1>4, <1>5

\* destroy() takes a walked array out of the Map, with its ids no longer live.
LEMMA DestroyFiled ==
  ASSUME IInv, destroy
  PROVE  PatternsFiled' /\ GivenOut'
<1>0. TypeOK /\ PatternsFiled /\ GivenOut
  BY DEF IInv
<1>1. /\ Live' = {} /\ nextId' = nextId
      /\ \A p \in Patterns : patternSubscriptions'[p] = NoEntry
  BY DEF destroy, Live
<1>2. PatternsFiled'
  BY <1>1, EmptyArray DEF PatternsFiled, OfChannel, NoEntry
<1>3. \A p \in Patterns : patternSubscriptions'[p].since = 0
  BY <1>1 DEF NoEntry
<1>4. \A p \in Patterns : patternSubscriptions'[p].since < nextId'
  BY <1>0, <1>1, <1>3 DEF TypeOK
<1>5. ASSUME frame'.stage = "pattern"
      PROVE  /\ frame'.since < nextId'
             /\ frame'.pattern \in Patterns /\ frame'.since # 0
             /\ IncreasingIds(frame'.orphan)
             /\ \A i \in 1..Len(frame'.orphan) : frame'.orphan[i] < nextId'
  <2>1. frame.stage = "pattern"
    BY <1>0, <1>5 DEF destroy, TypeOK, Frames, Idle
  <2>2. /\ frame \in [stage : {"pattern"}, channel : Channels, pattern : Patterns,
                      since : Ids, index : Nat \ {0}, orphan : Seq(Ids)]
        /\ frame.pattern \in Patterns /\ frame.since # 0
    BY <1>0, <2>1, Orphan
  <2> DEFINE ids == patternSubscriptions[frame.pattern].ids
  <2>3. CASE patternSubscriptions[frame.pattern].since = frame.since
    <3>1. frame' = [frame EXCEPT !.orphan = ids]
      BY <2>1, <2>3 DEF destroy
    <3>2. /\ frame'.since = frame.since /\ frame'.orphan = ids
          /\ frame'.pattern = frame.pattern
      BY <2>2, <3>1
    <3>3. IncreasingIds(ids) /\ \A i \in 1..Len(ids) : ids[i] < nextId
      BY <1>0, <2>2, Filed
    <3> QED
      BY <1>0, <1>1, <2>1, <2>2, <3>2, <3>3 DEF GivenOut
  <2>4. CASE patternSubscriptions[frame.pattern].since # frame.since
    <3>1. frame' = frame
      BY <2>4 DEF destroy
    <3> QED
      BY <1>0, <1>1, <2>1, <2>2, <3>1 DEF GivenOut
  <2> QED
    BY <2>3, <2>4
<1>6. GivenOut'
  BY <1>1, <1>3, <1>4, <1>5 DEF GivenOut
<1> QED
  BY <1>2, <1>6

\* The state is always well-typed, the arrays hold the live subscriptions.
LEMMA Inductive == IInv /\ [Next]_vars => IInv'
<1> SUFFICES ASSUME IInv, [Next]_vars
             PROVE  IInv'
  OBVIOUS
<1>0. TypeOK /\ PatternsFiled
  BY DEF IInv
<1>1. CASE \/ \E c \in Channels : publish(c)
           \/ CallExact \/ CallNext \/ NextPattern \/ Return \/ CallbackThrows
  BY <1>0, <1>1, PublishTypes, PublishFiled DEF IInv
<1>2. CASE \/ \E c \in Channels, f \in Callbacks : subscribe(c, f)
           \/ \E p \in Patterns, f \in Callbacks : psubscribe(p, f)
           \/ \E id \in Ids : unsubscribe(id) \/ punsubscribe(id)
           \/ destroy
  <2>1. TypeOK'
    BY <1>0, <1>2, ApplicationTypes
  <2>2. PatternsFiled' /\ GivenOut'
    BY <1>2, ChannelsFiled, PsubscribeFiled, PunsubscribeFiled, DestroyFiled
  <2> QED
    BY <2>1, <2>2 DEF IInv
<1>3. CASE UNCHANGED vars
  <2>1. TypeOK'
    BY <1>0, <1>3 DEF TypeOK, Live, vars, books, audit
  <2>2. PatternsFiled'
    BY <1>0, <1>3 DEF PatternsFiled, OfChannel, Live, vars, books
  <2>3. GivenOut'
    BY <1>3 DEF IInv, GivenOut, Live, vars, books
  <2> QED
    BY <2>1, <2>2, <2>3 DEF IInv
<1> QED
  BY <1>1, <1>2, <1>3 DEF Next

LEMMA Invariance == Spec => []IInv
<1>1. Init => IInv
  BY InitTypes, InitFiled DEF IInv
<1> QED
  BY <1>1, Inductive, PTL DEF Spec

\* The Maps, the listeners and the frame of publish() stay what they are.
THEOREM TypeCorrect == Spec => []TypeOK
<1>1. IInv => TypeOK
  BY DEF IInv
<1> QED
  BY <1>1, Invariance, PTL

\* Whatever subscribes, leaves, is destroyed or throws in the midst of a
\* publish(), a pattern's array holds its live subscriptions, in the order in
\* which they came, and nothing else.
THEOREM ArraysHoldTheLive == Spec => []PatternsFiled
<1>1. IInv => PatternsFiled
  BY DEF IInv
<1> QED
  BY <1>1, Invariance, PTL
----------------------------------------------------------------------------
(* The books of the channels *)

\* Where a callback stands among the listeners, and who subscribed it.
PlacesOf(q, f) == {i \in 1..Len(q) : q[i] = f}
OfCallback(c, f) == {id \in OfChannel(c) : subscriptions[id].callback = f}

LEMMA PlacesAreFinite ==
  ASSUME NEW S, NEW q \in Seq(S), NEW f
  PROVE  /\ IsFiniteSet(PlacesOf(q, f)) /\ Cardinality(PlacesOf(q, f)) \in Nat
         /\ PlacesOf(q, f) = {} <=> Cardinality(PlacesOf(q, f)) = 0
<1>1. Len(q) \in Nat /\ PlacesOf(q, f) \subseteq 1..Len(q)
  BY DEF PlacesOf
<1>2. IsFiniteSet(1..Len(q))
  BY <1>1, OneUpTo
<1>3. IsFiniteSet(PlacesOf(q, f))
  BY <1>1, <1>2, FS_Subset
<1> QED
  BY <1>3, FS_CardinalityType, FS_EmptySet

LEMMA LiveAreFinite ==
  ASSUME TypeOK, NEW c, NEW f
  PROVE  /\ IsFiniteSet(OfChannel(c)) /\ Cardinality(OfChannel(c)) \in Nat
         /\ IsFiniteSet(OfCallback(c, f)) /\ Cardinality(OfCallback(c, f)) \in Nat
<1>1. nextId - 1 \in Nat /\ Live \subseteq 1..(nextId - 1)
  BY PubSubAssumption DEF TypeOK
<1>2. IsFiniteSet(1..(nextId - 1))
  BY <1>1, OneUpTo
<1>3. OfChannel(c) \subseteq 1..(nextId - 1) /\ OfCallback(c, f) \subseteq 1..(nextId - 1)
  BY <1>1 DEF OfChannel, OfCallback
<1>4. IsFiniteSet(OfChannel(c)) /\ IsFiniteSet(OfCallback(c, f))
  BY <1>2, <1>3, FS_Subset
<1> QED
  BY <1>4, FS_CardinalityType

\* A push adds one place of one callback.
LEMMA PlacesPushed ==
  ASSUME NEW S, NEW q \in Seq(S), NEW m \in S, NEW f
  PROVE  Cardinality(PlacesOf(Append(q, m), f)) =
           IF f = m THEN Cardinality(PlacesOf(q, f)) + 1 ELSE Cardinality(PlacesOf(q, f))
<1> DEFINE r == Append(q, m)
           n == Len(q) + 1
<1>1. /\ Len(r) = n /\ Len(q) \in Nat /\ r[n] = m
      /\ \A i \in 1..Len(q) : r[i] = q[i]
  BY Pushed
<1> HIDE DEF r
<1>2. \A i \in 1..n : i = n \/ i \in 1..Len(q)
  BY <1>1
<1>3. n \in 1..n /\ n \notin 1..Len(q) /\ \A i \in 1..Len(q) : i \in 1..n
  BY <1>1
<1>4. CASE f = m
  <2>1. PlacesOf(r, f) = PlacesOf(q, f) \cup {n} /\ n \notin PlacesOf(q, f)
    BY <1>1, <1>2, <1>3, <1>4 DEF PlacesOf
  <2>2. Cardinality(PlacesOf(q, f) \cup {n}) = Cardinality(PlacesOf(q, f)) + 1
    BY <2>1, PlacesAreFinite, FS_AddElement
  <2> QED
    BY <1>4, <2>1, <2>2 DEF r
<1>5. CASE f # m
  <2>1. PlacesOf(r, f) = PlacesOf(q, f)
    BY <1>1, <1>2, <1>3, <1>5 DEF PlacesOf
  <2> QED
    BY <1>5, <2>1 DEF r
<1> QED
  BY <1>4, <1>5

\* Taking out a place takes one from its own callback and moves the others.
LEMMA PlacesRemoved ==
  ASSUME NEW S, NEW q \in Seq(S), NEW i \in 1..Len(q), NEW f
  PROVE  Cardinality(PlacesOf(Remove(q, i), f)) =
           IF f = q[i] THEN Cardinality(PlacesOf(q, f)) - 1 ELSE Cardinality(PlacesOf(q, f))
<1> DEFINE r == Remove(q, i)
           A == PlacesOf(r, f)
           B == PlacesOf(q, f) \ {i}
           g == [j \in A |-> IF j < i THEN j ELSE j + 1]
<1>1. /\ r \in Seq(S) /\ Len(r) = Len(q) - 1 /\ Len(q) \in Nat /\ i \in Nat
      /\ \A j \in 1..(Len(q) - 1) : r[j] = IF j < i THEN q[j] ELSE q[j + 1]
  <2>1. Len(q) \in Nat /\ i \in Nat
    OBVIOUS
  <2> QED
    BY <2>1, Removed
<1> HIDE DEF r
<1>2. ASSUME NEW j \in A
      PROVE  g[j] \in B
  <2>1. j \in 1..(Len(q) - 1) /\ r[j] = f
    BY <1>1 DEF PlacesOf
  <2>2. CASE j < i
    BY <1>1, <2>1, <2>2 DEF PlacesOf
  <2>3. CASE ~(j < i)
    <3>1. j + 1 \in 1..Len(q) /\ j + 1 # i
      BY <1>1, <2>1, <2>3
    <3> QED
      BY <1>1, <2>1, <2>3, <3>1 DEF PlacesOf
  <2> QED
    BY <2>2, <2>3
<1>3. ASSUME NEW j \in A, NEW k \in A, g[j] = g[k]
      PROVE  j = k
  <2>1. j \in Int /\ k \in Int
    BY <1>1 DEF PlacesOf
  <2>2. (IF j < i THEN j ELSE j + 1) = (IF k < i THEN k ELSE k + 1)
    BY <1>3
  <2> HIDE DEF A
  <2> QED
    BY <1>1, <2>1, <2>2
<1>4. ASSUME NEW y \in B
      PROVE  \E j \in A : g[j] = y
  <2>1. y \in 1..Len(q) /\ q[y] = f /\ y # i
    BY DEF PlacesOf
  <2>2. CASE y < i
    <3>1. y \in 1..(Len(q) - 1)
      BY <1>1, <2>1, <2>2
    <3>2. y \in A
      BY <1>1, <2>1, <2>2, <3>1 DEF PlacesOf
    <3> QED
      BY <2>2, <3>2
  <2>3. CASE i < y
    <3>1. y - 1 \in 1..(Len(q) - 1) /\ ~(y - 1 < i) /\ (y - 1) + 1 = y
      BY <1>1, <2>1, <2>3
    <3>2. y - 1 \in A
      BY <1>1, <2>1, <3>1 DEF PlacesOf
    <3>3. g[y - 1] = y
      BY <3>1, <3>2
    <3> QED
      BY <3>2, <3>3
  <2> QED
    BY <1>1, <2>1, <2>2, <2>3
<1>5. g \in Bijection(A, B)
  <2>1. g \in [A -> B]
    BY <1>2
  <2> HIDE DEF g, A, B
  <2> QED
    BY <1>3, <1>4, <2>1 DEF Bijection, Injection, Surjection, IsInjective
<1>6. ExistsBijection(A, B)
  BY <1>5 DEF ExistsBijection
<1>7. IsFiniteSet(A)
  BY <1>1, PlacesAreFinite
<1> HIDE DEF A
<1>8. Cardinality(B) = Cardinality(A)
  BY <1>6, <1>7, FS_Bijection
<1>9. IsFiniteSet(PlacesOf(q, f))
  BY PlacesAreFinite
<1>10. CASE f = q[i]
  <2>1. i \in PlacesOf(q, f)
    BY <1>10 DEF PlacesOf
  <2>2. Cardinality(B) = Cardinality(PlacesOf(q, f)) - 1
    BY <1>9, <2>1, FS_RemoveElement
  <2> QED
    BY <1>8, <1>10, <2>2 DEF A, r
<1>11. CASE f # q[i]
  <2>1. B = PlacesOf(q, f)
    BY <1>11 DEF PlacesOf
  <2> QED
    BY <1>8, <1>11, <2>1 DEF A, r
<1> QED
  BY <1>10, <1>11

\* off() takes out one place of a callback that is there, and no other's.
LEMMA PlacesOff ==
  ASSUME NEW S, NEW q \in Seq(S), NEW g, PlacesOf(q, g) # {}, NEW f
  PROVE  Cardinality(PlacesOf(Off(q, g), f)) =
           IF f = g THEN Cardinality(PlacesOf(q, f)) - 1 ELSE Cardinality(PlacesOf(q, f))
<1> DEFINE at == PlacesOf(q, g)
           i  == CHOOSE i \in at : \A j \in at : j <= i
<1>1. i \in at
  <2>1. Len(q) \in Nat /\ at \subseteq 1..Len(q) /\ at # {}
    BY DEF PlacesOf
  <2> HIDE DEF at
  <2> QED
    BY <2>1, LastOf
<1>2. Off(q, g) = Remove(q, i)
  BY DEF Off, PlacesOf
<1>3. i \in 1..Len(q) /\ q[i] = g
  BY <1>1 DEF PlacesOf
<1> HIDE DEF i
<1> QED
  BY <1>2, <1>3, PlacesRemoved

LEMMA SubscribeBalances ==
  ASSUME TypeOK, BooksBalance, NEW c \in Channels, NEW f \in Callbacks, subscribe(c, f)
  PROVE  BooksBalance'
<1>1. /\ nextId \notin Live /\ Live' = Live \cup {nextId}
      /\ \A id \in Live' : subscriptions'[id] =
           IF id = nextId THEN [pattern |-> c, callback |-> f] ELSE subscriptions[id]
  BY Subscribed DEF subscribe
<1>2. \A d \in Channels : /\ listeners'[d] = IF d = c THEN Append(listeners[d], f) ELSE listeners[d]
                          /\ subscriberCount'[d] =
                               IF d = c THEN subscriberCount[d] + 1 ELSE subscriberCount[d]
                          /\ listeners[d] \in Seq(Callbacks)
  BY DEF subscribe, TypeOK
<1>3. ASSUME NEW d \in Channels
      PROVE  subscriberCount'[d] = Cardinality(OfChannel(d)')
  <2>1. subscriberCount[d] = Cardinality(OfChannel(d))
    BY DEF BooksBalance
  <2>2. CASE d = c
    <3>1. OfChannel(d)' = OfChannel(d) \cup {nextId} /\ nextId \notin OfChannel(d)
      BY <1>1, <2>2 DEF OfChannel
    <3>2. Cardinality(OfChannel(d) \cup {nextId}) = Cardinality(OfChannel(d)) + 1
      BY <3>1, LiveAreFinite, FS_AddElement
    <3> QED
      BY <1>2, <2>1, <2>2, <3>1, <3>2
  <2>3. CASE d # c
    <3>1. OfChannel(d)' = OfChannel(d)
      BY <1>1, <2>3 DEF OfChannel
    <3> QED
      BY <1>2, <2>1, <2>3, <3>1
  <2> QED
    BY <2>2, <2>3
<1>4. ASSUME NEW d \in Channels, NEW g \in Callbacks
      PROVE  Cardinality(PlacesOf(listeners'[d], g)) = Cardinality(OfCallback(d, g)')
  <2>1. Cardinality(PlacesOf(listeners[d], g)) = Cardinality(OfCallback(d, g))
    BY DEF BooksBalance, PlacesOf, OfCallback
  <2>2. CASE d = c /\ g = f
    <3>1. OfCallback(d, g)' = OfCallback(d, g) \cup {nextId} /\ nextId \notin OfCallback(d, g)
      BY <1>1, <2>2 DEF OfCallback, OfChannel
    <3>2. Cardinality(OfCallback(d, g) \cup {nextId}) = Cardinality(OfCallback(d, g)) + 1
      BY <3>1, LiveAreFinite, FS_AddElement
    <3>3. Cardinality(PlacesOf(Append(listeners[d], f), g)) = Cardinality(PlacesOf(listeners[d], g)) + 1
      BY <1>2, <2>2, PlacesPushed
    <3> QED
      BY <1>2, <2>1, <2>2, <3>1, <3>2, <3>3
  <2>3. CASE ~(d = c /\ g = f)
    <3>1. OfCallback(d, g)' = OfCallback(d, g)
      BY <1>1, <2>3 DEF OfCallback, OfChannel
    <3>2. Cardinality(PlacesOf(listeners'[d], g)) = Cardinality(PlacesOf(listeners[d], g))
      <4>1. CASE d # c
        BY <1>2, <4>1
      <4>2. CASE d = c /\ g # f
        BY <1>2, <4>2, PlacesPushed
      <4> QED
        BY <2>3, <4>1, <4>2
    <3> QED
      BY <2>1, <3>1, <3>2
  <2> QED
    BY <2>2, <2>3
<1> QED
  BY <1>3, <1>4 DEF BooksBalance, PlacesOf, OfCallback

LEMMA UnsubscribeBalances ==
  ASSUME TypeOK, BooksBalance, NEW id \in Ids, unsubscribe(id)
  PROVE  BooksBalance'
<1> DEFINE c == subscriptions[id].pattern
           f == subscriptions[id].callback
<1>0. c \in Channels /\ f \in Callbacks /\ id \in Live
  BY DEF TypeOK, unsubscribe, Subscription, IsPattern
<1>1. Live' = Live \ {id} /\ \A x \in Live' : subscriptions'[x] = subscriptions[x]
  BY Unsubscribed DEF unsubscribe
<1>2. \A d \in Channels : /\ listeners'[d] = IF d = c THEN Off(listeners[d], f) ELSE listeners[d]
                          /\ subscriberCount'[d] =
                               IF d = c THEN IF subscriberCount[d] > 1 THEN subscriberCount[d] - 1 ELSE 0
                               ELSE subscriberCount[d]
                          /\ listeners[d] \in Seq(Callbacks)
  BY DEF unsubscribe, TypeOK
<1>3. id \in OfChannel(c) /\ id \in OfCallback(c, f)
  BY <1>0 DEF OfChannel, OfCallback
<1>4. \A d : /\ OfChannel(d)' = IF d = c THEN OfChannel(d) \ {id} ELSE OfChannel(d)
             /\ \A g : OfCallback(d, g)' = IF d = c /\ g = f THEN OfCallback(d, g) \ {id}
                                           ELSE OfCallback(d, g)
  BY <1>1 DEF OfChannel, OfCallback
<1> HIDE DEF c, f
<1>5. ASSUME NEW d \in Channels
      PROVE  subscriberCount'[d] = Cardinality(OfChannel(d)')
  <2>1. subscriberCount[d] = Cardinality(OfChannel(d))
    BY DEF BooksBalance
  <2>2. CASE d = c
    <3>1. /\ IsFiniteSet(OfChannel(d)) /\ Cardinality(OfChannel(d)) \in Nat
          /\ id \in OfChannel(d)
      BY <1>3, <2>2, LiveAreFinite
    <3>2. Cardinality(OfChannel(d)) # 0
      BY <3>1, FS_EmptySet
    <3>3. Cardinality(OfChannel(d) \ {id}) = Cardinality(OfChannel(d)) - 1
      BY <3>1, FS_RemoveElement
    <3>4. subscriberCount'[d] = subscriberCount[d] - 1
      BY <1>2, <2>1, <2>2, <3>1, <3>2
    <3> QED
      BY <1>4, <2>1, <2>2, <3>3, <3>4
  <2>3. CASE d # c
    BY <1>2, <1>4, <2>1, <2>3
  <2> QED
    BY <2>2, <2>3
<1>6. ASSUME NEW d \in Channels, NEW g \in Callbacks
      PROVE  Cardinality(PlacesOf(listeners'[d], g)) = Cardinality(OfCallback(d, g)')
  <2>1. /\ Cardinality(PlacesOf(listeners[d], g)) = Cardinality(OfCallback(d, g))
        /\ Cardinality(PlacesOf(listeners[c], f)) = Cardinality(OfCallback(c, f))
    BY <1>0 DEF BooksBalance, PlacesOf, OfCallback, c, f
  <2>2. PlacesOf(listeners[c], f) # {}
    <3>1. IsFiniteSet(OfCallback(c, f)) /\ OfCallback(c, f) # {}
      BY <1>3, LiveAreFinite
    <3>2. Cardinality(OfCallback(c, f)) # 0
      BY <3>1, FS_EmptySet
    <3> QED
      BY <2>1, <3>2, FS_EmptySet
  <2>3. CASE d = c /\ g = f
    <3>1. Cardinality(OfCallback(d, g) \ {id}) = Cardinality(OfCallback(d, g)) - 1
      BY <1>3, <2>3, LiveAreFinite, FS_RemoveElement
    <3>2. Cardinality(PlacesOf(Off(listeners[d], f), g)) = Cardinality(PlacesOf(listeners[d], g)) - 1
      BY <1>2, <2>2, <2>3, PlacesOff
    <3> QED
      BY <1>2, <1>4, <2>1, <2>3, <3>1, <3>2
  <2>4. CASE ~(d = c /\ g = f)
    <3>1. OfCallback(d, g)' = OfCallback(d, g)
      BY <1>4, <2>4
    <3>2. Cardinality(PlacesOf(listeners'[d], g)) = Cardinality(PlacesOf(listeners[d], g))
      <4>1. CASE d # c
        BY <1>2, <4>1
      <4>2. CASE d = c /\ g # f
        BY <1>2, <2>2, <4>2, PlacesOff
      <4> QED
        BY <2>4, <4>1, <4>2
    <3> QED
      BY <2>1, <3>1, <3>2
  <2> QED
    BY <2>3, <2>4
<1> QED
  BY <1>5, <1>6 DEF BooksBalance, PlacesOf, OfCallback

\* Nothing that happens to patterns touches a channel.
LEMMA OthersBalance ==
  ASSUME TypeOK, BooksBalance, UNCHANGED <<listeners, subscriberCount>>,
         \A c \in Channels : OfChannel(c)' = OfChannel(c),
         \A id \in Live \cap Live' : subscriptions'[id] = subscriptions[id]
  PROVE  BooksBalance'
<1>1. ASSUME NEW c \in Channels, NEW f \in Callbacks
      PROVE  OfCallback(c, f)' = OfCallback(c, f)
  <2>1. OfChannel(c)' = OfChannel(c)
    OBVIOUS
  <2>2. \A id \in OfChannel(c) : id \in Live /\ id \in Live'
    BY <2>1 DEF OfChannel
  <2>3. \A id \in OfChannel(c) : subscriptions'[id] = subscriptions[id]
    BY <2>2
  <2> QED
    BY <2>1, <2>3 DEF OfCallback
<1>2. /\ \A c \in Channels : subscriberCount'[c] = Cardinality(OfChannel(c)')
      /\ \A c \in Channels, f \in Callbacks :
           Cardinality(PlacesOf(listeners'[c], f)) = Cardinality(OfCallback(c, f)')
  BY <1>1 DEF BooksBalance, PlacesOf, OfCallback
<1> QED
  BY <1>2 DEF BooksBalance, PlacesOf, OfCallback

\* The emitter, its Map of counts and the Map of subscriptions never disagree:
\* what pubsubNumsub() and pubsubChannels() say is true after any sequence of
\* calls, one callback subscribed several times included.
THEOREM TheBooksBalance == Spec => []BooksBalance
<1>1. Init => BooksBalance
  <2> SUFFICES ASSUME Init
               PROVE  BooksBalance
    OBVIOUS
  <2>1. \A c \in Channels : /\ OfChannel(c) = {} /\ listeners[c] = <<>>
                            /\ subscriberCount[c] = 0
    BY DEF Init, OfChannel, Live
  <2>2. \A c \in Channels, f \in Callbacks :
          PlacesOf(listeners[c], f) = {} /\ OfCallback(c, f) = {}
    BY <2>1, EmptyArray DEF PlacesOf, OfCallback
  <2> QED
    BY <2>1, <2>2, FS_EmptySet DEF BooksBalance, PlacesOf, OfCallback
<1>2. ASSUME TypeOK, BooksBalance, [Next]_vars
      PROVE  BooksBalance'
  <2>1. ASSUME NEW c \in Channels, NEW f \in Callbacks, subscribe(c, f)
        PROVE  BooksBalance'
    BY <1>2, <2>1, SubscribeBalances
  <2>2. ASSUME NEW id \in Ids, unsubscribe(id)
        PROVE  BooksBalance'
    BY <1>2, <2>2, UnsubscribeBalances
  <2>3. ASSUME NEW p \in Patterns, NEW f \in Callbacks, psubscribe(p, f)
        PROVE  BooksBalance'
    <3>1. /\ nextId \notin Live /\ Live' = Live \cup {nextId}
          /\ \A id \in Live' : subscriptions'[id] =
               IF id = nextId THEN [pattern |-> p, callback |-> f] ELSE subscriptions[id]
      BY <1>2, <2>3, Subscribed DEF psubscribe
    <3>2. \A c \in Channels : OfChannel(c)' = OfChannel(c)
      BY <3>1, PubSubAssumption DEF OfChannel
    <3>3. UNCHANGED <<listeners, subscriberCount>>
      BY <2>3 DEF psubscribe
    <3>4. \A id \in Live \cap Live' : subscriptions'[id] = subscriptions[id]
      BY <3>1
    <3> QED
      BY <1>2, <3>2, <3>3, <3>4, OthersBalance
  <2>4. ASSUME NEW id \in Ids, punsubscribe(id)
        PROVE  BooksBalance'
    <3>1. Live' = Live \ {id} /\ \A x \in Live' : subscriptions'[x] = subscriptions[x]
      BY <1>2, <2>4, Unsubscribed DEF punsubscribe
    <3>2. subscriptions[id].pattern \notin Channels
      BY <2>4, PubSubAssumption DEF punsubscribe, IsPattern
    <3>3. \A c \in Channels : OfChannel(c)' = OfChannel(c)
      BY <3>1, <3>2 DEF OfChannel
    <3>4. UNCHANGED <<listeners, subscriberCount>>
      BY <2>4 DEF punsubscribe
    <3>5. \A x \in Live \cap Live' : subscriptions'[x] = subscriptions[x]
      BY <3>1
    <3> QED
      BY <1>2, <3>3, <3>4, <3>5, OthersBalance
  <2>5. CASE destroy
    <3>1. \A c \in Channels : /\ OfChannel(c)' = {} /\ listeners'[c] = <<>>
                              /\ subscriberCount'[c] = 0
      BY <2>5 DEF destroy, OfChannel, Live
    <3>2. \A c \in Channels, f \in Callbacks :
            PlacesOf(listeners'[c], f) = {} /\ OfCallback(c, f)' = {}
      BY <3>1, EmptyArray DEF PlacesOf, OfCallback
    <3> QED
      BY <3>1, <3>2, FS_EmptySet DEF BooksBalance, PlacesOf, OfCallback
  <2>6. ASSUME UNCHANGED books
        PROVE  BooksBalance'
    BY <1>2, <2>6 DEF BooksBalance, OfChannel, Live, books
  <2> QED
    BY <1>2, <2>1, <2>2, <2>3, <2>4, <2>5, <2>6
    DEF Next, vars, publish, CallExact, CallNext, NextPattern, Return, CallbackThrows
<1>3. IInv => TypeOK
  BY DEF IInv
<1> QED
  BY <1>1, <1>2, <1>3, Invariance, PTL DEF Spec
----------------------------------------------------------------------------
(* Who is told *)

\* The array that publish() walks: its ids are those of live subscriptions to
\* its pattern, or it is out of the Map and none of them is live.
LEMMA WalkedIds ==
  ASSUME IInv, frame.stage = "pattern"
  PROVE  /\ Walked \in Seq(Ids) /\ IncreasingIds(Walked)
         /\ \A i \in 1..Len(Walked) : Walked[i] \in Ids /\ Walked[i] < nextId
         /\ \/ /\ patternSubscriptions[frame.pattern].since = frame.since
               /\ Walked = patternSubscriptions[frame.pattern].ids
               /\ \A i \in 1..Len(Walked) :
                    /\ Walked[i] \in Live
                    /\ subscriptions[Walked[i]].pattern = frame.pattern
            \/ /\ patternSubscriptions[frame.pattern].since # frame.since
               /\ Walked = frame.orphan
               /\ \A i \in 1..Len(Walked) : Walked[i] \notin Live
<1>0. TypeOK /\ PatternsFiled /\ GivenOut
  BY DEF IInv
<1>1. frame.pattern \in Patterns /\ frame.orphan \in Seq(Ids)
  BY <1>0, Orphan
<1>2. CASE patternSubscriptions[frame.pattern].since = frame.since
  <2>1. Walked = patternSubscriptions[frame.pattern].ids
    BY <1>2 DEF Walked
  <2> QED
    BY <1>0, <1>1, <1>2, <2>1, Filed
<1>3. CASE patternSubscriptions[frame.pattern].since # frame.since
  <2>1. Walked = frame.orphan
    BY <1>3 DEF Walked
  <2>2. \A i \in 1..Len(frame.orphan) : frame.orphan[i] \in Ids
    BY <1>1
  <2> QED
    BY <1>0, <1>1, <1>3, <2>1, <2>2 DEF GivenOut
<1> QED
  BY <1>2, <1>3

\* Who is told next is in the array that publish() walks, ...
LEMMA CalledNext ==
  ASSUME IInv, CallNext
  PROVE  /\ frame.stage = "pattern" /\ frame.index + 1 \in 1..Len(Walked)
         /\ \A x \in Ids : told'[x] =
              IF x = Walked[frame.index + 1] THEN told[x] + 1 ELSE told[x]
<1>1. frame.stage = "pattern" /\ ~(frame.index >= Len(Walked))
  BY DEF CallNext, ArrayDone
<1>2. frame.index \in Nat /\ Walked \in Seq(Ids)
  BY <1>1, Orphan, WalkedIds DEF IInv
<1>3. Len(Walked) \in Nat
  BY <1>2
<1>4. frame.index + 1 \in 1..Len(Walked)
  BY <1>1, <1>2, <1>3
<1> QED
  BY <1>1, <1>4 DEF CallNext, Tell, IInv, TypeOK

\* ... or the first of an entry of the Map that it has still to come to.
LEMMA CalledFirst ==
  ASSUME IInv, NextPattern
  PROVE  \E p \in Ahead :
           /\ p \in Patterns /\ 1 \in 1..Len(patternSubscriptions[p].ids)
           /\ frame'.stage = "pattern" /\ frame'.pattern = p /\ frame'.index = 1
           /\ frame'.since = patternSubscriptions[p].since
           /\ \A x \in Ids : told'[x] =
                IF x = patternSubscriptions[p].ids[1] THEN told[x] + 1 ELSE told[x]
<1>1. PICK p \in Ahead :
        /\ frame' = [stage |-> "pattern", channel |-> frame.channel,
                     pattern |-> p, since |-> patternSubscriptions[p].since,
                     index |-> 1, orphan |-> <<>>]
        /\ Tell(patternSubscriptions[p].ids[1])
  BY DEF NextPattern
<1>2. p \in Patterns /\ patternSubscriptions[p].ids # <<>>
  BY DEF Ahead
<1>3. patternSubscriptions[p].ids \in Seq(Ids)
  BY <1>2, Filed DEF IInv
<1>4. 1 \in 1..Len(patternSubscriptions[p].ids)
  BY <1>2, <1>3
<1>5. /\ frame'.stage = "pattern" /\ frame'.pattern = p /\ frame'.index = 1
      /\ frame'.since = patternSubscriptions[p].since
  BY <1>1
<1>6. \A x \in Ids : told'[x] =
        IF x = patternSubscriptions[p].ids[1] THEN told[x] + 1 ELSE told[x]
  BY <1>1 DEF Tell, IInv, TypeOK
<1> QED
  BY <1>2, <1>4, <1>5, <1>6

\* Once punsubscribe() has returned the callback is not called any more, not
\* even by the publish() under way, unless destroy() took the array from it.
THEOREM QuietForever == Spec => QuietAfterPunsubscribe
<1> DEFINE Quiet == \A id \in Ids : told'[id] > told[id] =>
              id \in Live \/ (frame.stage = "pattern" /\ frame.orphan # <<>>)
<1>1. ASSUME IInv, [Next]_vars
      PROVE  [Quiet]_vars
  <2>0. TypeOK /\ PatternsFiled
    BY <1>1 DEF IInv
  <2>1. \A id \in Ids : told[id] \in Nat
    BY <2>0 DEF TypeOK
  <2>2. CASE CallNext
    <3>1. /\ frame.stage = "pattern" /\ frame.index + 1 \in 1..Len(Walked)
          /\ \A x \in Ids : told'[x] =
               IF x = Walked[frame.index + 1] THEN told[x] + 1 ELSE told[x]
      BY <1>1, <2>2, CalledNext
    <3>2. Walked[frame.index + 1] \in Live \/ Walked = frame.orphan
      BY <1>1, <3>1, WalkedIds
    <3>3. Walked # <<>>
      BY <3>1, EmptyArray
    <3> QED
      BY <2>1, <3>1, <3>2, <3>3
  <2>3. CASE NextPattern
    <3>1. PICK p \in Ahead :
            /\ p \in Patterns /\ 1 \in 1..Len(patternSubscriptions[p].ids)
            /\ \A x \in Ids : told'[x] =
                 IF x = patternSubscriptions[p].ids[1] THEN told[x] + 1 ELSE told[x]
      BY <1>1, <2>3, CalledFirst
    <3>2. patternSubscriptions[p].ids[1] \in Live
      BY <2>0, <3>1, Filed
    <3> QED
      BY <2>1, <3>1, <3>2
  <2>4. ASSUME NEW c \in Channels, publish(c)
        PROVE  Quiet
    BY <2>1, <2>4 DEF publish
  <2>5. ASSUME told' = told
        PROVE  Quiet
    BY <2>1, <2>5
  <2>6. \/ CallNext \/ NextPattern \/ told' = told
        \/ \E c \in Channels : publish(c)
    BY <1>1 DEF Next, vars, audit, subscribe, psubscribe, unsubscribe, punsubscribe,
                destroy, CallExact, Return, CallbackThrows
  <2> QED
    BY <2>2, <2>3, <2>4, <2>5, <2>6
<1>2. IInv /\ [Next]_vars => [Quiet]_vars
  BY <1>1
<1> QED
  BY <1>2, Invariance, PTL DEF Spec, QuietAfterPunsubscribe

\* A new subscription is untold, and an array only grows at its end.
LEMMA PsubscribeUntold ==
  ASSUME IInv, YetUntold, NEW p \in Patterns, NEW f \in Callbacks, psubscribe(p, f)
  PROVE  YetUntold'
<1> DEFINE ids == patternSubscriptions[p].ids
<1>0. TypeOK /\ PatternsFiled /\ GivenOut
  BY DEF IInv
<1>1. /\ nextId \in Ids /\ nextId \in Nat /\ nextId' = nextId + 1
      /\ frame' = frame /\ told' = told
  <2>1. nextId \in Ids
    BY <1>0, Subscribed DEF psubscribe
  <2>2. nextId' = nextId + 1 /\ frame' = frame /\ told' = told
    BY DEF psubscribe, audit
  <2> QED
    BY <2>1, <2>2, PubSubAssumption DEF Ids
<1>2. /\ patternSubscriptions'[p].ids = Append(ids, nextId)
      /\ patternSubscriptions'[p].since =
           IF patternSubscriptions[p] = NoEntry THEN nextId
           ELSE patternSubscriptions[p].since
      /\ \A q \in Patterns \ {p} : patternSubscriptions'[q] = patternSubscriptions[q]
  BY <1>0 DEF psubscribe, TypeOK
<1>3. /\ ids \in Seq(Ids) /\ Len(ids) \in Nat /\ Len(Append(ids, nextId)) = Len(ids) + 1
      /\ \A i \in 1..Len(Append(ids, nextId)) :
           \/ i \in 1..Len(ids) /\ Append(ids, nextId)[i] = ids[i]
           \/ Append(ids, nextId)[i] = nextId
  <2>1. ids \in Seq(Ids)
    BY <1>0, Filed
  <2>2. /\ Len(Append(ids, nextId)) = Len(ids) + 1 /\ Append(ids, nextId)[Len(ids) + 1] = nextId
        /\ \A i \in 1..Len(ids) : Append(ids, nextId)[i] = ids[i]
    BY <1>1, <2>1, Pushed
  <2>3. Len(ids) \in Nat
    BY <2>1
  <2> QED
    BY <2>1, <2>2, <2>3
<1> DEFINE pushed == Append(ids, nextId)
<1> HIDE DEF pushed
<1>4. /\ patternSubscriptions'[p].ids = pushed
      /\ \A i \in 1..Len(pushed) :
           (i \in 1..Len(ids) /\ pushed[i] = ids[i]) \/ pushed[i] = nextId
  BY <1>2, <1>3 DEF pushed
<1> HIDE DEF ids
<1>5. SUFFICES ASSUME frame.stage = "pattern"
               PROVE  /\ \A id \in Ids : id >= nextId' => told[id] = 0
                      /\ \A i \in 1..Len(Walked') : i > frame.index => told[Walked'[i]] = 0
                      /\ \A q \in Patterns : patternSubscriptions'[q].since > frame.since =>
                           \A i \in 1..Len(patternSubscriptions'[q].ids) :
                             told[patternSubscriptions'[q].ids[i]] = 0
  BY <1>1 DEF YetUntold
<1>6. /\ frame.since < nextId /\ frame.since \in Nat /\ frame.since # 0
      /\ frame.pattern \in Patterns
  BY <1>0, <1>5, Orphan DEF GivenOut
<1>7. \A id \in Ids : id \in Nat
  BY PubSubAssumption DEF Ids
<1>8. told[nextId] = 0
  BY <1>1, <1>5 DEF YetUntold
<1>9. \A id \in Ids : id >= nextId' => told[id] = 0
  BY <1>1, <1>5, <1>7 DEF YetUntold
<1>10. \A i \in 1..Len(Walked') : i > frame.index => told[Walked'[i]] = 0
  <2>1. CASE patternSubscriptions'[frame.pattern].since = frame.since
    <3>1. Walked' = patternSubscriptions'[frame.pattern].ids
      BY <1>1, <1>5, <2>1 DEF Walked
    <3>2. patternSubscriptions[frame.pattern].since = frame.since
      BY <1>1, <1>2, <1>6, <2>1
    <3>3. Walked = patternSubscriptions[frame.pattern].ids
      BY <1>5, <3>2 DEF Walked
    <3>4. \A i \in 1..Len(Walked) : i > frame.index => told[Walked[i]] = 0
      BY <1>5 DEF YetUntold
    <3>5. CASE frame.pattern = p
      BY <1>4, <1>8, <3>1, <3>3, <3>4, <3>5 DEF ids
    <3>6. CASE frame.pattern # p
      BY <1>2, <1>6, <3>1, <3>3, <3>4, <3>6
    <3> QED
      BY <3>5, <3>6
  <2>2. CASE patternSubscriptions'[frame.pattern].since # frame.since
    <3>1. Walked' = frame.orphan
      BY <1>1, <1>5, <2>2 DEF Walked
    <3>2. patternSubscriptions[frame.pattern].since # frame.since
      BY <1>2, <1>6, <2>2 DEF NoEntry
    <3>3. Walked = frame.orphan
      BY <1>5, <3>2 DEF Walked
    <3> QED
      BY <1>5, <3>1, <3>3 DEF YetUntold
  <2> QED
    BY <2>1, <2>2
<1>11. ASSUME NEW q \in Patterns, patternSubscriptions'[q].since > frame.since,
              NEW i \in 1..Len(patternSubscriptions'[q].ids)
       PROVE  told[patternSubscriptions'[q].ids[i]] = 0
  <2>1. CASE q # p
    BY <1>2, <1>5, <1>11, <2>1 DEF YetUntold
  <2>2. CASE q = p /\ patternSubscriptions[p] = NoEntry
    <3>1. ids = <<>>
      BY <2>2 DEF ids, NoEntry
    <3>2. Len(ids) = 0
      BY <3>1, EmptyArray
    <3> QED
      BY <1>4, <1>8, <2>2, <3>2
  <2>3. CASE q = p /\ patternSubscriptions[p] # NoEntry
    <3>1. patternSubscriptions[p].since > frame.since
      BY <1>2, <1>11, <2>3
    <3>2. \A j \in 1..Len(ids) : told[ids[j]] = 0
      BY <1>5, <3>1 DEF YetUntold, ids
    <3> QED
      BY <1>4, <1>8, <2>3, <3>2
  <2> QED
    BY <2>1, <2>2, <2>3
<1> QED
  BY <1>9, <1>10, <1>11

\* splice only moves ids down: nobody who was told gets ahead of the index.
LEMMA PunsubscribeUntold ==
  ASSUME IInv, YetUntold, NEW id \in Ids, punsubscribe(id)
  PROVE  YetUntold'
<1> DEFINE p    == subscriptions[id].pattern
           ids  == patternSubscriptions[p].ids
           left == Splice(ids, id)
<1>0. TypeOK /\ PatternsFiled /\ GivenOut
  BY DEF IInv
<1>1. /\ p \in Patterns /\ ids \in Seq(Ids) /\ left \in Seq(Ids)
      /\ \A j \in 1..Len(left) : \E m \in 1..Len(ids) : m >= j /\ ids[m] = left[j]
      /\ patternSubscriptions'[p].ids = left
      /\ patternSubscriptions'[p].since =
           IF left = <<>> THEN 0 ELSE patternSubscriptions[p].since
      /\ \A q \in Patterns \ {p} : patternSubscriptions'[q] = patternSubscriptions[q]
  BY <1>0, Punsubscribed
<1>2. frame' = frame /\ told' = told /\ nextId' = nextId
  BY DEF punsubscribe
<1> HIDE DEF p, ids, left
<1>3. SUFFICES ASSUME frame.stage = "pattern"
               PROVE  /\ \A i \in 1..Len(Walked') : i > frame.index => told[Walked'[i]] = 0
                      /\ \A q \in Patterns : patternSubscriptions'[q].since > frame.since =>
                           \A i \in 1..Len(patternSubscriptions'[q].ids) :
                             told[patternSubscriptions'[q].ids[i]] = 0
  BY <1>2 DEF YetUntold
<1>4. /\ frame.since \in Nat /\ frame.since # 0 /\ frame.pattern \in Patterns
      /\ frame.index \in Nat
  BY <1>0, <1>3, Orphan
<1>5. \A i \in 1..Len(Walked) : i > frame.index => told[Walked[i]] = 0
  BY <1>3 DEF YetUntold
<1>6. \A i \in 1..Len(Walked') : i > frame.index => told[Walked'[i]] = 0
  <2>1. CASE patternSubscriptions'[frame.pattern].since = frame.since
    <3>1. Walked' = patternSubscriptions'[frame.pattern].ids
      BY <1>2, <1>3, <2>1 DEF Walked
    <3>2. patternSubscriptions[frame.pattern].since = frame.since
      BY <1>1, <1>4, <2>1
    <3>3. Walked = patternSubscriptions[frame.pattern].ids
      BY <1>3, <3>2 DEF Walked
    <3>4. CASE frame.pattern = p
      <4> SUFFICES ASSUME NEW i \in 1..Len(left), i > frame.index
                   PROVE  told[left[i]] = 0
        BY <1>1, <3>1, <3>4
      <4>1. PICK m \in 1..Len(ids) : m >= i /\ ids[m] = left[i]
        BY <1>1
      <4>2. m > frame.index
        BY <1>4, <4>1
      <4> QED
        BY <1>5, <3>3, <3>4, <4>1, <4>2 DEF ids
    <3>5. CASE frame.pattern # p
      BY <1>1, <1>4, <1>5, <3>1, <3>3, <3>5
    <3> QED
      BY <3>4, <3>5
  <2>2. CASE patternSubscriptions'[frame.pattern].since # frame.since
    <3>1. Walked' = frame.orphan
      BY <1>2, <1>3, <2>2 DEF Walked
    <3>2. CASE patternSubscriptions[frame.pattern].since = frame.since
      <4>1. frame.orphan = <<>>
        BY <1>0, <1>3, <3>2 DEF GivenOut
      <4> QED
        BY <3>1, <4>1, EmptyArray
    <3>3. CASE patternSubscriptions[frame.pattern].since # frame.since
      <4>1. Walked = frame.orphan
        BY <1>3, <3>3 DEF Walked
      <4> QED
        BY <1>5, <3>1, <4>1
    <3> QED
      BY <3>2, <3>3
  <2> QED
    BY <2>1, <2>2
<1>7. ASSUME NEW q \in Patterns, patternSubscriptions'[q].since > frame.since,
             NEW i \in 1..Len(patternSubscriptions'[q].ids)
      PROVE  told[patternSubscriptions'[q].ids[i]] = 0
  <2>1. CASE q # p
    BY <1>1, <1>3, <1>7, <2>1 DEF YetUntold
  <2>2. CASE q = p
    <3>1. patternSubscriptions[p].since > frame.since
      BY <1>1, <1>4, <1>7, <2>2
    <3>2. \A j \in 1..Len(ids) : told[ids[j]] = 0
      BY <1>1, <1>3, <3>1 DEF YetUntold, ids
    <3> QED
      BY <1>1, <1>7, <2>2, <3>2
  <2> QED
    BY <2>1, <2>2
<1> QED
  BY <1>6, <1>7

\* destroy() leaves publish() the array that it walks, and no other.
LEMMA DestroyUntold ==
  ASSUME IInv, YetUntold, destroy
  PROVE  YetUntold'
<1>0. TypeOK /\ PatternsFiled /\ GivenOut
  BY DEF IInv
<1>1. /\ told' = told /\ nextId' = nextId
      /\ \A p \in Patterns : patternSubscriptions'[p].since = 0
  BY DEF destroy, audit, NoEntry
<1>2. CASE frame.stage # "pattern"
  <2>1. frame' = frame
    BY <1>2 DEF destroy
  <2> QED
    BY <1>1, <1>2, <2>1 DEF YetUntold
<1>3. CASE frame.stage = "pattern"
  <2>1. /\ frame \in [stage : {"pattern"}, channel : Channels, pattern : Patterns,
                      since : Ids, index : Nat \ {0}, orphan : Seq(Ids)]
        /\ frame.pattern \in Patterns /\ frame.since \in Nat /\ frame.since # 0
    BY <1>0, <1>3, Orphan
  <2>2. /\ frame'.stage = "pattern" /\ frame'.index = frame.index
        /\ frame'.since = frame.since /\ frame'.pattern = frame.pattern
        /\ frame'.orphan = Walked
    <3>1. CASE patternSubscriptions[frame.pattern].since = frame.since
      <4>1. frame' = [frame EXCEPT !.orphan = patternSubscriptions[frame.pattern].ids]
        BY <1>3, <3>1 DEF destroy
      <4>2. Walked = patternSubscriptions[frame.pattern].ids
        BY <1>3, <3>1 DEF Walked
      <4> QED
        BY <2>1, <4>1, <4>2
    <3>2. CASE patternSubscriptions[frame.pattern].since # frame.since
      <4>1. frame' = frame
        BY <3>2 DEF destroy
      <4>2. Walked = frame.orphan
        BY <1>3, <3>2 DEF Walked
      <4> QED
        BY <1>3, <4>1, <4>2
    <3> QED
      BY <3>1, <3>2
  <2>3. Walked' = Walked
    BY <1>1, <2>1, <2>2 DEF Walked
  <2>4. \A p \in Patterns : ~(patternSubscriptions'[p].since > frame'.since)
    BY <1>1, <2>1, <2>2
  <2> QED
    BY <1>1, <1>3, <2>2, <2>3, <2>4 DEF YetUntold
<1> QED
  BY <1>2, <1>3

\* publish() goes on: to the next place, which is further on in an increasing
\* array, or to an entry that none of the told belongs to.
LEMMA CallNextUntold ==
  ASSUME IInv, YetUntold, CallNext
  PROVE  YetUntold'
<1> DEFINE n == frame.index + 1
           id == Walked[n]
<1>0. TypeOK /\ PatternsFiled /\ GivenOut
  BY DEF IInv
<1>1. /\ frame.stage = "pattern" /\ n \in 1..Len(Walked)
      /\ \A x \in Ids : told'[x] = IF x = id THEN told[x] + 1 ELSE told[x]
  BY CalledNext
<1>2. /\ frame \in [stage : {"pattern"}, channel : Channels, pattern : Patterns,
                    since : Ids, index : Nat \ {0}, orphan : Seq(Ids)]
      /\ frame.index \in Nat /\ frame.since \in Nat /\ frame.pattern \in Patterns
  BY <1>0, <1>1, Orphan
<1>3. frame' = [frame EXCEPT !.index = @ + 1] /\ UNCHANGED books
  BY DEF CallNext
<1>4. /\ frame'.stage = "pattern" /\ frame'.index = n /\ frame'.since = frame.since
      /\ frame'.pattern = frame.pattern /\ frame'.orphan = frame.orphan
  BY <1>1, <1>2, <1>3
<1>5. /\ Walked' = Walked /\ nextId' = nextId
      /\ patternSubscriptions' = patternSubscriptions
  BY <1>1, <1>3, <1>4 DEF Walked, books
<1>6. /\ IncreasingIds(Walked)
      /\ \A i \in 1..Len(Walked) : Walked[i] \in Ids /\ Walked[i] < nextId
  BY <1>1, WalkedIds
<1>7. \A x \in Ids : x \in Nat
  BY PubSubAssumption DEF Ids
<1>8. nextId \in Nat
  BY <1>0, PubSubAssumption DEF TypeOK
<1>9. told[id] = 0 /\ id \in Ids /\ id < nextId
  BY <1>1, <1>2, <1>6 DEF YetUntold
<1> HIDE DEF id
<1>10. \A x \in Ids : told'[x] <= 1 /\ (x # id => told'[x] = told[x])
  BY <1>1, <1>9 DEF YetUntold
<1>11. \A x \in Ids : x >= nextId => told'[x] = 0
  BY <1>1, <1>7, <1>8, <1>9, <1>10 DEF YetUntold
<1>12. ASSUME NEW i \in 1..Len(Walked), i > n
       PROVE  told'[Walked[i]] = 0
  <2>1. id < Walked[i] /\ Walked[i] \in Ids
    BY <1>1, <1>6, <1>12 DEF IncreasingIds, id
  <2>2. Walked[i] # id
    BY <1>7, <1>9, <2>1
  <2>3. i > frame.index
    BY <1>2, <1>12
  <2>4. told[Walked[i]] = 0
    BY <1>1, <2>3 DEF YetUntold
  <2> QED
    BY <1>10, <2>1, <2>2, <2>4
<1>13. ASSUME NEW q \in Patterns, patternSubscriptions[q].since > frame.since,
              NEW i \in 1..Len(patternSubscriptions[q].ids)
       PROVE  told'[patternSubscriptions[q].ids[i]] = 0
  <2> DEFINE x == patternSubscriptions[q].ids[i]
  <2>1. x \in Live /\ x \in Ids /\ subscriptions[x].pattern = q
    BY <1>0, Filed
  <2>2. told[x] = 0
    BY <1>1, <1>13 DEF YetUntold
  <2>3. x # id
    <3>1. CASE /\ patternSubscriptions[frame.pattern].since = frame.since
               /\ subscriptions[id].pattern = frame.pattern
      <4>1. q # frame.pattern
        BY <1>2, <1>13, <3>1
      <4> QED
        BY <2>1, <3>1, <4>1
    <3>2. CASE id \notin Live
      BY <2>1, <3>2
    <3> QED
      BY <1>1, <3>1, <3>2, WalkedIds DEF id
  <2> QED
    BY <1>10, <2>1, <2>2, <2>3
<1>14. /\ \A i \in 1..Len(Walked') : i > frame'.index => told'[Walked'[i]] = 0
       /\ \A q \in Patterns : patternSubscriptions'[q].since > frame'.since =>
            \A i \in 1..Len(patternSubscriptions'[q].ids) :
              told'[patternSubscriptions'[q].ids[i]] = 0
  BY <1>4, <1>5, <1>12, <1>13
<1> QED
  BY <1>4, <1>5, <1>10, <1>11, <1>14 DEF YetUntold

LEMMA NextPatternUntold ==
  ASSUME IInv, YetUntold, NextPattern
  PROVE  YetUntold'
<1>0. TypeOK /\ PatternsFiled /\ GivenOut
  BY DEF IInv
<1>1. PICK p \in Ahead :
        /\ p \in Patterns /\ 1 \in 1..Len(patternSubscriptions[p].ids)
        /\ frame'.stage = "pattern" /\ frame'.pattern = p /\ frame'.index = 1
        /\ frame'.since = patternSubscriptions[p].since
        /\ \A x \in Ids : told'[x] =
             IF x = patternSubscriptions[p].ids[1] THEN told[x] + 1 ELSE told[x]
  BY CalledFirst
<1> DEFINE ids == patternSubscriptions[p].ids
           id  == ids[1]
<1>2. nextId' = nextId /\ patternSubscriptions' = patternSubscriptions
  BY DEF NextPattern, books
<1>3. Walked' = ids
  BY <1>1, <1>2 DEF Walked
<1>4. /\ ids \in Seq(Ids) /\ IncreasingIds(ids)
      /\ \A i \in 1..Len(ids) : /\ ids[i] \in Live /\ ids[i] \in Ids /\ ids[i] < nextId
                                /\ subscriptions[ids[i]].pattern = p
  BY <1>0, <1>1, Filed
<1>5. /\ \A q \in Patterns : patternSubscriptions[q].since \in Nat
      /\ \A x \in Ids : x \in Nat
      /\ nextId \in Nat
  BY <1>0, PubSubAssumption DEF TypeOK, Ids
<1>6. \/ frame.stage = "exact"
      \/ /\ frame.stage = "pattern" /\ frame.since \in Nat
         /\ patternSubscriptions[p].since > frame.since
  BY <1>0, <1>1, Orphan DEF NextPattern, Ahead, TypeOK, Frames
<1>7. /\ \A x \in Ids : x >= nextId => told[x] = 0
      /\ \A q \in Patterns :
           q = p \/ patternSubscriptions[q].since > patternSubscriptions[p].since =>
             \A i \in 1..Len(patternSubscriptions[q].ids) :
               told[patternSubscriptions[q].ids[i]] = 0
  <2>1. CASE frame.stage = "exact"
    <3>1. \A x \in Ids : told[x] = 0
      BY <2>1 DEF YetUntold
    <3>2. \A q \in Patterns : \A i \in 1..Len(patternSubscriptions[q].ids) :
            patternSubscriptions[q].ids[i] \in Ids
      BY <1>0, Filed
    <3> QED
      BY <3>1, <3>2
  <2>2. CASE /\ frame.stage = "pattern" /\ frame.since \in Nat
             /\ patternSubscriptions[p].since > frame.since
    <3>1. \A q \in Patterns :
            q = p \/ patternSubscriptions[q].since > patternSubscriptions[p].since =>
              patternSubscriptions[q].since > frame.since
      BY <1>1, <1>5, <2>2
    <3> QED
      BY <2>2, <3>1 DEF YetUntold
  <2> QED
    BY <1>6, <2>1, <2>2
<1>8. told[id] = 0 /\ id \in Ids /\ id < nextId
  BY <1>1, <1>4, <1>7
<1> HIDE DEF ids, id
<1>9. \A x \in Ids : told'[x] <= 1 /\ (x # id => told'[x] = told[x])
  BY <1>1, <1>8 DEF YetUntold, ids, id
<1>10. \A x \in Ids : x >= nextId => told'[x] = 0
  BY <1>5, <1>7, <1>8, <1>9
<1>11. ASSUME NEW i \in 1..Len(ids), i > 1
       PROVE  told'[ids[i]] = 0
  <2>1. id < ids[i] /\ ids[i] \in Ids
    BY <1>1, <1>4, <1>11 DEF IncreasingIds, ids, id
  <2>2. ids[i] # id
    BY <1>5, <1>8, <2>1
  <2> QED
    BY <1>1, <1>7, <1>9, <2>1, <2>2 DEF ids
<1>12. ASSUME NEW q \in Patterns,
              patternSubscriptions[q].since > patternSubscriptions[p].since,
              NEW i \in 1..Len(patternSubscriptions[q].ids)
       PROVE  told'[patternSubscriptions[q].ids[i]] = 0
  <2>1. /\ patternSubscriptions[q].ids[i] \in Ids
        /\ subscriptions[patternSubscriptions[q].ids[i]].pattern = q
    BY <1>0, Filed
  <2>2. q # p
    BY <1>1, <1>5, <1>12
  <2>3. subscriptions[id].pattern = p
    BY <1>1, <1>4 DEF ids, id
  <2> QED
    BY <1>7, <1>9, <1>12, <2>1, <2>2, <2>3
<1>13. /\ \A i \in 1..Len(Walked') : i > frame'.index => told'[Walked'[i]] = 0
       /\ \A q \in Patterns : patternSubscriptions'[q].since > frame'.since =>
            \A i \in 1..Len(patternSubscriptions'[q].ids) :
              told'[patternSubscriptions'[q].ids[i]] = 0
  BY <1>1, <1>2, <1>3, <1>11, <1>12
<1> QED
  BY <1>1, <1>2, <1>9, <1>10, <1>13 DEF YetUntold

LEMMA UntoldStay ==
  ASSUME IInv, YetUntold, [Next]_vars
  PROVE  YetUntold'
<1>0. TypeOK
  BY DEF IInv
<1>1. CASE CallNext \/ NextPattern
  BY <1>1, CallNextUntold, NextPatternUntold
<1>2. ASSUME NEW c \in Channels, publish(c)
      PROVE  YetUntold'
  BY <1>2 DEF publish, YetUntold
<1>3. CASE CallExact
  <2>1. frame'.stage = "exact" /\ frame.stage = "exact" /\ told' = told
    BY <1>0, <1>3 DEF CallExact, audit, TypeOK, Frames, Idle
  <2> QED
    BY <2>1 DEF YetUntold
<1>4. CASE Return \/ CallbackThrows
  <2>1. frame'.stage = "idle" /\ told' = told
    BY <1>4 DEF Return, CallbackThrows, audit, Idle
  <2> QED
    BY <2>1 DEF YetUntold
<1>5. ASSUME NEW c \in Channels, NEW f \in Callbacks, subscribe(c, f)
      PROVE  YetUntold'
  <2>1. /\ told' = told /\ frame' = frame /\ nextId' = nextId + 1
        /\ patternSubscriptions' = patternSubscriptions
    BY <1>5 DEF subscribe, audit
  <2>2. Walked' = Walked
    BY <2>1 DEF Walked
  <2>3. \A id \in Ids : id >= nextId' => id >= nextId
    BY <1>0, <2>1, PubSubAssumption DEF TypeOK, Ids
  <2> QED
    BY <2>1, <2>2, <2>3 DEF YetUntold
<1>6. ASSUME NEW id \in Ids, unsubscribe(id)
      PROVE  YetUntold'
  <2>1. /\ told' = told /\ frame' = frame /\ nextId' = nextId
        /\ patternSubscriptions' = patternSubscriptions
    BY <1>6 DEF unsubscribe, audit
  <2> QED
    BY <2>1 DEF YetUntold, Walked
<1>7. CASE \/ \E p \in Patterns, f \in Callbacks : psubscribe(p, f)
           \/ \E id \in Ids : punsubscribe(id)
           \/ destroy
  BY <1>7, PsubscribeUntold, PunsubscribeUntold, DestroyUntold
<1>8. CASE UNCHANGED vars
  BY <1>8 DEF YetUntold, Walked, vars, books, audit
<1> QED
  BY <1>1, <1>2, <1>3, <1>4, <1>5, <1>6, <1>7, <1>8 DEF Next

LEMMA Untold == Spec => []YetUntold
<1>1. Init => YetUntold
  BY DEF Init, YetUntold, Idle
<1>2. IInv /\ YetUntold /\ [Next]_vars => YetUntold'
  BY UntoldStay
<1> QED
  BY <1>1, <1>2, Invariance, PTL DEF Spec

\* However callbacks subscribe, leave and destroy, one publish() calls no
\* pattern subscription twice: not by an array that moves under it, nor by an
\* entry of the Map that goes and comes again.
THEOREM ToldOnce == Spec => []NobodyToldTwice
<1>1. YetUntold => NobodyToldTwice
  BY DEF YetUntold, NobodyToldTwice
<1> QED
  BY <1>1, Untold, PTL
----------------------------------------------------------------------------
(* Who is not missed *)

\* Those whom the publish() under way owes a call: there since it began, and
\* with a pattern that has lost nobody meanwhile.
Due ==
  {id \in witnesses \cap Live :
     /\ IsPattern(id)
     /\ <<subscriptions[id].pattern, frame.channel>> \in Matches
     /\ subscriptions[id].pattern \notin disturbed}

\* The loops come to this subscription yet: to its entry, or in its array.
ToCome(id) ==
  LET p == subscriptions[id].pattern
      e == patternSubscriptions[p]
  IN  \/ e.since > frame.since
      \/ /\ p = frame.pattern /\ e.since = frame.since
         /\ \E i \in 1..Len(e.ids) : i > frame.index /\ e.ids[i] = id

\* No two entries of the Map are of one age.
EntriesApart == \A p, q \in Patterns :
  patternSubscriptions[p].since = patternSubscriptions[q].since =>
    p = q \/ patternSubscriptions[p].since = 0

NobodyMissed ==
  /\ \A id \in witnesses : id < nextId
  /\ EntriesApart
  /\ frame.stage = "pattern" => \A id \in Due : ToCome(id) \/ told[id] = 1

LEMMA PlaceOfDue ==
  ASSUME TypeOK, PatternsFiled, NEW id \in Due
  PROVE  /\ id \in Ids /\ id \in Live /\ subscriptions[id].pattern \in Patterns
         /\ patternSubscriptions[subscriptions[id].pattern].ids \in Seq(Ids)
         /\ patternSubscriptions[subscriptions[id].pattern].ids # <<>>
         /\ patternSubscriptions[subscriptions[id].pattern].since \in Nat \ {0}
         /\ \E i \in 1..Len(patternSubscriptions[subscriptions[id].pattern].ids) :
              patternSubscriptions[subscriptions[id].pattern].ids[i] = id
         /\ <<subscriptions[id].pattern, frame.channel>> \in Matches
<1> DEFINE p   == subscriptions[id].pattern
           ids == patternSubscriptions[p].ids
<1>1. id \in Live /\ p \in Patterns /\ id \in OfChannel(p) /\ id \in Ids
  BY DEF Due, IsPattern, OfChannel, TypeOK
<1>2. ids \in Seq(Ids) /\ patternSubscriptions[p].since \in Nat
  BY <1>1, Filed, PubSubAssumption
<1>3. PICK i \in 1..Len(ids) : ids[i] = id
  BY <1>1 DEF PatternsFiled
<1>4. ids # <<>>
  BY <1>3, EmptyArray
<1>5. patternSubscriptions[p].since # 0
  BY <1>1, <1>4 DEF PatternsFiled
<1> QED
  BY <1>1, <1>2, <1>3, <1>4, <1>5 DEF Due

\* A new entry is younger than all others; one that goes leaves them as they are.
LEMMA EntriesStayApart ==
  ASSUME IInv, NobodyMissed, [Next]_vars
  PROVE  EntriesApart' /\ \A id \in witnesses' : id < nextId'
<1>0. TypeOK /\ PatternsFiled /\ GivenOut
  BY DEF IInv
<1>1. nextId \in Nat \ {0} /\ \A p \in Patterns : patternSubscriptions[p].since < nextId
  BY <1>0, PubSubAssumption DEF TypeOK, GivenOut
<1>2. EntriesApart'
  <2>1. ASSUME NEW p \in Patterns, NEW f \in Callbacks, psubscribe(p, f)
        PROVE  EntriesApart'
    <3>1. /\ patternSubscriptions'[p].since =
               IF patternSubscriptions[p] = NoEntry THEN nextId
               ELSE patternSubscriptions[p].since
          /\ \A q \in Patterns \ {p} : patternSubscriptions'[q] = patternSubscriptions[q]
      BY <1>0, <2>1 DEF psubscribe, TypeOK
    <3>2. \A q \in Patterns : patternSubscriptions[q].since # nextId
      BY <1>0, <1>1, Filed
    <3> QED
      BY <3>1, <3>2 DEF NobodyMissed, EntriesApart
  <2>2. ASSUME NEW id \in Ids, punsubscribe(id)
        PROVE  EntriesApart'
    <3> DEFINE p    == subscriptions[id].pattern
               left == Splice(patternSubscriptions[p].ids, id)
    <3>1. /\ p \in Patterns
          /\ patternSubscriptions'[p].since =
               IF left = <<>> THEN 0 ELSE patternSubscriptions[p].since
          /\ \A q \in Patterns \ {p} : patternSubscriptions'[q] = patternSubscriptions[q]
      BY <1>0, <2>2, Punsubscribed
    <3> HIDE DEF p, left
    <3> QED
      BY <3>1 DEF NobodyMissed, EntriesApart
  <2>3. CASE destroy
    BY <2>3 DEF destroy, EntriesApart, NoEntry
  <2>4. ASSUME patternSubscriptions' = patternSubscriptions
        PROVE  EntriesApart'
    BY <2>4 DEF NobodyMissed, EntriesApart
  <2>5. \/ \E p \in Patterns, f \in Callbacks : psubscribe(p, f)
        \/ \E id \in Ids : punsubscribe(id)
        \/ destroy \/ patternSubscriptions' = patternSubscriptions
    BY DEF Next, vars, books, subscribe, unsubscribe, publish, CallExact, CallNext,
           NextPattern, Return, CallbackThrows
  <2> QED
    BY <2>1, <2>2, <2>3, <2>4, <2>5
<1>3. witnesses' \subseteq witnesses \cup Live
  BY DEF Next, vars, audit, subscribe, unsubscribe, psubscribe, punsubscribe, destroy,
         publish, CallExact, CallNext, NextPattern, Return, CallbackThrows
<1>4. nextId' = nextId \/ nextId' = nextId + 1
  BY DEF Next, vars, books, subscribe, unsubscribe, psubscribe, punsubscribe, destroy,
         publish, CallExact, CallNext, NextPattern, Return, CallbackThrows
<1>5. \A id \in witnesses \cup Live : id \in Int /\ id < nextId
  <2>1. \A id \in Live : id \in Int /\ id < nextId
    BY <1>0, <1>1 DEF TypeOK
  <2>2. \A id \in witnesses : id \in Int /\ id < nextId
    BY <1>0, PubSubAssumption DEF NobodyMissed, TypeOK, Ids
  <2> QED
    BY <2>1, <2>2
<1> QED
  BY <1>1, <1>2, <1>3, <1>4, <1>5

\* What leaves the arrays of those who are due in place misses none of them.
LEMMA UndisturbedNotMissed ==
  ASSUME TypeOK, NobodyMissed, frame' = frame, told' = told,
         \A id \in Due' :
           /\ id \in Due /\ subscriptions'[id].pattern = subscriptions[id].pattern
           /\ patternSubscriptions'[subscriptions[id].pattern].since
                = patternSubscriptions[subscriptions[id].pattern].since
           /\ \A i \in 1..Len(patternSubscriptions[subscriptions[id].pattern].ids) :
                /\ i \in 1..Len(patternSubscriptions'[subscriptions[id].pattern].ids)
                /\ patternSubscriptions'[subscriptions[id].pattern].ids[i]
                     = patternSubscriptions[subscriptions[id].pattern].ids[i]
  PROVE  frame'.stage = "pattern" => \A id \in Due' : ToCome(id)' \/ told'[id] = 1
<1> SUFFICES ASSUME frame.stage = "pattern", NEW id \in Due', told[id] # 1
             PROVE  ToCome(id)'
  OBVIOUS
<1>1. ToCome(id)
  BY DEF NobodyMissed
<1> DEFINE p == subscriptions[id].pattern
           e == patternSubscriptions[p]
           d == patternSubscriptions'[p]
<1>2. /\ subscriptions'[id].pattern = p /\ d.since = e.since
      /\ \A i \in 1..Len(e.ids) : i \in 1..Len(d.ids) /\ d.ids[i] = e.ids[i]
  OBVIOUS
<1>3. \/ e.since > frame.since
      \/ /\ p = frame.pattern /\ e.since = frame.since
         /\ \E i \in 1..Len(e.ids) : i > frame.index /\ e.ids[i] = id
  BY <1>1 DEF ToCome
<1>4. \/ d.since > frame'.since
      \/ /\ p = frame'.pattern /\ d.since = frame'.since
         /\ \E i \in 1..Len(d.ids) : i > frame'.index /\ d.ids[i] = id
  <2> HIDE DEF p, e, d
  <2> QED
    BY <1>2, <1>3
<1> QED
  BY <1>2, <1>4 DEF ToCome

\* Subscribing appends, unsubscribing touches one pattern: a disturbed one.
LEMMA ApplicationMissesNobody ==
  ASSUME IInv, NobodyMissed,
         \/ \E c \in Channels, f \in Callbacks : subscribe(c, f)
         \/ \E p \in Patterns, f \in Callbacks : psubscribe(p, f)
         \/ \E id \in Ids : unsubscribe(id) \/ punsubscribe(id)
         \/ destroy
  PROVE  frame'.stage = "pattern" => \A id \in Due' : ToCome(id)' \/ told'[id] = 1
<1>0. TypeOK /\ PatternsFiled /\ GivenOut
  BY DEF IInv
<1>1. \A id \in witnesses : id # nextId
  <2>1. nextId \in Int
    BY <1>0, PubSubAssumption DEF TypeOK
  <2> QED
    BY <2>1 DEF NobodyMissed
<1>2. ASSUME NEW c \in Channels, NEW f \in Callbacks, subscribe(c, f)
      PROVE  frame'.stage = "pattern" => \A id \in Due' : ToCome(id)' \/ told'[id] = 1
  <2>1. /\ Live' = Live \cup {nextId}
        /\ \A id \in Live' : id # nextId => subscriptions'[id] = subscriptions[id]
    BY <1>0, <1>2, Subscribed DEF subscribe
  <2>2. /\ frame' = frame /\ told' = told /\ witnesses' = witnesses
        /\ disturbed' = disturbed /\ patternSubscriptions' = patternSubscriptions
    BY <1>2 DEF subscribe, audit
  <2>3. ASSUME NEW id \in Due'
        PROVE  id \in Due /\ subscriptions'[id] = subscriptions[id]
    BY <1>1, <2>1, <2>2 DEF Due, IsPattern
  <2> QED
    BY <1>0, <2>2, <2>3, UndisturbedNotMissed
<1>3. ASSUME NEW p \in Patterns, NEW f \in Callbacks, psubscribe(p, f)
      PROVE  frame'.stage = "pattern" => \A id \in Due' : ToCome(id)' \/ told'[id] = 1
  <2>1. /\ Live' = Live \cup {nextId} /\ nextId \in Ids
        /\ \A id \in Live' : id # nextId => subscriptions'[id] = subscriptions[id]
    BY <1>0, <1>3, Subscribed DEF psubscribe
  <2>2. /\ frame' = frame /\ told' = told /\ witnesses' = witnesses
        /\ disturbed' = disturbed
    BY <1>3 DEF psubscribe, audit
  <2> DEFINE ids == patternSubscriptions[p].ids
  <2>3. /\ patternSubscriptions'[p].ids = Append(ids, nextId)
        /\ patternSubscriptions'[p].since =
             IF patternSubscriptions[p] = NoEntry THEN nextId
             ELSE patternSubscriptions[p].since
        /\ \A q \in Patterns \ {p} : patternSubscriptions'[q] = patternSubscriptions[q]
    BY <1>0, <1>3 DEF psubscribe, TypeOK
  <2>4. \A i \in 1..Len(ids) : i \in 1..Len(Append(ids, nextId)) /\ Append(ids, nextId)[i] = ids[i]
    <3>1. ids \in Seq(Ids)
      BY <1>0, Filed
    <3>2. Len(ids) \in Nat /\ Len(Append(ids, nextId)) = Len(ids) + 1
      BY <2>1, <3>1, Pushed
    <3> QED
      BY <2>1, <3>1, <3>2, Pushed
  <2>5. ASSUME NEW id \in Due'
        PROVE  /\ id \in Due /\ subscriptions'[id].pattern = subscriptions[id].pattern
               /\ patternSubscriptions'[subscriptions[id].pattern].since
                    = patternSubscriptions[subscriptions[id].pattern].since
               /\ \A i \in 1..Len(patternSubscriptions[subscriptions[id].pattern].ids) :
                    /\ i \in 1..Len(patternSubscriptions'[subscriptions[id].pattern].ids)
                    /\ patternSubscriptions'[subscriptions[id].pattern].ids[i]
                         = patternSubscriptions[subscriptions[id].pattern].ids[i]
    <3>1. id \in Due /\ subscriptions'[id] = subscriptions[id]
      BY <1>1, <2>1, <2>2 DEF Due, IsPattern
    <3>2. /\ subscriptions[id].pattern \in Patterns
          /\ patternSubscriptions[subscriptions[id].pattern].since # 0
      BY <1>0, <3>1, PlaceOfDue
    <3>3. CASE subscriptions[id].pattern = p
      <4>1. patternSubscriptions[p] # NoEntry
        BY <3>2, <3>3 DEF NoEntry
      <4> QED
        BY <2>3, <2>4, <3>1, <3>3, <4>1
    <3>4. CASE subscriptions[id].pattern # p
      BY <2>3, <3>1, <3>2, <3>4
    <3> QED
      BY <3>3, <3>4
  <2> QED
    BY <1>0, <2>2, <2>5, UndisturbedNotMissed
<1>4. ASSUME NEW x \in Ids, unsubscribe(x)
      PROVE  frame'.stage = "pattern" => \A id \in Due' : ToCome(id)' \/ told'[id] = 1
  <2>1. Live' = Live \ {x} /\ \A id \in Live' : subscriptions'[id] = subscriptions[id]
    BY <1>0, <1>4, Unsubscribed DEF unsubscribe
  <2>2. /\ frame' = frame /\ told' = told /\ witnesses' = witnesses
        /\ disturbed' = disturbed /\ patternSubscriptions' = patternSubscriptions
    BY <1>4 DEF unsubscribe, audit
  <2>3. ASSUME NEW id \in Due'
        PROVE  id \in Due /\ subscriptions'[id] = subscriptions[id]
    BY <2>1, <2>2 DEF Due, IsPattern
  <2> QED
    BY <1>0, <2>2, <2>3, UndisturbedNotMissed
<1>5. ASSUME NEW x \in Ids, punsubscribe(x)
      PROVE  frame'.stage = "pattern" => \A id \in Due' : ToCome(id)' \/ told'[id] = 1
  <2>1. Live' = Live \ {x} /\ \A id \in Live' : subscriptions'[id] = subscriptions[id]
    BY <1>0, <1>5, Unsubscribed DEF punsubscribe
  <2>2. /\ frame' = frame /\ told' = told /\ witnesses' = witnesses
        /\ disturbed' = disturbed \cup {subscriptions[x].pattern}
    BY <1>5 DEF punsubscribe
  <2>3. \A q \in Patterns : q # subscriptions[x].pattern =>
          patternSubscriptions'[q] = patternSubscriptions[q]
    BY <1>0, <1>5, Punsubscribed
  <2>4. ASSUME NEW id \in Due'
        PROVE  /\ id \in Due /\ subscriptions'[id] = subscriptions[id]
               /\ patternSubscriptions'[subscriptions[id].pattern]
                    = patternSubscriptions[subscriptions[id].pattern]
    <3>1. /\ id \in Due /\ subscriptions'[id] = subscriptions[id]
          /\ subscriptions[id].pattern # subscriptions[x].pattern
      BY <2>1, <2>2 DEF Due, IsPattern
    <3>2. subscriptions[id].pattern \in Patterns
      BY <3>1 DEF Due, IsPattern
    <3> QED
      BY <2>3, <3>1, <3>2
  <2> QED
    BY <1>0, <2>2, <2>4, UndisturbedNotMissed
<1>6. CASE destroy
  <2>1. Live' = {}
    BY <1>6 DEF destroy, Live
  <2> QED
    BY <2>1 DEF Due
<1> QED
  BY <1>2, <1>3, <1>4, <1>5, <1>6

\* The loop goes on by one place, and whom it comes to is told.
LEMMA CallNextMissesNobody ==
  ASSUME IInv, YetUntold, YetUntold', NobodyMissed, CallNext
  PROVE  frame'.stage = "pattern" => \A id \in Due' : ToCome(id)' \/ told'[id] = 1
<1> DEFINE n == frame.index + 1
<1>0. TypeOK /\ PatternsFiled /\ GivenOut
  BY DEF IInv
<1>1. /\ frame.stage = "pattern" /\ n \in 1..Len(Walked)
      /\ \A x \in Ids : told'[x] = IF x = Walked[n] THEN told[x] + 1 ELSE told[x]
  BY CalledNext
<1>2. /\ frame \in [stage : {"pattern"}, channel : Channels, pattern : Patterns,
                    since : Ids, index : Nat \ {0}, orphan : Seq(Ids)]
      /\ frame.index \in Nat
  BY <1>0, <1>1, Orphan
<1>3. frame' = [frame EXCEPT !.index = @ + 1]
  BY DEF CallNext
<1>4. /\ frame'.index = n /\ frame'.since = frame.since
      /\ frame'.pattern = frame.pattern /\ frame'.channel = frame.channel
  BY <1>2, <1>3
<1>5. /\ subscriptions' = subscriptions /\ patternSubscriptions' = patternSubscriptions
      /\ witnesses' = witnesses /\ disturbed' = disturbed
  BY DEF CallNext, books
<1>6. ASSUME NEW id \in Due', told'[id] # 1
      PROVE  ToCome(id)'
  <2>1. id \in Due
    BY <1>4, <1>5 DEF Due, Live, IsPattern
  <2> DEFINE p == subscriptions[id].pattern
             e == patternSubscriptions[p]
  <2>2. id \in Ids /\ told[id] \in Nat /\ told'[id] <= 1
    BY <1>0, <2>1, PlaceOfDue DEF TypeOK, YetUntold
  <2>3. told[id] # 1 /\ (id = Walked[n] => told[id] # 0)
    BY <1>1, <1>6, <2>2
  <2>4. \/ e.since > frame.since
        \/ /\ p = frame.pattern /\ e.since = frame.since
           /\ \E i \in 1..Len(e.ids) : i > frame.index /\ e.ids[i] = id
    BY <1>1, <2>1, <2>3 DEF NobodyMissed, ToCome
  <2>5. CASE e.since > frame.since
    BY <1>4, <1>5, <2>5 DEF ToCome
  <2>6. CASE /\ p = frame.pattern /\ e.since = frame.since
             /\ \E i \in 1..Len(e.ids) : i > frame.index /\ e.ids[i] = id
    <3>1. PICK i \in 1..Len(e.ids) : i > frame.index /\ e.ids[i] = id
      BY <2>6
    <3>2. Walked = e.ids
      BY <1>1, <2>6 DEF Walked
    <3>3. i # n
      <4>1. told[id] = 0
        BY <1>1, <3>1, <3>2 DEF YetUntold
      <4> QED
        BY <2>3, <3>1, <3>2, <4>1
    <3>4. i > n
      BY <1>2, <3>1, <3>3
    <3> QED
      BY <1>4, <1>5, <2>6, <3>1, <3>4 DEF ToCome
  <2> QED
    BY <2>4, <2>5, <2>6
<1> QED
  BY <1>6

\* The outer loop takes the oldest of the entries ahead: the others are younger.
LEMMA NextPatternMissesNobody ==
  ASSUME IInv, YetUntold, YetUntold', NobodyMissed, NextPattern
  PROVE  frame'.stage = "pattern" => \A id \in Due' : ToCome(id)' \/ told'[id] = 1
<1>0. TypeOK /\ PatternsFiled /\ GivenOut
  BY DEF IInv
<1>1. PICK p \in Ahead :
        /\ \A q \in Ahead :
             patternSubscriptions[p].since <= patternSubscriptions[q].since
        /\ frame' = [stage |-> "pattern", channel |-> frame.channel,
                     pattern |-> p, since |-> patternSubscriptions[p].since,
                     index |-> 1, orphan |-> <<>>]
        /\ Tell(patternSubscriptions[p].ids[1])
  BY DEF NextPattern
<1> DEFINE ids == patternSubscriptions[p].ids
<1>2. /\ frame'.stage = "pattern" /\ frame'.pattern = p /\ frame'.index = 1
      /\ frame'.since = patternSubscriptions[p].since /\ frame'.channel = frame.channel
  BY <1>1
<1>3. p \in Patterns /\ ids # <<>>
  BY DEF Ahead
<1>4. \A x \in Ids : told'[x] = IF x = ids[1] THEN told[x] + 1 ELSE told[x]
  BY <1>0, <1>1 DEF Tell, TypeOK
<1>5. /\ subscriptions' = subscriptions /\ patternSubscriptions' = patternSubscriptions
      /\ witnesses' = witnesses /\ disturbed' = disturbed
  BY DEF NextPattern, books
<1>6. ASSUME NEW id \in Due', told'[id] # 1
      PROVE  ToCome(id)'
  <2>1. id \in Due
    BY <1>2, <1>5 DEF Due, Live, IsPattern
  <2> DEFINE q == subscriptions[id].pattern
             e == patternSubscriptions[q]
  <2>2. /\ id \in Ids /\ q \in Patterns /\ e.ids \in Seq(Ids) /\ e.ids # <<>>
        /\ e.since \in Nat \ {0} /\ <<q, frame.channel>> \in Matches
    BY <1>0, <2>1, PlaceOfDue
  <2>3. told[id] \in Nat /\ told'[id] <= 1
    BY <2>2, <1>0 DEF TypeOK, YetUntold
  <2>4. told[id] # 1 /\ (id = ids[1] => told[id] # 0)
    BY <1>4, <1>6, <2>2, <2>3
  <2>5. q \in Ahead /\ told[id] = 0
    <3>1. CASE frame.stage = "pattern"
      <4>1. frame.index >= Len(Walked) /\ frame.index \in Nat /\ frame.since \in Nat
        BY <1>0, <3>1, Orphan DEF NextPattern, ArrayDone
      <4>2. \/ e.since > frame.since
            \/ /\ q = frame.pattern /\ e.since = frame.since
               /\ \E i \in 1..Len(e.ids) : i > frame.index /\ e.ids[i] = id
        BY <2>1, <2>4, <3>1 DEF NobodyMissed, ToCome
      <4>3. e.since > frame.since
        <5>1. CASE /\ q = frame.pattern /\ e.since = frame.since
                   /\ \E i \in 1..Len(e.ids) : i > frame.index /\ e.ids[i] = id
          <6>1. Walked = e.ids
            BY <3>1, <5>1 DEF Walked
          <6>2. Len(e.ids) \in Nat
            BY <2>2
          <6> QED
            BY <4>1, <5>1, <6>1, <6>2
        <5> QED
          BY <4>2, <5>1
      <4>4. told[id] = 0
        <5>1. \E i \in 1..Len(e.ids) : e.ids[i] = id
          BY <1>0, <2>1, PlaceOfDue
        <5> QED
          BY <2>2, <3>1, <4>3, <5>1 DEF YetUntold
      <4> QED
        BY <2>2, <4>3, <4>4 DEF Ahead
    <3>2. CASE frame.stage # "pattern"
      <4>1. frame.stage = "exact"
        BY <1>0, <3>2 DEF NextPattern, TypeOK, Frames
      <4> QED
        BY <2>2, <3>2, <4>1 DEF Ahead, YetUntold
    <3> QED
      BY <3>1, <3>2
  <2>6. CASE q = p
    <3>1. PICK i \in 1..Len(e.ids) : e.ids[i] = id
      BY <1>0, <2>1, PlaceOfDue
    <3>2. i # 1
      BY <2>4, <2>5, <2>6, <3>1
    <3>3. i > 1
      BY <3>1, <3>2
    <3> QED
      BY <1>2, <1>5, <2>6, <3>1, <3>3 DEF ToCome
  <2>7. CASE q # p
    <3>1. patternSubscriptions[p].since # e.since
      BY <1>3, <2>2, <2>7 DEF NobodyMissed, EntriesApart
    <3>2. patternSubscriptions[p].since \in Nat
      BY <1>0, <1>3, Filed, PubSubAssumption
    <3>3. e.since > patternSubscriptions[p].since
      BY <1>1, <2>2, <2>5, <3>1, <3>2
    <3> QED
      BY <1>2, <1>5, <3>3 DEF ToCome
  <2> QED
    BY <2>6, <2>7
<1> QED
  BY <1>6

LEMMA MissesNobody ==
  IInv /\ IInv' /\ YetUntold /\ YetUntold' /\ NobodyMissed /\ [Next]_vars => NobodyMissed'
<1> SUFFICES ASSUME IInv, YetUntold, YetUntold', NobodyMissed, [Next]_vars
             PROVE  NobodyMissed'
  OBVIOUS
<1>0. TypeOK /\ PatternsFiled /\ GivenOut
  BY DEF IInv
<1>1. EntriesApart' /\ \A id \in witnesses' : id < nextId'
  BY EntriesStayApart
<1>2. frame'.stage = "pattern" => \A id \in Due' : ToCome(id)' \/ told'[id] = 1
  <2>1. CASE \/ \E c \in Channels, f \in Callbacks : subscribe(c, f)
             \/ \E p \in Patterns, f \in Callbacks : psubscribe(p, f)
             \/ \E id \in Ids : unsubscribe(id) \/ punsubscribe(id)
             \/ destroy
    BY <2>1, ApplicationMissesNobody
  <2>2. CASE CallNext
    BY <2>2, CallNextMissesNobody
  <2>3. CASE NextPattern
    BY <2>3, NextPatternMissesNobody
  <2>4. CASE \E c \in Channels : publish(c)
    BY <2>4 DEF publish
  <2>5. CASE CallExact
    BY <1>0, <2>5 DEF TypeOK, Frames, CallExact, Idle
  <2>6. CASE Return \/ CallbackThrows
    BY <2>6 DEF Return, CallbackThrows, Idle
  <2>7. CASE UNCHANGED vars
    BY <2>7 DEF NobodyMissed, Due, ToCome, Live, IsPattern, vars, books, audit
  <2> QED
    BY <2>1, <2>2, <2>3, <2>4, <2>5, <2>6, <2>7 DEF Next
<1> QED
  BY <1>1, <1>2 DEF NobodyMissed

\* Whom a publish() that returns has not told was not there all the time, or
\* stood in an array that another subscription left: whatever else callbacks
\* do, nobody is passed over.
THEOREM NobodyElseIsPassedOver == Spec => UndisturbedAreTold
<1> DEFINE Told == Return => \A id \in witnesses \cap Live :
              /\ IsPattern(id)
              /\ <<subscriptions[id].pattern, frame.channel>> \in Matches
              /\ subscriptions[id].pattern \notin disturbed
              => told[id] = 1
<1>1. ASSUME IInv, NobodyMissed
      PROVE  Told
  <2>0. TypeOK /\ PatternsFiled
    BY <1>1 DEF IInv
  <2>1. SUFFICES ASSUME Return, NEW id \in Due, told[id] # 1
                 PROVE  FALSE
    BY DEF Due
  <2> DEFINE q == subscriptions[id].pattern
             e == patternSubscriptions[q]
  <2>2. /\ q \in Patterns /\ e.ids \in Seq(Ids) /\ e.ids # <<>>
        /\ <<q, frame.channel>> \in Matches
    BY <2>0, PlaceOfDue
  <2>3. frame.stage = "pattern" /\ ~(e.since > frame.since)
    BY <2>1, <2>2 DEF Return, Ahead
  <2>4. /\ q = frame.pattern /\ e.since = frame.since
        /\ \E i \in 1..Len(e.ids) : i > frame.index /\ e.ids[i] = id
    BY <1>1, <2>1, <2>3 DEF NobodyMissed, ToCome
  <2>5. Walked = e.ids
    BY <2>3, <2>4 DEF Walked
  <2>6. frame.index >= Len(e.ids) /\ frame.index \in Nat /\ Len(e.ids) \in Nat
    BY <2>0, <2>1, <2>2, <2>3, <2>5, Orphan DEF Return, ArrayDone
  <2> QED
    BY <2>4, <2>6
<1>2. Init => NobodyMissed
  BY DEF Init, NobodyMissed, EntriesApart, NoEntry, Idle
<1>3. IInv /\ NobodyMissed => [Told]_vars
  BY <1>1
<1> HIDE DEF Told
<1>4. Spec => [][Told]_vars
  BY <1>2, <1>3, Invariance, Untold, MissesNobody, PTL DEF Spec
<1> QED
  BY <1>4 DEF UndisturbedAreTold, Told
============================================================================
