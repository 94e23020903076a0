---------------------------- MODULE SimpleSnapDB ----------------------------
(***************************************************************************)
(* The client that applications use, over the store of SimpleStorage.       *)
(*                                                                          *)
(* Every command is an async method.  It runs on the one JavaScript thread  *)
(* until its first await of the store; by then the store has already done   *)
(* its work.  The rest of the method, which emits the event of the command, *)
(* writes the counter or goes on to the next key of a batch, is a microtask *)
(* at the end of a first-in first-out queue.  Other commands may be called  *)
(* between any two microtasks; a timer may fire only when none is left.     *)
(***************************************************************************)
EXTENDS Integers, Sequences

CONSTANTS
  Keys, Values, TTLs, None, Null, MsPerSec, MaxTime,  \* as in SimpleStorage
  NumberOf,    \* what parseInt makes of a stored value; 0 when not a number
  MaxSeed,     \* no stored value parses to more, up or down
  Batches,     \* the key lists that MSET and MGET are called with
  Commands,    \* the names of the commands that callers use
  MaxCounts,   \* INCR and DECR calls a key may receive (a bound)
  MaxPending   \* commands that may be under way at once (a bound)

ASSUME ClientAssumption ==
  /\ TTLs \subseteq Int /\ 0 \in TTLs
  /\ MsPerSec \in Nat \ {0}
  /\ MaxTime \in Nat /\ MaxSeed \in Nat /\ MaxCounts \in Nat
  /\ None \notin Values /\ None \notin Int /\ Null \notin Int
  /\ \A v \in Values : v \notin Int
  /\ NumberOf \in [Values -> -MaxSeed..MaxSeed]
  /\ \A b \in Batches : b \in Seq(Keys) /\ b # <<>>
  /\ MaxPending \in Nat

VARIABLES
  now, data, ttlData,  \* the store
  micro,      \* the microtask queue: the rest of every command under way
  listening,  \* listeners are attached; close() removes them
  mirror,     \* what a listener of the events believes the store holds
  announced,  \* keys whose last change came through a command with an event
  incrs,      \* INCR calls per key so far
  decrs       \* DECR calls per key so far

store == <<now, data, ttlData>>
counts == <<incrs, decrs>>
listener == <<listening, mirror>>
vars == <<store, micro, listener, announced, counts>>

\* What INCR and DECR may write, besides the values a caller stores.
Numbers == -(MaxSeed + MaxCounts)..(MaxSeed + MaxCounts)
Contents == Values \cup Numbers

Store == INSTANCE SimpleStorage WITH Values <- Contents

Tasks ==
  [op : {"set"}, key : Keys, value : Contents]
    \cup [op : {"get", "del", "expire"}, key : Keys]
    \cup [op : {"flush"}]
    \cup [op : {"count"}, key : Keys, seen : Numbers, step : {1, -1}]
    \cup [op : {"mset"}, rest : Seq(Keys), value : Values, ttl : TTLs]
    \cup [op : {"mget"}, rest : Seq(Keys), got : Seq(Contents \cup {Null})]

TypeOK ==
  /\ Store!TypeOK
  /\ micro \in Seq(Tasks)
  /\ listening \in BOOLEAN
  /\ mirror \in [Keys -> Contents \cup {None}]
  /\ announced \in SUBSET Keys
  /\ incrs \in [Keys -> 0..MaxCounts]
  /\ decrs \in [Keys -> 0..MaxCounts]

Init ==
  /\ Store!Init
  /\ micro = <<>>
  /\ listening = TRUE
  /\ mirror = [k \in Keys |-> None]
  /\ announced = Keys
  /\ incrs = [k \in Keys |-> 0]
  /\ decrs = [k \in Keys |-> 0]

\* `await`: the rest of the method goes to the end of the microtask queue.
Await(task) ==
  /\ Len(micro) < MaxPending
  /\ micro' = Append(micro, task)

\* The keys of K were changed by a command that emits; any other change is mute.
Announce(K) ==
  announced' = {k \in Keys : k \in K \/ (k \in announced /\ data'[k] = data[k])}
----------------------------------------------------------------------------
(* Calls: the part of a command that runs before its first await *)

Set(k, v, ttl) ==
  /\ "set" \in Commands
  /\ Store!Set(k, v, ttl)
  /\ Await([op |-> "set", key |-> k, value |-> v])
  /\ Announce({k})
  /\ UNCHANGED <<listener, counts>>

Get(k) ==
  /\ "get" \in Commands
  /\ Store!Get(k)
  /\ Await([op |-> "get", key |-> k])
  /\ Announce({})
  /\ UNCHANGED <<listener, counts>>

\* Mutant of Del: the entry goes and its deadline stays.
DelKeepsDeadline(k) ==
  /\ "del" \in Commands
  /\ data' = [data EXCEPT ![k] = None]
  /\ UNCHANGED <<now, ttlData>>
  /\ Await([op |-> "del", key |-> k])
  /\ Announce({k})
  /\ UNCHANGED <<listener, counts>>

\* Mutant of Del: the event is emitted before the await.
DelEmitsFirst(k) ==
  /\ "del" \in Commands
  /\ Store!Del(k)
  /\ mirror' = [mirror EXCEPT ![k] = IF listening THEN None ELSE @]
  /\ Announce({k})
  /\ UNCHANGED <<micro, listening, counts>>

Del(k) ==
  /\ "del" \in Commands
  /\ Store!Del(k)
  /\ Await([op |-> "del", key |-> k])
  /\ Announce({k})
  /\ UNCHANGED <<listener, counts>>

\* The client refuses a ttl that is not positive; the event needs an entry.
Expire(k, ttl) ==
  /\ "expire" \in Commands
  /\ ttl > 0
  /\ Store!Expire(k, ttl)
  /\ IF data[k] # None THEN Await([op |-> "expire", key |-> k])
                       ELSE UNCHANGED micro
  /\ Announce({})
  /\ UNCHANGED <<listener, counts>>

Flushall ==
  /\ "flushall" \in Commands
  /\ Store!Flushall
  /\ Await([op |-> "flush"])
  /\ Announce(Keys)
  /\ UNCHANGED <<listener, counts>>

\* EXISTS, TTL, KEYS and INFO do nothing after the store has answered.
Look ==
  /\ "look" \in Commands
  /\ \/ \E k \in Keys : Store!Exists(k) \/ Store!Ttl(k)
     \/ Store!KeysCommand
     \/ Store!Info
  /\ Announce({})
  /\ UNCHANGED <<micro, listener, counts>>

\* Mutant of CounterValue: the check for null is missing.
CounterValueOfNull(x) == IF x \in Values THEN NumberOf[x] ELSE x

\* parseInt(String(value)), with 0 for a missing key and for what is no number.
CounterValue(x) ==
  IF x = Null THEN 0 ELSE IF x \in Values THEN NumberOf[x] ELSE x

\* INCR and DECR read the key now and write it a microtask later.
Count(k, step) ==
  /\ incrs[k] + decrs[k] < MaxCounts
  /\ Store!Get(k)
  /\ Await([op |-> "count", key |-> k, step |-> step,
            seen |-> CounterValue(Store!GetResult(k))])
  /\ Announce({})
  /\ UNCHANGED listener

Incr(k) ==
  /\ "incr" \in Commands
  /\ Count(k, 1)
  /\ incrs' = [incrs EXCEPT ![k] = @ + 1]
  /\ UNCHANGED decrs

\* Mutant of Decr: copied from Incr, with its sign.
DecrAdds(k) ==
  /\ "decr" \in Commands
  /\ Count(k, 1)
  /\ decrs' = [decrs EXCEPT ![k] = @ + 1]
  /\ UNCHANGED incrs

Decr(k) ==
  /\ "decr" \in Commands
  /\ Count(k, -1)
  /\ decrs' = [decrs EXCEPT ![k] = @ + 1]
  /\ UNCHANGED incrs

\* MSET and MGET treat their first key now and each later one a microtask on.
Mset(b, v, ttl) ==
  /\ "mset" \in Commands
  /\ Store!Set(Head(b), v, ttl)
  /\ Await([op |-> "mset", rest |-> Tail(b), value |-> v, ttl |-> ttl])
  /\ Announce({})
  /\ UNCHANGED <<listener, counts>>

Mget(b) ==
  /\ "mget" \in Commands
  /\ Store!Get(Head(b))
  /\ Await([op |-> "mget", rest |-> Tail(b),
            got |-> <<Store!GetResult(Head(b))>>])
  /\ Announce({})
  /\ UNCHANGED <<listener, counts>>

Call ==
  \/ \E k \in Keys :
       \/ \E v \in Values, ttl \in TTLs : Set(k, v, ttl)
       \/ Get(k)
       \/ Del(k)
       \/ \E ttl \in TTLs : Expire(k, ttl)
       \/ Incr(k)
       \/ Decr(k)
  \/ Flushall
  \/ Look
  \/ \E b \in Batches :
       \/ \E v \in Values, ttl \in TTLs : Mset(b, v, ttl)
       \/ Mget(b)
----------------------------------------------------------------------------
(* Microtasks: what a command does after an await *)

Concerns(task, k) ==
  \/ task.op \in {"set", "del"} /\ task.key = k
  \/ task.op = "flush"

\* The value an event says its key has now.
Told(task) == IF task.op = "set" THEN task.value ELSE None

\* emit(): a listener that copies 'set', 'del' and 'flush' into its mirror.
Emit ==
  /\ micro # <<>>
  /\ Head(micro).op \in {"set", "get", "del", "expire", "flush"}
  /\ mirror' = [k \in Keys |-> IF listening /\ Concerns(Head(micro), k)
                               THEN Told(Head(micro)) ELSE mirror[k]]
  /\ micro' = Tail(micro)
  /\ UNCHANGED <<store, listening, announced, counts>>

\* The second half of INCR and DECR: a SET without a ttl, and without an event.
WriteCount ==
  /\ micro # <<>>
  /\ Head(micro).op = "count"
  /\ Store!Set(Head(micro).key, Head(micro).seen + Head(micro).step, 0)
  /\ micro' = Tail(micro)
  /\ Announce({})
  /\ UNCHANGED <<listener, counts>>

\* Mutant of MsetNext: the rest of an MSET overtakes what is already queued.
MsetNextOvertakes ==
  /\ micro # <<>>
  /\ LET t == Head(micro)
     IN  /\ t.op = "mset" /\ t.rest # <<>>
         /\ Store!Set(Head(t.rest), t.value, t.ttl)
         /\ micro' = <<[t EXCEPT !.rest = Tail(t.rest)]>> \o Tail(micro)
  /\ Announce({})
  /\ UNCHANGED <<listener, counts>>

MsetNext ==
  /\ micro # <<>>
  /\ LET t == Head(micro)
     IN  /\ t.op = "mset" /\ t.rest # <<>>
         /\ Store!Set(Head(t.rest), t.value, t.ttl)
         /\ micro' = Append(Tail(micro), [t EXCEPT !.rest = Tail(t.rest)])
  /\ Announce({})
  /\ UNCHANGED <<listener, counts>>

MgetNext ==
  /\ micro # <<>>
  /\ LET t == Head(micro)
     IN  /\ t.op = "mget" /\ t.rest # <<>>
         /\ Store!Get(Head(t.rest))
         /\ micro' = Append(Tail(micro),
                            [t EXCEPT !.rest = Tail(t.rest),
                                      !.got = Append(t.got, Store!GetResult(Head(t.rest)))])
  /\ Announce({})
  /\ UNCHANGED <<listener, counts>>

\* A batch that has treated its last key answers its caller.
BatchReturns ==
  /\ micro # <<>>
  /\ Head(micro).op \in {"mset", "mget"} /\ Head(micro).rest = <<>>
  /\ micro' = Tail(micro)
  /\ UNCHANGED <<store, listener, announced, counts>>
----------------------------------------------------------------------------
(* Timers, close and the clock *)

\* The sweep runs from a timer: only when the microtask queue is empty.
Sweep ==
  /\ micro = <<>>
  /\ Store!cleanupExpiredEntries
  /\ Announce({})
  /\ UNCHANGED <<micro, listener, counts>>

\* close() removes the listeners; commands, also those under way, still work.
Close ==
  /\ "close" \in Commands
  /\ listening' = FALSE
  /\ UNCHANGED <<store, micro, mirror, announced, counts>>

Tick ==
  /\ Store!Tick
  /\ UNCHANGED <<micro, listener, announced, counts>>

Next ==
  \/ Call
  \/ Emit \/ WriteCount \/ MsetNext \/ MgetNext \/ BatchReturns
  \/ Sweep \/ Close \/ Tick

Spec == Init /\ [][Next]_vars
----------------------------------------------------------------------------
(* Properties *)

\* The client does to the store only what the store's own commands do.
ImplementsStorage == Store!Spec

\* A listener is never led astray by the order of events: as long as it listens,
\* the last event on its way about a key, or its mirror when there is none, has
\* the value that the store holds, for every key last changed by SET, DEL or
\* FLUSHALL.  Only mute changes (INCR, DECR, MSET, expiry) can part the two.
MirrorCatchesUp ==
  listening => \A k \in announced :
    LET pending == {i \in 1..Len(micro) : Concerns(micro[i], k)}
    IN  /\ pending = {} => mirror[k] = data[k]
        /\ \A i \in pending : (\A j \in pending : j <= i) =>
                                Told(micro[i]) = data[k]

\* However INCR, DECR, SET, DEL and expiry interleave, a counter never leaves
\* the range that its INCR and DECR calls and the largest number a caller
\* stored span: updates may be lost but none is applied twice.
CounterInRange == \A k \in Keys :
  data[k] \in Numbers =>
    /\ data[k] <= MaxSeed + incrs[k]
    /\ data[k] >= -(MaxSeed + decrs[k])

\* With every caller using the same key list, an MGET that interleaves with
\* MSETs answers with the values of one MSET, never with a mixture.
BatchNeverTorn == \A i \in 1..Len(micro) :
  micro[i].op = "mget" /\ micro[i].rest = <<>> =>
    \A m, n \in 1..Len(micro[i].got) : micro[i].got[m] = micro[i].got[n]

\* Once no command is under way, a counter that only INCR and DECR touched
\* stands at the number of INCR calls less the number of DECR calls.
CountersExact ==
  micro = <<>> => \A k \in Keys :
    (IF data[k] = None THEN 0 ELSE data[k]) = incrs[k] - decrs[k]
============================================================================
