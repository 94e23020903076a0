------------------------------ MODULE Snapshot ------------------------------
(***************************************************************************)
(* The snapshot plugin.  Creating and restoring a snapshot are async loops  *)
(* that issue one command after another and yield in between, so any other  *)
(* caller of the store may run between any two of their commands.           *)
(* The loops visit the keys in the order of a Map; the model, which keeps   *)
(* no order of the keys, lets them visit the keys in any order.             *)
(***************************************************************************)
EXTENDS Integers

CONSTANTS
  Keys, Values, TTLs, None, Null, MsPerSec, MaxTime,  \* as in SimpleStorage
  Names,     \* the names that snapshots are kept under
  MaxCalls,  \* calls of createSnapshot and restoreSnapshot (a bound)
  MaxWrites  \* write commands of other callers (a bound)

ASSUME SnapshotAssumption ==
  /\ TTLs \subseteq Int
  /\ MsPerSec \in Nat \ {0}
  /\ MaxTime \in Nat /\ MaxCalls \in Nat /\ MaxWrites \in Nat
  /\ None \notin Values /\ None \notin Int
  /\ None \notin [value : Values, due : Int \cup {None}]
  /\ None \notin [key : Keys, value : Values]

VARIABLES
  now, data, ttlData,  \* the store
  snapshots,  \* the snapshots by name
  making,     \* the createSnapshot under way, or None
  got,        \* the entries it has collected
  source,     \* the snapshot a restoreSnapshot under way works on, or None
  left,       \* its keys that are not set yet
  sights,     \* all that there was to see since the createSnapshot was called
  touched,    \* the keys others wrote since the restoreSnapshot was called
  calls,      \* calls of createSnapshot and restoreSnapshot so far
  writes      \* write commands of other callers so far

store == <<now, data, ttlData>>
creation == <<making, got>>
restore == <<source, left>>
vars == <<store, snapshots, creation, restore, sights, touched, calls, writes>>

Store == INSTANCE SimpleStorage

\* A snapshot has entries for some of the keys; ttl 0 is an entry without a ttl.
IsSnapshot(s) == \E K \in SUBSET Keys : s \in [K -> [value : Values, ttl : Nat]]

\* The rest of a createSnapshot; pending is a value whose ttl was not asked yet.
Creations == [name : Names, left : SUBSET Keys, counted : BOOLEAN,
              pending : {None} \cup [key : Keys, value : Values]]

TypeOK ==
  /\ Store!TypeOK
  /\ snapshots = [n \in Names |-> snapshots[n]]
  /\ \A n \in Names : snapshots[n] = None \/ IsSnapshot(snapshots[n])
  /\ making \in Creations \cup {None}
  /\ IsSnapshot(got)
  /\ source = None \/ IsSnapshot(source)
  /\ left \in SUBSET Keys
  /\ touched \in SUBSET Keys
  /\ calls \in 0..MaxCalls
  /\ writes \in 0..MaxWrites

NoEntries == [k \in {} |-> None]

Init ==
  /\ Store!Init
  /\ snapshots = [n \in Names |-> None]
  /\ making = None
  /\ got = NoEntries
  /\ source = None
  /\ left = {}
  /\ sights = {}
  /\ touched = {}
  /\ calls = 0
  /\ writes = 0

\* Each key's value and deadline, None for a key that GET does not see.
Sight == [k \in Keys |-> IF Store!ExistsResult(k)
                         THEN [value |-> data[k], due |-> ttlData[k]] ELSE None]

\* Adds what can be seen after the step to the history of an open creation.
Observe == sights' = IF making' = None THEN {} ELSE sights \cup {Sight'}
----------------------------------------------------------------------------
(* createSnapshot *)

Called == calls < MaxCalls /\ calls' = calls + 1

CreateSnapshot(name) ==
  /\ making = None
  /\ Called
  /\ Store!KeysCommand
  /\ making' = [name |-> name, left |-> {k \in Keys : Store!ExistsResult(k)},
                counted |-> FALSE, pending |-> None]
  /\ got' = NoEntries
  /\ UNCHANGED <<snapshots, restore, touched, writes>>
  /\ Observe

\* Mutant of ReadValue: `break` in place of going on after a null.
ReadValueBreaks ==
  /\ making # None /\ making.pending = None
  /\ \E k \in making.left :
       /\ Store!Get(k)
       /\ LET v == Store!GetResult(k)
          IN  making' = IF v = Null THEN [making EXCEPT !.left = {}]
                ELSE [making EXCEPT !.left = @ \ {k},
                                    !.pending = [key |-> k, value |-> v]]
  /\ UNCHANGED <<got, snapshots, restore, touched, calls, writes>>
  /\ Observe

\* GET of the next key; a key that answers null is passed over.
ReadValue ==
  /\ making # None /\ making.pending = None
  /\ \E k \in making.left :
       /\ Store!Get(k)
       /\ LET v == Store!GetResult(k)
          IN  making' = [making EXCEPT
                !.left = @ \ {k},
                !.pending = IF v = Null THEN None ELSE [key |-> k, value |-> v]]
  /\ UNCHANGED <<got, snapshots, restore, touched, calls, writes>>
  /\ Observe

\* Mutant of ReadTtl: the answer -2 is taken for a ttl.
ReadTtlTakesGone ==
  /\ making # None /\ making.pending # None
  /\ LET k == making.pending.key
         ttl == Store!TtlResult(k)
         entry == [value |-> making.pending.value,
                   ttl |-> IF ttl # -1 THEN ttl * MsPerSec ELSE 0]
     IN  /\ Store!Ttl(k)
         /\ got' = [i \in DOMAIN got \cup {k} |-> IF i = k THEN entry ELSE got[i]]
  /\ making' = [making EXCEPT !.pending = None]
  /\ UNCHANGED <<snapshots, restore, touched, calls, writes>>
  /\ Observe

\* TTL of the key whose value was read; -1 and -2 alike give an entry without ttl.
ReadTtl ==
  /\ making # None /\ making.pending # None
  /\ LET k == making.pending.key
         ttl == Store!TtlResult(k)
         entry == [value |-> making.pending.value,
                   ttl |-> IF ttl > 0 THEN ttl * MsPerSec ELSE 0]
     IN  /\ Store!Ttl(k)
         /\ got' = [i \in DOMAIN got \cup {k} |-> IF i = k THEN entry ELSE got[i]]
  /\ making' = [making EXCEPT !.pending = None]
  /\ UNCHANGED <<snapshots, restore, touched, calls, writes>>
  /\ Observe

\* INFO, for the statistics that go into the snapshot.
TakeStats ==
  /\ making # None /\ making.left = {} /\ making.pending = None /\ ~making.counted
  /\ Store!Info
  /\ making' = [making EXCEPT !.counted = TRUE]
  /\ UNCHANGED <<got, snapshots, restore, touched, calls, writes>>
  /\ Observe

Publish ==
  /\ making # None /\ making.counted
  /\ snapshots' = [snapshots EXCEPT ![making.name] = got]
  /\ making' = None
  /\ got' = NoEntries
  /\ UNCHANGED <<store, restore, touched, calls, writes>>
  /\ Observe
----------------------------------------------------------------------------
(* restoreSnapshot, and the synchronous calls *)

\* Mutant of RestoreSnapshot: the store is not cleared first.
RestoreOverOld(name) ==
  /\ Called
  /\ source = None /\ snapshots[name] # None
  /\ source' = snapshots[name]
  /\ left' = DOMAIN snapshots[name]
  /\ UNCHANGED <<store, snapshots, creation, touched, writes>>
  /\ Observe

\* From here on the call works on the snapshot it found under the name.
RestoreSnapshot(name) ==
  /\ Called
  /\ source = None /\ snapshots[name] # None
  /\ Store!Flushall
  /\ source' = snapshots[name]
  /\ left' = DOMAIN snapshots[name]
  /\ UNCHANGED <<snapshots, creation, touched, writes>>
  /\ Observe

RestoreEntry ==
  /\ source # None
  /\ \E k \in left :
       /\ Store!Set(k, source[k].value, source[k].ttl)
       /\ left' = left \ {k}
  /\ UNCHANGED <<source, snapshots, creation, touched, calls, writes>>
  /\ Observe

RestoreReturns ==
  /\ source # None /\ left = {}
  /\ source' = None
  /\ touched' = {}
  /\ UNCHANGED <<store, left, snapshots, creation, sights, calls, writes>>

DeleteSnapshot(name) ==
  /\ snapshots[name] # None
  /\ snapshots' = [snapshots EXCEPT ![name] = None]
  /\ UNCHANGED <<store, creation, restore, sights, touched, calls, writes>>

\* importSnapshot of what exportSnapshot returned for a snapshot.
ImportSnapshot(name, from) ==
  /\ snapshots[from] # None
  /\ snapshots' = [snapshots EXCEPT ![name] = snapshots[from]]
  /\ UNCHANGED <<store, creation, restore, sights, touched, calls, writes>>

\* destroy() forgets the snapshots; open calls go on.
Destroy ==
  /\ snapshots' = [n \in Names |-> None]
  /\ UNCHANGED <<store, creation, restore, sights, touched, calls, writes>>
----------------------------------------------------------------------------
(* Other callers, the sweep and the clock *)

\* The step writes the keys of K.
OtherWrites(K) ==
  /\ writes < MaxWrites
  /\ writes' = writes + 1
  /\ touched' = IF source = None THEN {} ELSE touched \cup K
  /\ UNCHANGED <<snapshots, creation, restore, calls>>
  /\ Observe

OtherSet(k, v, ttl) == Store!Set(k, v, ttl) /\ OtherWrites({k})
OtherDel(k) == Store!Del(k) /\ OtherWrites({k})
OtherExpire(k, ttl) == ttl > 0 /\ Store!Expire(k, ttl) /\ OtherWrites({k})
OtherFlushall == Store!Flushall /\ OtherWrites(Keys)

OtherReads ==
  /\ Store!Read
  /\ UNCHANGED <<snapshots, creation, restore, touched, calls, writes>>
  /\ Observe

\* The sweep is a timer: it does not run between the awaits of an open call.
Sweep ==
  /\ making = None /\ source = None
  /\ Store!cleanupExpiredEntries
  /\ UNCHANGED <<snapshots, creation, restore, sights, touched, calls, writes>>

Tick ==
  /\ Store!Tick
  /\ UNCHANGED <<snapshots, creation, restore, touched, calls, writes>>
  /\ Observe

Next ==
  \/ \E name \in Names :
       CreateSnapshot(name) \/ RestoreSnapshot(name) \/ DeleteSnapshot(name)
  \/ \E name, from \in Names : ImportSnapshot(name, from)
  \/ ReadValue \/ ReadTtl \/ TakeStats \/ Publish
  \/ RestoreEntry \/ RestoreReturns
  \/ Destroy
  \/ \E k \in Keys :
       \/ \E v \in Values, ttl \in TTLs : OtherSet(k, v, ttl)
       \/ OtherDel(k)
       \/ \E ttl \in TTLs : OtherExpire(k, ttl)
  \/ OtherFlushall \/ OtherReads
  \/ Sweep \/ Tick

Spec == Init /\ [][Next]_vars
----------------------------------------------------------------------------
(* Properties *)

\* What could be seen of key k since the creation under way began.
Seen(k) == {w[k] : w \in sights}

\* Every entry of a finished creation was there at some moment of it, and every
\* key it leaves out was, at some moment of it, gone or null: however others
\* interfere, a key that stayed is not missed and no value is made up.
EachEntryWasThere ==
  making # None /\ making.counted => \A k \in Keys :
    IF k \in DOMAIN got
    THEN \E w \in Seen(k) : w # None /\ w.value = got[k].value
    ELSE \E w \in Seen(k) : w = None \/ w.value = Null

\* A snapshot does not cut a life short, and makes one endless only if, while it
\* was made, the key had no deadline, reached its deadline or was gone.
LifeKept ==
  making # None => \A k \in DOMAIN got : \E w \in Seen(k) :
    IF got[k].ttl = 0
    THEN w = None \/ w.due = None \/ w.due <= now
    ELSE w # None /\ w.due # None /\ got[k].ttl >= w.due - now

\* When a restore is through, every key that nobody else wrote meanwhile stands as
\* in the snapshot it started from, with or without a deadline as there, unless
\* its deadline has passed again; keys that the snapshot lacks are gone.
RestoreExact ==
  source # None /\ left = {} => \A k \in Keys \ touched :
    IF k \in DOMAIN source
    THEN \/ data[k] = source[k].value /\ (ttlData[k] # None <=> source[k].ttl # 0)
         \/ data[k] = None /\ source[k].ttl # 0
    ELSE data[k] = None

\* A snapshot is the state of the store at one moment while it was made.
PointInTime ==
  making # None /\ making.counted => \E w \in sights : \A k \in Keys :
    IF k \in DOMAIN got
    THEN w[k] # None /\ w[k].value = got[k].value
    ELSE w[k] = None \/ w[k].value = Null
============================================================================
