-------------------------- MODULE Snapshot_proofs --------------------------
(* A restore gives back what its snapshot holds, for every set of keys and   *)
(* values and however other callers interfere.                               *)
EXTENDS Snapshot, TLAPS

StoreProofs == INSTANCE SimpleStorage_proofs

\* Where a restore has got to: of the keys nobody else wrote, those that are set
\* stand as in the snapshot, and the others are gone with their deadlines.
RestoreUnderWay ==
  source # None =>
    /\ left \subseteq DOMAIN source
    /\ \A k \in Keys \ touched :
         IF k \in DOMAIN source \ left
         THEN \/ data[k] = source[k].value /\ (ttlData[k] # None <=> source[k].ttl # 0)
              \/ data[k] = None /\ source[k].ttl # 0
         ELSE data[k] = None /\ ttlData[k] = None

IInv == TypeOK /\ RestoreUnderWay

\* The steps that neither a restore nor another writer takes.
Bystanders == UNCHANGED <<source, left, touched>>

----------------------------------------------------------------------------
(* The store under the plugin *)

\* Whatever is dropped from the store, its types stay.
LEMMA DropTypes ==
  ASSUME TypeOK, NEW K, Store!Drop(K)
  PROVE  Store!TypeOK'
  BY DEF TypeOK, Store!TypeOK, Store!Drop

\* A SET with any integer for a ttl keeps the store's types.
LEMMA SetTypes ==
  ASSUME TypeOK, NEW k \in Keys, NEW v \in Values, NEW ttl \in Int,
         Store!Set(k, v, ttl)
  PROVE  Store!TypeOK'
<1>1. now + ttl \in Int
  BY SnapshotAssumption DEF TypeOK, Store!TypeOK
<1> QED
  BY <1>1 DEF TypeOK, Store!TypeOK, Store!Set

\* So do EXPIRE and the clock.
LEMMA ExpireAndTickTypes ==
  ASSUME TypeOK, Store!Tick \/ \E k \in Keys, ttl \in TTLs : Store!Expire(k, ttl)
  PROVE  Store!TypeOK'
<1>1. CASE Store!Tick
  BY <1>1, SnapshotAssumption DEF TypeOK, Store!TypeOK, Store!Tick
<1>2. ASSUME NEW k \in Keys, NEW ttl \in TTLs, Store!Expire(k, ttl)
      PROVE  Store!TypeOK'
  <2>1. now + ttl \in Int
    BY SnapshotAssumption DEF TypeOK, Store!TypeOK
  <2> QED
    BY <1>2, <2>1 DEF TypeOK, Store!TypeOK, Store!Expire
<1> QED
  BY <1>1, <1>2

\* Reads and the sweep drop only keys that have a deadline.
LEMMA ReadsDropTimed ==
  ASSUME \/ Store!KeysCommand \/ Store!Info \/ Store!cleanupExpiredEntries
         \/ \E k \in Keys : Store!Get(k) \/ Store!Exists(k) \/ Store!Ttl(k)
  PROVE  \E K : Store!Drop(K) /\ \A k \in K : ttlData[k] # None
<1>1. \A k \in Store!Overdue : ttlData[k] # None
  BY DEF Store!Overdue
<1>2. \A k \in Store!Lapsed : ttlData[k] # None
  BY <1>1 DEF Store!Lapsed
<1>3. CASE Store!KeysCommand \/ Store!Info \/ Store!cleanupExpiredEntries
  BY <1>2, <1>3 DEF Store!KeysCommand, Store!Info, Store!cleanupExpiredEntries
<1>4. ASSUME NEW k \in Keys, Store!Get(k) \/ Store!Exists(k)
      PROVE  \E K : Store!Drop(K) /\ \A i \in K : ttlData[i] # None
  <2>1. Store!Drop({k} \cap Store!Overdue)
    BY <1>4 DEF Store!Get, Store!Exists
  <2> QED
    BY <1>1, <2>1
<1>5. ASSUME NEW k \in Keys, Store!Ttl(k)
      PROVE  \E K : Store!Drop(K) /\ \A i \in K : ttlData[i] # None
  <2> DEFINE K == IF data[k] # None /\ ttlData[k] # None /\ ttlData[k] - now <= 0
                  THEN {k} ELSE {}
  <2>1. Store!Drop(K)
    BY <1>5 DEF Store!Ttl
  <2>2. \A i \in K : ttlData[i] # None
    OBVIOUS
  <2> QED
    BY <2>1, <2>2
<1> QED
  BY <1>3, <1>4, <1>5

\* A read or a sweep leaves an open restore where it is: keys not set yet have
\* no deadline to be dropped for, and a key that is set may lapse.
LEMMA ReadKeepsRestore ==
  ASSUME IInv, Bystanders,
         \/ Store!KeysCommand \/ Store!Info \/ Store!cleanupExpiredEntries
         \/ \E k \in Keys : Store!Get(k) \/ Store!Exists(k) \/ Store!Ttl(k)
  PROVE  Store!TypeOK' /\ RestoreUnderWay'
<1>1. PICK K : Store!Drop(K) /\ \A k \in K : ttlData[k] # None
  BY ReadsDropTimed
<1>2. Store!TypeOK'
  BY <1>1, DropTypes DEF IInv
<1>3. RestoreUnderWay'
  BY <1>1 DEF IInv, Bystanders, RestoreUnderWay, Store!Drop
<1> QED
  BY <1>2, <1>3

\* A step that leaves the maps of the store alone keeps an open restore too.
LEMMA IdleKeepsRestore ==
  ASSUME IInv, Bystanders, UNCHANGED <<data, ttlData>>
  PROVE  RestoreUnderWay'
  BY DEF IInv, Bystanders, RestoreUnderWay

\* Another caller that writes the keys of K takes them out of what is claimed.
LEMMA OtherKeepsRestore ==
  ASSUME IInv, NEW K \in SUBSET Keys, OtherWrites(K),
         \A k \in Keys \ K : data'[k] = data[k] /\ ttlData'[k] = ttlData[k]
  PROVE  RestoreUnderWay'
<1>1. source' = source /\ left' = left
  BY DEF OtherWrites, restore
<1>2. source # None => touched' = touched \cup K
  BY DEF OtherWrites
<1> QED
  BY <1>1, <1>2 DEF IInv, RestoreUnderWay
----------------------------------------------------------------------------
(* The inductive invariant *)

\* An entry of a snapshot has a value and a ttl.
LEMMA EntryTypes ==
  ASSUME NEW s, IsSnapshot(s), NEW k \in DOMAIN s
  PROVE  k \in Keys /\ s[k].value \in Values /\ s[k].ttl \in Nat
  BY DEF IsSnapshot

\* No entries at all make a snapshot.
LEMMA NoEntriesIsSnapshot == IsSnapshot(NoEntries)
<1>1. NoEntries \in [{} -> [value : Values, ttl : Nat]]
  BY DEF NoEntries
<1> QED
  BY <1>1 DEF IsSnapshot

\* TTL answers with an integer.
LEMMA TtlResultInt ==
  ASSUME TypeOK, NEW k \in Keys
  PROVE  Store!TtlResult(k) \in Int
<1>1. now \in Int /\ ttlData[k] \in Int \cup {None} /\ MsPerSec \in Nat \ {0}
  BY SnapshotAssumption DEF TypeOK, Store!TypeOK
<1> QED
  BY <1>1, SMTT(30) DEF Store!TtlResult

\* The plugin starts with the invariant.
LEMMA InitInvariant == Init => IInv
<1> SUFFICES ASSUME Init PROVE IInv
  OBVIOUS
<1>1. Store!TypeOK
  BY SnapshotAssumption DEF Init, Store!Init, Store!TypeOK
<1>2. IsSnapshot(NoEntries)
  BY NoEntriesIsSnapshot
<1>3. TypeOK
  BY <1>1, <1>2, SnapshotAssumption DEF Init, TypeOK
<1>4. RestoreUnderWay
  BY DEF Init, RestoreUnderWay
<1> QED
  BY <1>3, <1>4 DEF IInv

\* The steps of createSnapshot keep the invariant.
LEMMA CreationKeepsInvariant ==
  ASSUME IInv,
         \/ \E name \in Names : CreateSnapshot(name)
         \/ ReadValue \/ ReadTtl \/ TakeStats \/ Publish
  PROVE  IInv'
<1> USE DEF IInv
<1>1. ASSUME NEW name \in Names, CreateSnapshot(name)
      PROVE  IInv'
  <2>1. Store!TypeOK' /\ RestoreUnderWay'
    BY <1>1, ReadKeepsRestore DEF CreateSnapshot, Bystanders, restore
  <2>2. IsSnapshot(got')
    BY <1>1, NoEntriesIsSnapshot DEF CreateSnapshot
  <2>3. calls' \in 0..MaxCalls
    BY <1>1, SnapshotAssumption DEF CreateSnapshot, Called, TypeOK
  <2>4. making' \in Creations
    BY <1>1 DEF CreateSnapshot, Creations
  <2> QED
    BY <1>1, <2>1, <2>2, <2>3, <2>4 DEF CreateSnapshot, TypeOK, restore
<1>2. CASE ReadValue
  <2>1. PICK k \in making.left :
          /\ Store!Get(k)
          /\ making' = [making EXCEPT !.left = @ \ {k},
               !.pending = IF Store!GetResult(k) = Null THEN None
                           ELSE [key |-> k, value |-> Store!GetResult(k)]]
    BY <1>2 DEF ReadValue
  <2>2. making \in Creations /\ k \in Keys
    BY <1>2 DEF ReadValue, TypeOK, Creations
  <2>3. Store!TypeOK' /\ RestoreUnderWay'
    BY <1>2, <2>1, <2>2, ReadKeepsRestore DEF ReadValue, Bystanders, restore
  <2>4. Store!GetResult(k) = Null \/ Store!GetResult(k) \in Values
    BY <2>2 DEF Store!GetResult, TypeOK, Store!TypeOK
  <2>5. making' \in Creations
    BY <2>1, <2>2, <2>4 DEF Creations
  <2> QED
    BY <1>2, <2>3, <2>5 DEF ReadValue, TypeOK, restore
<1>3. CASE ReadTtl
  <2> DEFINE k == making.pending.key
             ttl == Store!TtlResult(k)
             entry == [value |-> making.pending.value,
                       ttl |-> IF ttl > 0 THEN ttl * MsPerSec ELSE 0]
  <2>1. /\ making \in Creations
        /\ k \in Keys /\ making.pending.value \in Values
    BY <1>3 DEF ReadTtl, TypeOK, Creations
  <2>2. Store!TypeOK' /\ RestoreUnderWay'
    BY <1>3, <2>1, ReadKeepsRestore DEF ReadTtl, Bystanders, restore
  <2>3. ttl \in Int
    BY <2>1, TtlResultInt
  <2> HIDE DEF ttl
  <2>4. ttl > 0 => ttl * MsPerSec \in Nat
    BY <2>3, SnapshotAssumption, SMTT(30)
  <2>5. entry \in [value : Values, ttl : Nat]
    BY <2>1, <2>4
  <2>6. got' = [i \in DOMAIN got \cup {k} |-> IF i = k THEN entry ELSE got[i]]
    BY <1>3 DEF ReadTtl, ttl
  <2> HIDE DEF entry, k
  <2>7. PICK K \in SUBSET Keys : got \in [K -> [value : Values, ttl : Nat]]
    BY DEF TypeOK, IsSnapshot
  <2>8. got' \in [K \cup {k} -> [value : Values, ttl : Nat]]
    BY <2>5, <2>6, <2>7
  <2>9. IsSnapshot(got')
    BY <2>1, <2>7, <2>8 DEF IsSnapshot
  <2>10. making' \in Creations
    BY <1>3, <2>1 DEF ReadTtl, Creations
  <2> QED
    BY <1>3, <2>2, <2>9, <2>10 DEF ReadTtl, TypeOK, restore
<1>4. CASE TakeStats
  <2>1. Store!TypeOK' /\ RestoreUnderWay'
    BY <1>4, ReadKeepsRestore DEF TakeStats, Bystanders, restore
  <2>2. making' \in Creations
    BY <1>4 DEF TakeStats, TypeOK, Creations
  <2> QED
    BY <1>4, <2>1, <2>2 DEF TakeStats, TypeOK, restore
<1>5. CASE Publish
  <2>1. RestoreUnderWay'
    BY <1>5, IdleKeepsRestore DEF Publish, Bystanders, restore, store
  <2>2. IsSnapshot(got')
    BY <1>5, NoEntriesIsSnapshot DEF Publish
  <2>3. /\ snapshots' = [n \in Names |-> snapshots'[n]]
        /\ \A n \in Names : snapshots'[n] = None \/ IsSnapshot(snapshots'[n])
    BY <1>5 DEF Publish, TypeOK
  <2> QED
    BY <1>5, <2>1, <2>2, <2>3 DEF Publish, TypeOK, Store!TypeOK, restore, store
<1> QED
  BY <1>1, <1>2, <1>3, <1>4, <1>5

\* The steps of restoreSnapshot keep the invariant.
LEMMA RestoreKeepsInvariant ==
  ASSUME IInv,
         \/ \E name \in Names : RestoreSnapshot(name)
         \/ RestoreEntry \/ RestoreReturns
  PROVE  IInv'
<1> USE DEF IInv
<1>1. ASSUME NEW name \in Names, RestoreSnapshot(name)
      PROVE  IInv'
  <2>1. IsSnapshot(source') /\ left' = DOMAIN source'
    BY <1>1 DEF RestoreSnapshot, TypeOK
  <2>2. Store!Drop(Keys)
    BY <1>1 DEF RestoreSnapshot, Store!Flushall
  <2>3. Store!TypeOK'
    BY <2>2, DropTypes
  <2>4. RestoreUnderWay'
    BY <2>1, <2>2 DEF RestoreUnderWay, Store!Drop
  <2>5. left' \in SUBSET Keys
    BY <2>1 DEF IsSnapshot
  <2>6. calls' \in 0..MaxCalls
    BY <1>1, SnapshotAssumption DEF RestoreSnapshot, Called, TypeOK
  <2> QED
    BY <1>1, <2>1, <2>3, <2>4, <2>5, <2>6 DEF RestoreSnapshot, TypeOK, creation
<1>2. CASE RestoreEntry
  <2>1. PICK k \in left :
          /\ Store!Set(k, source[k].value, source[k].ttl)
          /\ left' = left \ {k}
    BY <1>2 DEF RestoreEntry
  <2>2. source # None /\ source' = source /\ touched' = touched /\ IsSnapshot(source)
    BY <1>2 DEF RestoreEntry, TypeOK
  <2>3. /\ k \in DOMAIN source /\ k \in Keys
        /\ source[k].value \in Values /\ source[k].ttl \in Nat
    BY <2>2, EntryTypes DEF RestoreUnderWay
  <2>4. Store!TypeOK'
    BY <2>1, <2>3, SetTypes
  <2>5. /\ data' = [data EXCEPT ![k] = source[k].value]
        /\ ttlData' = IF source[k].ttl # 0
                      THEN [ttlData EXCEPT ![k] = now + source[k].ttl] ELSE ttlData
    BY <2>1 DEF Store!Set
  <2>6. now + source[k].ttl # None
    BY <2>3, SnapshotAssumption DEF TypeOK, Store!TypeOK
  <2>7. /\ data \in [Keys -> Values \cup {None}]
        /\ ttlData \in [Keys -> Int \cup {None}]
    BY DEF TypeOK, Store!TypeOK
  <2>8. ASSUME NEW i \in Keys \ touched', i # k
        PROVE  data'[i] = data[i] /\ ttlData'[i] = ttlData[i]
    BY <2>5, <2>7, <2>8
  <2>9. k \notin touched =>
          data'[k] = source[k].value /\ (ttlData'[k] # None <=> source[k].ttl # 0)
    BY <2>2, <2>3, <2>5, <2>6, <2>7 DEF RestoreUnderWay
  <2>10. RestoreUnderWay'
    BY <2>1, <2>2, <2>3, <2>8, <2>9 DEF RestoreUnderWay
  <2> QED
    BY <1>2, <2>1, <2>4, <2>10 DEF RestoreEntry, TypeOK, creation
<1>3. CASE RestoreReturns
  <2>1. RestoreUnderWay'
    BY <1>3 DEF RestoreReturns, RestoreUnderWay
  <2> QED
    BY <1>3, <2>1 DEF RestoreReturns, TypeOK, Store!TypeOK, store, creation
<1> QED
  BY <1>1, <1>2, <1>3

\* Deleting, importing and forgetting snapshots does not disturb an open restore.
LEMMA SnapshotsKeepInvariant ==
  ASSUME IInv,
         \/ \E name \in Names : DeleteSnapshot(name)
         \/ \E name, from \in Names : ImportSnapshot(name, from)
         \/ Destroy
  PROVE  IInv'
<1> USE DEF IInv
<1>1. UNCHANGED <<store, creation, restore, sights, touched, calls, writes>>
  BY DEF DeleteSnapshot, ImportSnapshot, Destroy
<1>2. RestoreUnderWay'
  BY <1>1, IdleKeepsRestore DEF Bystanders, restore, store
<1>3. /\ snapshots' = [n \in Names |-> snapshots'[n]]
      /\ \A n \in Names : snapshots'[n] = None \/ IsSnapshot(snapshots'[n])
  BY DEF DeleteSnapshot, ImportSnapshot, Destroy, TypeOK
<1> QED
  BY <1>1, <1>2, <1>3 DEF TypeOK, Store!TypeOK, store, creation, restore

\* Writes of other callers keep the invariant.
LEMMA OthersKeepInvariant ==
  ASSUME IInv,
         \/ \E k \in Keys :
              \/ \E v \in Values, ttl \in TTLs : OtherSet(k, v, ttl)
              \/ OtherDel(k)
              \/ \E ttl \in TTLs : OtherExpire(k, ttl)
         \/ OtherFlushall
  PROVE  IInv'
<1> USE DEF IInv
<1>1. ASSUME NEW K \in SUBSET Keys, OtherWrites(K), Store!TypeOK', RestoreUnderWay'
      PROVE  IInv'
  <2>1. writes' \in 0..MaxWrites
    BY <1>1, SnapshotAssumption DEF OtherWrites, TypeOK
  <2> QED
    BY <1>1, <2>1 DEF OtherWrites, TypeOK, creation, restore
<1>2. ASSUME NEW k \in Keys, NEW v \in Values, NEW ttl \in TTLs, OtherSet(k, v, ttl)
      PROVE  IInv'
  <2>1. Store!TypeOK'
    BY <1>2, SetTypes, SnapshotAssumption DEF OtherSet
  <2>2. \A i \in Keys \ {k} : data'[i] = data[i] /\ ttlData'[i] = ttlData[i]
    BY <1>2 DEF OtherSet, Store!Set, TypeOK, Store!TypeOK
  <2>3. OtherWrites({k}) /\ {k} \in SUBSET Keys
    BY <1>2 DEF OtherSet
  <2> QED
    BY <1>1, <2>1, <2>2, <2>3, OtherKeepsRestore
<1>3. ASSUME NEW k \in Keys, OtherDel(k)
      PROVE  IInv'
  <2>1. Store!Drop({k}) /\ OtherWrites({k}) /\ {k} \in SUBSET Keys
    BY <1>3 DEF OtherDel, Store!Del
  <2>2. Store!TypeOK'
    BY <2>1, DropTypes
  <2>3. \A i \in Keys \ {k} : data'[i] = data[i] /\ ttlData'[i] = ttlData[i]
    BY <2>1 DEF Store!Drop
  <2> QED
    BY <1>1, <2>1, <2>2, <2>3, OtherKeepsRestore
<1>4. ASSUME NEW k \in Keys, NEW ttl \in TTLs, OtherExpire(k, ttl)
      PROVE  IInv'
  <2>1. OtherWrites({k}) /\ {k} \in SUBSET Keys /\ Store!Expire(k, ttl)
    BY <1>4 DEF OtherExpire
  <2>2. Store!TypeOK'
    BY <2>1, ExpireAndTickTypes
  <2>3. \A i \in Keys \ {k} : data'[i] = data[i] /\ ttlData'[i] = ttlData[i]
    BY <2>1 DEF Store!Expire, TypeOK, Store!TypeOK
  <2> QED
    BY <1>1, <2>1, <2>2, <2>3, OtherKeepsRestore
<1>5. CASE OtherFlushall
  <2>1. OtherWrites(Keys) /\ Store!Drop(Keys)
    BY <1>5 DEF OtherFlushall, Store!Flushall
  <2>2. Store!TypeOK'
    BY <2>1, DropTypes
  <2> QED
    BY <1>1, <2>1, <2>2, OtherKeepsRestore
<1> QED
  BY <1>2, <1>3, <1>4, <1>5

\* Every step keeps the invariant.
LEMMA NextInvariant == IInv /\ [Next]_vars => IInv'
<1> SUFFICES ASSUME IInv, [Next]_vars
             PROVE  IInv'
  OBVIOUS
<1> USE DEF IInv
<1>1. CASE OtherReads
  <2>1. Store!TypeOK' /\ RestoreUnderWay'
    BY <1>1, ReadKeepsRestore DEF OtherReads, Store!Read, Bystanders, restore
  <2> QED
    BY <1>1, <2>1 DEF OtherReads, TypeOK, creation, restore
<1>2. CASE Sweep
  <2>1. Store!TypeOK' /\ RestoreUnderWay'
    BY <1>2, ReadKeepsRestore DEF Sweep, Bystanders, restore
  <2> QED
    BY <1>2, <2>1 DEF Sweep, TypeOK, creation, restore
<1>3. CASE Tick
  <2>1. Store!TypeOK'
    BY <1>3, ExpireAndTickTypes DEF Tick
  <2>2. RestoreUnderWay'
    BY <1>3, IdleKeepsRestore DEF Tick, Store!Tick, Bystanders, restore
  <2> QED
    BY <1>3, <2>1, <2>2 DEF Tick, TypeOK, creation, restore
<1>4. CASE UNCHANGED vars
  <2>1. RestoreUnderWay'
    BY <1>4, IdleKeepsRestore DEF vars, store, Bystanders, restore
  <2> QED
    BY <1>4, <2>1 DEF vars, store, creation, restore, TypeOK, Store!TypeOK
<1> QED
  BY <1>1, <1>2, <1>3, <1>4, CreationKeepsInvariant, RestoreKeepsInvariant,
     SnapshotsKeepInvariant, OthersKeepInvariant DEF Next

\* The invariant holds in every reachable state.
THEOREM Invariant == Spec => []IInv
  BY InitInvariant, NextInvariant, PTL DEF Spec

\* The store, the snapshots and the open calls keep their types.
THEOREM TypeCorrect == Spec => []TypeOK
<1>1. IInv => TypeOK
  BY DEF IInv
<1> QED
  BY <1>1, Invariant, PTL

\* A restore that is through has given back its snapshot, for every key that
\* nobody else wrote meanwhile, whatever was in the store before.
THEOREM RestoreGivesBack == Spec => []RestoreExact
<1>1. IInv => RestoreExact
  BY DEF IInv, RestoreUnderWay, RestoreExact
<1> QED
  BY <1>1, Invariant, PTL
----------------------------------------------------------------------------
(* What an open creation has collected *)

\* Key k was seen with value v; it was seen gone, or null.
WasThere(k, v) == \E w \in sights : w[k] # None /\ w[k].value = v
WasGone(k) == \E w \in sights : w[k] = None \/ w[k].value = Null

\* What LifeKept says of an entry with this ttl.
LifeIsKept(k, ttl) == \E w \in sights :
  IF ttl = 0 THEN w[k] = None \/ w[k].due = None \/ w[k].due <= now
             ELSE w[k] # None /\ w[k].due # None /\ ttl >= w[k].due - now

SightsTyped == \A w \in sights, k \in Keys :
  w[k] = None \/ w[k].due \in Int \cup {None}

\* Where a creation has got to: every key has its entry with what was seen of it,
\* is still to be read, is waiting for its ttl, or was seen gone.
CreationUnderWay ==
  IF making = None THEN sights = {} ELSE
    /\ SightsTyped
    /\ Sight \in sights
    /\ \A k \in DOMAIN got : WasThere(k, got[k].value) /\ LifeIsKept(k, got[k].ttl)
    /\ making.pending # None => WasThere(making.pending.key, making.pending.value)
    /\ \A k \in Keys : \/ k \in DOMAIN got \cup making.left
                       \/ making.pending # None /\ k = making.pending.key
                       \/ WasGone(k)
    /\ making.counted => making.left = {} /\ making.pending = None

\* What one look at a key says.
LEMMA SightOfKey ==
  ASSUME TypeOK, NEW k \in Keys
  PROVE  /\ Sight[k] # None <=> Store!ExistsResult(k)
         /\ Sight[k] # None => /\ Sight[k].value = data[k]
                               /\ Sight[k].due = ttlData[k]
                               /\ ttlData[k] \in Int \cup {None}
<1>1. data[k] \in Values \cup {None} /\ ttlData[k] \in Int \cup {None}
  BY DEF TypeOK, Store!TypeOK
<1>2. Store!ExistsResult(k) => data[k] # None
  BY DEF Store!ExistsResult
<1>3. Store!ExistsResult(k) =>
        [value |-> data[k], due |-> ttlData[k]] \in [value : Values, due : Int \cup {None}]
  BY <1>1, <1>2
<1>4. Store!ExistsResult(k) => [value |-> data[k], due |-> ttlData[k]] # None
  BY <1>3, SnapshotAssumption
<1>5. Sight[k] = IF Store!ExistsResult(k)
                 THEN [value |-> data[k], due |-> ttlData[k]] ELSE None
  BY DEF Sight
<1> QED
  BY <1>1, <1>4, <1>5

\* More to see, later: what was there stays seen, and what is left of a life
\* only gets shorter.
LEMMA HistoryGrows ==
  ASSUME TypeOK, TypeOK', SightsTyped, sights \subseteq sights', now <= now',
         NEW k \in Keys
  PROVE  /\ \A v : WasThere(k, v) => WasThere(k, v)'
         /\ WasGone(k) => WasGone(k)'
         /\ \A ttl \in Nat : LifeIsKept(k, ttl) => LifeIsKept(k, ttl)'
<1>1. now \in Int /\ now' \in Int
  BY SnapshotAssumption DEF TypeOK, Store!TypeOK
<1>2. \A v : WasThere(k, v) => WasThere(k, v)'
  BY DEF WasThere
<1>3. WasGone(k) => WasGone(k)'
  BY DEF WasGone
<1>4. ASSUME NEW ttl \in Nat, LifeIsKept(k, ttl)
      PROVE  LifeIsKept(k, ttl)'
  <2>1. PICK w \in sights :
          IF ttl = 0 THEN w[k] = None \/ w[k].due = None \/ w[k].due <= now
          ELSE w[k] # None /\ w[k].due # None /\ ttl >= w[k].due - now
    BY <1>4 DEF LifeIsKept
  <2>2. w[k] = None \/ w[k].due \in Int \cup {None}
    BY DEF SightsTyped
  <2>3. IF ttl = 0 THEN w[k] = None \/ w[k].due = None \/ w[k].due <= now'
        ELSE w[k] # None /\ w[k].due # None /\ ttl >= w[k].due - now'
    BY <1>1, <2>1, <2>2
  <2> QED
    BY <2>3 DEF LifeIsKept
<1> QED
  BY <1>2, <1>3, <1>4

\* What every step of an open creation leaves in its history.
LEMMA ObserveHistory ==
  ASSUME TypeOK', SightsTyped, Observe, making' # None
  PROVE  /\ sights \subseteq sights' /\ Sight' \in sights' /\ SightsTyped'
<1>1. sights' = sights \cup {Sight'}
  BY DEF Observe
<1>2. \A k \in Keys : Sight'[k] = None \/ Sight'[k].due \in Int \cup {None}
  BY DEF Sight, TypeOK, Store!TypeOK
<1> QED
  BY <1>1, <1>2 DEF SightsTyped

\* A step in the middle of a creation that leaves its own state alone.
LEMMA OthersKeepCreation ==
  ASSUME IInv, IInv', CreationUnderWay, UNCHANGED creation, now <= now', Observe
  PROVE  CreationUnderWay'
<1> SUFFICES ASSUME making # None
             PROVE  CreationUnderWay'
  BY DEF creation, CreationUnderWay, Observe
<1>1. making' = making /\ got' = got
  BY DEF creation
<1>2. TypeOK /\ TypeOK' /\ SightsTyped
  BY DEF IInv, CreationUnderWay
<1>3. sights \subseteq sights' /\ Sight' \in sights' /\ SightsTyped'
  BY <1>1, <1>2, ObserveHistory
<1>4. /\ \A k \in DOMAIN got : k \in Keys /\ got[k].ttl \in Nat
      /\ making.pending # None => making.pending.key \in Keys
  BY <1>2, EntryTypes DEF TypeOK, Creations
<1>5. \A k \in DOMAIN got : WasThere(k, got[k].value)' /\ LifeIsKept(k, got[k].ttl)'
  BY <1>1, <1>2, <1>3, <1>4, HistoryGrows DEF CreationUnderWay
<1>6. making.pending # None => WasThere(making.pending.key, making.pending.value)'
  BY <1>1, <1>2, <1>3, <1>4, HistoryGrows DEF CreationUnderWay
<1>7. ASSUME NEW k \in Keys
      PROVE  \/ k \in DOMAIN got \cup making.left
             \/ making.pending # None /\ k = making.pending.key
             \/ WasGone(k)'
  <2>1. WasGone(k) => WasGone(k)'
    BY <1>2, <1>3, HistoryGrows
  <2> QED
    BY <2>1 DEF CreationUnderWay
<1> QED
  BY <1>1, <1>3, <1>5, <1>6, <1>7 DEF CreationUnderWay

\* A creation starts by listing what it can see: the rest is gone.
LEMMA CreationStarts ==
  ASSUME IInv, IInv', CreationUnderWay, NEW name \in Names, CreateSnapshot(name)
  PROVE  CreationUnderWay'
<1> SUFFICES ASSUME making' # None
             PROVE  CreationUnderWay'
  BY DEF CreationUnderWay, CreateSnapshot, Observe
<1>1. /\ making = None
      /\ making' = [name |-> name, left |-> {k \in Keys : Store!ExistsResult(k)},
                    counted |-> FALSE, pending |-> None]
      /\ got' = NoEntries
      /\ Store!Drop(Store!Lapsed)
  BY DEF CreateSnapshot, Store!KeysCommand
<1>2. sights = {} /\ SightsTyped
  BY <1>1 DEF CreationUnderWay, SightsTyped
<1>3. sights \subseteq sights' /\ Sight' \in sights' /\ SightsTyped'
  BY <1>2, ObserveHistory DEF CreateSnapshot, IInv
<1>4. ASSUME NEW k \in Keys, ~Store!ExistsResult(k)
      PROVE  WasGone(k)'
  <2>1. Sight'[k] = None
    BY <1>1, <1>4 DEF Sight, Store!ExistsResult, Store!Overdue, Store!Lapsed, Store!Drop
  <2> QED
    BY <1>3, <2>1 DEF WasGone
<1> QED
  BY <1>1, <1>3, <1>4 DEF CreationUnderWay, NoEntries

\* What GET answers was there to be seen, also before the lapsed entry went.
LEMMA ReadValueKeepsCreation ==
  ASSUME IInv, IInv', CreationUnderWay, ReadValue
  PROVE  CreationUnderWay'
<1> SUFFICES ASSUME making' # None
             PROVE  CreationUnderWay'
  BY DEF CreationUnderWay, Observe, ReadValue
<1>0. TypeOK /\ TypeOK' /\ making \in Creations /\ making # None /\ making.pending = None
  BY DEF IInv, TypeOK, ReadValue
<1>1. PICK k \in making.left :
        /\ Store!Get(k)
        /\ making' = [making EXCEPT !.left = @ \ {k},
             !.pending = IF Store!GetResult(k) = Null THEN None
                         ELSE [key |-> k, value |-> Store!GetResult(k)]]
  BY DEF ReadValue
<1>2. /\ k \in Keys /\ got' = got /\ ~making.counted
      /\ making'.left = making.left \ {k} /\ making'.counted = making.counted
      /\ making'.pending = IF Store!GetResult(k) = Null THEN None
                           ELSE [key |-> k, value |-> Store!GetResult(k)]
  BY <1>0, <1>1 DEF ReadValue, Creations, CreationUnderWay
<1>3. now <= now' /\ SightsTyped /\ Sight \in sights
  BY <1>0, <1>1 DEF CreationUnderWay, Store!Get, Store!Drop, TypeOK, Store!TypeOK
<1>4. sights \subseteq sights' /\ Sight' \in sights' /\ SightsTyped'
  BY <1>0, <1>3, ObserveHistory DEF ReadValue
<1>5. ASSUME NEW i \in DOMAIN got
      PROVE  WasThere(i, got[i].value)' /\ LifeIsKept(i, got[i].ttl)'
  <2>1. i \in Keys /\ got[i].ttl \in Nat
    BY <1>0, EntryTypes DEF TypeOK
  <2> QED
    BY <1>0, <1>2, <1>3, <1>4, <2>1, HistoryGrows DEF CreationUnderWay
<1>6. CASE Store!GetResult(k) = Null
  <2>1. WasGone(k)
    <3>1. ~Store!ExistsResult(k) \/ data[k] = Null
      BY <1>6 DEF Store!GetResult, Store!ExistsResult
    <3> QED
      BY <1>0, <1>2, <1>3, <3>1, SightOfKey DEF WasGone
  <2>2. ASSUME NEW i \in Keys, i \notin DOMAIN got \cup making'.left
        PROVE  WasGone(i)'
    <3>1. WasGone(i)
      BY <1>0, <1>2, <2>1, <2>2 DEF CreationUnderWay
    <3> QED
      BY <1>0, <1>3, <1>4, <3>1, HistoryGrows
  <2>3. making'.pending = None
    BY <1>2, <1>6
  <2> QED
    BY <1>2, <1>4, <1>5, <2>2, <2>3 DEF CreationUnderWay
<1>7. CASE Store!GetResult(k) # Null
  <2>1. PICK v : v = Store!GetResult(k)
    OBVIOUS
  <2>2. Store!ExistsResult(k) /\ data[k] = v /\ data[k] # None /\ v \in Values
    BY <1>0, <1>2, <1>7, <2>1
    DEF Store!GetResult, Store!ExistsResult, TypeOK, Store!TypeOK
  <2>3. WasThere(k, v)
    BY <1>0, <1>2, <1>3, <2>2, SightOfKey DEF WasThere
  <2>4. WasThere(k, v)'
    BY <1>0, <1>2, <1>3, <1>4, <2>3, HistoryGrows
  <2>5. /\ making'.pending = [key |-> k, value |-> v]
        /\ making'.pending # None
    <3>1. [key |-> k, value |-> v] \in [key : Keys, value : Values]
      BY <1>2, <2>2
    <3> QED
      BY <1>2, <1>7, <2>1, <3>1, SnapshotAssumption
  <2>6. ASSUME NEW i \in Keys, i \notin DOMAIN got \cup making'.left, i # k
        PROVE  WasGone(i)'
    <3>1. WasGone(i)
      BY <1>0, <1>2, <2>6 DEF CreationUnderWay
    <3> QED
      BY <1>0, <1>3, <1>4, <3>1, HistoryGrows
  <2> QED
    BY <1>2, <1>4, <1>5, <2>4, <2>5, <2>6 DEF CreationUnderWay
<1> QED
  BY <1>6, <1>7

\* What TTL answers allows for the deadline that is to be seen.
LEMMA TtlKeepsLife ==
  ASSUME TypeOK, Sight \in sights, NEW k \in Keys, NEW life \in Nat,
         life = IF Store!TtlResult(k) > 0 THEN Store!TtlResult(k) * MsPerSec ELSE 0
  PROVE  LifeIsKept(k, life)
<1>1. /\ now \in Int /\ ttlData[k] \in Int \cup {None}
      /\ MsPerSec \in Nat \ {0} /\ None \notin Int
  BY SnapshotAssumption DEF TypeOK, Store!TypeOK
<1>2. CASE data[k] = None \/ k \in Store!Overdue
  <2>1. ~Store!ExistsResult(k)
    BY <1>2 DEF Store!ExistsResult
  <2>2. ~(Store!TtlResult(k) > 0)
    BY <1>1, <1>2 DEF Store!TtlResult, Store!Overdue
  <2> QED
    BY <2>1, <2>2, SightOfKey DEF LifeIsKept
<1>3. CASE data[k] # None /\ k \notin Store!Overdue
  <2>1. Store!ExistsResult(k)
    BY <1>3 DEF Store!ExistsResult
  <2>2. Sight[k] # None /\ Sight[k].due = ttlData[k]
    BY <2>1, SightOfKey
  <2>3. CASE ttlData[k] = None
    <3>1. ~(Store!TtlResult(k) > 0)
      BY <1>3, <2>3 DEF Store!TtlResult
    <3> QED
      BY <2>2, <2>3, <3>1 DEF LifeIsKept
  <2>4. CASE ttlData[k] # None /\ ttlData[k] - now <= 0
    <3>1. ~(Store!TtlResult(k) > 0)
      BY <1>3, <2>4 DEF Store!TtlResult
    <3>2. ttlData[k] <= now
      BY <1>1, <2>4
    <3> QED
      BY <2>2, <3>1, <3>2 DEF LifeIsKept
  <2>5. CASE ttlData[k] # None /\ ~(ttlData[k] - now <= 0)
    <3> DEFINE r == ttlData[k] - now
               q == (r + MsPerSec - 1) \div MsPerSec
    <3>1. r \in Int /\ r > 0
      BY <1>1, <2>5
    <3>2. Store!TtlResult(k) = q
      BY <1>3, <2>5 DEF Store!TtlResult
    <3> HIDE DEF r
    <3>3. q \in Int /\ q > 0 /\ q * MsPerSec >= r
      BY <1>1, <3>1, SnapshotAssumption, StoreProofs!CeilingOfQuotient
    <3> HIDE DEF q
    <3>4. life = q * MsPerSec /\ life >= r /\ life # 0
      BY <3>1, <3>2, <3>3
    <3>5. life >= ttlData[k] - now
      BY <3>4 DEF r
    <3> QED
      BY <2>2, <2>5, <3>4, <3>5 DEF LifeIsKept
  <2> QED
    BY <2>3, <2>4, <2>5
<1> QED
  BY <1>2, <1>3

\* The entry that TTL completes has the value that was seen, and no shorter life.
LEMMA ReadTtlKeepsCreation ==
  ASSUME IInv, IInv', CreationUnderWay, ReadTtl
  PROVE  CreationUnderWay'
<1> DEFINE k == making.pending.key
           v == making.pending.value
           answer == Store!TtlResult(k)
           life == IF answer > 0 THEN answer * MsPerSec ELSE 0
<1> SUFFICES ASSUME making' # None
             PROVE  CreationUnderWay'
  BY DEF CreationUnderWay, Observe, ReadTtl
<1>0. TypeOK /\ TypeOK' /\ making \in Creations /\ making # None /\ making.pending # None
  BY DEF IInv, TypeOK, ReadTtl
<1>1. /\ k \in Keys /\ v \in Values /\ ~making.counted
      /\ making' = [making EXCEPT !.pending = None]
      /\ making'.left = making.left /\ making'.counted = making.counted
      /\ making'.pending = None
  BY <1>0 DEF ReadTtl, Creations, CreationUnderWay
<1>2. /\ got' = [i \in DOMAIN got \cup {k} |->
                 IF i = k THEN [value |-> v, ttl |-> life] ELSE got[i]]
      /\ Store!Ttl(k)
  BY DEF ReadTtl
<1>3. now <= now' /\ SightsTyped /\ Sight \in sights
  BY <1>0, <1>2 DEF CreationUnderWay, Store!Ttl, Store!Drop, TypeOK, Store!TypeOK
<1>4. sights \subseteq sights' /\ Sight' \in sights' /\ SightsTyped'
  BY <1>0, <1>3, ObserveHistory DEF ReadTtl
<1>5. life \in Nat
  <2>1. answer \in Int
    BY <1>0, <1>1, TtlResultInt
  <2> HIDE DEF answer
  <2> QED
    BY <2>1, SnapshotAssumption, SMTT(30)
<1>6. WasThere(k, v) /\ LifeIsKept(k, life)
  BY <1>0, <1>1, <1>3, <1>5, TtlKeepsLife DEF CreationUnderWay
<1>7. ASSUME NEW i \in DOMAIN got', NEW value, NEW ttl,
             value = got'[i].value, ttl = got'[i].ttl
      PROVE  WasThere(i, value)' /\ LifeIsKept(i, ttl)'
  <2>1. WasThere(i, value) /\ LifeIsKept(i, ttl)
    <3>1. CASE i = k
      BY <1>2, <1>6, <1>7, <3>1
    <3>2. CASE i # k
      <4>1. i \in DOMAIN got /\ value = got[i].value /\ ttl = got[i].ttl
        BY <1>2, <1>7, <3>2
      <4> QED
        BY <1>0, <4>1 DEF CreationUnderWay
    <3> QED
      BY <3>1, <3>2
  <2>2. i \in Keys /\ ttl \in Nat
    BY <1>0, <1>1, <1>2, <1>5, <1>7, EntryTypes DEF TypeOK
  <2> QED
    BY <1>0, <1>3, <1>4, <2>1, <2>2, HistoryGrows
<1>8. ASSUME NEW i \in Keys, i \notin DOMAIN got' \cup making'.left
      PROVE  WasGone(i)'
  <2>1. i \notin DOMAIN got \cup making.left /\ i # making.pending.key
    BY <1>1, <1>2, <1>8
  <2>2. WasGone(i)
    BY <1>0, <2>1 DEF CreationUnderWay
  <2> QED
    BY <1>0, <1>3, <1>4, <2>2, HistoryGrows
<1> QED
  BY <1>1, <1>4, <1>7, <1>8 DEF CreationUnderWay

\* INFO changes nothing of what was collected.
LEMMA TakeStatsKeepsCreation ==
  ASSUME IInv, IInv', CreationUnderWay, TakeStats
  PROVE  CreationUnderWay'
<1> SUFFICES ASSUME making' # None
             PROVE  CreationUnderWay'
  BY DEF CreationUnderWay, Observe, TakeStats
<1>0. TypeOK /\ TypeOK' /\ making \in Creations /\ making # None
  BY DEF IInv, TypeOK, TakeStats
<1>1. /\ making.left = {} /\ making.pending = None /\ got' = got
      /\ making'.left = {} /\ making'.pending = None
  BY <1>0 DEF TakeStats, Creations
<1>2. now <= now' /\ SightsTyped
  BY <1>0 DEF CreationUnderWay, TakeStats, Store!Info, Store!Drop, TypeOK, Store!TypeOK
<1>3. sights \subseteq sights' /\ Sight' \in sights' /\ SightsTyped'
  BY <1>0, <1>2, ObserveHistory DEF TakeStats
<1>4. ASSUME NEW k \in DOMAIN got
      PROVE  WasThere(k, got[k].value)' /\ LifeIsKept(k, got[k].ttl)'
  <2>1. k \in Keys /\ got[k].ttl \in Nat
    BY <1>0, EntryTypes DEF TypeOK
  <2> QED
    BY <1>0, <1>1, <1>2, <1>3, <2>1, HistoryGrows DEF CreationUnderWay
<1>5. ASSUME NEW k \in Keys, k \notin DOMAIN got
      PROVE  WasGone(k)'
  <2>1. WasGone(k)
    BY <1>0, <1>1, <1>5 DEF CreationUnderWay
  <2> QED
    BY <1>0, <1>2, <1>3, <2>1, HistoryGrows
<1> QED
  BY <1>1, <1>3, <1>4, <1>5 DEF CreationUnderWay

\* Every step keeps what an open creation has collected true to its history.
LEMMA NextCreation ==
  ASSUME IInv, IInv', CreationUnderWay, [Next]_vars
  PROVE  CreationUnderWay'
<1>0. now \in Int
  BY DEF IInv, TypeOK, Store!TypeOK
<1>1. ASSUME UNCHANGED creation, UNCHANGED sights, UNCHANGED store
      PROVE  CreationUnderWay'
  BY <1>1 DEF CreationUnderWay, creation, store, Sight, Store!ExistsResult,
              Store!Overdue, SightsTyped, WasThere, WasGone, LifeIsKept
<1>2. CASE TakeStats
  BY <1>2, TakeStatsKeepsCreation
<1>3. CASE Publish
  BY <1>3 DEF Publish, Observe, CreationUnderWay
<1>4. CASE Sweep
  BY <1>4 DEF Sweep, CreationUnderWay, creation
<1>5. CASE \/ \E name \in Names : DeleteSnapshot(name)
           \/ \E name, from \in Names : ImportSnapshot(name, from)
           \/ Destroy \/ RestoreReturns \/ UNCHANGED vars
  BY <1>1, <1>5 DEF DeleteSnapshot, ImportSnapshot, Destroy, RestoreReturns, vars
<1>6. CASE \/ \E name \in Names : RestoreSnapshot(name)
           \/ RestoreEntry \/ OtherFlushall \/ OtherReads \/ Tick
           \/ \E k \in Keys :
                \/ \E v \in Values, ttl \in TTLs : OtherSet(k, v, ttl)
                \/ OtherDel(k)
                \/ \E ttl \in TTLs : OtherExpire(k, ttl)
  <2>1. UNCHANGED creation /\ Observe
    BY <1>6 DEF RestoreSnapshot, RestoreEntry, OtherFlushall, OtherReads, Tick,
                OtherSet, OtherDel, OtherExpire, OtherWrites
  <2>2. now' = now \/ now' = now + 1
    BY <1>6 DEF RestoreSnapshot, RestoreEntry, OtherFlushall, OtherReads, Tick,
                OtherSet, OtherDel, OtherExpire, Store!Set, Store!Del, Store!Expire,
                Store!Flushall, Store!Read, Store!Get, Store!Exists, Store!Ttl,
                Store!KeysCommand, Store!Info, Store!Tick, Store!Drop
  <2> QED
    BY <1>0, <2>1, <2>2, OthersKeepCreation
<1> QED
  BY <1>2, <1>3, <1>4, <1>5, <1>6, CreationStarts, ReadValueKeepsCreation,
     ReadTtlKeepsCreation DEF Next

\* What an open creation has collected is true to its history.
THEOREM CreationInvariant == Spec => []CreationUnderWay
<1>1. Init => CreationUnderWay
  BY DEF Init, CreationUnderWay
<1>2. IInv /\ IInv' /\ CreationUnderWay /\ [Next]_vars => CreationUnderWay'
  BY NextCreation
<1> QED
  BY <1>1, <1>2, Invariant, PTL DEF Spec

\* A finished creation has, for every key, what was there at some moment of it.
THEOREM SnapshotsAreRegular == Spec => []EachEntryWasThere
<1>1. CreationUnderWay => EachEntryWasThere
  BY DEF CreationUnderWay, EachEntryWasThere, WasThere, WasGone, Seen
<1> QED
  BY <1>1, CreationInvariant, PTL

\* A snapshot does not cut the life of a key short.
THEOREM SnapshotsKeepLife == Spec => []LifeKept
<1>1. CreationUnderWay => LifeKept
  BY DEF CreationUnderWay, LifeKept, LifeIsKept, Seen
<1> QED
  BY <1>1, CreationInvariant, PTL
============================================================================
