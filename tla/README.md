# A verification project for SnapDB

SnapDB (`src/`, TypeScript) is a Redis-like in-memory key-value database for one
Node.js process.  This directory holds TLA+ models of it, TLC configurations that
check them on small instances, and theorems about them with proofs that TLAPS
checks.

Run `tlc -config X.cfg M` for a run of the table below, `tlapm M_proofs.tla` for
the proofs.

## 1. The system

What is exported (`src/src/index.ts`) as `SnapDB` is the class `SimpleSnapDB`: a
client over the store `SimpleStorage`, both in the caller's process.  Plugins,
middlewares and event listeners hang on the client.  The repository also holds an
older, worker-thread client (`client/SnapDB.ts`) with an LSM-tree engine behind
it (`worker/`), which the published build excludes.

Everything runs on one JavaScript thread.  A command is an `async` method: it runs
without interruption up to its first `await`, and what follows an `await` of the
in-memory store is a *microtask*, put at the end of a first-in first-out queue.
Timers run only when that queue is empty.  So concurrency here is the
interleaving of the pieces of overlapping commands between their awaits.

| Component | State | Operations | Interacts with | What is hard | What makes it correct |
|---|---|---|---|---|---|
| `SimpleStorage` | `data`, `ttlData` (deadlines) | set, get, del, exists, expire, ttl, incr, decr, keys, info, flushall, mget, mset, the sweep | called by the client; a `setInterval` sweep every 30 s | lazy expiry: lapsed entries stay until someone looks; four kinds of places compare deadlines, one differently; incr/decr/mget/mset await inside | nothing vanishes before its deadline, nothing returns by itself, no deadline outlives its entry, lapsed memory is reclaimed, TTL answers agree with what GET shows |
| `SimpleSnapDB` | the listeners, middlewares, plugins, `isReady` | the same commands, `use`, `register`, `close`, events | wraps every command in middlewares, then emits | the event comes one microtask after the change; some changes have none; read-then-write counters; close with commands under way | events arrive in the order of the changes; counters and batches behave under interleaving |
| Middlewares | counters of `MetricsMiddleware` | execute, reset | chain around each command | counters captured before an await, `reset` in between | totals equal what was executed |
| `SnapshotPlugin` | snapshots by id | create, restore, delete, list, export, import | reads and writes through the client | long chains of awaits over a store that changes; remaining TTL rounded up | a snapshot is a state that existed; a restore reproduces it |
| `PersistencePlugin` | dirty flag, files, backups | save, load, rotate, auto-save, destroy | listens to the client's events, the file system | writes during a save, overlapping saves, crash between file operations | what was acknowledged and is not dirty is on disk |
| `PubSubPlugin` | subscribers by channel and pattern | subscribe, unsubscribe, publish | callbacks | callbacks that change the list being walked | each subscriber gets each message once |
| Worker client `SnapDB` | pending requests, `isReady` | send, message, timeout, worker error, close | posts messages to the worker | handshake, late answers, dead worker | each request is settled exactly once |
| Worker loop, `StorageEngine`, WAL | memtable, tables, log | get, put, delete, flush | the LSM parts | the engine calls methods that its parts lack | - |
| Memtable, `SSTable`, `BloomFilter` | sorted entries, bits | put, search, merge | the engine | search order, tombstones, false positives | equal to a plain map |
| `CompactionEngine` | levels of tables | compact, merge | tables | overlapping tables, dropped tombstones | a merge keeps the newest entry of each key |
| `SnapDBEventEmitter`, utilities, types | - | formatting, identifiers, declarations | - | - | - |

The hazards of each component, at the line where each bites, are in
`PROJECT.json`; the properties below are written for them.

## 2. The modules

| Module | Models | Lines of source |
|---|---|---|
| `SimpleStorage` | the store, its sweep and the clock | `src/src/simple-storage/SimpleStorage.ts` |
| `SimpleSnapDB` | the client and its microtask queue, composed with the store (`Store == INSTANCE SimpleStorage`) | `src/src/client/SimpleSnapDB.ts` |
| `Snapshot` | the snapshot plugin and other callers, over the store (`Store == INSTANCE SimpleStorage`) | `src/src/plugins/SnapshotPlugin.ts` |
| `Persistence` | the persistence plugin, its files, the process that may die | `src/src/plugins/PersistencePlugin.ts` |
| `WorkerClient` | the worker-thread client, the thread at the other end, the two channels between them | `src/src/client/SnapDB.ts`, `src/src/worker/worker.ts` |
| `MetricsMiddleware` | the metrics of the calls of `WorkerClient` (which it extends) | `src/src/middleware/MetricsMiddleware.ts` |
| `PubSub` | the publish/subscribe plugin and the callbacks that use it | `src/src/plugins/PubSubPlugin.ts` |
| `LSM` | memtable, sorted tables, Bloom filter, compaction | `src/src/worker/storage/`, `src/src/worker/compaction/` |
| `*_proofs`, one for each of the above (`WorkerClient_proofs` for the metrics, too) | theorems and their proofs | - |
| `DataLemmas` | lemmas about data that the proofs share: induction, sums, loops, orders, listings | - |
| `MCSimpleStorage`, `MCClient`, `MCSimpleSnapDB`, `MCSnapshot`, `MCWorker`, `MCPubSub`, `MCLSM` | small instances for TLC | - |

Operators whose comment begins "Mutant of" are wrong versions of the definition
they precede.  Nothing uses them; they are kept to show which mistake each
property would catch: put in the place of the original, the run of the property
fails.

### 2.1 `SimpleStorage`

State: `now` is `Date.now()`, `data` the value in each key's entry, `ttlData` the
deadline in the second map; `None` is an absent entry of a map.  Each action is
one method, from call to return or, for the methods with awaits inside, one
piece of it.

* `Set`: a ttl is stored only if it is truthy, so 0 and "not given" are one case
  (`ttl = 0`), and then an older deadline **stays**.  A negative ttl is accepted.
* `Get`, `Exists`: drop the key when it is overdue.  `Ttl` drops it one tick earlier
  (`<= 0` against `>`).
* `KeysCommand`, `Info` and `cleanupExpiredEntries` walk over `data` and drop every
  lapsed entry (`Lapsed`); an entry is only ever visited through `data`, which is why
  a deadline without an entry would be permanent (`NoOrphanDeadline`).
* `Expire` asks only `data.has(key)`.
* Answers are operators: `GetResult`, `ExistsResult`, `TtlResult`.  `Null` is JavaScript's
  null, the answer for a missing key and also a value that callers may store.

Two sources of steps are the environment's: the callers (`Write`, `Read`) and the
clock (`Tick`).  The clock does not run backwards in the model.

### 2.2 `SimpleSnapDB`

The store's three variables, and:

* `micro`: the queue of microtasks.  A record in it is the rest of one async
  method: which event to emit (`set`, `get`, `del`, `expire`, `flush`), which count to
  write back (`count`, with the number `seen` before the await), or which keys of a
  batch are left (`mset`, `mget`, with the values `got`).
* `listening` and `mirror`: a listener that copies what `set`, `del` and `flush`
  events say into a map of its own.
* `announced`, `incrs`, `decrs`: history variables.  They record which keys last changed
  through a command with an event, and how many counter calls each key had.  No guard
  of the client reads `announced`; the counts bound the calls.

The actions of `Call` are the part of a command before its first await: the store has
done its work when the method yields.  `Emit`, `WriteCount`, `MsetNext`, `MgetNext` and
`BatchReturns` take the head of the queue.  New calls may come between any two
microtasks.  That is more freedom than one caller has, and what several
independent callers produce together.  `Sweep` needs an empty queue, being a timer.
The clock may tick at any point.  `Close` removes the listeners and nothing else: the
source neither stops the sweep nor refuses later commands.

Two simplifications of the microtask order: the middlewares that ship call
`next()` at once, so a command reaches the store in the call itself; and the
microtasks of a command that change and emit nothing (resolving the outer promise)
are left out.  An await costs one turn of the queue.

### 2.3 `Snapshot`

One creation (`making`, the entries `got` so far) and one restore (`source`, the keys
`left`) may be open, and between any two of their awaits other callers SET, DEL, EXPIRE,
FLUSHALL and read, the sweep runs and the clock ticks.  `ReadValue` and `ReadTtl` are the
two awaits of one key, with a gap between them; `TakeStats` is the `info()` at
the end, which drops lapsed entries like every reader.  `RestoreSnapshot` flushes,
`RestoreEntry` sets one entry with its remembered ttl, in milliseconds, counted from now.

Histories: `sights` records of each key what the store showed since the creation began, `touched` the
keys other callers wrote since the restore began.

### 2.4 `Persistence`

State: the store is `data`, a value or `None` for each key; `told` an event on its way to
the plugin's listeners, `isDirty` the flag.  `save[s]` is how far a save has got:
`collect` (keys `left` to read), `rotate` (the next `file` to move), `write` (the file it
has open).  `disk` holds what is in each file: nothing, a whole content, or `Torn`, what a file is
from the moment `writeFile` opens it until it is done.  File 0 is `snapdb.json`, file
n the backup with index n-1.

* A step of a save that follows a file operation (`Back`) finds no microtask waiting: an
  event is always heard before.
* Two saves may be open: the timer does not wait, and callers save when they like.  A rename
  then moves a file another save has open (`Renamed`), and two writers of one
  file may leave a mixture (`Contended`).
* `WriteFails` is a rejected `writeFile`, before or after the file was opened.  `Crash` may
  come anywhere; `Restart` is `init` on what the crash left on disk.
* `Unheard` are the keys that change without an event: by INCR, DECR, MSET, or a deadline.

Histories: `unsure` are the keys the flag cannot speak for, written while a save was open or
without an event; a save that begins alone starts afresh.  `setbacks` counts the saves cut
short since one went through.

### 2.5 `WorkerClient` and `MetricsMiddleware`

State of the client: `isReady`; `readied`, the promise of `initializeWorker`; for each call its
`phase`, from `waiting` (in `ensureReady`) or `going` over `sent` to one of `Settled`; `pending` and
`timers`, the entries of `pendingRequests` and the armed timers.  State of the thread:
whether it lives, the calls it is `working` on and what they `ran` to.  Between them two
first-in first-out channels, and `trouble`, the `error` and `exit` events still to be delivered.

* `SendCommand` is the executor of `sendCommand`'s promise: timer and entry come before `postMessage`, which
  may throw (on a value that cannot be cloned, or after `close`), and then the promise is
  rejected with both still there.
* `handleWorkerResponse` settles what the answer's id finds, or drops the answer.  Whether an
  EXPIRE emits depends on its answer.
* `WorkerError`, `Terminate` and `Timeout` are the other three ways in which a call is
  settled.  `DestroyFails` is a plugin whose `destroy` rejects: `close` rejects and may be called again.
* The thread answers in any order (`Respond`), fails, or dies at any point (`Crash`);
  MGET and MSET are commands `executeCommand` does not know.

The two sides of the repository do not speak one language.  The client waits for a bare
`{type: 'ready'}`, posts bare requests and reads bare answers; `worker.ts` starts at the first
message it gets, whatever that is, posts no `ready`, ignores what is not wrapped in a `request`, and wraps
its answers.  `Speaks = "worker.ts"` is that thread.  `Speaks = "client"` is a thread with the
same loop that speaks as the client expects: the only way to exercise the rest
of the client, and what the client was written for.

`MetricsMiddleware` only watches: each step of the client is composed with `Record`, which
counts the calls that the step begins, answers or fails.  `capturedIn` is the metrics object (numbered
by `resets`) whose per-command counters a call looked up before its await.

### 2.6 `PubSub`

Everything is synchronous, so `frame` is the one `publish()` that may be under way:
`exact` while `emit` walks its copy of the listeners, `pattern` while the loops walk the live Map
and, in it, a live array, by `index`.  A callback may subscribe, unsubscribe, call `destroy()` or throw
(`AppRuns` says when the application's code has the thread).  An entry of the Map is dated by `since`, the id
that created it, which gives the Map's order and tells a deleted and recreated entry from the one that is
walked.  `destroy()` drops the Map, but the loop keeps its array: `orphan`.
`Off` is `EventEmitter.off`, modelled by what Node documents: the last listener that is
this callback.  Callbacks do not call `publish()` again.

Histories: `told` counts the calls per subscription of this `publish()`, `witnesses` are those live when it
began, `disturbed` the patterns that lost one since.

### 2.7 `LSM`

Memtable (`Set`, `Get`, `Delete`, the size), `binarySearch` with the filter before it,
and the whole of `compact`: grouping by level, sorting by age, the merge of level 0 and the k-way merge
of four tables of a higher level.  All of it is as in the code: tombstones and lapsed entries are
dropped at every merge, equal timestamps keep the first met, the k-way merge keeps duplicates.
A loop of the code is a recursive function of the number of its turns (`Narrow` is a turn of the binary search,
`MergeTurn` one of the k-way merge) or a fold; `Array.sort` and `filter` are `Ascending` and `Taken`, by what they do.

Nothing in the repository composes these parts (`StorageEngine` calls methods they do not
have), so their owner is external.  It does what `StorageEngine` means to, and no more is assumed of it:

* It flushes when `shouldFlush` says so, before it writes to the memtable again.  A flush is all in memory, so it takes no
  time: the same key may be written, flushed, written and flushed again within one millisecond.
* It marks deletions by null without a ttl, and reads the newest place first (`Read`).
* It may move the oldest table of level 0 to level 1 as it is (`SetLevel`), and have any run of its tables, of
  level 0 the oldest, compacted (`Compact`): all of them at once, level by level, or two of one level.
  The result of `compact` is put in their place, in the order in which `compact` returns it.

`Keys` are numbers in the order of `<`, and `Rank` is the order of `localeCompare`.  `flushes` bounds the
behaviour.  Histories: `newest` is what a plain map would hold; `tied` are the keys whose last write fell into the
millisecond of an earlier one that had been flushed before it; `shuffled` says that more than four tables of level 1
were given to one `compact`, which then puts the merged oldest four behind the newer ones.

The correspondence of every definition with its lines is in `PROJECT.json` under "map".

## 3. The runs

| Run | Question | Checks |
|---|---|---|
| `storage` (`MCSimpleStorage.cfg`) | does lazy expiry lose or resurrect anything? | `TypeOK`, `NoOrphanDeadline`, `TtlHonest`, `ReadsLeaveNoTrace`, `BackOnlyByWrite`, `Reclaimed` |
| `stillborn` (`MCStillborn.cfg`) | is a value that was just set there? | `ReadYourWrite`: **violated** |
| `client` (`MCClient.cfg`) | do events tell the truth under interleaving, expiry and close? what do overlapping INCR, DECR, SET, DEL do to a counter? can an MGET see half an MSET? is the client a store? | `TypeOK`, `MirrorCatchesUp`, `CounterInRange`, `BatchNeverTorn`, `ImplementsStorage` |
| `lost_update` (`MCLostUpdate.cfg`) | does every INCR count? | `CountersExact`: **violated** |
| `snapshot` (`MCSnapshot.cfg`) | what does a snapshot hold, and does a restore give it back, while others write? | `TypeOK`, `EachEntryWasThere`, `LifeKept`, `RestoreExact` |
| `torn_snapshot` (`MCTornSnapshot.cfg`) | is a snapshot the state of one moment? | `PointInTime`: **violated** |
| `persistence` (`MCPersistence.cfg`) | does the flag tell the truth, do files survive, are changes saved? | `TypeOK`, `CleanMeansSaved`, `AWholeFileSurvives`, `HeardGetsSaved` |
| `lost_write` (`MCLostWrite.cfg`) | is all saved when the flag says so? | `NothingUnsaved`: **violated** |
| `worker` (`MCWorker.cfg`) | is every call of the worker client settled, once, by its own answer? do the metrics say what happened? | `MetricsTypeOK`, `AnswerIsItsOwn`, `NobodyForgotten`, `NoLeftovers`, `MetricsTellCalls`, `TotalsCoverCommands`, `CallsSettle` |
| `handshake` (`MCHandshake.cfg`) | does the client ever get to work with the thread of this repository? | `EveryCallSettles`: **violated** |
| `pubsub` (`MCPubSub.cfg`) | what do callbacks that subscribe and leave do to the `publish()` under way? | `TypeOK`, `BooksBalance`, `PatternsFiled`, `NobodyToldTwice`, `QuietAfterPunsubscribe`, `UndisturbedAreTold` |
| `lsm` (`MCLSM.cfg`) | do flushes and compactions, of whatever tables, lose what was written last or hide it? | `TypeOK`, `SizeAccounted`, `NewestSurvives`, `SortedMeansFound`, `ReadsNewest` |

What they show:

* `storage`.  Lazy expiry cannot be observed: GET, EXISTS, KEYS, INFO and the sweep
  delete entries, but what any of GET, EXISTS and TTL would say next is the same
  before and after.  TTL asked at the very millisecond of a deadline is the
  exception: it deletes an entry GET would still return.  A key that GET no longer sees comes back through SET, or through
  EXPIRE of an entry nobody had dropped yet (`BackOnlyByWrite`).  Every
  lapsed entry is eventually reclaimed or revived (`Reclaimed`).
* `stillborn`.  SET with a ttl, the deadline passes, SET without a ttl: the
  new value inherits the dead deadline and the next GET deletes it.  Whether it
  survives depends on whether a read or the sweep dropped the old entry in between: the one
  way in which a caller can tell.
* `client`.  The first-in first-out queue keeps events in the order of the changes,
  so the last event under way about a key is always about its present value,
  unless the change was one of those with no event: INCR, DECR, MSET, expiry.
  Counts can be lost, but none is applied twice, and a counter stays within what its calls and the
  largest stored number span, even when a DEL or FLUSHALL runs between the read and the write.
  An MSET yields between keys, so a mixture is in memory; an MGET with
  the same key order starts behind it in the queue and stays behind or ahead.  With another
  key order the property is false: hence the one list of the batch callers.
* `lost_update`.  Two INCRs that overlap both read 0 and both write 1.
* `snapshot`.  Key by key a snapshot is right: what it has was there at some moment while it
  was made, and a remembered ttl never shortens a life, nor makes one endless unless the key
  was seen gone, due or without a deadline.  After a
  restore every key that nobody else wrote is as in the snapshot.
* `torn_snapshot`.  Taken together the entries need not have been there at once: a key is listed, another is
  added, the first is deleted, and the snapshot is empty though the store never was.
* `persistence`.  The flag can be trusted for every key not written during a save nor
  without an event, also after crashes and failing writes.  Rotation keeps a
  whole copy at every instant, as long as fewer saves in a row are cut short than there are
  backups and saves do not overlap; two that do can truncate the only whole file.
  A change that the plugin has heard of is in the file in the end, through failing and overlapping saves
  (`HeardGetsSaved`), unless the process dies, the key is written while a save is open, or saves overlapped: for
  the written key see `lost_write`.
* `lost_write`.  A save lists the keys, a SET arrives and marks the plugin dirty, the save
  ends and clears the flag.  The value is not on disk and nothing will write it.
* `worker`.  However late answers are, however often the thread dies or `close` fails, a call is told only what
  the thread did for it, keeps its timer until it is settled, and leaves nothing behind.  It is
  always settled, except that calls which wait for a client that never became ready, over a thread
  that is gone, wait for ever: `ensureReady` has no timeout (`CallsSettle` names the case).  The totals
  are right until a `reset()`; after one that came while a call was under way, that call
  is in the new totals and in counters nobody sees.
* `handshake`.  With the thread of this repository no call is ever settled: both sides wait for the
  other's first message.
* `pubsub`.  Counts, listeners and arrays agree after any sequence, also with one callback subscribed
  twice.  A `publish()` calls nobody twice and nobody who has left (except after `destroy()`, out of an array it
  was walking).  It may miss someone: whoever stands behind a subscription that is removed
  from the same array while it is walked (`UndisturbedAreTold` is exact about that).
* `lsm`.  The size never drifts; the search finds what an ordered table holds; no flush or merge loses the last
  value, whatever tables the owner chooses, but for one case: if an earlier version of the key was flushed within the same
  millisecond, the merge of level 0 keeps that earlier one (`CompactionEngine.ts:183` asks for a strictly greater
  timestamp, so the comment above it, "Keep the latest version", is not true of equal ones).  `tied` names the
  keys to which this may happen; the run has such keys, and without the premise `NewestSurvives` fails on them.
  Reading newest first is right as long as no table holds two versions of the key, which repeated
  compactions of level 1 do produce, no key is tied, and no more than four tables of level 1 were compacted at once
  (without that premise `ReadsNewest` fails: the branch of `CompactionEngine.ts:125` puts old versions in the newest
  place).  A deleted key may come back: the properties speak only of values.

### Bounds

* `storage`: two keys (a sweep takes one and spares one), one value besides null, ttls
  {-1, 0, 1, 3} (past, not given, shorter and longer than a unit), two ticks to a
  "second", so that rounding up differs from rounding down, and five ticks, so that a
  deadline can be set, pass, and be set again.  1 926 states.
* `client`: three kinds of callers, one per behaviour (`workload`), 1 182 117 states in all.  `events`: two
  keys, three commands under way, two ticks; enough for a change, its delayed event, and a second
  change between them.  `counters`: one key and three counter calls with three
  commands under way: two that overlap and one after, or a DEL between read and
  write; a value that parses to 2.  `batches`: three keys, two values, four commands under
  way (two MSETs and two MGETs), one key order.  `BatchNeverTorn` holds in all three: of the first two kinds
  one reads no batches and the other batches of one key.
* `lost_update`: two INCRs of one key.
* `snapshot`: two keys (the order in which they are read matters), one value besides null, a ttl of
  less than a unit, two calls of the plugin (a creation whose snapshot is then restored, or two
  creations) and three writes of others: one before, one during, one after.  Symmetric in the
  keys.  214 949 states.  `torn_snapshot` needs no time, and one call.
* `persistence`: two keys (one read before a write, one after), one of them `Unheard`; two
  saves, which overlap; two backups, so that the number of cut-short saves the property
  allows (one) is reached and a rotation overwrites a backup; two writes or loads and one
  fault.  892 887 states.  Longer runs of faults are left to the theorem.  `lost_write`: one
  save, no fault, no key that changes unheard, so that nothing else can be to blame.
* `worker`: two calls (one can be late while the other is settled), an EXPIRE, whose event depends on its
  answer, and an MSET, which may fail to be posted and which the thread does not know; two resets, one with
  a call under way and one without.  172 944 states.  `handshake`: one call, no crash, no close.
* `pubsub`: one channel and two patterns that match it (one walked, one ahead), two callbacks, four
  subscriptions: two in an array, one removed while it is walked, one new.  303 317 states.
* `lsm`: two keys, one value and the tombstone, a ttl of nothing or 1 ms; a memtable that one entry with a ttl or any
  two fill, so that tables overlap; three milliseconds, so that two versions of a key may share one or not.  Three
  kinds of owners, one per behaviour (`workload`), which flush, move, compact and wait as they like.  `calls`: every call of
  the memtable, two flushes.  `merges`: values and tombstones over three tables, enough for a level 1 that
  overlaps a level 0.  `levels`: entries with a ttl, one to a table, and five flushes, so that level 1 can hold the five
  tables with which the merge of four leaves one out.  `Rank` is the identity: where it is not, the premises of the last two
  properties fail, as the code does.  Three hash values per key, not all different
  modulo the size of a filter.  1 150 597 states.
* `MaxPending`, `MaxCounts`, `MaxTime`, `MaxFlushes`, `MaxCalls`, `MaxWrites`, `MaxFaults`, `MaxResets` and `MaxId` are bounds of
  the checking only; the theorems hold for every value of them.

Deadlock is checked in every run but three: `worker` and `handshake`, where all calls may be settled and the
client closed, or everyone wait for ever, and `lsm`, whose bounds end a
behaviour with a full memtable.  Between them the runs take every action.

### Fairness

`SimpleStorage!FairSpec` assumes weak fairness of the sweep.  The constructor of
the store's client starts it with `setInterval` and never stops it.  Callers and the
clock are under no obligation.  The sweep runs only when the microtask queue is
empty, so the assumption is about callers that pause: a caller that awaits commands
in an endless loop of microtasks starves it.

`Persistence!FairSpec` assumes it of the listener, of each step of a save (a promise of the
file system settles) and of the auto-save: `init` starts its timer with an interval that is never 0.
Nobody has to save by hand, to load or to crash.  The number of faults is bounded, so
writing works in the end; a disk that stays full never gets anything saved.
`disableAutoSave` takes the assumption away and is not in the model.

`WorkerClient!Fairness` assumes that armed timers fire, that posted messages and the thread's events are
delivered, that the poll of `isReady` runs, that `terminate()` ends, and that a thread that was started
starts.  All of it is the runtime's.  The thread need not handle or answer a request, and
nobody need call or close.

## 4. The theorems

All hold for every set of keys and values and every value of the bounds, from the
assumptions on constants that TLC evaluates in the runs (`StorageAssumption`,
`ClientAssumption`, `SnapshotAssumption`, `PersistenceAssumption`, `NoneIsNoSave`, `WorkerAssumption`,
`MetricsAssumption`, `PubSubAssumption`, `LSMAssumption`; most say only that bounds are numbers and that the mark for
"nothing" is no value, record or file; `LSMAssumption` and `MetricsAssumption` also ask that keys and calls be finitely
many, and `LSMAssumption` that no two keys have one rank).

| Theorem | States |
|---|---|
| `SimpleStorage_proofs!TypeCorrect` | `Spec => []TypeOK` |
| `SimpleStorage_proofs!DeadlinesHaveEntries` | `Spec => []NoOrphanDeadline` |
| `SimpleStorage_proofs!ReadsAreUnobservable` | `Spec => ReadsLeaveNoTrace` |
| `SimpleStorage_proofs!NothingComesBackByItself` | `Spec => BackOnlyByWrite` |
| `SimpleStorage_proofs!TtlAnswersAreHonest` | `Spec => []TtlHonest` |
| `SimpleSnapDB_proofs!TypeCorrect` | `Spec => []TypeOK` |
| `SimpleSnapDB_proofs!CountersStayInRange` | `Spec => []CounterInRange` |
| `SimpleSnapDB_proofs!EventsFollowTheStore` | `Spec => []MirrorCatchesUp` |
| `SimpleSnapDB_proofs!ClientImplementsStorage` | `Spec => Store!Spec` |
| `SimpleSnapDB_proofs!BatchesStayWhole` | `Spec => []BatchNeverTorn`, when all batches name the same list of distinct keys and nothing else writes (`OneKeyList`) |
| `Snapshot_proofs!TypeCorrect` | `Spec => []TypeOK` |
| `Snapshot_proofs!RestoreGivesBack` | `Spec => []RestoreExact` |
| `Snapshot_proofs!SnapshotsAreRegular` | `Spec => []EachEntryWasThere` |
| `Snapshot_proofs!SnapshotsKeepLife` | `Spec => []LifeKept` |
| `Persistence_proofs!TypeCorrect` | `Spec => []TypeOK` |
| `Persistence_proofs!AWholeFileAlwaysSurvives` | `Spec => []AWholeFileSurvives` |
| `Persistence_proofs!TheFlagIsHonest` | `Spec => []CleanMeansSaved` |
| `WorkerClient_proofs!TypeCorrect` | `Spec => []TypeOK` |
| `WorkerClient_proofs!NobodyIsForgotten` | `Spec => []NobodyForgotten` |
| `WorkerClient_proofs!NothingIsLeftOver` | `Spec => []NoLeftovers` |
| `WorkerClient_proofs!AnswersAreTheirOwn` | `Spec => []AnswerIsItsOwn` |
| `WorkerClient_proofs!MetricsTypeCorrect` | `MeteredSpec => []MetricsTypeOK` |
| `WorkerClient_proofs!MetricsTellTheTruth` | `MeteredSpec => []MetricsTellCalls` |
| `WorkerClient_proofs!TotalsCoverTheCommands` | `MeteredSpec => []TotalsCoverCommands` |
| `PubSub_proofs!TypeCorrect` | `Spec => []TypeOK` |
| `PubSub_proofs!ArraysHoldTheLive` | `Spec => []PatternsFiled` |
| `PubSub_proofs!QuietForever` | `Spec => QuietAfterPunsubscribe` |
| `PubSub_proofs!ToldOnce` | `Spec => []NobodyToldTwice` |
| `PubSub_proofs!TheBooksBalance` | `Spec => []BooksBalance` |
| `PubSub_proofs!NobodyElseIsPassedOver` | `Spec => UndisturbedAreTold` |
| `LSM_proofs!TypeCorrect` | `Spec => []TypeOK` |
| `LSM_proofs!SizeIsAccounted` | `Spec => []SizeAccounted` |
| `LSM_proofs!NewestAlwaysSurvives` | `Spec => []NewestSurvives` |
| `LSM_proofs!SortedIsFound` | `Spec => []SortedMeansFound` |
| `LSM_proofs!ReadsAreNewest` | `Spec => []ReadsNewest` |

The store.  `TypeOK /\ NoOrphanDeadline` is inductive: whatever deletes, deletes from both
maps by `Drop`, and only `Set` and `Expire`, which need or make an entry, add a deadline.
The action properties follow from it: one lemma says that a `Drop` of overdue keys
changes no answer (`DropOfOverdueUnseen`), one follows `View` through each step.  `TtlHonest` is arithmetic of rounding up
(`CeilingBounds`) on top of it.

The client.  `CounterInRange` is not inductive as it stands: a count that is still in the
queue will be written later.  `PendingInRange` says that each `seen` is within the range
with the call itself not yet counted, and `IInv` is
`TypeOK /\ Store!NoOrphanDeadline /\ CounterInRange /\ PendingInRange`.  For `MirrorCatchesUp` the
argument is about the last event under way for a key: appending makes the new event the
last, taking the head either leaves the last one in place or moves it to the
mirror.  The refinement maps each client step to one step of the store or to a stutter; it
needs the invariant because `WriteCount` is a store SET only of a value in
`Contents`.

The batches.  `BatchesStayWhole` needs to know what an MGET *will* read.  `Older` orders the batches under way by keys
treated, then by place in the queue; the head goes to the end one key further, so the order
never changes: no batch overtakes another.  `Foretold` says of an MGET that has read a value that
the last of the older MSETs writes that value, and that every key which none of these has still to
write shows it already.  The lemmas about it come in two groups: the first speaks of places and numbers only, one lemma
for each way in which the queue can move; the second maps the client's queue to it.  `OneKeyList` is what the callers
of the workload `batches` in the run `client` keep to; without it MGET may well see half an MSET.

The snapshots.  `RestoreExact` speaks of a restore that has returned; `RestoreUnderWay` says the
same of the keys already set, and of those `left` that they are still gone, unless
others touched them.  For a creation, `CreationUnderWay` says that each entry `got` was sighted with that
value; the rest is that `sights` only grows.

The files.  `AWholeFileSurvives` is not inductive: one must know *where* the newest whole copy is.
`Kept` says that it has gone down at most one place for every setback, and that a rotation
in progress either has not reached it yet or has moved it one place further: so the
loop from the last place to the first never overwrites it.  It needs `Alone`, no overlapping saves.
`CleanMeansSaved` follows from `Seen`: a lone save has copied what is in the store, for
every key not yet `unsure`; where saves overlap, every key is.

The worker client.  `Linked` relates a call's phase to its entry and its timer, and gives `NobodyForgotten` and
`NoLeftovers`.  `AnswerIsItsOwn` needs more: `Once` says that each call is at most in one of the places request,
work and answer, and only once in each channel, and `Truthful` that an answer under way says what `ran`
says.  Those are arguments about queues: what is appended was nowhere before, what is taken from
the head is nowhere afterwards.  The metrics only watch the client (lemma `MeteringChangesNothing`), so
all of this holds with them; `MetricsTellCalls` follows from `SettledForGood`, which says that
no step changes the phase of a settled call.  `TotalsCoverCommands` equates a sum by a fold over the commands with a
total: `CountsAddUp` says that the counts of any set of calls sum to its size, and `CapturedHere` that a call under
way holds the present counters unless a reset came in between.

Publish and subscribe.  An array's ids increase, so `splice` takes out exactly one id (`Spliced`) and moves the
others only towards the front.  `GivenOut` says that ids in arrays were given
out before and that an `orphan` holds nobody live.  `ToldOnce` needs `YetUntold`: nobody in a
place behind `index`, in an entry of the Map younger than `since`, or not yet given out, has been told.
`NobodyElseIsPassedOver` is the other half: `NobodyMissed` says that whoever is `Due` (there since the publish() began, in an array that
lost nobody) has been told or is still to come, and that no two entries of the Map are of one age; without the
latter the outer loop could pass over an entry as old as the one it takes.  `TheBooksBalance` counts: a push adds
one place of one callback (`PlacesPushed`), `off` removes one and moves the others, which is a bijection of their places
(`PlacesRemoved`), and there is always a place to remove because the callback's live subscriptions are as many.

The tree.  `NewestSurvives` is not inductive: a merge keeps the entry with the latest timestamp, so one must know
that no other version is as late.  `NoneNewer` says so of the tables, for every key that is not `tied`, and `InMemory` of
the memtable, which holds the last version whenever it holds one.  Two facts speak of the order of the tables, as a
relation between every two of them (`Chain`): `Layered`, that level 1 comes before level 0 (`Descends`), and
`NewestLast`, that unless tables were `shuffled` no version of a key comes after the last one written (`Clears`).
A compaction of a run is treated by cutting the tables into what is before it, the run and what is after it
(`CutHolds`), replacing the run and putting the three together again (`ChainOfThree`).  Of the run, what comes out for
each level stands for what went in (`StandFor`): no new entry, no `Tops` lost, one table if there were no more
than four; `CompactKeeps` joins the levels.
A merge, of either kind, satisfies `Merges`: it invents no entry and keeps every `Tops`, an entry
that is live and older than which is every other version of its key.  For the k-way merge this is an invariant of its
turns (`MergedSoFar`: what is before the heads of the runs has been treated); each turn raises the sum of the indices
by one, so that after as many turns as there are entries none is left.  `ReadsAreNewest` adds the search: after m turns
the window has shrunk by m and no version of the key is outside it (`Narrowed`), so it ends with one.
Its premises are the property's own: the table is in the order of `<`, which the code's `localeCompare` does not
promise, and holds the key once, which two compactions of level 1 may spoil; no key is tied and nothing is shuffled.

`DataLemmas` is what these proofs share: the least element of a set of naturals, and from it induction over
naturals and over finite sets for a *set* (not an operator) of good cases; how the library's folds unfold and
what a sum becomes when a term changes; that a loop given by its turns exists; that a finite set in a total order can be listed.

### Only model-checked

`Reclaimed`, `HeardGetsSaved` and `CallsSettle` (liveness under fairness, out of the prover's reach),
and the five refuted statements.  Every invariant and action property of a passing run, and the refinement, is
a theorem as well.

## 5. What is not modelled, and why

* In the store: `version`, `timestamp` and the ttl copy inside an entry (nobody reads them
  back), the pattern of KEYS (the drop happens before the match), the
  numbers INFO reports, and the exception INFO throws on a value that
  `JSON.stringify` turns into `undefined`.  `String(key)` identifies keys before the model
  starts.
* In the client: the middleware chain, `register`, and the `destroy` of plugins inside
  `close`.  Batches are not empty (an empty one does nothing), and the entries of
  one MSET share value and ttl.
* In the snapshot plugin: `listSnapshots`, which only reads, and the statistics kept with a
  snapshot.  A second creation or restore at the same time is covered only as other callers' writes.  What is imported is
  the export of a snapshot as this version writes it: text that does not parse, which throws and changes
  nothing, and text of another shape, which is stored as it is (`SnapshotPlugin.ts:121-128`), are left out.
* In the persistence plugin: the layout of the file and the arithmetic of the deadlines in it (an entry may
  lapse at any time instead), `ensureDataDir`, renames that fail although the file is there,
  stored nulls (`save` skips them), two loads at once.
  `load` turns the remaining ttl into seconds and hands it to `set`, which
  takes milliseconds (`PersistencePlugin.ts:150`): a loaded key expires much too soon.  This is a defect on sight; in the model an
  entry may lapse at any time.
* In the worker client: the contents of contexts and middlewares other than `MetricsMiddleware`, `use`,
  `register`, and the worker's `sendEvent`, which nobody hears.  Numbers of milliseconds: a timer is armed
  or not.  `emit('error')` (`SnapDB.ts:94`) throws in the event's handler where the application has no listener
  for `error`, and may end the process; the model has the application listen.  `close()` is called again only
  after it failed: a second `close()` after or during one that gets through its plugins would destroy them a second time.
* In the metrics: durations, averages and the Prometheus text.
* In publish/subscribe: a `publish()` within a callback, the event names with a meaning of their own for
  Node's `EventEmitter` (`error`, `newListener`), and the text of patterns, which is the relation `Matches`.
* In the LSM parts: `range` and iteration of the memtable, serialisation of a table to a file, the
  statistics.  A key has one identity: the filter hashes `serialize(key)` (`SSTable.ts:33,42`), while search and merge use
  `String(key)`, so that 1 and "1" are one key to these and two to the filter.  `Rank` gives every key a place of its
  own, though `localeCompare` may return 0 for two different strings.  Ttls are not negative.  `enableBloomFilter` is a
  constant, true in the run; the theorems hold for both values.
* `StorageEngine` and its log: it calls methods its parts do not have (the build excludes it), so it has no
  behaviour of its own to model.
* Logging and TTL middlewares have no state that anything depends on; the event emitter, utilities,
  types, tests, benchmarks and examples are left out.  `PROJECT.json` gives each its reason.

## 6. Plan

In this order, most important behaviour first:

1. `SimpleStorage`, `SimpleSnapDB` and their proofs.  *Done.*
2. `Snapshot` and its proofs: create and restore among other callers.  *Done.*
3. `Persistence` and its proofs: dirty flag, save, rotation, load, crash between file
   operations, overlapping saves.  *Done.*
4. `WorkerClient`: requests, answers, timeouts, worker errors, close, with the worker at
   the other end.  *Done*, with its proofs.
5. `LSM`: search in a sorted table, bloom filter, merge and compaction against a
   plain map.  *Done*, with its proofs.
6. `PubSub` and `MetricsMiddleware`: live arrays and captured counters.  *Done*, with their
   proofs.
7. Left: an abstract specification of a remote call (asked once, settled at most once) that `WorkerClient`
   implements, and one of a plain map that `LSM` implements under the premises of `ReadsNewest`.
