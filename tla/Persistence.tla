---------------------------- MODULE Persistence ----------------------------
(***************************************************************************)
(* The persistence plugin: a flag that says whether the store has changed  *)
(* since it was saved, saves that copy the store key by key into a file    *)
(* after moving the older files one place along, and a load at the start.  *)
(* Everything is async: callers write, timers fire and further saves begin *)
(* between any two awaits, and the process may die there.  The files are   *)
(* numbered: 0 is snapdb.json, n is the backup of index n-1.  A content is *)
(* the value of each key; deadlines show only as entries that go by        *)
(* themselves.                                                             *)
(***************************************************************************)
EXTENDS Integers

CONSTANTS
  Keys, Values,
  Unheard,     \* keys that INCR, DECR and MSET write, or that have a deadline
  None,        \* no entry; no file; nobody at work
  Torn,        \* what a file holds from its opening until its writing is over
  Saves,       \* the saves that may be open at once
  MaxBackups,  \* options.maxBackups
  MaxWrites,   \* commands that write (a bound)
  MaxFaults    \* crashes and failing writes of the file (a bound)

ASSUME PersistenceAssumption ==
  /\ MaxBackups \in Nat /\ MaxWrites \in Nat /\ MaxFaults \in Nat
  /\ Unheard \subseteq Keys
  /\ None \notin Values
  /\ Torn # None
  /\ Torn \notin [Keys -> Values \cup {None}]
  /\ None \notin [Keys -> Values \cup {None}]

VARIABLES
  up,       \* the process runs
  data,     \* the store
  told,     \* an event of a write is on its way to the plugin
  isDirty,
  save,     \* how far each save has got, or None
  loading,  \* the entries of the file that a load has not set yet
  disk,     \* the files
  unsure,    \* history: keys that the flag does not speak for (see Unsure)
  setbacks,  \* history: saves cut short since one went through, or None when
             \* none did or saves overlapped
  writes, faults  \* so far

store == <<data, told, isDirty>>
bounds == <<writes, faults>>
vars == <<up, store, save, loading, disk, unsure, setbacks, bounds>>

Files == 0..MaxBackups
Contents == [Keys -> Values \cup {None}]
Empty == [k \in Keys |-> None]
Whole(file) == file \notin {None, Torn}

SaveStates ==
  [at : {"collect"}, left : SUBSET Keys, got : Contents]
    \cup [at : {"rotate"}, file : -1..(MaxBackups - 1), got : Contents]
    \cup [at : {"write"}, file : Files \cup {None}, got : Contents]

ASSUME NoneIsNoSave == None \notin SaveStates \cup Files

TypeOK ==
  /\ up \in BOOLEAN /\ told \in BOOLEAN /\ isDirty \in BOOLEAN
  /\ data \in Contents
  /\ save \in [Saves -> SaveStates \cup {None}]
  /\ loading \in Contents
  /\ disk \in [Files -> Contents \cup {None, Torn}]
  /\ unsure \in SUBSET Keys
  /\ setbacks \in Nat \cup {None}
  /\ writes \in 0..MaxWrites /\ faults \in 0..MaxFaults

Init ==
  /\ up = TRUE
  /\ data = Empty
  /\ told = FALSE
  /\ isDirty = FALSE
  /\ save = [s \in Saves |-> None]
  /\ loading = Empty
  /\ disk = [f \in Files |-> None]
  /\ unsure = {}
  /\ setbacks = None
  /\ writes = 0
  /\ faults = 0

At(s, place) == save[s] # None /\ save[s].at = place
Saving == \E s \in Saves : save[s] # None

\* A write of the keys of K.  While a save is open, it may or may not have seen
\* them; a write with no event behind it goes unnoticed by a plugin that is clean.
Unsure(K, event) ==
  unsure' = IF Saving \/ (~event /\ ~isDirty /\ ~told) THEN unsure \cup K
                                                       ELSE unsure \ K
----------------------------------------------------------------------------
(* The store and its events *)

\* SET, DEL (of value None); FLUSHALL is Flush.
Write(k, v) ==
  /\ up /\ writes < MaxWrites
  /\ data' = [data EXCEPT ![k] = v]
  /\ told' = TRUE
  /\ Unsure({k}, TRUE)
  /\ writes' = writes + 1
  /\ UNCHANGED <<up, isDirty, save, loading, disk, setbacks, faults>>

Flush ==
  /\ up /\ writes < MaxWrites
  /\ data' = Empty
  /\ told' = TRUE
  /\ Unsure(Keys, TRUE)
  /\ writes' = writes + 1
  /\ UNCHANGED <<up, isDirty, save, loading, disk, setbacks, faults>>

\* INCR, DECR and MSET, and an entry that expires: no event the plugin hears.
WriteUnheard(k, v) ==
  /\ up /\ k \in Unheard /\ writes < MaxWrites
  /\ data' = [data EXCEPT ![k] = v]
  /\ Unsure({k}, FALSE)
  /\ writes' = writes + 1
  /\ UNCHANGED <<up, told, isDirty, save, loading, disk, setbacks, faults>>

\* The listener of 'set', 'del' and 'flush'.
Hear ==
  /\ told
  /\ told' = FALSE
  /\ isDirty' = TRUE
  /\ UNCHANGED <<up, data, save, loading, disk, unsure, setbacks, bounds>>
----------------------------------------------------------------------------
(* save() *)

\* keys(), in whose order the copy is made.  Saves that overlap write over each
\* other, and nothing is sure of their outcome.
BeginSave(s) ==
  /\ up /\ save[s] = None
  /\ save' = [save EXCEPT ![s] =
                [at |-> "collect", left |-> {k \in Keys : data[k] # None}, got |-> Empty]]
  /\ unsure' = IF Saving THEN Keys ELSE {}
  /\ setbacks' = IF Saving THEN None ELSE setbacks
  /\ UNCHANGED <<up, store, loading, disk, bounds>>

\* The timer and destroy() save what is dirty; a caller may save at any time.
AutoSave(s) == isDirty /\ ~told /\ BeginSave(s)

\* GET and TTL of the next key.
Collect(s) ==
  /\ At(s, "collect")
  /\ \E k \in save[s].left :
       save' = [save EXCEPT ![s].left = @ \ {k}, ![s].got[k] = data[k]]
  /\ UNCHANGED <<up, store, loading, disk, unsure, setbacks, bounds>>

BeginRotationTooFar(s) ==  \* Mutant of BeginRotation: one place past the last.
  /\ At(s, "collect") /\ save[s].left = {}
  /\ save' = [save EXCEPT ![s] =
                [at |-> "rotate", file |-> MaxBackups, got |-> save[s].got]]
  /\ UNCHANGED <<up, store, loading, disk, unsure, setbacks, bounds>>

BeginRotationEarly(s) ==  \* Mutant of BeginRotation: the reads are not awaited.
  /\ At(s, "collect")
  /\ save' = [save EXCEPT ![s] =
                [at |-> "rotate", file |-> MaxBackups - 1, got |-> save[s].got]]
  /\ UNCHANGED <<up, store, loading, disk, unsure, setbacks, bounds>>

BeginRotation(s) ==
  /\ At(s, "collect") /\ save[s].left = {}
  /\ save' = [save EXCEPT ![s] =
                [at |-> "rotate", file |-> MaxBackups - 1, got |-> save[s].got]]
  /\ UNCHANGED <<up, store, loading, disk, unsure, setbacks, bounds>>

\* A file operation of s has ended: callbacks of the file system run when no
\* microtask is left.
Back(s, place) == ~told /\ At(s, place)

\* The file that is open under one name is open under the new one after a rename,
\* and without a name when another file takes its place.
Renamed(from, to) ==
  [t \in Saves |->
     IF At(t, "write") /\ save[t].file \in {from, to}
     THEN [save[t] EXCEPT !.file = IF @ = from THEN to ELSE None]
     ELSE save[t]]

\* rename(f, f + 1), skipped when there is no such file.
Rotate(s, f) ==
  LET moved == IF disk[f] = None THEN save ELSE Renamed(f, f + 1)
  IN  /\ disk' = IF disk[f] = None THEN disk
                 ELSE [disk EXCEPT ![f] = None, ![f + 1] = disk[f]]
      /\ save' = [moved EXCEPT ![s].file = save[s].file - 1]
      /\ UNCHANGED <<up, store, loading, unsure, setbacks, bounds>>

RotateNextUp(s) ==  \* Mutant of RotateNext: from the newest file to the oldest.
  Back(s, "rotate") /\ save[s].file >= 0 /\ Rotate(s, MaxBackups - 1 - save[s].file)

RotateNext(s) ==
  Back(s, "rotate") /\ save[s].file >= 0 /\ Rotate(s, save[s].file)

\* writeFile opens snapdb.json, which truncates it, ...
OpenFile(s) ==
  /\ Back(s, "rotate") /\ save[s].file = -1
  /\ save' = [save EXCEPT ![s] = [at |-> "write", file |-> 0, got |-> save[s].got]]
  /\ disk' = [disk EXCEPT ![0] = Torn]
  /\ UNCHANGED <<up, store, loading, unsure, setbacks, bounds>>

\* Another save writes the same file, or has written it since it was opened: the
\* two contents may be mixed.
Contended(s) ==
  \/ Whole(disk[save[s].file])
  \/ \E t \in Saves \ {s} : At(t, "write") /\ save[t].file = save[s].file

Others(s) == \E t \in Saves \ {s} : save[t] # None

\* ... and writes it.
FileWritten(s) ==
  /\ Back(s, "write")
  /\ IF save[s].file = None
     THEN disk' = disk
     ELSE \E file \in {save[s].got} \cup (IF Contended(s) THEN {Torn} ELSE {}) :
            disk' = [disk EXCEPT ![save[s].file] = file]
  /\ save' = [save EXCEPT ![s] = None]
  /\ isDirty' = FALSE
  /\ setbacks' = IF ~Others(s) /\ Whole(disk'[0]) THEN 0 ELSE setbacks
  /\ UNCHANGED <<up, data, told, loading, unsure, bounds>>

Setback == IF setbacks = None THEN None ELSE setbacks + 1

WriteFailsClean(s) ==  \* Mutant of WriteFails: the flag is cleared all the same.
  /\ Back(s, "write") \/ (Back(s, "rotate") /\ save[s].file = -1)
  /\ faults < MaxFaults
  /\ save' = [save EXCEPT ![s] = None]
  /\ isDirty' = FALSE
  /\ unsure' = IF isDirty THEN unsure ELSE Keys
  /\ setbacks' = Setback
  /\ faults' = faults + 1
  /\ UNCHANGED <<up, data, told, loading, disk, writes>>

\* writeFile rejects before or after opening the file; the flag stays as it was,
\* so a plugin that was clean does not hear that its file is gone.
WriteFails(s) ==
  /\ Back(s, "write") \/ (Back(s, "rotate") /\ save[s].file = -1)
  /\ faults < MaxFaults
  /\ save' = [save EXCEPT ![s] = None]
  /\ unsure' = IF isDirty THEN unsure ELSE Keys
  /\ setbacks' = Setback
  /\ faults' = faults + 1
  /\ UNCHANGED <<up, store, loading, disk, writes>>
----------------------------------------------------------------------------
(* load(), crash and restart *)

\* Reads and parses snapdb.json; a missing or torn file rejects before the flush.
Load ==
  /\ up /\ loading = Empty /\ Whole(disk[0]) /\ writes < MaxWrites
  /\ loading' = disk[0]
  /\ data' = Empty
  /\ told' = TRUE
  /\ Unsure(Keys, TRUE)
  /\ writes' = writes + 1
  /\ UNCHANGED <<up, isDirty, save, disk, setbacks, faults>>

LoadEntry ==
  /\ \E k \in Keys :
       /\ loading[k] # None
       /\ data' = [data EXCEPT ![k] = loading[k]]
       /\ loading' = [loading EXCEPT ![k] = None]
       /\ Unsure({k}, TRUE)
  /\ told' = TRUE
  /\ UNCHANGED <<up, isDirty, save, disk, setbacks, bounds>>

\* An entry whose time is over is left out.
SkipEntry ==
  /\ \E k \in Unheard :
       loading[k] # None /\ loading' = [loading EXCEPT ![k] = None]
  /\ UNCHANGED <<up, store, save, disk, unsure, setbacks, bounds>>

\* The process dies; the files stay as they are.
Crash ==
  /\ up /\ faults < MaxFaults
  /\ up' = FALSE
  /\ data' = Empty /\ told' = FALSE /\ isDirty' = FALSE
  /\ save' = [s \in Saves |-> None]
  /\ loading' = Empty
  /\ unsure' = {}
  /\ setbacks' = IF Saving THEN Setback ELSE setbacks
  /\ faults' = faults + 1
  /\ UNCHANGED <<disk, writes>>

\* init(): loads what there is, and starts empty when that fails.
Restart ==
  /\ ~up
  /\ up' = TRUE
  /\ loading' = IF Whole(disk[0]) THEN disk[0] ELSE Empty
  /\ told' = Whole(disk[0])
  /\ UNCHANGED <<data, isDirty, save, disk, unsure, setbacks, bounds>>

SaveStep(s) ==
  \/ Collect(s) \/ BeginRotation(s) \/ RotateNext(s) \/ OpenFile(s)
  \/ FileWritten(s) \/ WriteFails(s)

Next ==
  \/ \E k \in Keys, v \in Values \cup {None} : Write(k, v) \/ WriteUnheard(k, v)
  \/ Flush \/ Hear
  \/ \E s \in Saves : BeginSave(s) \/ SaveStep(s)
  \/ Load \/ LoadEntry \/ SkipEntry
  \/ Crash \/ Restart

Spec == Init /\ [][Next]_vars

\* Microtasks and file operations come to an end, and the timer of the auto-save
\* fires again and again; nobody has to write, to call save or load, or to crash.
FairSpec ==
  /\ Spec
  /\ WF_vars(Hear)
  /\ \A s \in Saves : WF_vars(AutoSave(s)) /\ WF_vars(SaveStep(s))
----------------------------------------------------------------------------
(* Properties *)

\* What a load would find.
OnDisk(k) == IF Whole(disk[0]) THEN disk[0][k] ELSE None

\* A plugin that is clean, with no save open and no event on its way, has on disk
\* what is in the store (save() and the three listeners of init()), for every
\* key but those written while a save was open or without an event, and unless
\* saves overlapped or a save of a clean store failed.
CleanMeansSaved ==
  up /\ ~isDirty /\ ~told /\ ~Saving =>
    \A k \in Keys \ unsure : OnDisk(k) = data[k]

\* What rotateBackups() is for: after a save has gone through, a whole copy stays
\* on disk at every instant, while files are moved along or half written, through
\* fewer crashes and failed writes in a row than there are backups.
AWholeFileSurvives ==
  setbacks # None /\ setbacks < MaxBackups => \E f \in Files : Whole(disk[f])

\* A change that the plugin has heard of, or is about to hear of, reaches the disk,
\* though saves fail and overlap and callers save in between: in the end the plugin
\* is clean and the file has the key as it is in the store (the timer of init() and
\* the flag that a failing save() leaves set).  Not promised: a key written while a
\* save was open (see NothingUnsaved), saves that overlapped, and a process that dies.
HeardGetsSaved == \A k \in Keys :
  (isDirty \/ told) /\ k \notin unsure
    ~> \/ ~isDirty /\ OnDisk(k) = data[k]
       \/ k \in unsure
       \/ ~up

\* When nothing is dirty and nothing under way, all is saved (the listeners
\* "mark as dirty" every write; a save that ends is "successful").
NothingUnsaved ==
  up /\ ~isDirty /\ ~told /\ ~Saving => \A k \in Keys : OnDisk(k) = data[k]
============================================================================
