------------------------ MODULE Persistence_proofs ------------------------
(***************************************************************************)
(* Theorems about the persistence plugin.                                   *)
(***************************************************************************)
EXTENDS Persistence, TLAPS

\* A save that runs alone since the files are in order.
Alone == \A s, t \in Saves : save[s] # None /\ save[t] # None => s = t

\* Where the newest whole copy has got to: a place down for every setback, and
\* one more for the save under way when the rotation has passed it.
WholeAt(F) == \E f \in F : f \in Files /\ Whole(disk[f])

Kept ==
  setbacks # None =>
    /\ Alone
    /\ setbacks < MaxBackups =>
         /\ ~Saving => WholeAt(0..setbacks)
         /\ \A s \in Saves :
              /\ At(s, "collect") => WholeAt(0..setbacks)
              /\ At(s, "rotate") =>
                   \/ WholeAt({f \in 0..setbacks : f <= save[s].file})
                   \/ WholeAt({f \in 0..(setbacks + 1) : f >= save[s].file + 2})
              /\ At(s, "write") =>
                   /\ save[s].file = 0 /\ disk[0] = Torn
                   /\ WholeAt(1..(setbacks + 1))

\* What a save has seen of the keys the flag speaks for.
Seen ==
  /\ (\E s, t \in Saves : s # t /\ save[s] # None /\ save[t] # None) => unsure = Keys
  /\ ~up => ~Saving /\ data = Empty /\ loading = Empty /\ ~told /\ ~isDirty
  /\ \A s \in Saves, k \in Keys \ unsure :
       /\ At(s, "collect") => k \in save[s].left \/ save[s].got[k] = data[k]
       /\ At(s, "rotate") \/ At(s, "write") => save[s].got[k] = data[k]
       /\ At(s, "write") => save[s].file = 0 /\ disk[0] = Torn
----------------------------------------------------------------------------

\* What At tells of a save in a well-typed state.
LEMMA Places ==
  ASSUME TypeOK, NEW s \in Saves, save[s] # None
  PROVE  /\ save[s] \in SaveStates
         /\ save[s].got \in Contents
         /\ At(s, "collect") =>
              /\ save[s].left \in SUBSET Keys
              /\ save[s] \in [at : {"collect"}, left : SUBSET Keys, got : Contents]
         /\ At(s, "rotate") =>
              /\ save[s].file \in -1..(MaxBackups - 1)
              /\ save[s] \in [at : {"rotate"}, file : -1..(MaxBackups - 1), got : Contents]
         /\ At(s, "write") =>
              /\ save[s].file \in Files \cup {None}
              /\ save[s] \in [at : {"write"}, file : Files \cup {None}, got : Contents]
<1>1. save[s] \in SaveStates
  BY DEF TypeOK
<1>. QED  BY <1>1 DEF SaveStates, At

LEMMA EmptyContent == Empty \in Contents
  BY DEF Empty, Contents

LEMMA InitType ==
  ASSUME Init
  PROVE  TypeOK
<1>2. save \in [Saves -> SaveStates \cup {None}]
  BY DEF Init
<1>3. disk \in [Files -> Contents \cup {None, Torn}]
  BY DEF Init
<1>4. writes \in 0..MaxWrites /\ faults \in 0..MaxFaults
  BY PersistenceAssumption DEF Init
<1>. QED  BY EmptyContent, <1>2, <1>3, <1>4 DEF Init, TypeOK

LEMMA StepType ==
  ASSUME TypeOK, [Next]_vars
  PROVE  TypeOK'
<1>. USE PersistenceAssumption DEF store, bounds
<1>s. ASSUME NEW s \in Saves, NEW x \in SaveStates \cup {None}
      PROVE  [save EXCEPT ![s] = x] \in [Saves -> SaveStates \cup {None}]
  BY DEF TypeOK
<1>1. ASSUME NEW k \in Keys, NEW v \in Values \cup {None}, Write(k, v)
      PROVE  TypeOK'
  BY <1>1 DEF TypeOK, Write, Unsure, Contents
<1>2. ASSUME NEW k \in Keys, NEW v \in Values \cup {None}, WriteUnheard(k, v)
      PROVE  TypeOK'
  BY <1>2 DEF TypeOK, WriteUnheard, Unsure, Contents
<1>3. CASE Flush
  BY <1>3, EmptyContent DEF TypeOK, Flush, Unsure
<1>4. CASE Hear
  BY <1>4 DEF TypeOK, Hear
<1>5. ASSUME NEW s \in Saves, BeginSave(s)
      PROVE  TypeOK'
  <2>. DEFINE x == [at |-> "collect", left |-> {k \in Keys : data[k] # None}, got |-> Empty]
  <2>1. x \in SaveStates
    BY EmptyContent DEF SaveStates
  <2>2. save' = [save EXCEPT ![s] = x]
    BY <1>5 DEF BeginSave
  <2>. HIDE DEF x
  <2>3. save' \in [Saves -> SaveStates \cup {None}]
    BY <2>1, <2>2, <1>s
  <2>. QED  BY <1>5, <2>3 DEF TypeOK, BeginSave
<1>6. ASSUME NEW s \in Saves, Collect(s)
      PROVE  TypeOK'
  <2>1. PICK k \in save[s].left :
             save' = [save EXCEPT ![s].left = @ \ {k}, ![s].got[k] = data[k]]
    BY <1>6 DEF Collect
  <2>2. save[s] \in [at : {"collect"}, left : SUBSET Keys, got : Contents]
    BY <1>6, Places DEF Collect, At
  <2>. DEFINE x == [save[s] EXCEPT !.left = @ \ {k}, !.got[k] = data[k]]
  <2>3. x \in [at : {"collect"}, left : SUBSET Keys, got : Contents]
    BY <2>2 DEF TypeOK, Contents
  <2>4. save' = [save EXCEPT ![s] = x]
    BY <2>1, <2>2 DEF TypeOK
  <2>. HIDE DEF x
  <2>5. save' \in [Saves -> SaveStates \cup {None}]
    BY <2>3, <2>4, <1>s DEF SaveStates
  <2>. QED  BY <1>6, <2>5 DEF TypeOK, Collect
<1>7. ASSUME NEW s \in Saves, BeginRotation(s)
      PROVE  TypeOK'
  <2>. DEFINE x == [at |-> "rotate", file |-> MaxBackups - 1, got |-> save[s].got]
  <2>1. x \in SaveStates
    BY <1>7, Places DEF SaveStates, BeginRotation, At
  <2>2. save' = [save EXCEPT ![s] = x]
    BY <1>7 DEF BeginRotation
  <2>. HIDE DEF x
  <2>3. save' \in [Saves -> SaveStates \cup {None}]
    BY <2>1, <2>2, <1>s
  <2>. QED  BY <1>7, <2>3 DEF TypeOK, BeginRotation
<1>8. ASSUME NEW s \in Saves, RotateNext(s)
      PROVE  TypeOK'
  <2>. DEFINE f == save[s].file
              moved == IF disk[f] = None THEN save ELSE Renamed(f, f + 1)
  <2>1. /\ save[s] \in [at : {"rotate"}, file : -1..(MaxBackups - 1), got : Contents]
        /\ f \in 0..(MaxBackups - 1)
    BY <1>8, Places DEF RotateNext, Back, At
  <2>2. f \in Files /\ f + 1 \in Files
    BY <2>1 DEF Files
  <2>3. moved \in [Saves -> SaveStates \cup {None}]
    <3>1. ASSUME NEW t \in Saves, At(t, "write")
          PROVE  [save[t] EXCEPT !.file = IF @ = f THEN f + 1 ELSE None] \in SaveStates
      <4>1. save[t] \in [at : {"write"}, file : Files \cup {None}, got : Contents]
        BY <3>1, Places DEF At
      <4>. QED  BY <4>1, <2>2 DEF SaveStates
    <3>2. Renamed(f, f + 1) \in [Saves -> SaveStates \cup {None}]
      BY <3>1 DEF Renamed, TypeOK
    <3>. QED  BY <3>2 DEF TypeOK
  <2>4. moved[s] = save[s]
    BY <2>1 DEF Renamed, At
  <2>. DEFINE x == [save[s] EXCEPT !.file = save[s].file - 1]
  <2>5. x \in SaveStates
    BY <2>1 DEF SaveStates
  <2>6. save' = [moved EXCEPT ![s] = x]
    BY <1>8, <2>3, <2>4 DEF RotateNext, Rotate
  <2>. HIDE DEF x, moved
  <2>7. save' \in [Saves -> SaveStates \cup {None}]
    BY <2>3, <2>5, <2>6
  <2>8. disk' \in [Files -> Contents \cup {None, Torn}]
    BY <1>8, <2>2 DEF TypeOK, RotateNext, Rotate
  <2>. QED  BY <1>8, <2>7, <2>8 DEF TypeOK, RotateNext, Rotate
<1>9. ASSUME NEW s \in Saves, OpenFile(s)
      PROVE  TypeOK'
  <2>. DEFINE x == [at |-> "write", file |-> 0, got |-> save[s].got]
  <2>1. x \in SaveStates
    BY <1>9, Places DEF SaveStates, OpenFile, Back, At, Files
  <2>2. save' = [save EXCEPT ![s] = x]
    BY <1>9 DEF OpenFile
  <2>. HIDE DEF x
  <2>3. save' \in [Saves -> SaveStates \cup {None}]
    BY <2>1, <2>2, <1>s
  <2>. QED  BY <1>9, <2>3 DEF TypeOK, OpenFile
<1>10. ASSUME NEW s \in Saves, FileWritten(s)
       PROVE  TypeOK'
  <2>1. save' \in [Saves -> SaveStates \cup {None}]
    BY <1>10, <1>s DEF FileWritten
  <2>2. disk' \in [Files -> Contents \cup {None, Torn}]
    BY <1>10, Places DEF FileWritten, Back, At, TypeOK
  <2>3. setbacks' \in Nat \cup {None}
    BY <1>10 DEF FileWritten, TypeOK
  <2>. QED  BY <1>10, <2>1, <2>2, <2>3 DEF TypeOK, FileWritten
<1>11. ASSUME NEW s \in Saves, WriteFails(s)
       PROVE  TypeOK'
  <2>1. save' \in [Saves -> SaveStates \cup {None}]
    BY <1>11, <1>s DEF WriteFails
  <2>. QED  BY <1>11, <2>1 DEF TypeOK, WriteFails, Setback
<1>12. CASE Load
  BY <1>12, EmptyContent DEF TypeOK, Load, Unsure, Whole, Contents, Files
<1>13. CASE LoadEntry
  BY <1>13 DEF TypeOK, LoadEntry, Unsure, Contents
<1>14. CASE SkipEntry
  BY <1>14 DEF TypeOK, SkipEntry, Contents
<1>15. CASE Crash
  <2>1. save' \in [Saves -> SaveStates \cup {None}]
    BY <1>15 DEF Crash
  <2>2. setbacks' \in Nat \cup {None}
    BY <1>15 DEF TypeOK, Crash, Setback
  <2>3. faults' \in 0..MaxFaults
    BY <1>15 DEF TypeOK, Crash
  <2>. QED  BY <1>15, EmptyContent, <2>1, <2>2, <2>3 DEF TypeOK, Crash
<1>16. CASE Restart
  <2>1. disk[0] \in Contents \cup {None, Torn}
    BY DEF TypeOK, Files
  <2>2. loading' \in Contents
    BY <1>16, EmptyContent, <2>1 DEF Restart, Whole
  <2>3. told' \in BOOLEAN
    BY <1>16 DEF Restart, Whole
  <2>. QED  BY <1>16, <2>2, <2>3 DEF TypeOK, Restart
<1>17. CASE UNCHANGED vars
  BY <1>17 DEF TypeOK, vars
<1>. QED
  BY <1>1, <1>2, <1>3, <1>4, <1>5, <1>6, <1>7, <1>8, <1>9, <1>10, <1>11, <1>12,
     <1>13, <1>14, <1>15, <1>16, <1>17 DEF Next, SaveStep

\* Flags, contents, the places of saves and the files stay what they should be,
\* whatever the numbers of keys, saves, backups and faults.
THEOREM TypeCorrect == Spec => []TypeOK
<1>1. Init => TypeOK
  BY InitType
<1>2. TypeOK /\ [Next]_vars => TypeOK'
  BY StepType
<1>. QED  BY <1>1, <1>2, PTL DEF Spec
----------------------------------------------------------------------------
(* A whole file survives *)

LEMMA InitKept == Init => Kept
  BY DEF Init, Kept

LEMMA WholeContents ==
  ASSUME NEW c \in Contents
  PROVE  Whole(c)
  BY PersistenceAssumption DEF Whole, Contents

\* With nobody else at work, a rotation moves one file and no open file.
LEMMA RotateAlone ==
  ASSUME TypeOK, Alone, NEW s \in Saves, RotateNext(s)
  PROVE  LET f == save[s].file
             x == [at |-> "rotate", file |-> f - 1, got |-> save[s].got]
         IN  /\ f \in 0..(MaxBackups - 1)
             /\ save' = [save EXCEPT ![s] = x]
             /\ disk' = IF disk[f] = None THEN disk
                        ELSE [disk EXCEPT ![f] = None, ![f + 1] = disk[f]]
             /\ UNCHANGED <<up, store, loading, unsure, setbacks, bounds>>
<1>. DEFINE f == save[s].file
            moved == IF disk[f] = None THEN save ELSE Renamed(f, f + 1)
<1>1. /\ save[s] \in [at : {"rotate"}, file : -1..(MaxBackups - 1), got : Contents]
      /\ f \in 0..(MaxBackups - 1)
  BY PersistenceAssumption, Places DEF RotateNext, Back, At
<1>2. \A t \in Saves : ~At(t, "write")
  BY <1>1 DEF Alone, RotateNext, Back, At
<1>3. moved = save
  BY <1>2 DEF Renamed, TypeOK
<1>4. save' = [save EXCEPT ![s].file = f - 1]
  BY <1>3 DEF RotateNext, Rotate
<1>5. [save[s] EXCEPT !.file = f - 1] = [at |-> "rotate", file |-> f - 1, got |-> save[s].got]
  BY <1>1
<1>6. save' = [save EXCEPT ![s] = [save[s] EXCEPT !.file = f - 1]]
  BY <1>4 DEF TypeOK
<1>. QED  BY <1>1, <1>5, <1>6 DEF RotateNext, Rotate

LEMMA StepKept ==
  ASSUME TypeOK, Kept, [Next]_vars
  PROVE  Kept'
<1>. USE PersistenceAssumption DEF store, bounds
<1>0. CASE UNCHANGED <<save, disk, setbacks>>
  BY <1>0 DEF Kept, Alone, WholeAt, Saving, At
<1>1. ASSUME NEW s \in Saves, BeginSave(s)
      PROVE  Kept'
  <2>1. CASE Saving
    BY <1>1, <2>1 DEF BeginSave, Kept
  <2>. DEFINE x == [at |-> "collect", left |-> {k \in Keys : data[k] # None}, got |-> Empty]
  <2>2. CASE ~Saving
    <3>1. /\ save' = [save EXCEPT ![s] = x] /\ UNCHANGED <<disk, setbacks>>
          /\ x.at = "collect" /\ x # None
      BY <1>1, <2>2, NoneIsNoSave, EmptyContent DEF BeginSave, SaveStates
    <3>. HIDE DEF x
    <3>2. \A t \in Saves : save'[t] = IF t = s THEN x ELSE None
      BY <2>2, <3>1 DEF TypeOK, Saving
    <3>3. Saving'
      BY <3>1, <3>2 DEF Saving
    <3>. QED  BY <2>2, <3>1, <3>2, <3>3 DEF Kept, Alone, WholeAt, At, Saving
  <2>. QED  BY <2>1, <2>2
<1>2. ASSUME NEW s \in Saves, Collect(s)
      PROVE  Kept'
  <2>1. PICK k \in save[s].left :
             save' = [save EXCEPT ![s].left = @ \ {k}, ![s].got[k] = data[k]]
    BY <1>2 DEF Collect
  <2>2. save[s] \in [at : {"collect"}, left : SUBSET Keys, got : Contents]
    BY <1>2, Places DEF Collect, At
  <2>. DEFINE x == [save[s] EXCEPT !.left = @ \ {k}, !.got[k] = data[k]]
  <2>3. x.at = "collect" /\ x # None
    <3>1. x \in [at : {"collect"}, left : SUBSET Keys, got : Contents]
      BY <2>2 DEF TypeOK, Contents
    <3>. QED  BY <3>1, NoneIsNoSave DEF SaveStates
  <2>4. save' = [save EXCEPT ![s] = x]
    BY <2>1, <2>2 DEF TypeOK
  <2>. HIDE DEF x
  <2>5. \A t \in Saves : save'[t] = IF t = s THEN x ELSE save[t]
    BY <2>4 DEF TypeOK
  <2>6. At(s, "collect") /\ UNCHANGED <<disk, setbacks>>
    BY <1>2 DEF Collect
  <2>. QED  BY <2>3, <2>5, <2>6 DEF Kept, Alone, WholeAt, At, Saving
<1>3. ASSUME NEW s \in Saves, BeginRotation(s)
      PROVE  Kept'
  <2>. DEFINE x == [at |-> "rotate", file |-> MaxBackups - 1, got |-> save[s].got]
  <2>1. /\ save' = [save EXCEPT ![s] = x] /\ UNCHANGED <<disk, setbacks>>
        /\ At(s, "collect")
    BY <1>3 DEF BeginRotation
  <2>2. x.at = "rotate" /\ x.file = MaxBackups - 1 /\ x # None
    BY <2>1, Places, NoneIsNoSave DEF SaveStates, At
  <2>. HIDE DEF x
  <2>3. \A t \in Saves : save'[t] = IF t = s THEN x ELSE save[t]
    BY <2>1 DEF TypeOK
  <2>4. SUFFICES ASSUME setbacks # None
                 PROVE  Kept'
    BY <2>1 DEF Kept
  <2>5. Alone'
    BY <2>1, <2>3, <2>4 DEF Kept, Alone, At
  <2>6. ASSUME setbacks < MaxBackups
        PROVE  WholeAt({f \in 0..setbacks : f <= MaxBackups - 1})'
    BY <2>1, <2>4, <2>6 DEF Kept, WholeAt, TypeOK
  <2>7. \A t \in Saves : save'[t] # None => t = s
    BY <2>1, <2>3, <2>4 DEF Kept, Alone, At
  <2>8. Saving'
    BY <2>2, <2>3 DEF Saving
  <2>. QED  BY <2>1, <2>2, <2>3, <2>5, <2>6, <2>7, <2>8 DEF Kept, At
<1>4. ASSUME NEW s \in Saves, RotateNext(s)
      PROVE  Kept'
  <2>1. UNCHANGED setbacks
    BY <1>4 DEF RotateNext, Rotate
  <2>2. SUFFICES ASSUME setbacks # None
                 PROVE  Kept'
    BY <2>1 DEF Kept
  <2>3. Alone /\ At(s, "rotate")
    BY <1>4, <2>2 DEF Kept, RotateNext, Back
  <2>. DEFINE f == save[s].file
              x == [at |-> "rotate", file |-> f - 1, got |-> save[s].got]
  <2>4. /\ f \in 0..(MaxBackups - 1)
        /\ save' = [save EXCEPT ![s] = x]
        /\ disk' = IF disk[f] = None THEN disk
                   ELSE [disk EXCEPT ![f] = None, ![f + 1] = disk[f]]
    BY <1>4, <2>3, RotateAlone
  <2>5. x.at = "rotate" /\ x.file = f - 1 /\ x # None
    BY <2>3, <2>4, Places, NoneIsNoSave DEF SaveStates, At
  <2>. HIDE DEF x, f
  <2>6. \A t \in Saves : save'[t] = IF t = s THEN x ELSE save[t]
    BY <2>4 DEF TypeOK
  <2>7. Alone' /\ \A t \in Saves : save'[t] # None => t = s
    BY <2>3, <2>6 DEF Alone, At
  <2>8. ASSUME setbacks < MaxBackups
        PROVE  \/ \E g \in Files : g \in 0..setbacks /\ g <= f - 1 /\ Whole(disk'[g])
               \/ \E g \in Files : g \in 0..(setbacks + 1) /\ g >= f + 1 /\ Whole(disk'[g])
    <3>1. setbacks \in Nat
      BY <2>2 DEF TypeOK
    <3>2. CASE WholeAt({g \in 0..setbacks : g <= f})
      <4>1. PICK g \in Files : g \in 0..setbacks /\ g <= f /\ Whole(disk[g])
        BY <3>2 DEF WholeAt
      <4>2. CASE g < f
        <5>1. disk'[g] = disk[g]
          BY <2>4, <4>2 DEF TypeOK, Files
        <5>. QED  BY <2>4, <3>1, <4>1, <4>2, <5>1 DEF Files
      <4>3. CASE g = f
        <5>1. f + 1 \in Files /\ disk'[f + 1] = disk[f]
          BY <2>4, <4>1, <4>3 DEF TypeOK, Files, Whole
        <5>2. f + 1 \in 0..(setbacks + 1) /\ f + 1 >= f + 1
          BY <2>4, <3>1, <4>1, <4>3
        <5>3. Whole(disk'[f + 1])
          BY <4>1, <4>3, <5>1
        <5>. QED  BY <5>1, <5>2, <5>3
      <4>4. g < f \/ g = f
        BY <2>4, <4>1 DEF Files
      <4>. QED  BY <4>2, <4>3, <4>4
    <3>3. CASE WholeAt({g \in 0..(setbacks + 1) : g >= f + 2})
      <4>1. PICK g \in Files : g \in 0..(setbacks + 1) /\ g >= f + 2 /\ Whole(disk[g])
        BY <3>3 DEF WholeAt
      <4>2. disk'[g] = disk[g]
        BY <2>4, <4>1 DEF TypeOK, Files
      <4>3. Whole(disk'[g]) /\ g >= f + 1
        BY <2>4, <4>1, <4>2 DEF Files
      <4>. QED  BY <4>1, <4>3
    <3>4. \/ WholeAt({g \in 0..setbacks : g <= f})
          \/ WholeAt({g \in 0..(setbacks + 1) : g >= f + 2})
      BY <2>2, <2>3, <2>8 DEF Kept, f
    <3>. QED  BY <3>2, <3>3, <3>4
  <2>9. Saving'
    BY <2>5, <2>6 DEF Saving
  <2>10. ASSUME setbacks < MaxBackups
         PROVE  \/ WholeAt({g \in 0..setbacks : g <= save[s].file})'
                \/ WholeAt({g \in 0..(setbacks + 1) : g >= save[s].file + 2})'
    <3>1. save'[s].file = f - 1 /\ f \in Int /\ setbacks' = setbacks
      BY <2>1, <2>4, <2>5, <2>6
    <3>2. CASE \E g \in Files : g \in 0..setbacks /\ g <= f - 1 /\ Whole(disk'[g])
      BY <3>1, <3>2 DEF WholeAt
    <3>3. CASE \E g \in Files : g \in 0..(setbacks + 1) /\ g >= f + 1 /\ Whole(disk'[g])
      BY <3>1, <3>3 DEF WholeAt, Files
    <3>. QED  BY <2>8, <2>10, <3>2, <3>3
  <2>. QED  BY <2>1, <2>5, <2>6, <2>7, <2>9, <2>10 DEF Kept, At
<1>5. ASSUME NEW s \in Saves, OpenFile(s)
      PROVE  Kept'
  <2>. DEFINE x == [at |-> "write", file |-> 0, got |-> save[s].got]
  <2>1. /\ save' = [save EXCEPT ![s] = x] /\ UNCHANGED setbacks
        /\ disk' = [disk EXCEPT ![0] = Torn]
        /\ At(s, "rotate") /\ save[s].file = -1
    BY <1>5 DEF OpenFile, Back
  <2>2. x.at = "write" /\ x.file = 0 /\ x # None
    BY <2>1, Places, NoneIsNoSave DEF SaveStates, At, Files
  <2>. HIDE DEF x
  <2>3. \A t \in Saves : save'[t] = IF t = s THEN x ELSE save[t]
    BY <2>1 DEF TypeOK
  <2>4. SUFFICES ASSUME setbacks # None
                 PROVE  Kept'
    BY <2>1 DEF Kept
  <2>5. Alone' /\ \A t \in Saves : save'[t] # None => t = s
    BY <2>1, <2>3, <2>4 DEF Kept, Alone, At
  <2>6. disk'[0] = Torn
    BY <2>1 DEF TypeOK, Files
  <2>7. ASSUME setbacks < MaxBackups
        PROVE  WholeAt(1..(setbacks + 1))'
    <3>1. setbacks \in Nat
      BY <2>4 DEF TypeOK
    <3>2. ~WholeAt({f \in 0..setbacks : f <= -1})
      BY DEF WholeAt
    <3>3. PICK f \in Files : f \in 0..(setbacks + 1) /\ f >= 1 /\ Whole(disk[f])
      BY <2>1, <2>4, <2>7, <3>2 DEF Kept, WholeAt
    <3>4. disk'[f] = disk[f]
      BY <2>1, <3>3 DEF TypeOK
    <3>. QED  BY <2>1, <3>1, <3>3, <3>4 DEF WholeAt
  <2>8. Saving'
    BY <2>2, <2>3 DEF Saving
  <2>. QED  BY <2>1, <2>2, <2>3, <2>5, <2>6, <2>7, <2>8 DEF Kept, At
<1>6. ASSUME NEW s \in Saves, FileWritten(s)
      PROVE  Kept'
  <2>1. /\ save' = [save EXCEPT ![s] = None]
        /\ setbacks' = IF ~Others(s) /\ Whole(disk'[0]) THEN 0 ELSE setbacks
        /\ At(s, "write")
    BY <1>6 DEF FileWritten, Back
  <2>2. \A t \in Saves : save'[t] = IF t = s THEN None ELSE save[t]
    BY <2>1 DEF TypeOK
  <2>3. CASE ~Others(s) /\ Whole(disk'[0])
    <3>1. \A t \in Saves : save'[t] = None
      BY <2>2, <2>3 DEF Others
    <3>2. WholeAt(0..0)'
      BY <2>3 DEF WholeAt, Files
    <3>. QED  BY <2>1, <2>3, <3>1, <3>2 DEF Kept, Alone, At, Saving
  <2>4. CASE ~(~Others(s) /\ Whole(disk'[0]))
    <3>1. SUFFICES ASSUME setbacks # None
                   PROVE  Kept'
      BY <2>1, <2>4 DEF Kept
    <3>2. Alone /\ \A t \in Saves : save[t] # None => t = s
      BY <2>1, <3>1 DEF Kept, Alone, At
    <3>3. ~Others(s)
      BY <3>2 DEF Others
    <3>4. ~(setbacks < MaxBackups)
      <4>1. SUFFICES ASSUME setbacks < MaxBackups
                     PROVE  Whole(disk'[0])
        BY <2>4, <3>3
      <4>2. save[s].file = 0 /\ disk[0] = Torn
        BY <2>1, <3>1, <4>1 DEF Kept
      <4>3. ~Contended(s)
        BY <3>2, <4>2 DEF Contended, Whole, At
      <4>4. 0 # None => disk' = [disk EXCEPT ![0] = save[s].got]
        BY <1>6, <4>2, <4>3 DEF FileWritten
      <4>5. Whole(save[s].got)
        BY <2>1, Places, WholeContents DEF At
      <4>. QED  BY <4>4, <4>5, NoneIsNoSave DEF TypeOK, Files
    <3>. QED  BY <2>1, <2>2, <2>4, <3>1, <3>2, <3>4 DEF Kept, Alone
  <2>. QED  BY <2>3, <2>4
<1>7. ASSUME NEW s \in Saves, WriteFails(s)
      PROVE  Kept'
  <2>1. /\ save' = [save EXCEPT ![s] = None] /\ UNCHANGED disk
        /\ setbacks' = Setback
        /\ At(s, "write") \/ (At(s, "rotate") /\ save[s].file = -1)
    BY <1>7 DEF WriteFails, Back
  <2>2. \A t \in Saves : save'[t] = IF t = s THEN None ELSE save[t]
    BY <2>1 DEF TypeOK
  <2>3. SUFFICES ASSUME setbacks # None
                 PROVE  Kept'
    BY <2>1 DEF Kept, Setback
  <2>4. setbacks \in Nat /\ setbacks' = setbacks + 1
    BY <2>1, <2>3 DEF Setback, TypeOK
  <2>5. \A t \in Saves : save'[t] = None
    BY <2>1, <2>2, <2>3 DEF Kept, Alone, At
  <2>6. ASSUME setbacks + 1 < MaxBackups
        PROVE  WholeAt(0..setbacks)'
    <3>1. setbacks < MaxBackups
      BY <2>4, <2>6
    <3>. QED  BY <2>1, <2>3, <2>4, <3>1 DEF Kept, WholeAt
  <2>. QED  BY <2>4, <2>5, <2>6 DEF Kept, Alone, At
<1>8. CASE Crash
  <2>1. /\ save' = [s \in Saves |-> None] /\ UNCHANGED disk
        /\ setbacks' = IF Saving THEN Setback ELSE setbacks
    BY <1>8 DEF Crash
  <2>2. SUFFICES ASSUME setbacks # None
                 PROVE  Kept'
    BY <2>1 DEF Kept, Setback
  <2>3. setbacks \in Nat
    BY <2>2 DEF TypeOK
  <2>4. \A t \in Saves : save'[t] = None
    BY <2>1
  <2>5. CASE ~Saving
    BY <2>1, <2>2, <2>4, <2>5 DEF Kept, Alone, At, WholeAt
  <2>6. CASE Saving
    <3>1. setbacks' = setbacks + 1
      BY <2>1, <2>2, <2>6 DEF Setback
    <3>2. ASSUME setbacks + 1 < MaxBackups
          PROVE  WholeAt(0..setbacks)'
      <4>1. setbacks < MaxBackups
        BY <2>3, <3>2
      <4>2. PICK s \in Saves : save[s] # None
        BY <2>6 DEF Saving
      <4>3. At(s, "collect") \/ At(s, "rotate") \/ At(s, "write")
        BY <4>2, Places DEF SaveStates, At
      <4>. QED  BY <2>1, <2>2, <2>3, <3>1, <4>1, <4>3 DEF Kept, WholeAt
    <3>. QED  BY <2>4, <3>1, <3>2 DEF Kept, Alone, At
  <2>. QED  BY <2>5, <2>6
<1>. QED
  BY <1>0, <1>1, <1>2, <1>3, <1>4, <1>5, <1>6, <1>7, <1>8
  DEF Next, SaveStep, vars, Write, WriteUnheard, Flush, Hear, Load, LoadEntry,
      SkipEntry, Restart

\* After a save has gone through, fewer failures and crashes in a row than there
\* are backups leave a whole file on disk at every instant (save, rotateBackups),
\* for any number of backups, as long as saves do not overlap.
THEOREM AWholeFileAlwaysSurvives == Spec => []AWholeFileSurvives
<1>1. Init => TypeOK /\ Kept
  BY InitType, InitKept
<1>2. TypeOK /\ Kept /\ [Next]_vars => (TypeOK /\ Kept)'
  BY StepType, StepKept
<1>3. TypeOK /\ Kept => AWholeFileSurvives
  <2>1. SUFFICES ASSUME TypeOK, Kept, setbacks # None, setbacks < MaxBackups
                 PROVE  \E f \in Files : Whole(disk[f])
    BY DEF AWholeFileSurvives
  <2>2. CASE ~Saving
    BY <2>1, <2>2 DEF Kept, WholeAt
  <2>3. CASE Saving
    <3>1. PICK s \in Saves : save[s] # None
      BY <2>3 DEF Saving
    <3>2. At(s, "collect") \/ At(s, "rotate") \/ At(s, "write")
      BY <2>1, <3>1, Places DEF SaveStates, At
    <3>. QED  BY <2>1, <3>2 DEF Kept, WholeAt
  <2>. QED  BY <2>2, <2>3
<1>. QED  BY <1>1, <1>2, <1>3, PTL DEF Spec
----------------------------------------------------------------------------
(* The flag is honest *)

\* A step of the store, for a process that runs: what it changes while a save is
\* open, it takes from the keys the flag speaks for.
LEMMA StoreStepSeen ==
  ASSUME Seen, up, UNCHANGED <<up, save, disk>>,
         Saving => unsure \subseteq unsure' /\ unsure' \subseteq Keys,
         Saving => \A k \in Keys \ unsure' : data'[k] = data[k]
  PROVE  Seen'
<1>1. CASE Saving
  BY <1>1 DEF Seen, Saving, At
<1>2. CASE ~Saving
  BY <1>2 DEF Seen, Saving, At
<1>. QED  BY <1>1, <1>2

LEMMA InitSeen == Init => Seen /\ CleanMeansSaved
  BY PersistenceAssumption
  DEF Init, Seen, Saving, At, CleanMeansSaved, OnDisk, Whole, Empty, Files

LEMMA StepSeen ==
  ASSUME TypeOK, Seen, CleanMeansSaved, [Next]_vars
  PROVE  (Seen /\ CleanMeansSaved)'
<1>. USE PersistenceAssumption DEF store, bounds
\* The steps of the store
<1>1. ASSUME NEW k \in Keys, NEW v \in Values \cup {None}, Write(k, v)
      PROVE  (Seen /\ CleanMeansSaved)'
  <2>1. Seen'
    BY <1>1, StoreStepSeen DEF Write, Unsure, TypeOK, Contents
  <2>. QED  BY <1>1, <2>1 DEF Write, CleanMeansSaved
<1>2. ASSUME NEW k \in Keys, NEW v \in Values \cup {None}, WriteUnheard(k, v)
      PROVE  (Seen /\ CleanMeansSaved)'
  <2>1. Seen'
    BY <1>2, StoreStepSeen DEF WriteUnheard, Unsure, TypeOK, Contents
  <2>2. CleanMeansSaved'
    BY <1>2 DEF WriteUnheard, Unsure, TypeOK, Contents, CleanMeansSaved, OnDisk, Saving
  <2>. QED  BY <2>1, <2>2
<1>3. CASE Flush
  <2>1. Seen'
    BY <1>3, StoreStepSeen DEF Flush, Unsure, TypeOK
  <2>. QED  BY <1>3, <2>1 DEF Flush, CleanMeansSaved
<1>4. CASE Hear
  <2>1. up
    BY <1>4 DEF Hear, Seen
  <2>2. Seen'
    BY <1>4, <2>1, StoreStepSeen DEF Hear, TypeOK
  <2>. QED  BY <1>4, <2>2 DEF Hear, CleanMeansSaved
<1>5. CASE Load
  <2>1. Seen'
    BY <1>5, StoreStepSeen DEF Load, Unsure, TypeOK
  <2>. QED  BY <1>5, <2>1 DEF Load, CleanMeansSaved
<1>6. CASE LoadEntry
  <2>1. up
    BY <1>6 DEF LoadEntry, Seen, Empty
  <2>2. Seen'
    BY <1>6, <2>1, StoreStepSeen DEF LoadEntry, Unsure, TypeOK, Contents
  <2>. QED  BY <1>6, <2>2 DEF LoadEntry, CleanMeansSaved
<1>7. CASE SkipEntry
  <2>1. up
    BY <1>7 DEF SkipEntry, Seen, Empty
  <2>2. Seen'
    BY <1>7, <2>1, StoreStepSeen DEF SkipEntry, TypeOK
  <2>. QED  BY <1>7, <2>2 DEF SkipEntry, CleanMeansSaved, Saving, OnDisk
\* The steps of a save
<1>8. ASSUME NEW s \in Saves, BeginSave(s)
      PROVE  (Seen /\ CleanMeansSaved)'
  <2>. DEFINE x == [at |-> "collect", left |-> {k \in Keys : data[k] # None}, got |-> Empty]
  <2>1. /\ save' = [save EXCEPT ![s] = x] /\ UNCHANGED <<up, store, loading, disk>>
        /\ unsure' = IF Saving THEN Keys ELSE {}
        /\ up
    BY <1>8 DEF BeginSave
  <2>2. /\ x.at = "collect" /\ x # None
        /\ \A k \in Keys : k \in x.left \/ x.got[k] = data[k]
    BY NoneIsNoSave, EmptyContent DEF SaveStates, Empty
  <2>. HIDE DEF x
  <2>3. \A t \in Saves : save'[t] = IF t = s THEN x ELSE save[t]
    BY <2>1 DEF TypeOK
  <2>4. Saving'
    BY <2>2, <2>3 DEF Saving
  <2>5. CASE Saving
    BY <2>1, <2>4, <2>5 DEF Seen, CleanMeansSaved
  <2>6. CASE ~Saving
    <3>1. \A t \in Saves : save'[t] = IF t = s THEN x ELSE None
      BY <2>3, <2>6 DEF Saving
    <3>. QED  BY <2>1, <2>2, <2>4, <3>1 DEF Seen, CleanMeansSaved, At
  <2>. QED  BY <2>5, <2>6
<1>9. ASSUME NEW s \in Saves, Collect(s)
      PROVE  (Seen /\ CleanMeansSaved)'
  <2>1. PICK k \in save[s].left :
             save' = [save EXCEPT ![s].left = @ \ {k}, ![s].got[k] = data[k]]
    BY <1>9 DEF Collect
  <2>2. save[s] \in [at : {"collect"}, left : SUBSET Keys, got : Contents]
    BY <1>9, Places DEF Collect, At
  <2>. DEFINE x == [save[s] EXCEPT !.left = @ \ {k}, !.got[k] = data[k]]
  <2>3. /\ x \in [at : {"collect"}, left : SUBSET Keys, got : Contents]
        /\ x.left = save[s].left \ {k}
        /\ \A j \in Keys : x.got[j] = IF j = k THEN data[j] ELSE save[s].got[j]
    BY <2>2 DEF TypeOK, Contents
  <2>4. x.at = "collect" /\ x # None
    BY <2>3, NoneIsNoSave DEF SaveStates
  <2>5. save' = [save EXCEPT ![s] = x]
    BY <2>1, <2>2 DEF TypeOK
  <2>. HIDE DEF x
  <2>6. \A t \in Saves : save'[t] = IF t = s THEN x ELSE save[t]
    BY <2>5 DEF TypeOK
  <2>7. At(s, "collect") /\ UNCHANGED <<up, store, loading, disk, unsure>>
    BY <1>9 DEF Collect
  <2>8. Saving'
    BY <2>4, <2>6 DEF Saving
  <2>9. \A j \in Keys \ unsure : j \in x.left \/ x.got[j] = data[j]
    BY <2>3, <2>7 DEF Seen
  <2>. QED  BY <2>4, <2>6, <2>7, <2>8, <2>9 DEF Seen, Saving, CleanMeansSaved, At
<1>10. ASSUME NEW s \in Saves, BeginRotation(s)
       PROVE  (Seen /\ CleanMeansSaved)'
  <2>. DEFINE x == [at |-> "rotate", file |-> MaxBackups - 1, got |-> save[s].got]
  <2>1. /\ save' = [save EXCEPT ![s] = x]
        /\ UNCHANGED <<up, store, loading, disk, unsure>>
        /\ At(s, "collect") /\ save[s].left = {}
    BY <1>10 DEF BeginRotation
  <2>2. x.at = "rotate" /\ x.got = save[s].got /\ x # None
    BY <2>1, Places, NoneIsNoSave DEF SaveStates, At
  <2>. HIDE DEF x
  <2>3. \A t \in Saves : save'[t] = IF t = s THEN x ELSE save[t]
    BY <2>1 DEF TypeOK
  <2>4. Saving'
    BY <2>2, <2>3 DEF Saving
  <2>. QED  BY <2>1, <2>2, <2>3, <2>4 DEF Seen, Saving, CleanMeansSaved, At
<1>11. ASSUME NEW s \in Saves, RotateNext(s)
       PROVE  (Seen /\ CleanMeansSaved)'
  <2>1. /\ UNCHANGED <<up, store, loading, unsure>>
        /\ At(s, "rotate")
    BY <1>11 DEF RotateNext, Rotate, Back
  <2>2. up
    BY <2>1 DEF Seen, Saving, At
  <2>3. save'[s] # None
    <3>1. save' \in [Saves -> SaveStates \cup {None}]
      BY <1>11, StepType DEF Next, SaveStep, TypeOK
    <3>. DEFINE f == save[s].file
                moved == IF disk[f] = None THEN save ELSE Renamed(f, f + 1)
    <3>2. save[s] \in [at : {"rotate"}, file : -1..(MaxBackups - 1), got : Contents]
      BY <2>1, Places DEF At
    <3>3. moved[s] = save[s] /\ DOMAIN moved = Saves
      BY <3>2 DEF Renamed, At, TypeOK
    <3>4. save' = [moved EXCEPT ![s].file = f - 1]
      BY <1>11 DEF RotateNext, Rotate
    <3>. HIDE DEF moved
    <3>5. save'[s] = [save[s] EXCEPT !.file = f - 1]
      BY <3>3, <3>4
    <3>6. save'[s] \in [at : {"rotate"}, file : Int, got : Contents] /\ f - 1 \in -1..(MaxBackups - 1)
      BY <1>11, <3>2, <3>5 DEF RotateNext
    <3>7. save'[s] \in SaveStates
      BY <3>2, <3>5, <3>6 DEF SaveStates
    <3>. QED  BY <3>7, NoneIsNoSave
  <2>4. CleanMeansSaved'
    BY <2>3 DEF CleanMeansSaved, Saving
  <2>5. CASE Alone
    <3>. DEFINE f == save[s].file
                x == [at |-> "rotate", file |-> f - 1, got |-> save[s].got]
    <3>1. save' = [save EXCEPT ![s] = x]
      BY <1>11, <2>5, RotateAlone
    <3>2. x.at = "rotate" /\ x.got = save[s].got
      OBVIOUS
    <3>. HIDE DEF x
    <3>3. \A t \in Saves : save'[t] = IF t = s THEN x ELSE save[t]
      BY <3>1 DEF TypeOK
    <3>4. \A t \in Saves : save'[t] # None => t = s
      BY <2>1, <2>5, <3>3 DEF Alone, At
    <3>. QED  BY <2>1, <2>2, <2>4, <3>2, <3>3, <3>4 DEF Seen, At
  <2>6. CASE ~Alone
    <3>1. unsure = Keys
      BY <2>6 DEF Seen, Alone
    <3>. QED  BY <2>1, <2>2, <2>4, <3>1 DEF Seen
  <2>. QED  BY <2>5, <2>6
<1>12. ASSUME NEW s \in Saves, OpenFile(s)
       PROVE  (Seen /\ CleanMeansSaved)'
  <2>. DEFINE x == [at |-> "write", file |-> 0, got |-> save[s].got]
  <2>1. /\ save' = [save EXCEPT ![s] = x]
        /\ UNCHANGED <<up, store, loading, unsure>>
        /\ disk' = [disk EXCEPT ![0] = Torn]
        /\ At(s, "rotate")
    BY <1>12 DEF OpenFile, Back
  <2>2. x.at = "write" /\ x.file = 0 /\ x.got = save[s].got /\ x # None
    BY <2>1, Places, NoneIsNoSave DEF SaveStates, At, Files
  <2>. HIDE DEF x
  <2>3. \A t \in Saves : save'[t] = IF t = s THEN x ELSE save[t]
    BY <2>1 DEF TypeOK
  <2>4. Saving' /\ disk'[0] = Torn
    BY <2>1, <2>2, <2>3 DEF Saving, TypeOK, Files
  <2>. QED  BY <2>1, <2>2, <2>3, <2>4 DEF Seen, Saving, CleanMeansSaved, At
<1>13. ASSUME NEW s \in Saves, FileWritten(s)
       PROVE  (Seen /\ CleanMeansSaved)'
  <2>1. /\ save' = [save EXCEPT ![s] = None]
        /\ UNCHANGED <<up, data, told, loading, unsure>>
        /\ At(s, "write")
    BY <1>13 DEF FileWritten, Back
  <2>2. \A t \in Saves : save'[t] = IF t = s THEN None ELSE save[t]
    BY <2>1 DEF TypeOK
  <2>3. up
    BY <2>1 DEF Seen, Saving, At
  <2>4. CASE ~Alone
    <3>1. unsure = Keys
      BY <2>4 DEF Seen, Alone
    <3>. QED  BY <2>1, <2>3, <3>1 DEF Seen, CleanMeansSaved
  <2>5. CASE Alone
    <3>1. \A t \in Saves : save'[t] = None
      BY <2>1, <2>2, <2>5 DEF Alone, At
    <3>2. Seen'
      BY <2>1, <2>3, <3>1 DEF Seen, At
    <3>3. ASSUME NEW k \in Keys \ unsure
          PROVE  OnDisk(k)' = data[k]
      <4>1. /\ save[s].file = 0 /\ disk[0] = Torn
            /\ save[s].got[k] = data[k]
        BY <2>1 DEF Seen
      <4>2. ~Contended(s)
        BY <2>1, <2>5, <4>1 DEF Contended, Whole, At, Alone
      <4>3. disk' = [disk EXCEPT ![0] = save[s].got]
        BY <1>13, <4>1, <4>2, NoneIsNoSave DEF FileWritten, Files
      <4>4. Whole(save[s].got)
        BY <2>1, Places, WholeContents DEF At
      <4>. QED  BY <4>1, <4>3, <4>4 DEF OnDisk, TypeOK, Files
    <3>. QED  BY <2>1, <3>2, <3>3 DEF CleanMeansSaved
  <2>. QED  BY <2>4, <2>5
<1>14. ASSUME NEW s \in Saves, WriteFails(s)
       PROVE  (Seen /\ CleanMeansSaved)'
  <2>1. /\ save' = [save EXCEPT ![s] = None]
        /\ UNCHANGED <<up, store, loading, disk>>
        /\ unsure' = IF isDirty THEN unsure ELSE Keys
        /\ save[s] # None
    BY <1>14 DEF WriteFails, Back, At
  <2>2. \A t \in Saves : save'[t] = IF t = s THEN None ELSE save[t]
    BY <2>1 DEF TypeOK
  <2>3. up
    BY <2>1 DEF Seen, Saving
  <2>4. Seen'
    BY <2>1, <2>2, <2>3 DEF Seen, At, TypeOK
  <2>. QED  BY <2>1, <2>4 DEF CleanMeansSaved
\* The process
<1>15. CASE Crash
  BY <1>15 DEF Crash, Seen, Saving, At, CleanMeansSaved
<1>16. CASE Restart
  <2>1. UNCHANGED <<data, isDirty, save, disk, unsure>> /\ ~Saving /\ data = Empty /\ up'
        /\ told' = Whole(disk[0])
    BY <1>16 DEF Restart, Seen
  <2>2. Seen'
    BY <2>1 DEF Seen, Saving, At
  <2>3. CleanMeansSaved'
    BY <2>1 DEF CleanMeansSaved, OnDisk, Empty
  <2>. QED  BY <2>2, <2>3
<1>17. CASE UNCHANGED vars
  BY <1>17 DEF vars, Seen, Saving, At, CleanMeansSaved, OnDisk
<1>. QED
  BY <1>1, <1>2, <1>3, <1>4, <1>5, <1>6, <1>7, <1>8, <1>9, <1>10, <1>11, <1>12,
     <1>13, <1>14, <1>15, <1>16, <1>17 DEF Next, SaveStep

\* A plugin that is clean has the store on disk (save and the listeners of init),
\* for every number of keys and saves and through any crash, but for what is
\* written during a save or without an event.
THEOREM TheFlagIsHonest == Spec => []CleanMeansSaved
<1>1. Init => TypeOK /\ Seen /\ CleanMeansSaved
  BY InitType, InitSeen
<1>2. TypeOK /\ Seen /\ CleanMeansSaved /\ [Next]_vars => (TypeOK /\ Seen /\ CleanMeansSaved)'
  BY StepType, StepSeen
<1>. QED  BY <1>1, <1>2, PTL DEF Spec
============================================================================
