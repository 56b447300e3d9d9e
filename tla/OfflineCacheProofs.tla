------------------------ MODULE OfflineCacheProofs ------------------------
(***************************************************************************)
(* No save is forgotten and none reaches a file it was not made for, for   *)
(* any number of keys and files, any interval and any number of faults.    *)
(***************************************************************************)
EXTENDS OfflineCache, TLAPS

\* What every step preserves.
Inv == CacheInv /\ LastSaveIsHeld /\ FilesAreNotMixed

LEMMA InitialCache == Init => Inv
<1> SUFFICES ASSUME Init PROVE Inv
  OBVIOUS
<1>1. TypeOK
  <2>1. NoStates \in [Keys -> Ages]
    BY DEF NoStates, Ages
  <2>2. disk \in [Files -> [Keys -> Ages]] /\ unwritten \in [Keys -> Ages]
    BY <2>1 DEF Init
  <2>3. timer \in 0..Interval /\ faults \in 0..MaxFaults
    BY CacheAssumption DEF Init
  <2>4. owner \in [Keys -> Files \cup {NoFile}] /\ savedTo \in [Files -> SUBSET Keys]
    BY DEF Init
  <2> QED
    BY <2>2, <2>3, <2>4 DEF Init, TypeOK
<1>2. Waiting = {}
  BY DEF Init, Waiting, NoStates
<1>3. WaitingIsTimed /\ WaitingIsOfThisFile /\ ~(timer > 0)
  BY <1>2 DEF Init, WaitingIsTimed, WaitingIsOfThisFile
<1>4. LastSaveIsHeld /\ FilesAreNotMixed
  BY DEF Init, LastSaveIsHeld, FilesAreNotMixed, NoStates
<1> QED
  BY <1>1, <1>3, <1>4 DEF Inv, CacheInv

\* A transaction empties the memory: what waited is in the open file or counted
\* as lost, and the other states of every file stay (offline_cache.cpp:106-136).
LEMMA WritingKeeps ==
  ASSUME Inv, WritePending
  PROVE  /\ disk' \in [Files -> [Keys -> Ages]]
         /\ unwritten' = NoStates
         /\ faults' \in 0..MaxFaults
         /\ lost' \subseteq Keys
         /\ \A k \in Keys : owner[k] # NoFile => disk'[owner[k]][k] = "last" \/ k \in lost'
         /\ \A f \in Files : \A k \in Keys : disk'[f][k] # "none" => k \in savedTo[f]
<1> USE DEF Inv, CacheInv, TypeOK
<1>1. unwritten' = NoStates
  BY DEF WritePending
<1>2. PICK written \in SUBSET Waiting :
         /\ IF written = Waiting THEN UNCHANGED <<faults, lost>>
            ELSE IF path = NoFile THEN UNCHANGED faults /\ lost' = lost \cup Waiting
            ELSE /\ faults < MaxFaults
                 /\ faults' = faults + 1
                 /\ lost' = lost \cup (Waiting \ written)
         /\ disk' = IF path = NoFile THEN disk
                    ELSE [disk EXCEPT ![path] = [k \in Keys |->
                            IF k \in written THEN unwritten[k] ELSE @[k]]]
  BY DEF WritePending
<1>3. Waiting \subseteq Keys /\ written \subseteq Waiting
  BY DEF Waiting
<1>4. /\ faults' \in 0..MaxFaults
      /\ lost' \subseteq Keys /\ lost \subseteq lost'
      /\ Waiting \ written \subseteq lost'
  BY <1>2, <1>3, CacheAssumption
<1>5. CASE path = NoFile
  <2>1. Waiting = {} /\ disk' = disk
    BY <1>2, <1>5 DEF WaitingIsOfThisFile
  <2>2. \A k \in Keys : unwritten[k] = "none"
    BY <2>1 DEF Waiting
  <2> QED
    BY <1>1, <1>4, <2>1, <2>2 DEF LastSaveIsHeld, FilesAreNotMixed
<1>6. CASE path # NoFile
  <2>1. path \in Files
    BY <1>6
  <2>2. /\ DOMAIN disk' = Files
        /\ \A f \in Files : f # path => disk'[f] = disk[f]
        /\ disk'[path] = [k \in Keys |-> IF k \in written THEN unwritten[k] ELSE disk[path][k]]
    BY <1>2, <1>6, <2>1
  <2>3. disk' \in [Files -> [Keys -> Ages]]
    BY <1>2, <1>6, <2>1
  <2>4. ASSUME NEW k \in Keys, owner[k] # NoFile
        PROVE  disk'[owner[k]][k] = "last" \/ k \in lost'
    <3>1. owner[k] \in Files
      BY <2>4
    <3>2. CASE k \in written
      BY <1>3, <2>2, <2>4, <3>2 DEF WaitingIsOfThisFile
    <3>3. CASE k \in Waiting \ written
      BY <1>4, <3>3
    <3>4. CASE k \notin Waiting
      <4>1. unwritten[k] = "none"
        BY <3>4 DEF Waiting
      <4>2. disk[owner[k]][k] = "last" \/ k \in lost
        BY <2>4, <4>1 DEF LastSaveIsHeld
      <4>3. disk'[owner[k]][k] = disk[owner[k]][k]
        BY <1>3, <2>1, <2>2, <3>1, <3>4
      <4> QED
        BY <1>4, <4>2, <4>3
    <3> QED
      BY <1>3, <3>2, <3>3, <3>4
  <2>5. ASSUME NEW f \in Files, NEW k \in Keys, disk'[f][k] # "none"
        PROVE  k \in savedTo[f]
    <3>1. CASE f = path /\ k \in written
      BY <1>3, <3>1 DEF WaitingIsOfThisFile
    <3>2. CASE ~(f = path /\ k \in written)
      <4>1. disk'[f][k] = disk[f][k]
        BY <2>1, <2>2, <3>2
      <4> QED
        BY <2>5, <4>1 DEF FilesAreNotMixed
    <3> QED
      BY <3>1, <3>2
  <2> QED
    BY <1>1, <1>4, <2>3, <2>4, <2>5
<1> QED
  BY <1>5, <1>6

\* A save: the key's last one waits for the open file (offline_cache.cpp:88-99).
LEMMA SavingKeeps ==
  ASSUME Inv, NEW k \in Keys, SaveDeviceState(k)
  PROVE  Inv'
<1> USE DEF Inv, CacheInv
<1>1. /\ running /\ path \in Files /\ path # NoFile
      /\ running' = running /\ path' = path /\ faults' = faults
  BY DEF SaveDeviceState, TypeOK
<1>2. unwritten' = [unwritten EXCEPT ![k] = "last"]
  BY DEF SaveDeviceState
<1>3. /\ disk' = [f \in Files |-> Outdated(disk[f], k)]
      /\ owner' = [owner EXCEPT ![k] = path]
      /\ savedTo' = [savedTo EXCEPT ![path] = @ \cup {k}]
      /\ lost' = lost \ {k}
  BY DEF SaveDeviceState, Remember
<1>4. timer' \in 1..Interval
  BY CacheAssumption DEF SaveDeviceState, TypeOK
<1>5. ASSUME NEW f \in Files
      PROVE  /\ Outdated(disk[f], k) \in [Keys -> Ages]
             /\ \A j \in Keys : j # k => Outdated(disk[f], k)[j] = disk[f][j]
             /\ \A j \in Keys : Outdated(disk[f], k)[j] # "none" => disk[f][j] # "none"
  BY DEF Outdated, TypeOK, Ages
<1>6. TypeOK'
  <2>1. disk' \in [Files -> [Keys -> Ages]]
    BY <1>3, <1>5
  <2>2. unwritten' \in [Keys -> Ages]
    BY <1>2 DEF TypeOK, Ages
  <2>3. owner' \in [Keys -> Files \cup {NoFile}] /\ savedTo' \in [Files -> SUBSET Keys]
    BY <1>1, <1>3 DEF TypeOK
  <2> QED
    BY <1>1, <1>3, <1>4, <2>1, <2>2, <2>3 DEF TypeOK
<1>7. WaitingIsTimed' /\ (timer > 0 => running)'
  BY <1>1, <1>4 DEF WaitingIsTimed
<1>8. WaitingIsOfThisFile'
  <2> SUFFICES ASSUME NEW j \in Waiting'
               PROVE  /\ unwritten'[j] = "last"
                      /\ path' # NoFile /\ owner'[j] = path'
                      /\ j \in savedTo'[path']
    BY DEF WaitingIsOfThisFile
  <2>1. j \in Keys
    BY DEF Waiting
  <2>2. CASE j = k
    BY <1>1, <1>2, <1>3, <2>2 DEF TypeOK
  <2>3. CASE j # k
    <3>1. j \in Waiting
      BY <1>2, <2>1, <2>3 DEF Waiting, TypeOK
    <3> QED
      BY <1>1, <1>2, <1>3, <2>1, <2>3, <3>1 DEF WaitingIsOfThisFile, TypeOK
  <2> QED
    BY <2>2, <2>3
<1>9. LastSaveIsHeld'
  <2> SUFFICES ASSUME NEW j \in Keys, owner'[j] # NoFile
               PROVE  \/ unwritten'[j] = "last" /\ path' = owner'[j]
                      \/ disk'[owner'[j]][j] = "last"
                      \/ j \in lost'
    BY DEF LastSaveIsHeld
  <2>1. CASE j = k
    BY <1>1, <1>2, <1>3, <2>1 DEF TypeOK
  <2>2. CASE j # k
    <3>1. owner'[j] = owner[j] /\ unwritten'[j] = unwritten[j] /\ owner[j] \in Files
      BY <1>2, <1>3, <2>2 DEF TypeOK
    <3>2. disk'[owner[j]][j] = disk[owner[j]][j]
      BY <1>3, <1>5, <2>2, <3>1
    <3> QED
      BY <1>1, <1>3, <2>2, <3>1, <3>2 DEF LastSaveIsHeld
  <2> QED
    BY <2>1, <2>2
<1>10. FilesAreNotMixed'
  <2> SUFFICES ASSUME NEW f \in Files, NEW j \in Keys, disk'[f][j] # "none"
               PROVE  j \in savedTo'[f]
    BY DEF FilesAreNotMixed
  <2>1. disk[f][j] # "none"
    BY <1>3, <1>5
  <2>2. j \in savedTo[f]
    BY <2>1 DEF FilesAreNotMixed
  <2> QED
    BY <1>1, <1>3, <2>2 DEF TypeOK
<1> QED
  BY <1>6, <1>7, <1>8, <1>9, <1>10

\* A step that writes what waits and leaves the history alone, wherever the path
\* goes: the timer's flush, open, load and the destructor.
LEMMA WritingStepKeeps ==
  ASSUME Inv, WritePending,
         owner' = owner, savedTo' = savedTo,
         running' \in BOOLEAN, path' \in Files \cup {NoFile},
         timer' \in 0..Interval, timer' > 0 => running'
  PROVE  Inv'
<1>1. /\ disk' \in [Files -> [Keys -> Ages]]
      /\ unwritten' = NoStates
      /\ faults' \in 0..MaxFaults
      /\ lost' \subseteq Keys
      /\ \A k \in Keys : owner[k] # NoFile => disk'[owner[k]][k] = "last" \/ k \in lost'
      /\ \A f \in Files : \A k \in Keys : disk'[f][k] # "none" => k \in savedTo[f]
  BY WritingKeeps
<1>2. Waiting' = {} /\ unwritten' \in [Keys -> Ages]
  BY <1>1 DEF Waiting, NoStates, Ages
<1>3. TypeOK'
  BY <1>1, <1>2 DEF Inv, CacheInv, TypeOK
<1>4. CacheInv'
  BY <1>2, <1>3 DEF CacheInv, WaitingIsTimed, WaitingIsOfThisFile
<1>5. LastSaveIsHeld' /\ FilesAreNotMixed'
  BY <1>1 DEF LastSaveIsHeld, FilesAreNotMixed
<1> QED
  BY <1>4, <1>5 DEF Inv

LEMMA StepKeeps == Inv /\ [Next]_vars => Inv'
<1> SUFFICES ASSUME Inv, [Next]_vars PROVE Inv'
  OBVIOUS
<1>1. ASSUME NEW k \in Keys, SaveDeviceState(k) PROVE Inv'
  BY <1>1, SavingKeeps
<1>2. CASE Tick
  <2>1. /\ running /\ running' = running /\ timer' \in 0..Interval /\ timer' > 0
        /\ disk' = disk /\ path' = path /\ unwritten' = unwritten /\ faults' = faults
        /\ owner' = owner /\ savedTo' = savedTo /\ lost' = lost
    BY <1>2, CacheAssumption DEF Tick, Inv, CacheInv, TypeOK
  <2> QED
    BY <2>1 DEF Inv, CacheInv, TypeOK, WaitingIsTimed, WaitingIsOfThisFile, Waiting,
                LastSaveIsHeld, FilesAreNotMixed
<1>3. CASE Flush
  <2>1. WritePending /\ owner' = owner /\ savedTo' = savedTo
    BY <1>3 DEF Flush
  <2>2. running' \in BOOLEAN /\ path' \in Files \cup {NoFile} /\ timer' = 0
    BY <1>3 DEF Flush, Inv, CacheInv, TypeOK
  <2> QED
    BY <2>1, <2>2, WritingStepKeeps, CacheAssumption
<1>4. CASE LoadDeviceStates
  <2>1. WritePending /\ owner' = owner /\ savedTo' = savedTo
    BY <1>4 DEF LoadDeviceStates
  <2>2. /\ running' \in BOOLEAN /\ path' \in Files \cup {NoFile}
        /\ timer' \in 0..Interval /\ (timer' > 0 => running')
    BY <1>4 DEF LoadDeviceStates, Inv, CacheInv, TypeOK
  <2> QED
    BY <2>1, <2>2, WritingStepKeeps
<1>5. CASE Exit
  <2>1. WritePending /\ owner' = owner /\ savedTo' = savedTo
    BY <1>5 DEF Exit
  <2>2. running' \in BOOLEAN /\ path' \in Files \cup {NoFile} /\ timer' = 0
    BY <1>5 DEF Exit
  <2> QED
    BY <2>1, <2>2, WritingStepKeeps, CacheAssumption
<1>6. CASE Crash
  <2>1. /\ running' = FALSE /\ path' = NoFile /\ timer' = 0 /\ unwritten' = NoStates
        /\ lost' = lost \cup Waiting
        /\ disk' = disk /\ faults' = faults /\ owner' = owner /\ savedTo' = savedTo
    BY <1>6 DEF Crash
  <2>2. Waiting \subseteq Keys /\ Waiting' = {} /\ unwritten' \in [Keys -> Ages]
    BY <2>1 DEF Waiting, NoStates, Ages
  <2>3. TypeOK'
    <3>1. lost' \subseteq Keys
      BY <2>1, <2>2 DEF Inv, CacheInv, TypeOK
    <3>2. timer' \in 0..Interval
      BY <2>1, CacheAssumption
    <3> QED
      BY <2>1, <2>2, <3>1, <3>2 DEF Inv, CacheInv, TypeOK
  <2>4. CacheInv'
    BY <2>1, <2>2, <2>3 DEF CacheInv, WaitingIsTimed, WaitingIsOfThisFile
  <2>5. LastSaveIsHeld'
    <3> SUFFICES ASSUME NEW k \in Keys, owner[k] # NoFile
                 PROVE  disk[owner[k]][k] = "last" \/ k \in lost \cup Waiting
      BY <2>1 DEF LastSaveIsHeld
    <3>1. unwritten[k] = "last" => k \in Waiting
      BY DEF Waiting
    <3> QED
      BY <3>1 DEF Inv, LastSaveIsHeld
  <2>6. FilesAreNotMixed'
    BY <2>1 DEF Inv, FilesAreNotMixed
  <2> QED
    BY <2>4, <2>5, <2>6 DEF Inv
<1>7. ASSUME NEW f \in Files, Open(f) PROVE Inv'
  <2>1. WritePending /\ owner' = owner /\ savedTo' = savedTo
    BY <1>7 DEF Open
  <2>2. /\ running' \in BOOLEAN /\ path' \in Files \cup {NoFile}
        /\ timer' \in 0..Interval /\ (timer' > 0 => running')
    BY <1>7 DEF Open, Inv, CacheInv, TypeOK
  <2> QED
    BY <2>1, <2>2, WritingStepKeeps
<1>8. ASSUME NEW f \in Files, Start(f) PROVE Inv'
  <2>1. /\ running' = TRUE /\ path' \in Files \cup {NoFile} /\ ~running
        /\ disk' = disk /\ unwritten' = unwritten /\ timer' = timer /\ faults' = faults
        /\ owner' = owner /\ savedTo' = savedTo /\ lost' = lost
    BY <1>8 DEF Start
  <2>2. Waiting = {}
    BY <2>1, CacheAssumption DEF Inv, CacheInv, TypeOK, WaitingIsTimed
  <2>3. Waiting' = {}
    BY <2>1, <2>2 DEF Waiting
  <2>4. CacheInv'
    BY <2>1, <2>3 DEF Inv, CacheInv, TypeOK, WaitingIsTimed, WaitingIsOfThisFile
  <2>5. LastSaveIsHeld'
    <3> SUFFICES ASSUME NEW k \in Keys, owner[k] # NoFile
                 PROVE  disk[owner[k]][k] = "last" \/ k \in lost
      BY <2>1 DEF LastSaveIsHeld
    <3>1. unwritten[k] # "last"
      BY <2>2 DEF Waiting
    <3> QED
      BY <3>1 DEF Inv, LastSaveIsHeld
  <2>6. FilesAreNotMixed'
    BY <2>1 DEF Inv, FilesAreNotMixed
  <2> QED
    BY <2>4, <2>5, <2>6 DEF Inv
<1>9. CASE UNCHANGED vars
  BY <1>9 DEF vars, Inv, CacheInv, TypeOK, WaitingIsTimed, WaitingIsOfThisFile, Waiting,
              LastSaveIsHeld, FilesAreNotMixed
<1> QED
  BY <1>1, <1>2, <1>3, <1>4, <1>5, <1>6, <1>7, <1>8, <1>9 DEF Next

\* Everything that waits is timed and belongs to the open file.
THEOREM CacheInvariant == Spec => []CacheInv
<1>1. Inv => CacheInv
  BY DEF Inv
<1> QED
  BY <1>1, InitialCache, StepKeeps, PTL DEF Spec

\* The last save of every key waits in memory, or is in the file that was open
\* when it was made, or was taken by a crash or a failed transaction; and a file
\* holds only states saved while it was open.
THEOREM NoSaveIsForgotten == Spec => []SavesAreKept
<1>1. Inv => SavesAreKept
  BY DEF Inv, SavesAreKept
<1> QED
  BY <1>1, InitialCache, StepKeeps, PTL DEF Spec
=============================================================================
