---------------------------- MODULE OfflineCache ----------------------------
(***************************************************************************)
(* The write-behind cache of device states (offline_cache.cpp): saves are  *)
(* coalesced per (device, sensor) in memory and written in one transaction *)
(* a moment after the first of them, and before a read, another open and   *)
(* the end of the program.  All that is told apart about a state is        *)
(* whether it is the last one saved for its key.                           *)
(***************************************************************************)
EXTENDS Naturals, FiniteSets

CONSTANTS
    Keys,           \* (device_id, sensor) pairs
    Files,          \* paths of cache files
    NoFile,         \* no file is open
    Interval,       \* flush_timer_'s interval, in ticks
    MaxFaults       \* bound: transactions that fail in part or whole

ASSUME CacheAssumption ==
    /\ NoFile \notin Files
    /\ Interval \in Nat \ {0} /\ MaxFaults \in Nat

Ages == {"none", "old", "last"}

VARIABLES
    disk,       \* device_states of each file
    running,    \* does the dashboard run?
    path,       \* the open file; NoFile when open_ is false
    unwritten,  \* pending_
    timer,      \* ticks until flush_timer_ fires, 0 when it is stopped
    faults,
    owner,      \* history: the file the last save of each key was made for
    savedTo,    \* history: the keys ever saved while each file was open
    lost        \* history: keys whose last save was in memory at a crash, or failed

vars == <<disk, running, path, unwritten, timer, faults, owner, savedTo, lost>>

NoStates == [k \in Keys |-> "none"]
Waiting == {k \in Keys : unwritten[k] # "none"}

Init ==
    /\ disk = [f \in Files |-> NoStates]
    /\ running = FALSE /\ path = NoFile
    /\ unwritten = NoStates /\ timer = 0 /\ faults = 0
    /\ owner = [k \in Keys |-> NoFile]
    /\ savedTo = [f \in Files |-> {}] /\ lost = {}

\* write_pending: one transaction for all that waits. A statement that fails is
\* not noticed, and everything is cleared.
WritePending ==
    /\ unwritten' = NoStates
    /\ \E written \in SUBSET Waiting :
         /\ IF written = Waiting THEN UNCHANGED <<faults, lost>>
            ELSE IF path = NoFile THEN UNCHANGED faults /\ lost' = lost \cup Waiting
            ELSE /\ faults < MaxFaults
                 /\ faults' = faults + 1
                 /\ lost' = lost \cup (Waiting \ written)
         /\ disk' = IF path = NoFile THEN disk
                    ELSE [disk EXCEPT ![path] = [k \in Keys |->
                            IF k \in written THEN unwritten[k] ELSE @[k]]]

\* The last save of a key makes every earlier one old.
Outdated(states, k) == [states EXCEPT ![k] = IF @ = "none" THEN @ ELSE "old"]

Remember(k) ==
    /\ disk' = [f \in Files |-> Outdated(disk[f], k)]
    /\ owner' = [owner EXCEPT ![k] = path]
    /\ savedTo' = [savedTo EXCEPT ![path] = @ \cup {k}]
    /\ lost' = lost \ {k}

\* Mutants: every save starts the timer again; only a save that finds another
\* waiting starts it.
SaveRestartingTimer(k) ==
    /\ running /\ path # NoFile
    /\ unwritten' = [unwritten EXCEPT ![k] = "last"]
    /\ timer' = Interval
    /\ Remember(k)
    /\ UNCHANGED <<running, path, faults>>

SaveNotTimed(k) ==
    /\ running /\ path # NoFile
    /\ unwritten' = [unwritten EXCEPT ![k] = "last"]
    /\ timer' = IF Waiting = {} THEN timer ELSE Interval
    /\ Remember(k)
    /\ UNCHANGED <<running, path, faults>>

\* saveDeviceState, on deviceUpdated of the model.
SaveDeviceState(k) ==
    /\ running /\ path # NoFile
    /\ unwritten' = [unwritten EXCEPT ![k] = "last"]
    /\ timer' = IF timer = 0 THEN Interval ELSE timer
    /\ Remember(k)
    /\ UNCHANGED <<running, path, faults>>

\* Time passes; the single-shot timer fires when its interval is over.
Tick ==
    /\ running /\ timer > 1
    /\ timer' = timer - 1
    /\ UNCHANGED <<disk, running, path, unwritten, faults, owner, savedTo, lost>>

Flush ==
    /\ running /\ timer = 1
    /\ timer' = 0
    /\ WritePending
    /\ UNCHANGED <<running, path, owner, savedTo>>

\* Mutant: the new file takes what waits for the old one.
OpenWithoutWriting(f) ==
    /\ running
    /\ path' \in {f, NoFile}
    /\ UNCHANGED <<disk, running, unwritten, timer, faults, owner, savedTo, lost>>

\* open writes what waits to the file it closes; the new one may not open.
Open(f) ==
    /\ running
    /\ WritePending
    /\ path' \in {f, NoFile}
    /\ UNCHANGED <<running, timer, owner, savedTo>>

\* loadDeviceStates writes what waits before it reads.
LoadDeviceStates ==
    /\ running /\ path # NoFile
    /\ WritePending
    /\ UNCHANGED <<running, path, timer, owner, savedTo>>

\* main: the program starts and opens its cache.
Start(f) ==
    /\ ~running
    /\ running' = TRUE
    /\ path' \in {f, NoFile}
    /\ UNCHANGED <<disk, unwritten, timer, faults, owner, savedTo, lost>>

\* The destructor writes and closes.
Exit ==
    /\ running
    /\ WritePending
    /\ running' = FALSE /\ path' = NoFile /\ timer' = 0
    /\ UNCHANGED <<owner, savedTo>>

Crash ==
    /\ running
    /\ running' = FALSE /\ path' = NoFile /\ timer' = 0
    /\ unwritten' = NoStates
    /\ lost' = lost \cup Waiting
    /\ UNCHANGED <<disk, faults, owner, savedTo>>

Next ==
    \/ \E k \in Keys : SaveDeviceState(k)
    \/ Tick \/ Flush \/ LoadDeviceStates \/ Exit \/ Crash
    \/ \E f \in Files : Open(f) \/ Start(f)

\* Time passes and the event loop runs while the program does.
Fairness == WF_vars(Tick) /\ WF_vars(Flush)

Spec == Init /\ [][Next]_vars /\ Fairness

-----------------------------------------------------------------------------
\* Every variable stays in the set of values the code can give it.
TypeOK ==
    /\ disk \in [Files -> [Keys -> Ages]]
    /\ running \in BOOLEAN
    /\ path \in Files \cup {NoFile}
    /\ unwritten \in [Keys -> Ages]
    /\ timer \in 0..Interval
    /\ faults \in 0..MaxFaults
    /\ owner \in [Keys -> Files \cup {NoFile}]
    /\ savedTo \in [Files -> SUBSET Keys]
    /\ lost \subseteq Keys

\* The last save of a key waits in memory or is in the file that was open when
\* it was made, through switches of files, exits and restarts, unless a crash
\* or a failed transaction took it (offline_cache.cpp:30-58, 88-136).
LastSaveIsHeld ==
    \A k \in Keys :
        owner[k] # NoFile =>
            \/ unwritten[k] = "last" /\ path = owner[k]
            \/ disk[owner[k]][k] = "last"
            \/ k \in lost

\* A file holds only states that were saved while it was open.
FilesAreNotMixed ==
    \A f \in Files : {k \in Keys : disk[f][k] # "none"} \subseteq savedTo[f]

\* No save is forgotten, and none is carried into another file.
SavesAreKept == LastSaveIsHeld /\ FilesAreNotMixed

\* What waits has a timer that will write it: the timer outlives the writes of
\* an open and of a read, and a save that finds it stopped starts it.
WaitingIsTimed == Waiting # {} => timer > 0

\* What waits was saved to the open file: the key's last save, of its owner.
WaitingIsOfThisFile ==
    \A k \in Waiting :
        /\ unwritten[k] = "last"
        /\ path # NoFile /\ owner[k] = path
        /\ k \in savedTo[path]

\* The invariant of what waits: typed, timed while the program runs, and never
\* carried into another file.
CacheInv ==
    /\ TypeOK
    /\ WaitingIsTimed
    /\ timer > 0 => running
    /\ WaitingIsOfThisFile

\* A state that waits is written in the end, however many saves follow it
\* (offline_cache.h:34-37: "after a short delay").
WaitingIsWritten == \A k \in Keys : (k \in Waiting) ~> (k \notin Waiting)
=============================================================================
