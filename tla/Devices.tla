------------------------------ MODULE Devices ------------------------------
(***************************************************************************)
(* The devices page: the device model, a filter of it and the floor view,  *)
(* fed by the answers of a bootstrap and by pushes.  The rows of an answer *)
(* and pushes that are read together reach the model in one pass of the    *)
(* event loop: no timer and no user comes in between.                      *)
(***************************************************************************)
EXTENDS DeviceFilter, PlantScene

VARIABLES
    readings,   \* keys of the readings that are still to come in this pass
    located     \* devices whose places are still to come in this pass

vars == <<modelVars, filterVars, sceneVars, readings, located>>

Idle == readings = {} /\ located = {}

\* The rows of the cache are there before the page is.
Init ==
    /\ \E keys \in SUBSET Keys :
          rows \in {r \in [1..Cardinality(keys) -> keys] : NoneTwice(r)}
    /\ Restored
    /\ FilterInit /\ SceneInit
    /\ readings = {} /\ located = {}

-----------------------------------------------------------------------------
\* ApiClient has the answer of /api/readings/latest, or pushes have arrived.
ReadingsArrive(keys) ==
    /\ Idle /\ keys # {}
    /\ readings' = keys
    /\ UNCHANGED <<modelVars, filterVars, sceneVars, located>>

\* ApiClient has the answer of /api/devices.
PlacesArrive(devices) ==
    /\ Idle /\ devices # {}
    /\ located' = devices
    /\ UNCHANGED <<modelVars, filterVars, sceneVars, readings>>

NewRow(k, s) ==
    /\ k \in readings /\ readings' = readings \ {k}
    /\ AddRow(k, s)
    /\ FilterInserts(k) /\ Schedule
    /\ UNCHANGED located

ChangedRow(k, s) ==
    /\ k \in readings /\ readings' = readings \ {k}
    /\ SetRow(k, s)
    /\ FilterChanges({k}) /\ Schedule
    /\ UNCHANGED located

DevicePlaced(d, p) ==
    /\ d \in located /\ located' = located \ {d}
    /\ SetMeta(d, p)
    /\ FilterChanges(Announced(d))
    /\ IF Announced(d) = {} THEN UNCHANGED sceneVars ELSE Schedule
    /\ UNCHANGED readings

-----------------------------------------------------------------------------
\* Timers and the user, between two passes.
TimerFires ==
    /\ Idle
    /\ \/ Recount /\ UNCHANGED sceneVars
       \/ GroupsTick /\ UNCHANGED sceneVars
       \/ Rebuild /\ UNCHANGED filterVars
    /\ UNCHANGED <<readings, located>>

Search(found) ==
    /\ Idle /\ view = "cards"
    /\ FilterSearches(found)
    /\ UNCHANGED <<modelVars, sceneVars, readings, located>>

\* showInList, from the details of the selected device: its id is searched for.
ShowInList ==
    /\ Idle /\ selected \in Shown \cap DOMAIN scene.at
    /\ ShowCards
    /\ FilterSearches({k \in Keys : DeviceOf[k] = DeviceOf[selected]})
    /\ UNCHANGED <<modelVars, readings, located>>

\* What concerns the floor.
UserActs ==
    /\ Idle /\ followed = TheFloor
    /\ \/ ShowFloor(selected) \/ ShowCards
       \/ \E k \in Shown : ShowFloor(k) \/ SelectCard(k)
       \/ \E k \in DOMAIN scene.at : Pick(k)
    /\ UNCHANGED <<modelVars, filterVars, readings, located>>

Next ==
    \/ \E keys \in SUBSET Keys : ReadingsArrive(keys)
    \/ \E devices \in SUBSET Devices : PlacesArrive(devices)
    \/ \E k \in Keys, s \in Statuses : NewRow(k, s) \/ ChangedRow(k, s)
    \/ \E d \in Devices, p \in Places : DevicePlaced(d, p)
    \/ TimerFires
    \/ \E found \in Searches : Search(found)
    \/ ShowInList \/ UserActs

\* A pass of the event loop ends, and the timer that repeats has its turn between
\* two passes, however many readings keep arriving.
Fairness ==
    /\ WF_vars(\E k \in Keys, s \in Statuses : NewRow(k, s) \/ ChangedRow(k, s))
    /\ WF_vars(\E d \in Devices, p \in Places : DevicePlaced(d, p))
    /\ SF_vars(Idle /\ GroupsTick /\ UNCHANGED <<sceneVars, readings, located>>)

Spec == Init /\ [][Next]_vars /\ Fairness

-----------------------------------------------------------------------------
\* Every variable stays in the set of values the code can give it.
TypeOK ==
    /\ rows \in Seq(Keys) /\ NoneTwice(rows)
    /\ status \in [Keys -> Statuses \cup {NoStatus}]
    /\ place \in [Keys -> Places] /\ meta \in [Devices -> Places]
    /\ followed \in Places \cup {Everything, TheFloor}
    /\ search \subseteq Keys /\ groups \subseteq Places
    /\ filter \in [members : SUBSET Keys, cached : Nat, dirty : BOOLEAN, timer : BOOLEAN,
                   shown : Nat, healthy : Nat \X Nat]
    /\ view \in {"cards", "floor"} /\ sceneTimer \in BOOLEAN
    /\ DOMAIN scene.at \subseteq Keys \cup DOMAIN Others
    /\ selected \in Keys \cup DOMAIN Others \cup {0}
    /\ readings \subseteq Keys /\ located \subseteq Devices

\* The invariant of the page's data, on which the numbers rest.
DevicesInv == TypeOK /\ RowsFollowMeta /\ MembersFollowRows /\ NumbersAgree

\* Nothing on the floor overlaps, and a click on a device finds that device.
SceneIsSound == view = "floor" /\ ~sceneTimer => LayoutIsSound(scene.at)

\* The cards have a section for every place that keeps a row, in the end.
SectionsAppear ==
    \A p \in Places : (\E k \in Shown : place[k] = p) ~> (p \in groups \/ \A k \in Shown : place[k] # p)
=============================================================================
