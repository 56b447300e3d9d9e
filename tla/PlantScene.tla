----------------------------- MODULE PlantScene -----------------------------
(***************************************************************************)
(* The floor view of the devices page: plant_scene_model.cpp, which lays   *)
(* the rows of the device model out a moment after they change, and what   *)
(* DeviceTreePanel.qml and PlantView3D.qml show of the selected row.       *)
(***************************************************************************)
EXTENDS DeviceModel, PlantLayout

CONSTANT Others     \* the places of further rows, which stay as they are

ASSUME OthersAssumption ==
    /\ IsFiniteSet(DOMAIN Others) /\ DOMAIN Others \subseteq Nat \ Keys
    /\ \A k \in DOMAIN Others : Others[k] \in Nat \X Nat

VARIABLES
    view,       \* panel.viewMode
    scene,      \* scene_: the places of the rows laid out and the critical ones
    sceneTimer, \* is timer_ active?
    selected,   \* panel.selectedKey, 0 when nothing is selected
    labelled    \* selLabel.index of PlantView3D, from 1, 0 for none

sceneVars == <<view, scene, sceneTimer, selected, labelled>>

EmptyScene == [at |-> <<>>, critical |-> {}]

\* What rebuild reads of the model, where at and stat are its places and statuses.
SceneOf(keys, at, stat) ==
    [at |-> [k \in keys \cup DOMAIN Others |-> IF k \in keys THEN at[k] ELSE Others[k]],
     critical |-> {k \in keys : stat[k] = "critical"}]

SceneInit ==
    /\ view = "cards" /\ scene = EmptyScene /\ sceneTimer = FALSE
    /\ selected = 0 /\ labelled = 0

\* Mutant: a change of places asks for no layout.
ScheduleStatusesOnly ==
    /\ sceneTimer' = (sceneTimer \/ (view = "floor" /\ UNCHANGED meta))
    /\ UNCHANGED <<view, scene, selected, labelled>>

\* schedule: the model changed; only a scene with a source hears of it.
Schedule ==
    /\ sceneTimer' = (sceneTimer \/ view = "floor")
    /\ UNCHANGED <<view, scene, selected, labelled>>

\* rebuild. The scene has no source while the cards are shown.
Rebuild ==
    /\ sceneTimer
    /\ sceneTimer' = FALSE
    /\ scene' = IF view = "floor" THEN SceneOf(Shown, place, status) ELSE EmptyScene
    /\ UNCHANGED <<view, selected, labelled, modelVars>>

\* The floor view is opened, from its button or at a card: setSourceDevices lays
\* the rows out at once. The view may be loaded before that or after it.
ShowFloor(k) ==
    /\ view = "cards"
    /\ view' = "floor"
    /\ selected' = k
    /\ scene' = SceneOf(Shown, place, status)
    /\ labelled' \in {0, IndexOf(scene'.at, k)}
    /\ UNCHANGED sceneTimer

\* The cards are opened, from their button or at the selected device.
ShowCards ==
    /\ view = "floor"
    /\ view' = "cards"
    /\ scene' = EmptyScene /\ labelled' = 0
    /\ UNCHANGED <<sceneTimer, selected>>

\* A card is clicked.
SelectCard(k) ==
    /\ view = "cards" /\ k \in Shown
    /\ selected' = k
    /\ UNCHANGED <<view, scene, sceneTimer, labelled>>

\* pickAt: a click near a device of the scene, which finds it (LayoutIsSound).
Pick(k) ==
    /\ view = "floor" /\ k \in DOMAIN scene.at
    /\ selected' = k
    /\ labelled' = IndexOf(scene.at, k)
    /\ UNCHANGED <<view, scene, sceneTimer>>

-----------------------------------------------------------------------------
\* While no layout is due, the floor shows the rows as they are, so the details
\* of the selected device are its row's.
FloorIsCurrent ==
    view = "floor" /\ ~sceneTimer => scene = SceneOf(Shown, place, status)

\* PlantView3D.qml:275, "Selected device marker label": the label names the
\* selected device.
LabelNamesSelection ==
    \A k \in DOMAIN scene.at : IndexOf(scene.at, k) = labelled => k = selected
=============================================================================
