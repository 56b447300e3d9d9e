---------------------------- MODULE DeviceModel ----------------------------
(***************************************************************************)
(* The list of readings the dashboard shows (device_model.cpp), one row    *)
(* per device and sensor.  Of a reading only its status is told apart; a   *)
(* place is the pair of plant and floor.                                   *)
(***************************************************************************)
EXTENDS Naturals, Sequences, FiniteSets

CONSTANTS
    Keys,           \* (device_id, sensor) pairs, numbered in that order
    DeviceOf,       \* the device of a key
    Places,         \* pairs <<plant, floor>>, numbered in the order of their names
    Unassigned      \* the place of a device nothing is known of

ASSUME DeviceAssumption ==
    /\ Keys \subseteq Nat /\ IsFiniteSet(Keys)
    /\ Places \subseteq Nat \X Nat /\ Unassigned \in Places

Devices == {DeviceOf[k] : k \in Keys}
Statuses == {"normal", "critical"}
NoStatus == "none"

VARIABLES
    rows,       \* devices_: the keys in the order they were added
    status,     \* the status of each row
    place,      \* plant and floor of each row
    meta        \* meta_: plant and floor of each device, Unassigned when absent

modelVars == <<rows, status, place, meta>>

\* A key has one row.
NoneTwice(r) == \A i, j \in DOMAIN r : r[i] = r[j] => i = j
Shown == {rows[i] : i \in DOMAIN rows}

\* updateDevice, of a key without a row.
AddRow(k, s) ==
    /\ k \notin Shown
    /\ rows' = Append(rows, k)
    /\ status' = [status EXCEPT ![k] = s]
    /\ place' = [place EXCEPT ![k] = meta[DeviceOf[k]]]
    /\ UNCHANGED meta

\* updateDevice, of a key with a row.
SetRow(k, s) ==
    /\ k \in Shown
    /\ status' = [status EXCEPT ![k] = s]
    /\ UNCHANGED <<rows, place, meta>>

\* updateDeviceMeta.
SetMeta(d, p) ==
    /\ meta' = [meta EXCEPT ![d] = p]
    /\ place' = [k \in Keys |-> IF k \in Shown /\ DeviceOf[k] = d THEN p ELSE place[k]]
    /\ UNCHANGED <<rows, status>>

RowsOf(d) == {i \in DOMAIN rows : DeviceOf[rows[i]] = d}

\* Mutant: only the first row of the device is announced.
AnnouncedFirst(d) == {rows[i] : i \in {j \in RowsOf(d) : \A l \in RowsOf(d) : j <= l}}

\* The rows dataChanged names after that: the first to the last of the device.
Announced(d) ==
    {rows[i] : i \in {i \in DOMAIN rows : \E f, l \in RowsOf(d) : f <= i /\ i <= l}}

\* main.cpp: the rows of the cache, with the places they were saved with.
Restored ==
    /\ status \in {stat \in [Keys -> Statuses \cup {NoStatus}] :
                     \A k \in Keys : stat[k] = NoStatus <=> k \notin Shown}
    /\ meta \in {m \in [Devices -> Places] :
                   \A d \in Devices : RowsOf(d) = {} => m[d] = Unassigned}
    /\ place = [k \in Keys |-> IF k \in Shown THEN meta[DeviceOf[k]] ELSE Unassigned]

\* Every row has the place its device was last given.
RowsFollowMeta == \A k \in Shown : place[k] = meta[DeviceOf[k]]
=============================================================================
