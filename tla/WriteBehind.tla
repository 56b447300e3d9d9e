---------------------------- MODULE WriteBehind ----------------------------
(***************************************************************************)
(* What a write-behind store promises.  An item that was accepted is       *)
(* pending until the statement that carries it ends; then it is stored or  *)
(* it is lost, once and for all.  Whole batches succeed or fail, and no    *)
(* item is ever stored twice.                                              *)
(***************************************************************************)
CONSTANT Items

VARIABLES pending, stored, lost

Init == pending = {} /\ stored = {} /\ lost = {}

Accept(i) ==
    /\ i \notin pending \cup stored \cup lost
    /\ pending' = pending \cup {i}
    /\ UNCHANGED <<stored, lost>>

Store(batch) ==
    /\ batch # {}
    /\ pending' = pending \ batch
    /\ stored' = stored \cup batch
    /\ UNCHANGED lost

Lose(batch) ==
    /\ batch # {}
    /\ pending' = pending \ batch
    /\ lost' = lost \cup batch
    /\ UNCHANGED stored

Next ==
    \/ \E i \in Items : Accept(i)
    \/ \E batch \in SUBSET pending : Store(batch) \/ Lose(batch)

Spec == Init /\ [][Next]_<<pending, stored, lost>>
=============================================================================
