------------------------------ MODULE Listings ------------------------------
(***************************************************************************)
(* The order in which a statement with ORDER BY returns its rows.  A row is *)
(* named by the number it is sorted by, and no two rows share one.         *)
(***************************************************************************)
EXTENDS Integers, FiniteSets, Functions

\* The rows in ascending order: a set of one listing.
InOrder(rows) ==
    {list \in Bijection(1..Cardinality(rows), rows) :
        \A i, j \in DOMAIN list : i < j => list[i] < list[j]}
=============================================================================
