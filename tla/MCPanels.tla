------------------------------ MODULE MCPanels ------------------------------
(***************************************************************************)
(* Panels for TLC: what rules say is interchangeable.                      *)
(***************************************************************************)
EXTENDS PanelsProperties, TLC

Interchangeable == Permutations(Contents)
=============================================================================
