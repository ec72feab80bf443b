--------------------------- MODULE MCNeighbourhood ---------------------------
(***************************************************************************)
(* Neighbourhood for TLC.  The interfaces of the device are interchangeable:*)
(* no definition tells one from another.                                   *)
(***************************************************************************)
EXTENDS Neighbourhood, TLC

Symmetry == Permutations(Ifaces)
=============================================================================
