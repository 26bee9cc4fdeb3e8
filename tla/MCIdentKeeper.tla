--------------------------- MODULE MCIdentKeeper ---------------------------
(* Instances of IdentKeeper: see the cfg files for the values. *)
EXTENDS IdentKeeper
=============================================================================
