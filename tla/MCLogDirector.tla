--------------------------- MODULE MCLogDirector ---------------------------
(* Instances of LogDirector: see the cfg files for the values. *)
EXTENDS LogDirector
=============================================================================
