----------------------------- MODULE MCDirector -----------------------------
(* Instances of Director: see the cfg files for the values. *)
EXTENDS DirectorProperties, TLC
Symmetry == Permutations(Pids)
=============================================================================
