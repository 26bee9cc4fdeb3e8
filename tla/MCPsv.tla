------------------------------- MODULE MCPsv -------------------------------
(***************************************************************************)
(* Instances of PsvClients.  Exit codes: 0 (reboot), 1 and 2 (powered off, *)
(* halted), 3 (an error, as every code from 3 on).                         *)
(***************************************************************************)
EXTENDS PsvClients, TLC
Symmetry == Permutations(Pids)
=============================================================================
