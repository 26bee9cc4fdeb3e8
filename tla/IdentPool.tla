----------------------------- MODULE IdentPool -----------------------------
(***************************************************************************)
(* What an ident_keeper promises: a pool of identifiers, each of which is  *)
(* reserved by at most one holder at a time.  granted counts the           *)
(* reservations that are held, so that giving the same identifier to two   *)
(* holders is not a step of the pool.                                      *)
(***************************************************************************)
EXTENDS Naturals

CONSTANT Idents
VARIABLES reserved, granted

PoolInit == reserved = {} /\ granted = 0

Grant ==
    \E i \in Idents \ reserved :
      /\ reserved' = reserved \cup {i}
      /\ granted' = granted + 1

Release ==
    \E i \in reserved :
      /\ reserved' = reserved \ {i}
      /\ granted' = granted - 1

(* A holder's identifier became invalid; it gets one that nobody holds. *)
Exchange ==
    \E i \in reserved : \E j \in Idents \ (reserved \ {i}) :
      /\ reserved' = (reserved \ {i}) \cup {j}
      /\ UNCHANGED granted

PoolNext == Grant \/ Release \/ Exchange

PoolSpec == PoolInit /\ [][PoolNext]_<<reserved, granted>>

=============================================================================
