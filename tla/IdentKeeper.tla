---------------------------- MODULE IdentKeeper ----------------------------
(***************************************************************************)
(* libconfig/ident_keeper.c: hands out identifiers from a range.  Fresh    *)
(* identifiers come from a counter; once it has run out, the sorted list   *)
(* of reservations is searched for a gap.  Every operation holds ik->mtx   *)
(* while it touches the state, so it is one step whichever thread calls.   *)
(*                                                                         *)
(* A reservation is its identifier; reservation_id is never read.          *)
(***************************************************************************)
EXTENDS Integers, SequencesExt

CONSTANTS
    IdentMin, IdentMax, \* the range given to ik_new
    Modulus             \* 2^64, the width of an identifier

(* UINT64_MAX, which is also the error value, is not an identifier: with   *)
(* it in the range, ident_next would wrap around.  Without it the counter  *)
(* stays below the width, and 0 - 1 is no identifier either way.           *)
ASSUME RangeAssumption ==
    /\ IdentMin \in Nat /\ IdentMax \in Nat /\ Modulus \in Nat
    /\ IdentMin <= IdentMax
    /\ IdentMax < Modulus - 1

VARIABLES
    ident_next,   \* ik->ident_next
    reservations, \* the identifiers of ik->reservations, in list order
    locked        \* ik->mtx is held by a call that has returned

vars == << ident_next, reservations, locked >>

Idents == IdentMin .. IdentMax
NoIdent == Modulus - 1

Init ==
    /\ ident_next = IdentMin
    /\ reservations = << >>
    /\ locked = FALSE

-----------------------------------------------------------------------------
(* ik_next_ident_locked *)

\* Faulty variant: each is compared with the one before, the first with none.
FaultyMismatches(list) ==
    {i \in DOMAIN list : i > 1 /\ list[i] # IdentMin + i - 1}

(* The places in the list whose identifier is not the one expected there. *)
Mismatches(list) == {i \in DOMAIN list : list[i] # IdentMin + i - 1}

(* Neighbours are compared; what lies behind the last element is not. *)
FirstGap(list) ==
    IF Mismatches(list) = {} THEN NoIdent
    ELSE LET i == CHOOSE i \in Mismatches(list) : \A j \in Mismatches(list) : i <= j
         IN  IdentMin + i - 1

\* Faulty variant: off by one.
FaultyNextIdent(list) ==
    IF ident_next <= IdentMax + 1 THEN ident_next ELSE FirstGap(list)

NextIdent(list) == IF ident_next <= IdentMax THEN ident_next ELSE FirstGap(list)

AdvanceNext ==
    ident_next' = IF ident_next <= IdentMax THEN ident_next + 1 ELSE ident_next

\* Faulty variant: not sorted.
FaultyInserted(list, ident) == Append(list, ident)

(* ik_insert_reservation_locked: before the first larger one, or last. *)
Inserted(list, ident) ==
    LET larger == {i \in DOMAIN list : list[i] > ident}
    IN  IF larger = {} THEN Append(list, ident)
        ELSE InsertAt(list, CHOOSE i \in larger : \A j \in larger : i <= j, ident)

-----------------------------------------------------------------------------

(* ik_reserve; it returns NULL, and changes nothing, without identifiers. *)
Reserve ==
    /\ ~locked
    /\ NextIdent(reservations) # NoIdent
    /\ reservations' = Inserted(reservations, NextIdent(reservations))
    /\ AdvanceNext
    /\ UNCHANGED locked

(* malloc fails: NULL is returned, with the identifier taken and the mutex *)
(* held.                                                                   *)
ReserveNoMemory ==
    /\ ~locked
    /\ NextIdent(reservations) # NoIdent
    /\ locked' = TRUE
    /\ AdvanceNext
    /\ UNCHANGED reservations

(* ik_validate_reservation of the i-th reservation, when check_ident says  *)
(* no, or there is no check_ident: it gets another identifier or is freed. *)
Validate(i) ==
    LET rest == RemoveAt(reservations, i)
    IN  /\ ~locked
        /\ reservations' = IF NextIdent(rest) = NoIdent THEN rest
                           ELSE Inserted(rest, NextIdent(rest))
        /\ AdvanceNext
        /\ UNCHANGED locked

\* Faulty variant: whichever identifier is given back, the counter moves.
FaultyDispose(i) ==
    /\ ~locked
    /\ reservations' = RemoveAt(reservations, i)
    /\ ident_next' = ident_next - 1
    /\ UNCHANGED locked

(* ik_dispose of the i-th reservation *)
Dispose(i) ==
    /\ ~locked
    /\ reservations' = RemoveAt(reservations, i)
    /\ ident_next' = IF ident_next - 1 = reservations[i] THEN ident_next - 1
                                                        ELSE ident_next
    /\ UNCHANGED locked

Next ==
    \/ Reserve
    \/ ReserveNoMemory
    \/ \E i \in DOMAIN reservations : Validate(i) \/ Dispose(i)

Spec == Init /\ [][Next]_vars

-----------------------------------------------------------------------------

TypeOK ==
    /\ ident_next \in 0 .. Modulus - 1
    /\ reservations \in Seq(Idents)
    /\ locked \in BOOLEAN

(***************************************************************************)
(* What the gap search of ik_next_ident_locked relies on, and ik_insert_   *)
(* reservation_locked keeps: the list is strictly ascending, and the       *)
(* counter is beyond everything that was handed out and not returned.      *)
(***************************************************************************)
ListSound ==
    /\ \A i, j \in DOMAIN reservations : i < j => reservations[i] < reservations[j]
    /\ \A i \in DOMAIN reservations : reservations[i] < ident_next

(***************************************************************************)
(* As long as the largest identifier was not handed out or is still        *)
(* reserved, ik_reserve finds an identifier whenever there is one.         *)
(***************************************************************************)
FreeOneFound ==
    ident_next <= IdentMax \/ IdentMax \in ToSet(reservations) =>
        (NextIdent(reservations) = NoIdent <=> ToSet(reservations) = Idents)

(***************************************************************************)
(* An ident_keeper is a pool of identifiers: nobody is ever given an       *)
(* identifier that somebody else has reserved.                             *)
(***************************************************************************)
Pool == INSTANCE IdentPool WITH
            Idents <- Idents, reserved <- ToSet(reservations),
            granted <- Len(reservations)

PoolSpec == Pool!PoolSpec

=============================================================================
