------------------------------ MODULE SeatTable ------------------------------
(***************************************************************************)
(* The seats of the store (migrations/001_billing_schema.sql), which every *)
(* module about buying or sharing a subscription reads and writes.  The    *)
(* unique index seats_one_active_per_device makes `seat' a function of the *)
(* phone.                                                                  *)
(***************************************************************************)
EXTENDS Integers, FiniteSets

CONSTANTS
    Phones,   \* the phones, each with its own account
    NoSub,    \* no subscription: no seat, no code, no request
    Store     \* "postgres" or "memory"

ASSUME SeatTableAssumption ==
    /\ IsFiniteSet(Phones)
    /\ Store \in {"postgres", "memory"}

VARIABLE seat \* the active seat of each phone

(* list_seats: the phones that sit on a subscription *)
list_seats(s) == {p \in Phones : seat[p] = s}

(* delete_subscription: the seats go with it *)
SeatsWithout(gone) == [p \in Phones |-> IF seat[p] \in gone THEN NoSub ELSE seat[p]]
=============================================================================
