------------------------------- MODULE MCSeats ------------------------------
(* Seats on small sets: phones, subscriptions, codes and requests are
   interchangeable *)
EXTENDS Seats, TLC

TwoSeats == [s \in Subs |-> 2]

Symmetry == Permutations(Phones) \cup Permutations(Subs) \cup Permutations(Codes)
            \cup Permutations(Tasks)
=============================================================================
