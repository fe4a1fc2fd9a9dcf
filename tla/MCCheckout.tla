----------------------------- MODULE MCCheckout -----------------------------
(* Checkout on small sets: phones and requests are interchangeable *)
EXTENDS Checkout, TLC

Symmetry == Permutations(Phones) \cup Permutations(Requests)
=============================================================================
