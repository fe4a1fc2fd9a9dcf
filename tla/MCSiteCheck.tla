------------------------------ MODULE MCSiteCheck ------------------------------
(* Two hosts in two tabs, a link check beside them, and a slot for the count
   of every block. *)
EXTENDS SiteCheck, TLC

Symmetry == Permutations(Tabs) \cup Permutations(Blocks)
=============================================================================
