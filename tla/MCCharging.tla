----------------------------- MODULE MCCharging -----------------------------
(* Charging on small instances. The policies keep the shape of the default *)
(* one: retries inside the grace, the last one on the day the grace ends.  *)
EXTENDS Charging, TLC

MCRetryDays == <<1>>

MCWorkerSymmetry == Permutations(Workers)
=============================================================================
