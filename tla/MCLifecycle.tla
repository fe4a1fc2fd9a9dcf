---------------------------- MODULE MCLifecycle ----------------------------
(* A small policy with the shape of the default one: the last retry falls  *)
(* on the day the grace ends.                                              *)
EXTENDS Lifecycle

MCRetryDays == <<1, 2>>
=============================================================================
