----------------------------- MODULE ChargeLedger -----------------------------
(***************************************************************************)
(* What the renewals of a subscription promise about money, whoever asks   *)
(* the provider, hears from it, crashes or does it again: a charge is      *)
(* entered before the provider can take it; it is settled only when it was *)
(* paid, and then for good; and it opens its period in the step that       *)
(* settles it or not at all.                                               *)
(***************************************************************************)
VARIABLES
    book,     \* the charges entered: "open", "failed" or "settled"
    truth,    \* what the provider has done with those it took
    opened    \* the charges that opened a period

vars == <<book, truth, opened>>

Nothing == [k \in {} |-> "open"]

Init == book = Nothing /\ truth = Nothing /\ opened = {}

With(table, k, v) == [j \in DOMAIN table \cup {k} |-> IF j = k THEN v ELSE table[j]]

Enter(k) ==
    /\ k \notin DOMAIN book
    /\ book' = With(book, k, "open")
    /\ UNCHANGED <<truth, opened>>

Take(k) ==
    /\ k \in DOMAIN book \ DOMAIN truth
    /\ truth' = With(truth, k, "processing")
    /\ UNCHANGED <<book, opened>>

Becomes(k, old, new) ==
    /\ k \in DOMAIN truth /\ truth[k] = old
    /\ truth' = With(truth, k, new)
    /\ UNCHANGED <<book, opened>>

(* Refused, or declined later. A settled charge does not fail. *)
Fail(k) ==
    /\ k \in DOMAIN book /\ book[k] = "open"
    /\ book' = With(book, k, "failed")
    /\ UNCHANGED <<truth, opened>>

(* A charge that failed before may turn out to be paid *)
Settle(k) ==
    /\ k \in DOMAIN book /\ book[k] \in {"open", "failed"}
    /\ k \in DOMAIN truth /\ truth[k] \in {"paid", "refunded"}
    /\ book' = With(book, k, "settled")
    /\ opened' \in {opened, opened \cup {k}}
    /\ UNCHANGED truth

Next ==
    \E k \in DOMAIN book' :
        \/ Enter(k) \/ Take(k) \/ Fail(k) \/ Settle(k)
        \/ Becomes(k, "processing", "paid") \/ Becomes(k, "processing", "declined")
        \/ Becomes(k, "paid", "refunded")

Spec == Init /\ [][Next]_vars
===============================================================================
