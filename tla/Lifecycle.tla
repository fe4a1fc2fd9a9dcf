------------------------------ MODULE Lifecycle ------------------------------
(***************************************************************************)
(* One person's subscription driven by every sequence of lifecycle events  *)
(* the table of state_machine.py accepts, at every time: what              *)
(* tests/billing/test_state_machine.py samples with 300 random sequences.  *)
(*                                                                         *)
(* s is the SubState of the current row; row numbers the rows (a checkout  *)
(* inserts a new one, with the provider the buyer chose); charges and mode *)
(* record what the effects did.                                            *)
(***************************************************************************)
EXTENDS StateMachine, FiniteSets

CONSTANTS
    MaxTime,    \* bound on the clock
    MaxRow      \* bound on the number of checkouts

ASSUME BoundAssumption ==
    /\ MaxTime \in Nat
    /\ MaxRow \in Nat

VARIABLES
    s,          \* SubState of the current subscription row
    now,        \* the time the events carry
    row,        \* how many checkouts were started
    external,   \* does the row's provider charge on its own schedule (RuStore)?
    charges,    \* the rows and keys of the Charge effects produced so far
    made,       \* how many Charge effects were produced
    settled,    \* those of them a success has settled
    mode        \* the mode last sent to the device

vars == <<s, now, row, external, charges, made, settled, mode>>

Charges == [row: Nat, key: [period_start: Nat, attempt: Nat]]

TypeOK ==
    /\ s \in SubState
    /\ now \in Nat
    /\ row \in Nat
    /\ external \in BOOLEAN
    /\ charges \subseteq Charges
    /\ made \in Nat
    /\ settled \subseteq charges
    /\ mode \in {"full", "lapse"}

Init ==
    /\ s = Gone
    /\ now = 0
    /\ row = 0
    /\ external = FALSE
    /\ charges = {}
    /\ made = 0
    /\ settled = {}
    /\ mode = "lapse"

-----------------------------------------------------------------------------
(* The caller writes the state and executes the effects in one transaction *)

ThisCharge == [row |-> row, key |-> ChargeKey(s, now)]

ModeAfter(effects) ==
    CASE "ModeFull" \in effects -> "full"
      [] "ModeLapse" \in effects -> "lapse"
      [] OTHER -> mode

Apply(t) ==
    /\ s' = t.state
    /\ IF "Charge" \in t.effects
       THEN charges' = charges \cup {ThisCharge} /\ made' = made + 1
       ELSE UNCHANGED <<charges, made>>
    /\ mode' = ModeAfter(t.effects)
    /\ UNCHANGED now

On(event) == s.status \in Accepts[event]

CheckoutStarted ==
    /\ On("CheckoutStarted")
    /\ row < MaxRow
    /\ row' = row + 1
    /\ external' \in BOOLEAN
    /\ Apply(start_checkout(s, now))
    /\ UNCHANGED settled

Unsettled == {c \in charges \ settled : c.row = row}

(* Bound: nobody pays for days beyond the end of the clock *)
PaidAhead == s.current_period_end # Nil /\ s.current_period_end > MaxTime

(* A success settles one of our unsettled charge rows, or none of them: a
   checkout, a redelivery, a charge of the provider's own. *)
PaymentSucceeded ==
    /\ On("PaymentSucceeded")
    /\ ~PaidAhead
    /\ \/ \E c \in Unsettled :
              /\ settled' = settled \cup {c}
              /\ Apply(OnPaymentSucceeded(s, external, TRUE, now))
       \/ /\ settled' = settled
          /\ Apply(OnPaymentSucceeded(s, external, FALSE, now))
    /\ UNCHANGED <<row, external>>

PaymentFailed ==
    /\ On("PaymentFailed")
    /\ Apply(OnPaymentFailed(s, now))
    /\ UNCHANGED <<row, external, settled>>

TimedOut ==
    /\ On("PendingTimeout")
    /\ Apply(pending_timeout(s, now))
    /\ UNCHANGED <<row, external, settled>>

(* run_renewals asks only for providers whose renewals we initiate *)
RenewalDue ==
    /\ On("RenewalDue")
    /\ ~external
    /\ Apply(OnRenewalDue(s, now))
    /\ UNCHANGED <<row, external, settled>>

GraceExpired ==
    /\ On("GraceExpired")
    /\ Apply(grace_expired(s, now))
    /\ UNCHANGED <<row, external, settled>>

CancelRequested ==
    /\ On("CancelRequested")
    /\ Apply(OnCancelRequested(s, now))
    /\ UNCHANGED <<row, external, settled>>

OperatorStop ==
    /\ On("OperatorStop")
    /\ Apply(OnCancelRequested(s, now))
    /\ UNCHANGED <<row, external, settled>>

PeriodEnded ==
    /\ On("PeriodEnded")
    /\ Apply(period_ended(s, now))
    /\ UNCHANGED <<row, external, settled>>

TermEnded ==
    /\ On("TermEnded")
    /\ Apply(term_ended(s, now))
    /\ UNCHANGED <<row, external, settled>>

Refunded ==
    /\ On("Refunded")
    /\ Apply(refunded(s))
    /\ UNCHANGED <<row, external, settled>>

Tick ==
    /\ now < MaxTime
    /\ now' = now + 1
    /\ UNCHANGED <<s, row, external, charges, made, settled, mode>>

Next ==
    \/ CheckoutStarted \/ PaymentSucceeded \/ PaymentFailed \/ TimedOut
    \/ RenewalDue \/ GraceExpired \/ CancelRequested \/ OperatorStop
    \/ PeriodEnded \/ TermEnded \/ Refunded \/ Tick

Spec == Init /\ [][Next]_vars

-----------------------------------------------------------------------------
(* Properties *)

(* A key is charged at most once: every Charge effect ever produced had a row
   and key of its own (state_machine.py: "a retried run can never charge
   twice"; test_state_machine.py: no key repeats). *)
ChargedOncePerKey == made = Cardinality(charges)

(* A cancel is final for its row: whatever is paid, refused, refunded or
   stopped afterwards, it is never undone, nothing is scheduled again and no
   charge is produced (cancel.py: "after a cancel not one more kopeck is
   charged"). *)
CancelIsFinal ==
    [][(s.cancel_requested_at # Nil /\ row' = row) =>
          /\ s'.cancel_requested_at = s.cancel_requested_at
          /\ s'.next_charge_at = Nil
          /\ charges' = charges]_vars

(* No day is sold twice: the period a payment opens starts no earlier than
   the end of the one before it on the same row, in grace too. *)
PeriodsDoNotOverlap ==
    [][(/\ row' = row
        /\ s.current_period_end # Nil
        /\ s'.current_period_start \notin {Nil, s.current_period_start})
       => s'.current_period_start >= s.current_period_end]_vars

(* Paid days are served: a row lapses only when its paid period is over *)
LapsedOnlyAfterThePaidPeriod ==
    s.status = "lapsed" => Reached(s.current_period_end, now)

(* The phone runs in full mode exactly while its subscription is live *)
ModeFollowsStatus ==
    mode = "full" <=> s.status \in {"active", "grace", "cancel_at_period_end"}

(* Retries stay inside the grace window and their number is bounded: what is
   scheduled in grace is due before the grace ends, and the last attempt is
   the one after the last retry day. *)
RetriesInsideGrace ==
    s.status = "grace" =>
        /\ s.grace_until # Nil
        /\ s.next_charge_at # Nil => s.next_charge_at <= s.grace_until
        /\ s.attempt <= Len(RetryDays) + 1
=============================================================================
