---------------------------- MODULE StateMachine ----------------------------
(***************************************************************************)
(* The subscription lifecycle of api/billing/state_machine.py as pure      *)
(* operators: a handler maps the SubState of a row (and the time) to a     *)
(* transition, the new SubState with the effects the caller executes.      *)
(* Nothing here is an action: Lifecycle and Charging use these handlers.   *)
(* Audit rows, notifications and cancel_channel are wording and left out.  *)
(***************************************************************************)
EXTENDS Integers, Sequences

CONSTANTS
    PeriodDays,       \* length of a paid period (Policy.period_months)
    GraceDays,        \* Policy.grace_days
    RetryDays,        \* Policy.retry_days: a sequence of offsets from the period end
    PendingTimeout,   \* Policy.pending_timeout_minutes, in the unit of the clock
    Nil               \* Python's None in a date field

ASSUME PolicyAssumption ==
    /\ PeriodDays \in Nat \ {0}
    /\ GraceDays \in Nat \ {0}
    /\ RetryDays \in Seq(Nat \ {0})
    /\ PendingTimeout \in Nat
    /\ Nil \notin Int

Statuses == {"none", "pending", "active", "grace", "cancel_at_period_end",
             "lapsed", "refunded"}

Time == Nat \cup {Nil}

(* "none" is status=None: before checkout, or after a checkout was deleted *)
SubState ==
    [status: Statuses,
     current_period_start: Time, current_period_end: Time,
     grace_until: Time, next_charge_at: Time,
     cancel_requested_at: Time, pending_since: Time,
     attempt: Nat, charge_pending: BOOLEAN]

Effects == {"Charge", "CancelAtProvider", "ModeFull", "ModeLapse",
            "DeleteSubscription", "NewSubscription"}

NewRow(status, pending_since) ==
    [status |-> status,
     current_period_start |-> Nil, current_period_end |-> Nil,
     grace_until |-> Nil, next_charge_at |-> Nil,
     cancel_requested_at |-> Nil, pending_since |-> pending_since,
     attempt |-> 0, charge_pending |-> FALSE]

Gone == NewRow("none", Nil)

To(s, effects) == [state |-> s, effects |-> effects]

NoOp(s) == To(s, {})

OrElse(t, default) == IF t = Nil THEN default ELSE t

Reached(t, now) == t # Nil /\ now >= t

-----------------------------------------------------------------------------
(* Helpers: the next period, the key of a charge, the retry schedule *)

add_months(t) == t + PeriodDays

(* '{sub}:{period_start}:{attempt}', the subscription being the row's own *)
idempotency_key(period_start, attempt) ==
    [period_start |-> period_start, attempt |-> attempt]

ChargeKey(s, now) == idempotency_key(OrElse(s.current_period_end, now), s.attempt)

next_retry_at(period_end, attempt, grace_until) ==
    IF /\ attempt \in 1 .. Len(RetryDays)
       /\ period_end + RetryDays[attempt] <= grace_until
    THEN period_end + RetryDays[attempt]
    ELSE Nil

-----------------------------------------------------------------------------
(* Handlers, one per function of the source *)

start_checkout(s, now) ==
    To(NewRow("pending", now),
       IF s.status = "none" THEN {} ELSE {"NewSubscription"})

(* A paid period of an active subscription *)
Opened(s, start) ==
    [s EXCEPT !.status = "active",
              !.current_period_start = start,
              !.current_period_end = add_months(start),
              !.next_charge_at = add_months(start),
              !.grace_until = Nil,
              !.attempt = 0,
              !.charge_pending = FALSE]

first_payment(s, now) ==
    To([Opened(s, now) EXCEPT !.pending_since = Nil], {"ModeFull"})

pending_failed(s) == To(Gone, {"DeleteSubscription"})

pending_timeout(s, now) ==
    IF now < OrElse(s.pending_since, now) + PendingTimeout
    THEN NoOp(s)
    ELSE pending_failed(s)

renewal_due(s, now) ==
    IF \/ s.cancel_requested_at # Nil
       \/ s.charge_pending
       \/ ~Reached(s.next_charge_at, now)
    THEN NoOp(s)
    ELSE To([s EXCEPT !.charge_pending = TRUE], {"Charge"})

(* Mutant: every renewal starts now *)
renewal_paid_now(s, external, settles_charge, now) ==
    IF ~(s.charge_pending \/ external \/ settles_charge)
    THEN NoOp(s)
    ELSE To(Opened(s, now), {"ModeFull"})

(* A renewal starts where the period ended, a recovery from grace starts now *)
renewal_paid(s, external, settles_charge, now) ==
    LET start == IF s.status = "active" THEN OrElse(s.current_period_end, now) ELSE now
    IN  IF ~(s.charge_pending \/ external \/ settles_charge)
        THEN NoOp(s)
        ELSE To(Opened(s, start), {"ModeFull"})

(* Mutant: a late success revives the subscription *)
cancelled_paid_revives(s, settles_charge, now) ==
    IF ~(s.charge_pending \/ settles_charge)
    THEN NoOp(s)
    ELSE To(Opened([s EXCEPT !.cancel_requested_at = Nil], OrElse(s.current_period_end, now)),
            {"ModeFull"})

cancelled_paid(s, settles_charge, now) ==
    LET start == OrElse(s.current_period_end, now)
    IN  IF ~(s.charge_pending \/ settles_charge)
        THEN NoOp(s)
        ELSE To([s EXCEPT !.current_period_start = start,
                          !.current_period_end = add_months(start),
                          !.charge_pending = FALSE,
                          !.attempt = 0],
                {})

(* Mutant: the attempt is not counted, so the retry has the key of the first try *)
payment_failed_uncounted(s, now) ==
    LET period_end  == OrElse(s.current_period_end, now)
        grace_until == OrElse(s.grace_until, period_end + GraceDays)
    IN  IF ~s.charge_pending
        THEN NoOp(s)
        ELSE To([s EXCEPT !.status = "grace",
                          !.grace_until = grace_until,
                          !.next_charge_at =
                              next_retry_at(period_end, s.attempt + 1, grace_until),
                          !.charge_pending = FALSE],
                {})

payment_failed(s, now) ==
    LET period_end  == OrElse(s.current_period_end, now)
        grace_until == OrElse(s.grace_until, period_end + GraceDays)
    IN  IF ~s.charge_pending
        THEN NoOp(s)
        ELSE To([s EXCEPT !.status = "grace",
                          !.grace_until = grace_until,
                          !.next_charge_at =
                              next_retry_at(period_end, s.attempt + 1, grace_until),
                          !.attempt = s.attempt + 1,
                          !.charge_pending = FALSE],
                {})

Lapse(s) ==
    To([s EXCEPT !.status = "lapsed", !.next_charge_at = Nil, !.charge_pending = FALSE],
       {"ModeLapse"})

grace_expired(s, now) == IF Reached(s.grace_until, now) THEN Lapse(s) ELSE NoOp(s)

(* Mutant: the date is not looked at *)
period_ended_early(s, now) == Lapse(s)

period_ended(s, now) == IF Reached(s.current_period_end, now) THEN Lapse(s) ELSE NoOp(s)

term_ended(s, now) == IF Reached(s.current_period_end, now) THEN Lapse(s) ELSE NoOp(s)

(* charge_pending is kept: the charge in flight may still land *)
cancel(s, now) ==
    To([s EXCEPT !.status = "cancel_at_period_end",
                 !.cancel_requested_at = now,
                 !.next_charge_at = Nil],
       {"CancelAtProvider"})

refunded(s) ==
    To([s EXCEPT !.status = "refunded", !.next_charge_at = Nil, !.charge_pending = FALSE],
       {"ModeLapse"})

-----------------------------------------------------------------------------
(* The table _HANDLERS: Accepts says which (status, event) pairs it holds,  *)
(* the operators On... choose among the handlers of one event by status.   *)
(* Any other pair raises InvalidTransition.                                *)

Accepts ==
    [CheckoutStarted  |-> {"none", "lapsed", "refunded"},
     PaymentSucceeded |-> {"pending", "active", "grace", "cancel_at_period_end"},
     PaymentFailed    |-> {"pending", "active", "grace", "cancel_at_period_end"},
     PendingTimeout   |-> {"pending"},
     RenewalDue       |-> {"active", "grace", "cancel_at_period_end"},
     GraceExpired     |-> {"grace"},
     CancelRequested  |-> {"pending", "active", "grace", "cancel_at_period_end"},
     OperatorStop     |-> {"active", "grace", "cancel_at_period_end"},
     PeriodEnded      |-> {"cancel_at_period_end"},
     TermEnded        |-> {"active"},
     Refunded         |-> {"active", "grace", "cancel_at_period_end", "lapsed"}]

OnPaymentSucceeded(s, external, settles_charge, now) ==
    CASE s.status = "pending" -> first_payment(s, now)
      [] s.status = "cancel_at_period_end" -> cancelled_paid(s, settles_charge, now)
      [] OTHER -> renewal_paid(s, external, settles_charge, now)

OnPaymentFailed(s, now) ==
    CASE s.status = "pending" -> pending_failed(s)
      [] s.status = "cancel_at_period_end" -> NoOp(s)
      [] OTHER -> payment_failed(s, now)

OnRenewalDue(s, now) ==
    IF s.status = "cancel_at_period_end" THEN NoOp(s) ELSE renewal_due(s, now)

OnCancelRequested(s, now) ==
    CASE s.status = "pending" -> pending_failed(s)
      [] s.status = "cancel_at_period_end" -> NoOp(s)
      [] OTHER -> cancel(s, now)
=============================================================================
