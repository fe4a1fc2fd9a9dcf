------------------------- MODULE StateMachineProofs -------------------------
(***************************************************************************)
(* What the handlers of StateMachine return, for every policy: the type of *)
(* the new state, and that a sound state stays sound.                      *)
(***************************************************************************)
EXTENDS StateMachine, TLAPS

-----------------------------------------------------------------------------
(* Dates *)

(* A period is some days long. *)
LEMMA MonthsTyped ==
    ASSUME NEW t \in Nat
    PROVE  add_months(t) \in Nat /\ add_months(t) > t
  BY PolicyAssumption DEF PolicyAssumption, add_months

(* A date that may be missing, with a default, is a date. *)
LEMMA OrElseTyped ==
    ASSUME NEW t \in Time, NEW d \in Nat
    PROVE  OrElse(t, d) \in Nat
  BY DEF OrElse, Time

(* A retry is due inside the grace window, and only the attempts of the
   schedule have one. *)
LEMMA RetryTyped ==
    ASSUME NEW p \in Nat, NEW n \in Nat, NEW g \in Nat
    PROVE  /\ next_retry_at(p, n, g) \in Time
           /\ next_retry_at(p, n, g) # Nil =>
                 next_retry_at(p, n, g) <= g /\ n <= Len(RetryDays)
  BY PolicyAssumption DEF PolicyAssumption, next_retry_at, Time

-----------------------------------------------------------------------------
(* Types *)

(* Fields of the states the handlers build. *)
LEMMA OpenedFields ==
    ASSUME NEW x \in SubState, NEW a \in Nat
    PROVE  /\ Opened(x, a) \in SubState
           /\ Opened(x, a).status = "active"
           /\ Opened(x, a).current_period_start = a
           /\ Opened(x, a).current_period_end = add_months(a)
           /\ Opened(x, a).next_charge_at = add_months(a)
           /\ Opened(x, a).grace_until = Nil
           /\ Opened(x, a).cancel_requested_at = x.cancel_requested_at
           /\ Opened(x, a).attempt = 0
           /\ Opened(x, a).charge_pending = FALSE
  BY MonthsTyped DEF SubState, Statuses, Time, Opened

(* Every handler maps a SubState to a SubState. *)
LEMMA HandlersTyped ==
    ASSUME NEW x \in SubState, NEW t \in Nat, NEW e \in BOOLEAN, NEW sc \in BOOLEAN
    PROVE  /\ start_checkout(x, t).state \in SubState
           /\ first_payment(x, t).state \in SubState
           /\ pending_failed(x).state \in SubState
           /\ pending_timeout(x, t).state \in SubState
           /\ renewal_due(x, t).state \in SubState
           /\ renewal_paid(x, e, sc, t).state \in SubState
           /\ cancelled_paid(x, sc, t).state \in SubState
           /\ payment_failed(x, t).state \in SubState
           /\ Lapse(x).state \in SubState
           /\ cancel(x, t).state \in SubState
           /\ refunded(x).state \in SubState
  <1> DEFINE end == OrElse(x.current_period_end, t)
             grace == OrElse(x.grace_until, end + GraceDays)
             retry == next_retry_at(end, x.attempt + 1, grace)
  <1>a. /\ x.current_period_end \in Time /\ x.grace_until \in Time
        /\ x.attempt \in Nat /\ x.charge_pending \in BOOLEAN
    BY DEF SubState
  <1>b. end \in Nat
    BY <1>a, OrElseTyped
  <1>c. grace \in Nat
    <2>1. end + GraceDays \in Nat
      BY <1>b, PolicyAssumption DEF PolicyAssumption
    <2> QED
      BY <1>a, <2>1, OrElseTyped
  <1>d. x.attempt + 1 \in Nat /\ retry \in Time
    <2>1. x.attempt + 1 \in Nat
      BY <1>a
    <2> QED
      BY <1>b, <1>c, <2>1, RetryTyped
  <1>1. start_checkout(x, t).state \in SubState
    BY DEF start_checkout, To, NewRow, SubState, Statuses, Time
  <1>2. first_payment(x, t).state \in SubState
    <2>1. Opened(x, t) \in SubState
      BY OpenedFields
    <2> QED
      BY <2>1 DEF first_payment, To, SubState, Statuses, Time
  <1>3. pending_failed(x).state \in SubState
    BY DEF pending_failed, To, Gone, NewRow, SubState, Statuses, Time
  <1>4. pending_timeout(x, t).state \in SubState
    BY <1>3 DEF pending_timeout, To, NoOp
  <1>5. renewal_due(x, t).state \in SubState
    BY DEF renewal_due, To, NoOp, SubState
  <1>6. renewal_paid(x, e, sc, t).state \in SubState
    BY <1>b, OpenedFields DEF renewal_paid, To, NoOp
  <1>7. cancelled_paid(x, sc, t).state \in SubState
    <2>1. end \in Time /\ add_months(end) \in Time
      BY <1>b, MonthsTyped DEF Time
    <2> HIDE DEF end
    <2>2. [x EXCEPT !.current_period_start = end,
                    !.current_period_end = add_months(end),
                    !.charge_pending = FALSE,
                    !.attempt = 0] \in SubState
      BY <2>1 DEF SubState
    <2> QED
      BY <2>2 DEF cancelled_paid, To, NoOp, end
  <1>8. payment_failed(x, t).state \in SubState
    <2> DEFINE n == x.attempt + 1
    <2>1. grace \in Time /\ retry \in Time /\ n \in Nat
      BY <1>c, <1>d DEF Time
    <2>2. \A g \in Time, r \in Time, m \in Nat :
             [x EXCEPT !.status = "grace", !.grace_until = g, !.next_charge_at = r,
                       !.attempt = m, !.charge_pending = FALSE] \in SubState
      BY DEF SubState, Statuses
    <2> QED
      BY <2>1, <2>2 DEF payment_failed, To, NoOp
  <1>9. Lapse(x).state \in SubState
    BY DEF Lapse, To, SubState, Statuses, Time
  <1>10. cancel(x, t).state \in SubState
    BY DEF cancel, To, SubState, Statuses, Time
  <1>11. refunded(x).state \in SubState
    BY DEF refunded, To, SubState, Statuses, Time
  <1> QED
    BY <1>1, <1>2, <1>3, <1>4, <1>5, <1>6, <1>7, <1>8, <1>9, <1>10, <1>11

-----------------------------------------------------------------------------
(* Soundness *)

(* What every state the machine reaches satisfies at time t: an active row is
   charged when its paid period ends; one in grace has used up its period, its
   retries lie in the window and count up to the schedule; a charge in flight
   was due; a cancel is never undone. *)
ActiveSound(x) ==
    x.status = "active" =>
        /\ x.current_period_end # Nil
        /\ x.next_charge_at = x.current_period_end
        /\ x.grace_until = Nil
        /\ x.attempt = 0

GraceSound(x, t) ==
    x.status = "grace" =>
        /\ x.current_period_end # Nil
        /\ x.grace_until # Nil
        /\ x.current_period_end <= t
        /\ x.current_period_end <= x.grace_until
        /\ x.attempt <= Len(RetryDays) + 1
        /\ x.next_charge_at # Nil =>
              x.next_charge_at <= x.grace_until /\ x.attempt <= Len(RetryDays)

FlightSound(x, t) ==
    (x.charge_pending /\ x.status \in {"active", "grace"}) =>
        x.next_charge_at # Nil /\ Reached(x.current_period_end, t)

CancelSound(x) ==
    x.cancel_requested_at # Nil =>
        /\ x.status \in {"cancel_at_period_end", "lapsed", "refunded"}
        /\ x.next_charge_at = Nil

EndSound(x, t) ==
    /\ x.status \in {"none", "pending"} => x.current_period_end = Nil
    /\ x.status = "cancel_at_period_end" => x.current_period_end # Nil
    /\ x.status = "lapsed" => Reached(x.current_period_end, t)

Sound(x, t) ==
    /\ ActiveSound(x) /\ GraceSound(x, t) /\ FlightSound(x, t)
    /\ CancelSound(x) /\ EndSound(x, t)

(* Time passing keeps a state sound. *)
LEMMA SoundLater ==
    ASSUME NEW x \in SubState, NEW t \in Nat, Sound(x, t)
    PROVE  Sound(x, t + 1)
  BY DEF Sound, ActiveSound, GraceSound, FlightSound, CancelSound, EndSound, Reached,
         SubState, Time

(* No checkout, or a checkout that is not paid. *)
LEMMA NewRowSound ==
    ASSUME NEW p \in Time, NEW t \in Nat, NEW st \in {"none", "pending"}
    PROVE  Sound(NewRow(st, p), t)
  BY DEF Sound, ActiveSound, GraceSound, FlightSound, CancelSound, EndSound, NewRow

(* The first payment leaves a sound active row. *)
LEMMA first_paymentSound ==
    ASSUME NEW x \in SubState, NEW t \in Nat, Sound(x, t), x.status = "pending"
    PROVE  Sound(first_payment(x, t).state, t)
  <1>1. /\ first_payment(x, t).state.status = "active"
        /\ first_payment(x, t).state.current_period_end = add_months(t)
        /\ first_payment(x, t).state.next_charge_at = add_months(t)
        /\ first_payment(x, t).state.grace_until = Nil
        /\ first_payment(x, t).state.attempt = 0
        /\ first_payment(x, t).state.charge_pending = FALSE
        /\ first_payment(x, t).state.cancel_requested_at = x.cancel_requested_at
    <2> DEFINE y == Opened(x, t)
    <2>1. first_payment(x, t).state = [y EXCEPT !.pending_since = Nil]
      BY DEF first_payment, To
    <2>2. /\ y \in SubState
          /\ y.status = "active"
          /\ y.current_period_end = add_months(t)
          /\ y.next_charge_at = add_months(t)
          /\ y.grace_until = Nil
          /\ y.attempt = 0
          /\ y.charge_pending = FALSE
          /\ y.cancel_requested_at = x.cancel_requested_at
      BY OpenedFields
    <2> HIDE DEF y
    <2> QED
      BY <2>1, <2>2 DEF SubState
  <1>2. x.cancel_requested_at = Nil
    BY DEF Sound, CancelSound
  <1>3. add_months(t) # Nil
    BY MonthsTyped, PolicyAssumption DEF PolicyAssumption
  <1> QED
    BY <1>1, <1>2, <1>3 DEF Sound, ActiveSound, GraceSound, FlightSound, CancelSound, EndSound

(* A due renewal only marks the charge in flight. *)
LEMMA renewal_dueSound ==
    ASSUME NEW x \in SubState, NEW t \in Nat, Sound(x, t),
           x.status \in {"active", "grace"}
    PROVE  Sound(renewal_due(x, t).state, t)
  <1> DEFINE y == [x EXCEPT !.charge_pending = TRUE]
  <1>1. CASE renewal_due(x, t) = NoOp(x)
    BY <1>1 DEF NoOp, To
  <1>2. CASE /\ renewal_due(x, t).state = y
             /\ x.cancel_requested_at = Nil
             /\ Reached(x.next_charge_at, t)
    <2>1. /\ y.status = x.status
          /\ y.current_period_end = x.current_period_end
          /\ y.grace_until = x.grace_until
          /\ y.next_charge_at = x.next_charge_at
          /\ y.cancel_requested_at = x.cancel_requested_at
          /\ y.attempt = x.attempt
      BY DEF SubState
    <2> HIDE DEF y
    <2>2. x.next_charge_at # Nil /\ Reached(x.current_period_end, t)
      BY <1>2 DEF Sound, ActiveSound, GraceSound, Reached
    <2> QED
      BY <1>2, <2>1, <2>2
      DEF Sound, ActiveSound, GraceSound, FlightSound, CancelSound, EndSound
  <1> QED
    BY <1>1, <1>2 DEF renewal_due, To

(* A paid renewal leaves a sound active row, from grace as from active. *)
LEMMA renewal_paidSound ==
    ASSUME NEW x \in SubState, NEW t \in Nat, NEW e \in BOOLEAN, NEW sc \in BOOLEAN,
           Sound(x, t), x.status \in {"active", "grace"}
    PROVE  Sound(renewal_paid(x, e, sc, t).state, t)
  <1> DEFINE start == IF x.status = "active" THEN OrElse(x.current_period_end, t) ELSE t
             y == Opened(x, start)
  <1>1. CASE renewal_paid(x, e, sc, t) = NoOp(x)
    BY <1>1 DEF NoOp, To
  <1>2. CASE renewal_paid(x, e, sc, t).state = y
    <2>1. start \in Nat
      BY OrElseTyped DEF SubState
    <2> HIDE DEF start
    <2>2. /\ y.status = "active"
          /\ y.current_period_end = add_months(start)
          /\ y.next_charge_at = add_months(start)
          /\ y.grace_until = Nil
          /\ y.attempt = 0
          /\ y.charge_pending = FALSE
          /\ y.cancel_requested_at = x.cancel_requested_at
      BY <2>1, OpenedFields
    <2> HIDE DEF y
    <2>3. x.cancel_requested_at = Nil
      BY DEF Sound, CancelSound
    <2>4. add_months(start) # Nil
      BY <2>1, MonthsTyped, PolicyAssumption DEF PolicyAssumption
    <2> QED
      BY <1>2, <2>2, <2>3, <2>4
      DEF Sound, ActiveSound, GraceSound, FlightSound, CancelSound, EndSound
  <1> QED
    BY <1>1, <1>2 DEF renewal_paid, To

(* A late success on a cancelled row extends its period and stays cancelled. *)
LEMMA cancelled_paidSound ==
    ASSUME NEW x \in SubState, NEW t \in Nat, NEW sc \in BOOLEAN,
           Sound(x, t), x.status = "cancel_at_period_end"
    PROVE  Sound(cancelled_paid(x, sc, t).state, t)
  <1> DEFINE start == OrElse(x.current_period_end, t)
             end   == add_months(start)
             y     == [x EXCEPT !.current_period_start = start,
                                !.current_period_end = end,
                                !.charge_pending = FALSE,
                                !.attempt = 0]
  <1>1. CASE cancelled_paid(x, sc, t) = NoOp(x)
    BY <1>1 DEF NoOp, To
  <1>2. CASE cancelled_paid(x, sc, t).state = y
    <2>1. end # Nil
      <3>1. start \in Nat
        BY OrElseTyped DEF SubState
      <3>2. end \in Nat
        BY <3>1, MonthsTyped
      <3> QED
        BY <3>2, PolicyAssumption DEF PolicyAssumption
    <2> HIDE DEF start, end
    <2>2. /\ y.status = x.status
          /\ y.current_period_end = end
          /\ y.next_charge_at = x.next_charge_at
          /\ y.cancel_requested_at = x.cancel_requested_at
      BY DEF SubState
    <2> HIDE DEF y
    <2> QED
      BY <1>2, <2>1, <2>2
      DEF Sound, ActiveSound, GraceSound, FlightSound, CancelSound, EndSound
  <1> QED
    BY <1>1, <1>2 DEF cancelled_paid, To

(* A refusal leaves a sound row in grace: its retry, if any, is inside the grace. *)
LEMMA payment_failedSound ==
    ASSUME NEW x \in SubState, NEW t \in Nat, Sound(x, t),
           x.status \in {"active", "grace"}
    PROVE  Sound(payment_failed(x, t).state, t)
  <1> DEFINE end == OrElse(x.current_period_end, t)
             grace == OrElse(x.grace_until, end + GraceDays)
             n == x.attempt + 1
             retry == next_retry_at(end, n, grace)
             y == [x EXCEPT !.status = "grace", !.grace_until = grace,
                            !.next_charge_at = retry, !.attempt = n,
                            !.charge_pending = FALSE]
  <1>1. CASE payment_failed(x, t) = NoOp(x)
    BY <1>1 DEF NoOp, To
  <1>2. CASE payment_failed(x, t).state = y /\ x.charge_pending
    <2>1. /\ x.current_period_end \in Time /\ x.grace_until \in Time
          /\ x.attempt \in Nat
      BY DEF SubState
    <2>2. /\ x.current_period_end \in Nat
          /\ x.current_period_end <= t
          /\ end = x.current_period_end
      BY <1>2, <2>1 DEF Sound, FlightSound, Reached, OrElse, Time
    <2>3. grace \in Nat /\ end <= grace
      <3>1. end + GraceDays \in Nat /\ end <= end + GraceDays
        BY <2>2, PolicyAssumption DEF PolicyAssumption
      <3>2. x.grace_until # Nil => x.grace_until \in Nat /\ end <= x.grace_until
        BY <2>1, <2>2 DEF Sound, ActiveSound, GraceSound, Time
      <3> QED
        BY <3>1, <3>2 DEF OrElse
    <2>4. n \in Nat /\ n <= Len(RetryDays) + 1
      <3>1. Len(RetryDays) \in Nat
        BY PolicyAssumption DEF PolicyAssumption
      <3>2. x.attempt <= Len(RetryDays)
        BY <1>2, <2>1, <3>1 DEF Sound, ActiveSound, GraceSound, FlightSound
      <3> QED
        BY <2>1, <3>1, <3>2
    <2>5. retry # Nil => retry <= grace /\ n <= Len(RetryDays)
      BY <2>2, <2>3, <2>4, RetryTyped
    <2>6. x.cancel_requested_at = Nil
      BY DEF Sound, CancelSound
    <2>7. end # Nil /\ grace # Nil
      BY <2>2, <2>3, PolicyAssumption DEF PolicyAssumption
    <2> HIDE DEF grace, n, retry
    <2>8. /\ y.status = "grace"
          /\ y.current_period_end = x.current_period_end
          /\ y.grace_until = grace
          /\ y.next_charge_at = retry
          /\ y.attempt = n
          /\ y.charge_pending = FALSE
          /\ y.cancel_requested_at = x.cancel_requested_at
      BY DEF SubState
    <2> HIDE DEF y
    <2> QED
      BY <1>2, <2>2, <2>3, <2>4, <2>5, <2>6, <2>7, <2>8
      DEF Sound, ActiveSound, GraceSound, FlightSound, CancelSound, EndSound
  <1> QED
    BY <1>1, <1>2 DEF payment_failed, To

(* A row that lapses at the end of what was paid, one that is cancelled, one
   that is refunded. *)
LEMMA StoppedSound ==
    ASSUME NEW x \in SubState, NEW t \in Nat, Sound(x, t)
    PROVE  /\ Reached(x.current_period_end, t) => Sound(Lapse(x).state, t)
           /\ x.status \in {"active", "grace"} => Sound(cancel(x, t).state, t)
           /\ Sound(refunded(x).state, t)
  <1>1. ASSUME Reached(x.current_period_end, t)
        PROVE  Sound(Lapse(x).state, t)
    <2> DEFINE y == Lapse(x).state
    <2>1. /\ y.status = "lapsed"
          /\ y.current_period_end = x.current_period_end
          /\ y.next_charge_at = Nil
      BY DEF Lapse, To, SubState
    <2> HIDE DEF y
    <2>2. Sound(y, t)
      BY <1>1, <2>1 DEF Sound, ActiveSound, GraceSound, FlightSound, CancelSound, EndSound
    <2> QED
      BY <2>2 DEF y
  <1>2. ASSUME x.status \in {"active", "grace"}
        PROVE  Sound(cancel(x, t).state, t)
    <2> DEFINE y == cancel(x, t).state
    <2>1. /\ y.status = "cancel_at_period_end"
          /\ y.current_period_end = x.current_period_end
          /\ y.next_charge_at = Nil
      BY DEF cancel, To, SubState
    <2> HIDE DEF y
    <2>2. Sound(y, t)
      BY <1>2, <2>1 DEF Sound, ActiveSound, GraceSound, FlightSound, CancelSound, EndSound
    <2> QED
      BY <2>2 DEF y
  <1>3. Sound(refunded(x).state, t)
    <2> DEFINE y == refunded(x).state
    <2>1. y.status = "refunded" /\ y.next_charge_at = Nil
      BY DEF refunded, To, SubState
    <2> HIDE DEF y
    <2>2. Sound(y, t)
      BY <2>1 DEF Sound, ActiveSound, GraceSound, FlightSound, CancelSound, EndSound
    <2> QED
      BY <2>2 DEF y
  <1> QED
    BY <1>1, <1>2, <1>3

(* An end that is reached: of the grace, of a cancelled or a fixed term. *)
LEMMA EndedSound ==
    ASSUME NEW x \in SubState, NEW t \in Nat, Sound(x, t)
    PROVE  /\ x.status = "grace" => Sound(grace_expired(x, t).state, t)
           /\ Sound(period_ended(x, t).state, t)
           /\ Sound(term_ended(x, t).state, t)
  <1>1. x.status = "grace" => Reached(x.current_period_end, t)
    BY DEF Sound, GraceSound, Reached
  <1> QED
    BY <1>1, StoppedSound DEF grace_expired, period_ended, term_ended, NoOp, To

-----------------------------------------------------------------------------
(* Transitions *)

(* The keys of a row are charged in order: k is used up in state x when the
   machine is past it, or is waiting for its answer. *)
KeyPast(x, k) ==
    \/ k.period_start < x.current_period_end
    \/ k.period_start = x.current_period_end /\ k.attempt < x.attempt

KeyUsed(x, k) ==
    \/ KeyPast(x, k)
    \/ x.charge_pending /\ k = idempotency_key(x.current_period_end, x.attempt)

ChargeableStatuses == {"active", "grace"}

LiveStatuses == {"active", "grace", "cancel_at_period_end"}

(* What a transition tr of a sound state x at time t may do, besides keeping
   it sound: to the keys of the row, to the device's mode, to the paid days
   and to a cancel. *)
KeysLegal(x, tr) ==
    /\ tr.state.status \in ChargeableStatuses =>
          \/ x.status = "pending"
          \/ /\ x.status \in ChargeableStatuses
             /\ \A k \in [period_start: Nat, attempt: Nat] :
                   KeyUsed(x, k) => KeyUsed(tr.state, k)
    /\ tr.state.status = "pending" => x.status = "pending"

ChargeLegal(x, t, tr) ==
    IF "Charge" \in tr.effects
    THEN /\ x.status \in ChargeableStatuses /\ ~x.charge_pending
         /\ ~KeyUsed(x, ChargeKey(x, t))
         /\ KeyUsed(tr.state, ChargeKey(x, t))
    ELSE tr.state.charge_pending => x.charge_pending

ModeLegal(x, tr) ==
    CASE "ModeFull" \in tr.effects -> tr.state.status \in LiveStatuses
      [] "ModeLapse" \in tr.effects -> tr.state.status \notin LiveStatuses
      [] OTHER -> tr.state.status \in LiveStatuses <=> x.status \in LiveStatuses

PeriodLegal(x, tr) ==
    (/\ x.current_period_end # Nil
     /\ tr.state.current_period_start \notin {Nil, x.current_period_start})
        => tr.state.current_period_start >= x.current_period_end

CancelLegal(x, tr) ==
    x.cancel_requested_at # Nil =>
        /\ tr.state.cancel_requested_at = x.cancel_requested_at
        /\ tr.state.next_charge_at = Nil
        /\ "Charge" \notin tr.effects

Legal(x, t, tr) ==
    /\ KeysLegal(x, tr) /\ ChargeLegal(x, t, tr) /\ ModeLegal(x, tr)
    /\ PeriodLegal(x, tr) /\ CancelLegal(x, tr)

(* Doing nothing is legal. *)
LEMMA NoOpLegal ==
    ASSUME NEW x \in SubState, NEW t \in Nat, Sound(x, t)
    PROVE  Legal(x, t, NoOp(x))
  BY DEF NoOp, To, Legal, KeysLegal, ChargeLegal, ModeLegal, PeriodLegal, CancelLegal,
         Sound, CancelSound

(* A checkout that failed never gave anything to take back. *)
LEMMA pending_failedLegal ==
    ASSUME NEW x \in SubState, NEW t \in Nat, Sound(x, t), x.status = "pending"
    PROVE  Legal(x, t, pending_failed(x))
  BY DEF pending_failed, To, Gone, NewRow, Sound, CancelSound, EndSound, LiveStatuses,
         ChargeableStatuses,
         Legal, KeysLegal, ChargeLegal, ModeLegal, PeriodLegal, CancelLegal

(* The first payment tells the device and opens the first period. *)
LEMMA first_paymentLegal ==
    ASSUME NEW x \in SubState, NEW t \in Nat, Sound(x, t), x.status = "pending"
    PROVE  Legal(x, t, first_payment(x, t))
  <1> DEFINE y == first_payment(x, t).state
  <1>1. y.status = "active" /\ y.charge_pending = FALSE
    <2>1. /\ Opened(x, t) \in SubState
          /\ Opened(x, t).status = "active"
          /\ Opened(x, t).charge_pending = FALSE
      BY OpenedFields
    <2> QED
      BY <2>1 DEF first_payment, To, SubState
  <1>2. first_payment(x, t).effects = {"ModeFull"}
    BY DEF first_payment, To
  <1>3. x.current_period_end = Nil /\ x.cancel_requested_at = Nil
    BY DEF Sound, EndSound, CancelSound
  <1> HIDE DEF y
  <1> QED
    BY <1>1, <1>2, <1>3
    DEF y, LiveStatuses, Legal, KeysLegal, ChargeLegal, ModeLegal, PeriodLegal, CancelLegal

(* A renewal is charged with the current key, when it is due and not cancelled. *)
LEMMA renewal_dueLegal ==
    ASSUME NEW x \in SubState, NEW t \in Nat, Sound(x, t), x.status \in ChargeableStatuses
    PROVE  Legal(x, t, renewal_due(x, t))
  <1> DEFINE y == renewal_due(x, t).state
             key == idempotency_key(x.current_period_end, x.attempt)
  <1>1. CASE renewal_due(x, t) = NoOp(x)
    BY <1>1, NoOpLegal
  <1>2. CASE /\ y = [x EXCEPT !.charge_pending = TRUE]
             /\ renewal_due(x, t).effects = {"Charge"}
             /\ x.cancel_requested_at = Nil
             /\ ~x.charge_pending
    <2>1. /\ y.status = x.status
          /\ y.current_period_start = x.current_period_start
          /\ y.current_period_end = x.current_period_end
          /\ y.attempt = x.attempt
          /\ y.charge_pending = TRUE
      BY <1>2 DEF SubState
    <2> HIDE DEF y
    <2>2. /\ x.current_period_end \in Nat /\ x.attempt \in Nat
          /\ ChargeKey(x, t) = key
      BY DEF SubState, Time, Sound, ActiveSound, GraceSound, ChargeableStatuses, ChargeKey,
             OrElse
    <2>3. KeysLegal(x, renewal_due(x, t))
      BY <1>2, <2>1 DEF y, KeysLegal, KeyUsed, KeyPast, ChargeableStatuses
    <2>4. ChargeLegal(x, t, renewal_due(x, t))
      <3>1. ~KeyUsed(x, key)
        BY <1>2, <2>2 DEF KeyUsed, KeyPast, idempotency_key
      <3>2. KeyUsed(y, key)
        BY <2>1 DEF KeyUsed
      <3> QED
        BY <1>2, <2>2, <3>1, <3>2 DEF y, ChargeLegal
    <2>5. ModeLegal(x, renewal_due(x, t))
      BY <1>2, <2>1 DEF y, ModeLegal
    <2>6. PeriodLegal(x, renewal_due(x, t)) /\ CancelLegal(x, renewal_due(x, t))
      BY <1>2, <2>1 DEF y, PeriodLegal, CancelLegal
    <2> QED
      BY <2>3, <2>4, <2>5, <2>6 DEF Legal
  <1> QED
    BY <1>1, <1>2 DEF renewal_due, To

(* A paid renewal starts no earlier than the period before it ended. *)
LEMMA renewal_paidLegal ==
    ASSUME NEW x \in SubState, NEW t \in Nat, NEW e \in BOOLEAN, NEW sc \in BOOLEAN,
           Sound(x, t), x.status \in ChargeableStatuses
    PROVE  Legal(x, t, renewal_paid(x, e, sc, t))
  <1> DEFINE start == IF x.status = "active" THEN OrElse(x.current_period_end, t) ELSE t
             y == renewal_paid(x, e, sc, t).state
  <1>1. CASE renewal_paid(x, e, sc, t) = NoOp(x)
    BY <1>1, NoOpLegal
  <1>2. CASE y = Opened(x, start) /\ renewal_paid(x, e, sc, t).effects = {"ModeFull"}
    <2>1. /\ x.current_period_end \in Nat /\ x.attempt \in Nat
          /\ start \in Nat /\ start >= x.current_period_end
      BY DEF SubState, Time, Sound, ActiveSound, GraceSound, ChargeableStatuses, OrElse
    <2> HIDE DEF start, y
    <2>2. /\ y.status = "active"
          /\ y.current_period_start = start
          /\ y.current_period_end = add_months(start)
          /\ y.charge_pending = FALSE
      BY <1>2, <2>1, OpenedFields
    <2>3. add_months(start) \in Nat /\ add_months(start) > x.current_period_end
      BY <2>1, MonthsTyped
    <2>4. KeysLegal(x, renewal_paid(x, e, sc, t))
      <3>1. ASSUME NEW k \in [period_start: Nat, attempt: Nat], KeyUsed(x, k)
            PROVE  k.period_start < y.current_period_end
        <4>1. k.period_start <= x.current_period_end
          BY <2>1, <3>1 DEF KeyUsed, KeyPast, idempotency_key
        <4> QED
          BY <2>1, <2>2, <2>3, <4>1
      <3> QED
        BY <2>2, <3>1 DEF y, KeysLegal, KeyUsed, KeyPast
    <2>5. ChargeLegal(x, t, renewal_paid(x, e, sc, t)) /\ ModeLegal(x, renewal_paid(x, e, sc, t))
      BY <1>2, <2>2 DEF y, ChargeLegal, ModeLegal, LiveStatuses
    <2>6. PeriodLegal(x, renewal_paid(x, e, sc, t))
      BY <2>1, <2>2 DEF y, PeriodLegal
    <2>7. CancelLegal(x, renewal_paid(x, e, sc, t))
      BY DEF CancelLegal, Sound, CancelSound, ChargeableStatuses
    <2> QED
      BY <2>4, <2>5, <2>6, <2>7 DEF Legal
  <1> QED
    BY <1>1, <1>2 DEF renewal_paid, To

(* A late success on a cancelled row charges nothing more and keeps the cancel. *)
LEMMA cancelled_paidLegal ==
    ASSUME NEW x \in SubState, NEW t \in Nat, NEW sc \in BOOLEAN,
           Sound(x, t), x.status = "cancel_at_period_end"
    PROVE  Legal(x, t, cancelled_paid(x, sc, t))
  <1> DEFINE start == OrElse(x.current_period_end, t)
             end   == add_months(start)
             y     == cancelled_paid(x, sc, t).state
  <1>1. CASE cancelled_paid(x, sc, t) = NoOp(x)
    BY <1>1, NoOpLegal
  <1>2. CASE /\ y = [x EXCEPT !.current_period_start = start,
                              !.current_period_end = end,
                              !.charge_pending = FALSE,
                              !.attempt = 0]
             /\ cancelled_paid(x, sc, t).effects = {}
    <2>1. x.current_period_end # Nil => start >= x.current_period_end
      BY DEF OrElse, SubState, Time
    <2> HIDE DEF start, end
    <2>2. /\ y.status = x.status
          /\ y.current_period_start = start
          /\ y.next_charge_at = x.next_charge_at
          /\ y.cancel_requested_at = x.cancel_requested_at
          /\ y.charge_pending = FALSE
      BY <1>2 DEF SubState
    <2> HIDE DEF y
    <2> QED
      BY <1>2, <2>1, <2>2
      DEF y, Legal, KeysLegal, ChargeLegal, ModeLegal, PeriodLegal, CancelLegal,
          Sound, CancelSound, ChargeableStatuses, LiveStatuses
  <1> QED
    BY <1>1, <1>2 DEF cancelled_paid, To

(* A refusal counts the attempt, so the next key is a new one. *)
LEMMA payment_failedLegal ==
    ASSUME NEW x \in SubState, NEW t \in Nat, Sound(x, t), x.status \in ChargeableStatuses
    PROVE  Legal(x, t, payment_failed(x, t))
  <1> DEFINE end == OrElse(x.current_period_end, t)
             grace == OrElse(x.grace_until, end + GraceDays)
             n == x.attempt + 1
             retry == next_retry_at(end, n, grace)
             y == payment_failed(x, t).state
  <1>1. CASE payment_failed(x, t) = NoOp(x)
    BY <1>1, NoOpLegal
  <1>2. CASE /\ y = [x EXCEPT !.status = "grace", !.grace_until = grace,
                              !.next_charge_at = retry, !.attempt = n,
                              !.charge_pending = FALSE]
             /\ payment_failed(x, t).effects = {}
    <2>1. /\ x.current_period_end \in Nat /\ x.attempt \in Nat
          /\ n \in Nat /\ n > x.attempt
      BY DEF SubState, Time, Sound, ActiveSound, GraceSound, ChargeableStatuses
    <2> HIDE DEF n, grace, retry
    <2>2. /\ y.status = "grace"
          /\ y.current_period_start = x.current_period_start
          /\ y.current_period_end = x.current_period_end
          /\ y.attempt = n
          /\ y.charge_pending = FALSE
      BY <1>2 DEF SubState
    <2> HIDE DEF y
    <2>3. KeysLegal(x, payment_failed(x, t))
      <3>1. ASSUME NEW k \in [period_start: Nat, attempt: Nat], KeyUsed(x, k)
            PROVE  KeyPast(y, k)
        BY <2>1, <2>2, <3>1 DEF KeyUsed, KeyPast, idempotency_key
      <3> QED
        BY <2>2, <3>1 DEF y, KeysLegal, KeyUsed
    <2>4. ChargeLegal(x, t, payment_failed(x, t)) /\ ModeLegal(x, payment_failed(x, t))
      BY <1>2, <2>2 DEF y, ChargeLegal, ModeLegal, LiveStatuses, ChargeableStatuses
    <2>5. PeriodLegal(x, payment_failed(x, t))
      BY <2>2 DEF y, PeriodLegal
    <2>6. CancelLegal(x, payment_failed(x, t))
      BY DEF CancelLegal, Sound, CancelSound, ChargeableStatuses
    <2> QED
      BY <2>3, <2>4, <2>5, <2>6 DEF Legal
  <1> QED
    BY <1>1, <1>2 DEF payment_failed, To

(* A lapse, a refund and a cancel stop the charging, and tell the device. *)
LEMMA StoppedLegal ==
    ASSUME NEW x \in SubState, NEW t \in Nat, Sound(x, t)
    PROVE  /\ Legal(x, t, Lapse(x))
           /\ Legal(x, t, refunded(x))
           /\ x.status \in ChargeableStatuses => Legal(x, t, cancel(x, t))
  <1>1. \A y \in {Lapse(x).state, refunded(x).state} :
           /\ y.status \in {"lapsed", "refunded"}
           /\ y.current_period_start = x.current_period_start
           /\ y.next_charge_at = Nil
           /\ y.cancel_requested_at = x.cancel_requested_at
           /\ y.charge_pending = FALSE
    BY DEF Lapse, refunded, To, SubState
  <1>2. Lapse(x).effects = {"ModeLapse"} /\ refunded(x).effects = {"ModeLapse"}
    BY DEF Lapse, refunded, To
  <1>3. \A tr \in {Lapse(x), refunded(x)} : Legal(x, t, tr)
    BY <1>1, <1>2
    DEF Legal, KeysLegal, ChargeLegal, ModeLegal, PeriodLegal, CancelLegal,
        ChargeableStatuses, LiveStatuses
  <1>4. ASSUME x.status \in ChargeableStatuses
        PROVE  Legal(x, t, cancel(x, t))
    <2>1. /\ cancel(x, t).state.status = "cancel_at_period_end"
          /\ cancel(x, t).state.current_period_start = x.current_period_start
          /\ cancel(x, t).state.charge_pending = x.charge_pending
      BY DEF cancel, To, SubState
    <2>2. cancel(x, t).effects = {"CancelAtProvider"}
      BY DEF cancel, To
    <2>3. x.cancel_requested_at = Nil
      BY <1>4 DEF Sound, CancelSound, ChargeableStatuses
    <2> QED
      BY <1>4, <2>1, <2>2, <2>3
      DEF Legal, KeysLegal, ChargeLegal, ModeLegal, PeriodLegal, CancelLegal,
          ChargeableStatuses, LiveStatuses
  <1> QED
    BY <1>3, <1>4

(* A period, a grace or a term ends only when its date is reached. *)
LEMMA EndedLegal ==
    ASSUME NEW x \in SubState, NEW t \in Nat, Sound(x, t)
    PROVE  /\ Legal(x, t, grace_expired(x, t))
           /\ Legal(x, t, period_ended(x, t))
           /\ Legal(x, t, term_ended(x, t))
  BY NoOpLegal, StoppedLegal DEF grace_expired, period_ended, term_ended
=============================================================================
