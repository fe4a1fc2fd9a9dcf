--------------------------- MODULE LifecycleProofs ---------------------------
(***************************************************************************)
(* Theorems about Lifecycle, for every policy, clock and number of rows:   *)
(* the type invariant, the inductive invariant Inv, and from it every      *)
(* property the runs check.                                                *)
(***************************************************************************)
EXTENDS Lifecycle, StateMachineProofs, FiniteSetTheorems

-----------------------------------------------------------------------------
(* Every action but Tick and CheckoutStarted applies one of these handlers. *)

(* The handler an event selects returns a well-formed SubState. *)
LEMMA OnTyped ==
    ASSUME NEW x \in SubState, NEW t \in Nat, NEW e \in BOOLEAN, NEW sc \in BOOLEAN
    PROVE  /\ OnPaymentSucceeded(x, e, sc, t).state \in SubState
           /\ OnPaymentFailed(x, t).state \in SubState
           /\ OnRenewalDue(x, t).state \in SubState
           /\ OnCancelRequested(x, t).state \in SubState
           /\ grace_expired(x, t).state \in SubState
           /\ period_ended(x, t).state \in SubState
           /\ term_ended(x, t).state \in SubState
  BY HandlersTyped
  DEF OnPaymentSucceeded, OnPaymentFailed, OnRenewalDue, OnCancelRequested,
      grace_expired, period_ended, term_ended, NoOp, To

(* In a status the table accepts the event in, the selected handler keeps the
   row sound: dates, key and flags stay consistent. *)
LEMMA OnSound ==
    ASSUME NEW x \in SubState, NEW t \in Nat, NEW e \in BOOLEAN, NEW sc \in BOOLEAN,
           Sound(x, t)
    PROVE  /\ x.status \in Accepts.PaymentSucceeded =>
                 Sound(OnPaymentSucceeded(x, e, sc, t).state, t)
           /\ x.status \in Accepts.PaymentFailed => Sound(OnPaymentFailed(x, t).state, t)
           /\ x.status \in Accepts.RenewalDue => Sound(OnRenewalDue(x, t).state, t)
           /\ x.status \in Accepts.CancelRequested =>
                 Sound(OnCancelRequested(x, t).state, t)
           /\ x.status = "pending" => Sound(pending_timeout(x, t).state, t)
  <1>1. x.status \in Accepts.PaymentSucceeded =>
           Sound(OnPaymentSucceeded(x, e, sc, t).state, t)
    BY first_paymentSound, renewal_paidSound, cancelled_paidSound
    DEF OnPaymentSucceeded, Accepts
  <1>2. Sound(pending_failed(x).state, t)
    BY NewRowSound DEF pending_failed, Gone, To, Time
  <1>3. x.status \in Accepts.PaymentFailed => Sound(OnPaymentFailed(x, t).state, t)
    BY <1>2, payment_failedSound DEF OnPaymentFailed, Accepts, NoOp, To
  <1>4. x.status \in Accepts.RenewalDue => Sound(OnRenewalDue(x, t).state, t)
    BY renewal_dueSound DEF OnRenewalDue, Accepts, NoOp, To
  <1>5. x.status \in Accepts.CancelRequested => Sound(OnCancelRequested(x, t).state, t)
    BY <1>2, StoppedSound DEF OnCancelRequested, Accepts, NoOp, To
  <1>6. Sound(pending_timeout(x, t).state, t)
    BY <1>2 DEF pending_timeout, NoOp, To
  <1> QED
    BY <1>1, <1>3, <1>4, <1>5, <1>6

-----------------------------------------------------------------------------
(* Type correctness *)

(* Executing the effects of a well-formed transition keeps the types. *)
LEMMA ApplyTyped ==
    ASSUME TypeOK, NEW t, t.state \in SubState, Apply(t)
    PROVE  /\ s' \in SubState /\ now' \in Nat
           /\ charges' \subseteq Charges /\ charges \subseteq charges' /\ made' \in Nat
           /\ mode' \in {"full", "lapse"}
  <1>1. ThisCharge \in Charges
    <2>1. OrElse(s.current_period_end, now) \in Nat
      BY OrElseTyped DEF TypeOK, SubState
    <2> QED
      BY <2>1 DEF TypeOK, SubState, ThisCharge, ChargeKey, idempotency_key, Charges
  <1> QED
    BY <1>1 DEF TypeOK, Apply, ModeAfter

(* Every step keeps the types: one case per action. *)
LEMMA TypeStep == TypeOK /\ [Next]_vars => TypeOK'
  <1> SUFFICES ASSUME TypeOK, [Next]_vars
               PROVE  TypeOK'
    OBVIOUS
  <1>t. /\ s \in SubState /\ now \in Nat /\ row \in Nat /\ settled \subseteq charges
        /\ external \in BOOLEAN
    BY BoundAssumption DEF TypeOK, BoundAssumption
  <1>1. CASE CheckoutStarted
    <2>1. start_checkout(s, now).state \in SubState
      BY <1>t, HandlersTyped
    <2> QED
      BY <1>1, <1>t, <2>1, ApplyTyped DEF CheckoutStarted, TypeOK
  <1>2. CASE PaymentSucceeded
    <2>1. \A sc \in BOOLEAN : OnPaymentSucceeded(s, external, sc, now).state \in SubState
      BY <1>t, OnTyped
    <2>2. /\ row' = row /\ external' = external
          /\ \E sc \in BOOLEAN : Apply(OnPaymentSucceeded(s, external, sc, now))
          /\ settled' \subseteq charges
      BY <1>2, <1>t DEF PaymentSucceeded, Unsettled
    <2> QED
      BY <1>t, <2>1, <2>2, ApplyTyped DEF TypeOK
  <1>3. CASE \/ PaymentFailed \/ TimedOut \/ RenewalDue \/ GraceExpired \/ CancelRequested
             \/ OperatorStop \/ PeriodEnded \/ TermEnded \/ Refunded
    <2>1. /\ row' = row /\ external' = external /\ settled' = settled
          /\ \E t \in {OnPaymentFailed(s, now), pending_timeout(s, now), OnRenewalDue(s, now),
                       grace_expired(s, now), OnCancelRequested(s, now),
                       period_ended(s, now), term_ended(s, now), refunded(s)} : Apply(t)
      BY <1>3 DEF PaymentFailed, TimedOut, RenewalDue, GraceExpired, CancelRequested,
                  OperatorStop, PeriodEnded, TermEnded, Refunded
    <2>2. \A t \in {OnPaymentFailed(s, now), pending_timeout(s, now), OnRenewalDue(s, now),
                    grace_expired(s, now), OnCancelRequested(s, now),
                    period_ended(s, now), term_ended(s, now), refunded(s)} :
             t.state \in SubState
      BY <1>t, OnTyped, HandlersTyped
    <2> QED
      BY <1>t, <2>1, <2>2, ApplyTyped DEF TypeOK
  <1>4. CASE Tick
    BY <1>4, <1>t DEF Tick, TypeOK
  <1>5. CASE UNCHANGED vars
    BY <1>5 DEF vars, TypeOK
  <1> QED
    BY <1>1, <1>2, <1>3, <1>4, <1>5 DEF Next

(* At first there is no row. *)
LEMMA InitTyped == Init => TypeOK
  <1> SUFFICES ASSUME Init
               PROVE  TypeOK
    OBVIOUS
  <1>1. external \in BOOLEAN
    BY DEF Init
  <1>2. s \in SubState
    BY DEF Init, Gone, NewRow, SubState, Statuses, Time
  <1> QED
    BY <1>1, <1>2 DEF Init, TypeOK

(* The states of the machine are well formed: dates, statuses and the
   bookkeeping of charges, whatever events come in whatever order. *)
THEOREM TypeCorrect == Spec => []TypeOK
  <1>1. Init => TypeOK
    BY InitTyped
  <1> QED
    BY <1>1, TypeStep, PTL DEF Spec

-----------------------------------------------------------------------------
(* The inductive invariant *)

(* The charges already made are all different; they belong to rows that exist; none to a checkout that
   is not paid; those of a row that can still be charged have used-up keys. *)
KeysInv ==
    /\ IsFiniteSet(charges) /\ ChargedOncePerKey
    /\ \A c \in charges : c.row <= row
    /\ s.status = "pending" => \A c \in charges : c.row # row
    /\ s.status \in ChargeableStatuses =>
          \A c \in charges : c.row = row => KeyUsed(s, c.key)

Inv == TypeOK /\ Sound(s, now) /\ ModeFollowsStatus /\ KeysInv

(* The bodies of the action properties *)
CancelKept ==
    (s.cancel_requested_at # Nil /\ row' = row) =>
        /\ s'.cancel_requested_at = s.cancel_requested_at
        /\ s'.next_charge_at = Nil
        /\ charges' = charges

PeriodAfter ==
    (/\ row' = row
     /\ s.current_period_end # Nil
     /\ s'.current_period_start \notin {Nil, s.current_period_start})
        => s'.current_period_start >= s.current_period_end

StepLegal == CancelKept /\ PeriodAfter

(* A transition of the machine on the current row *)
Transit(t) ==
    Apply(t) /\ row' = row /\ Sound(t.state, now) /\ Legal(s, now, t)

(* In a status the table accepts the event in, the selected handler makes a
   legal transition: it charges a fresh key, tells the device, keeps a cancel
   and moves periods forward. *)
LEMMA OnLegal ==
    ASSUME NEW x \in SubState, NEW t \in Nat, NEW e \in BOOLEAN, NEW sc \in BOOLEAN,
           Sound(x, t)
    PROVE  /\ x.status \in Accepts.PaymentSucceeded =>
                 Legal(x, t, OnPaymentSucceeded(x, e, sc, t))
           /\ x.status \in Accepts.PaymentFailed => Legal(x, t, OnPaymentFailed(x, t))
           /\ x.status \in Accepts.RenewalDue => Legal(x, t, OnRenewalDue(x, t))
           /\ x.status \in Accepts.CancelRequested => Legal(x, t, OnCancelRequested(x, t))
           /\ x.status = "pending" => Legal(x, t, pending_timeout(x, t))
  <1>1. x.status \in Accepts.PaymentSucceeded => Legal(x, t, OnPaymentSucceeded(x, e, sc, t))
    BY first_paymentLegal, renewal_paidLegal, cancelled_paidLegal
    DEF OnPaymentSucceeded, Accepts, ChargeableStatuses
  <1>2. x.status \in Accepts.PaymentFailed => Legal(x, t, OnPaymentFailed(x, t))
    BY pending_failedLegal, payment_failedLegal, NoOpLegal
    DEF OnPaymentFailed, Accepts, ChargeableStatuses
  <1>3. x.status \in Accepts.RenewalDue => Legal(x, t, OnRenewalDue(x, t))
    BY renewal_dueLegal, NoOpLegal DEF OnRenewalDue, Accepts, ChargeableStatuses
  <1>4. x.status \in Accepts.CancelRequested => Legal(x, t, OnCancelRequested(x, t))
    BY pending_failedLegal, StoppedLegal, NoOpLegal
    DEF OnCancelRequested, Accepts, ChargeableStatuses
  <1>5. x.status = "pending" => Legal(x, t, pending_timeout(x, t))
    BY pending_failedLegal, NoOpLegal DEF pending_timeout
  <1> QED
    BY <1>1, <1>2, <1>3, <1>4, <1>5

(* A legal transition of the machine is a legal step of the system. *)
LEMMA TransitLegal ==
    ASSUME Inv, NEW t, Transit(t)
    PROVE  StepLegal
  <1>1. CancelKept
    BY DEF CancelKept, Transit, Apply, Legal, CancelLegal
  <1>2. PeriodAfter
    BY DEF PeriodAfter, Transit, Apply, Legal, PeriodLegal
  <1> QED
    BY <1>1, <1>2 DEF StepLegal

(* A legal transition keeps the invariant; for the keys, a Charge effect has a
   period start or attempt no earlier charge of the row had. *)
LEMMA TransitInv ==
    ASSUME Inv, NEW t, Transit(t)
    PROVE  Sound(s, now)' /\ ModeFollowsStatus' /\ KeysInv'
  <1>1. Sound(s, now)'
    BY DEF Transit, Apply
  <1>2. ModeFollowsStatus'
    BY DEF Inv, ModeFollowsStatus, Transit, Apply, ModeAfter, Legal, ModeLegal, LiveStatuses
  <1>3. KeysInv'
    <2>1. /\ s' = t.state /\ row' = row
          /\ charges' \subseteq charges \cup {ThisCharge}
          /\ KeysLegal(s, t) /\ ChargeLegal(s, now, t)
      BY DEF Transit, Apply, Legal
    <2>2. row \in Nat /\ charges \subseteq Charges /\ ThisCharge.row = row
      BY DEF Inv, TypeOK, ThisCharge
    <2>3. \A c \in charges' : c.row <= row'
      BY <2>1, <2>2 DEF Inv, KeysInv
    <2>4. ASSUME "Charge" \in t.effects
          PROVE  /\ s.status \in ChargeableStatuses
                 /\ KeyUsed(s', ThisCharge.key)
      BY <2>1, <2>4 DEF ChargeLegal, ThisCharge
    <2>5. "Charge" \notin t.effects => UNCHANGED <<charges, made>>
      BY DEF Transit, Apply
    <2>6. ASSUME s'.status = "pending"
          PROVE  \A c \in charges' : c.row # row'
      <3>1. s.status = "pending"
        BY <2>1, <2>6 DEF KeysLegal
      <3>2. charges' = charges
        BY <2>4, <2>5, <3>1 DEF ChargeableStatuses
      <3> QED
        BY <2>1, <3>1, <3>2 DEF Inv, KeysInv
    <2>7. ASSUME s'.status \in ChargeableStatuses, NEW c \in charges', c.row = row'
          PROVE  KeyUsed(s', c.key)
      <3>1. CASE c \in charges
        <4>1. s.status # "pending"
          BY <2>1, <2>7, <3>1 DEF Inv, KeysInv
        <4>2. s.status \in ChargeableStatuses
          BY <2>1, <2>7, <4>1 DEF KeysLegal
        <4>3. KeyUsed(s, c.key) /\ c.key \in [period_start: Nat, attempt: Nat]
          BY <2>1, <2>2, <2>7, <3>1, <4>2 DEF Inv, KeysInv, Charges
        <4> QED
          BY <2>1, <2>7, <4>1, <4>3 DEF KeysLegal
      <3>2. CASE c \notin charges
        BY <2>1, <2>4, <2>5, <2>7, <3>2
      <3> QED
        BY <3>1, <3>2
    <2>8. ASSUME "Charge" \in t.effects
          PROVE  IsFiniteSet(charges') /\ ChargedOncePerKey'
      <3>1. s.status \in ChargeableStatuses /\ ~KeyUsed(s, ThisCharge.key)
        BY <2>1, <2>8 DEF ChargeLegal, ThisCharge
      <3>2. ThisCharge \notin charges
        BY <2>2, <3>1 DEF Inv, KeysInv
      <3>3. charges' = charges \cup {ThisCharge} /\ made' = made + 1
        BY <2>8 DEF Transit, Apply
      <3>4. IsFiniteSet(charges) /\ made = Cardinality(charges)
        BY DEF Inv, KeysInv, ChargedOncePerKey
      <3> QED
        BY <3>2, <3>3, <3>4, FS_AddElement DEF ChargedOncePerKey
    <2>9. IsFiniteSet(charges') /\ ChargedOncePerKey'
      BY <2>5, <2>8 DEF Inv, KeysInv, ChargedOncePerKey
    <2> QED
      BY <2>3, <2>6, <2>7, <2>9 DEF KeysInv
  <1> QED
    BY <1>1, <1>2, <1>3

(* Every action is a transition of the machine, a new row, or time. *)
LEMMA NextCases ==
    ASSUME Inv, Next
    PROVE  CheckoutStarted \/ Tick \/ \E t : Transit(t)
  <1>t. /\ s \in SubState /\ now \in Nat /\ external \in BOOLEAN /\ Sound(s, now)
    BY BoundAssumption DEF Inv, TypeOK, BoundAssumption
  <1>1. CASE PaymentSucceeded
    <2>1. PICK sc \in BOOLEAN : Apply(OnPaymentSucceeded(s, external, sc, now))
      BY <1>1 DEF PaymentSucceeded
    <2>2. row' = row /\ s.status \in Accepts.PaymentSucceeded
      BY <1>1 DEF PaymentSucceeded, On, Accepts
    <2> QED
      BY <1>t, <2>1, <2>2, OnSound, OnLegal DEF Transit
  <1>2. CASE PaymentFailed
    <2>1. s.status \in Accepts.PaymentFailed
      BY <1>2 DEF PaymentFailed, On, Accepts
    <2> QED
      BY <1>t, <1>2, <2>1, OnSound, OnLegal DEF PaymentFailed, Transit
  <1>3. CASE TimedOut
    <2>1. s.status = "pending"
      BY <1>3 DEF TimedOut, On, Accepts
    <2> QED
      BY <1>t, <1>3, <2>1, OnSound, OnLegal DEF TimedOut, Transit
  <1>4. CASE RenewalDue
    <2>1. s.status \in Accepts.RenewalDue
      BY <1>4 DEF RenewalDue, On, Accepts
    <2> QED
      BY <1>t, <1>4, <2>1, OnSound, OnLegal DEF RenewalDue, Transit
  <1>5. CASE CancelRequested \/ OperatorStop
    <2>1. s.status \in Accepts.CancelRequested
      BY <1>5 DEF CancelRequested, OperatorStop, On, Accepts
    <2>2. row' = row /\ Apply(OnCancelRequested(s, now))
      BY <1>5 DEF CancelRequested, OperatorStop
    <2> QED
      BY <1>t, <2>1, <2>2, OnSound, OnLegal DEF Transit
  <1>6. CASE GraceExpired
    <2>1. s.status = "grace"
      BY <1>6 DEF GraceExpired, On, Accepts
    <2> QED
      BY <1>t, <1>6, <2>1, EndedSound, EndedLegal DEF GraceExpired, Transit
  <1>7. CASE PeriodEnded
    BY <1>t, <1>7, EndedSound, EndedLegal DEF PeriodEnded, Transit
  <1>8. CASE TermEnded
    BY <1>t, <1>8, EndedSound, EndedLegal DEF TermEnded, Transit
  <1>9. CASE Refunded
    BY <1>t, <1>9, StoppedSound, StoppedLegal DEF Refunded, Transit
  <1> QED
    BY <1>1, <1>2, <1>3, <1>4, <1>5, <1>6, <1>7, <1>8, <1>9 DEF Next

(* A checkout opens a new row, whose keys no earlier charge has. *)
LEMMA CheckoutInv ==
    ASSUME Inv, CheckoutStarted
    PROVE  Sound(s, now)' /\ ModeFollowsStatus' /\ KeysInv' /\ StepLegal
  <1>1. /\ s' = NewRow("pending", now)
        /\ now' = now /\ row' = row + 1 /\ mode' = mode
        /\ charges' = charges /\ made' = made
    BY DEF CheckoutStarted, Apply, start_checkout, To, ModeAfter
  <1>2. /\ s'.status = "pending"
        /\ s'.charge_pending = FALSE
    BY <1>1 DEF NewRow
  <1>3. Sound(s, now)'
    BY <1>1, NewRowSound DEF Inv, TypeOK, Time
  <1>4. ModeFollowsStatus'
    BY <1>1, <1>2 DEF CheckoutStarted, On, Accepts, Inv, ModeFollowsStatus
  <1>5. KeysInv'
    <2>1. row \in Nat /\ \A c \in charges : c.row \in Nat /\ c.row <= row
      BY DEF Inv, TypeOK, KeysInv, Charges
    <2>2. \A c \in charges' : c.row <= row' /\ c.row # row'
      BY <1>1, <2>1
    <2>3. IsFiniteSet(charges') /\ ChargedOncePerKey'
      BY <1>1 DEF Inv, KeysInv, ChargedOncePerKey
    <2> QED
      BY <1>2, <2>2, <2>3 DEF KeysInv, ChargeableStatuses
  <1>6. StepLegal
    <2>1. row' # row
      BY <1>1 DEF Inv, TypeOK
    <2> QED
      BY <1>2, <2>1 DEF StepLegal, CancelKept, PeriodAfter
  <1> QED
    BY <1>3, <1>4, <1>5, <1>6

(* Time passing changes no row. *)
LEMMA TickInv ==
    ASSUME Inv, Tick
    PROVE  Sound(s, now)' /\ ModeFollowsStatus' /\ KeysInv' /\ StepLegal
  <1>1. Sound(s, now)'
    BY SoundLater DEF Tick, Inv, TypeOK
  <1>2. ModeFollowsStatus' /\ KeysInv'
    BY DEF Tick, Inv, ModeFollowsStatus, KeysInv, ChargedOncePerKey
  <1>3. s.cancel_requested_at # Nil => s.next_charge_at = Nil
    BY DEF Inv, Sound, CancelSound
  <1> QED
    BY <1>1, <1>2, <1>3 DEF Tick, StepLegal, CancelKept, PeriodAfter

(* Every step keeps the invariant and is legal. *)
LEMMA StepInv == Inv /\ [Next]_vars => Inv' /\ [StepLegal]_vars
  <1> SUFFICES ASSUME Inv, [Next]_vars
               PROVE  Inv' /\ [StepLegal]_vars
    OBVIOUS
  <1>1. TypeOK'
    BY TypeStep DEF Inv
  <1>2. CASE Next
    <2>1. Sound(s, now)' /\ ModeFollowsStatus' /\ KeysInv' /\ StepLegal
      BY <1>2, NextCases, CheckoutInv, TickInv, TransitInv, TransitLegal
    <2> QED
      BY <1>1, <2>1 DEF Inv
  <1>3. CASE UNCHANGED vars
    BY <1>1, <1>3 DEF vars, Inv, ModeFollowsStatus, KeysInv, ChargedOncePerKey
  <1> QED
    BY <1>2, <1>3

(* Nothing was sold yet: the invariant holds at first. *)
LEMMA InitInv == Init => Inv
  <1> SUFFICES ASSUME Init
               PROVE  Inv
    OBVIOUS
  <1>1. TypeOK
    BY InitTyped
  <1>2. Sound(s, now)
    BY NewRowSound DEF Init, Gone, Time
  <1>3. ModeFollowsStatus
    BY DEF Init, ModeFollowsStatus, Gone, NewRow
  <1>4. IsFiniteSet(charges) /\ ChargedOncePerKey
    BY FS_EmptySet DEF Init, ChargedOncePerKey
  <1>5. KeysInv
    BY <1>4 DEF Init, KeysInv
  <1> QED
    BY <1>1, <1>2, <1>3, <1>5 DEF Inv

(* The invariant the other theorems are read off holds of every behaviour. *)
THEOREM Inductive == Spec => []Inv
  BY InitInv, StepInv, PTL DEF Spec

-----------------------------------------------------------------------------
(* The properties *)

(* Paid days are served, whatever the policy: a row lapses only once its paid
   period is over. *)
THEOREM PaidDaysServed == Spec => []LapsedOnlyAfterThePaidPeriod
  <1>1. Inv => LapsedOnlyAfterThePaidPeriod
    BY DEF Inv, Sound, EndSound, LapsedOnlyAfterThePaidPeriod
  <1> QED
    BY <1>1, Inductive, PTL

(* The device is in full mode exactly while the subscription is live. *)
THEOREM ModeCorrect == Spec => []ModeFollowsStatus
  <1>1. Inv => ModeFollowsStatus
    BY DEF Inv
  <1> QED
    BY <1>1, Inductive, PTL

(* Retries end with the grace window and with the schedule. *)
THEOREM RetriesBounded == Spec => []RetriesInsideGrace
  <1>1. Inv => RetriesInsideGrace
    BY DEF Inv, Sound, GraceSound, RetriesInsideGrace
  <1> QED
    BY <1>1, Inductive, PTL

(* No idempotency key is ever charged twice, for every policy and every
   sequence of events. *)
THEOREM ChargedOnce == Spec => []ChargedOncePerKey
  <1>1. Inv => ChargedOncePerKey
    BY DEF Inv, KeysInv
  <1> QED
    BY <1>1, Inductive, PTL

(* A cancel is never undone, and nothing is charged on the row after it. *)
THEOREM CancelFinal == Spec => CancelIsFinal
  <1>1. [StepLegal]_vars => [CancelKept]_vars
    BY DEF StepLegal
  <1>2. [][CancelKept]_vars => CancelIsFinal
    BY PTL DEF CancelKept, CancelIsFinal
  <1> QED
    BY <1>1, <1>2, Inductive, StepInv, PTL DEF Spec

(* The period a payment opens starts no earlier than the previous one ended. *)
THEOREM PeriodsInOrder == Spec => PeriodsDoNotOverlap
  <1>1. [StepLegal]_vars => [PeriodAfter]_vars
    BY DEF StepLegal
  <1>2. [][PeriodAfter]_vars => PeriodsDoNotOverlap
    BY PTL DEF PeriodAfter, PeriodsDoNotOverlap
  <1> QED
    BY <1>1, <1>2, Inductive, StepInv, PTL DEF Spec
=============================================================================
