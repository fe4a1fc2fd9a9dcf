--------------------------- MODULE ChargingProofs ---------------------------
(***************************************************************************)
(* For any number of workers, requests and charges, both stores, both      *)
(* providers and every policy: the provider is called once per key, a      *)
(* charge in flight has its pending row, what was paid was served, a       *)
(* cancel stops every later charge, and with serialised transactions a     *)
(* payment's own row settles once and the charges implement ChargeLedger.  *)
(***************************************************************************)
EXTENDS Charging, StateMachineProofs

-----------------------------------------------------------------------------
(* The inductive invariant *)

(* The subscription is sound, was paid for once, and its last paid period is
   some days long: a period opened by a later success starts elsewhere. None
   that is over has a charge in flight, or a refusal would revive it. *)
Served(x, t) ==
    /\ Sound(x, t)
    /\ x.status \in LiveStatuses \cup {"lapsed", "refunded"}
    /\ x.current_period_start \in Nat
    /\ x.current_period_end \in Nat
    /\ x.current_period_start < x.current_period_end
    /\ x.charge_pending => x.status \in LiveStatuses

(* Whoever works on a key has a row for it; the provider has not been called
   yet for a charge that is prepared, and one worker alone will call it. *)
RowsBehind ==
    /\ \A w \in Workers : worker[w].stage # "idle" => worker[w].key \in DOMAIN pay
    /\ \A h \in Handlers : tx[h].stage # "idle" => tx[h].event.key \in DOMAIN pay

Uncalled ==
    /\ \A w \in Workers : worker[w].stage = "prepared" => calls[worker[w].key] = 0
    /\ \A v, w \in Workers :
          (worker[v].stage = "prepared" /\ worker[w].stage = "prepared"
             /\ worker[v].key = worker[w].key) => v = w

(* What a row of a key that opened n periods says, now or when it was read: a
   success opened one unless the subscription is over, a refund ended it. *)
Honest(x, n, row) ==
    /\ row.status = "succeeded" => x.status \in {"lapsed", "refunded"} \/ n >= 1
    /\ row.status = "refunded" => x.status = "refunded"

Reading(w) == worker[w].stage \in {"accepted_read", "refused_read"}

AllHonest ==
    /\ \A k \in DOMAIN pay : Honest(sub, given[k], pay[k])
    /\ \A w \in Workers : Reading(w) => Honest(sub, given[worker[w].key], worker[w].seen)
    /\ \A h \in Handlers :
          tx[h].stage = "read" => Honest(sub, given[tx[h].event.key], tx[h].seen)

(* While a charge is in flight its row is pending, and no worker holds an
   older reading of it to write back. *)
InFlight(x) == x.charge_pending /\ x.status \in {"active", "grace"}

FlightKept ==
    InFlight(sub) =>
        LET k == ChargeKey(sub, now)
        IN  /\ k \in DOMAIN pay
            /\ pay[k].status = "pending"
            /\ \A w \in Workers :
                  Reading(w) /\ worker[w].key = k => worker[w].seen.status = "pending"

Inv ==
    /\ TypeOK /\ Served(sub, now) /\ RowsBehind /\ Uncalled /\ OneCallPerKey
    /\ AllHonest /\ FlightKept

-----------------------------------------------------------------------------
(* With serialised transactions and no `pending' notices *)

(* One transaction at a time is between its reading and its writes, and what
   it has read is what is stored. *)
Serialised ==
    /\ \A w \in Workers : Reading(w) => worker[w].seen = pay[worker[w].key]
    /\ \A h \in Handlers : tx[h].stage = "read" => tx[h].seen = pay[tx[h].event.key]
    /\ \A v, w \in Workers : Reading(v) /\ Reading(w) => v = w
    /\ \A g, h \in Handlers : tx[g].stage = "read" /\ tx[h].stage = "read" => g = h
    /\ \A w \in Workers, h \in Handlers : ~(Reading(w) /\ tx[h].stage = "read")

(* The provider was paid, and may have given the money back *)
Taken(k) == k \in DOMAIN prov /\ prov[k].status \in {"paid", "refunded"}

Settled(k) == pay[k].status \in {"succeeded", "refunded"}

(* What is said of a key is what the provider decided about it *)
TrueEvents ==
    \A h \in Handlers :
        tx[h].stage # "idle" =>
            LET k == tx[h].event.key
            IN  /\ k \in DOMAIN prov
                /\ tx[h].event.kind = "failed" => prov[k].status = "declined"
                /\ tx[h].event.kind \in {"succeeded", "refunded"} => Taken(k)
                /\ tx[h].event.kind # "pending"

(* A settled row was paid, and a key that opened a period is settled for good *)
SettledIsPaid == \A k \in DOMAIN pay : Settled(k) => Taken(k)

GivenIsSettled == \A k \in DOMAIN pay : given[k] >= 1 => Settled(k)

SerialInv == Inv /\ Serialised /\ TrueEvents /\ SettledIsPaid /\ GivenIsSettled

-----------------------------------------------------------------------------
(* What the handlers do to a served subscription *)

(* What any step but the start of a charge does to the row: it stays sound, a
   cancel stays, an end stays an end, and no charge is put in flight. *)
Follows(x, y, t) ==
    /\ y \in SubState /\ Served(y, t)
    /\ x.cancel_requested_at # Nil => y.cancel_requested_at = x.cancel_requested_at
    /\ x.status \in {"lapsed", "refunded"} => y.status \in {"lapsed", "refunded"}
    /\ x.status = "refunded" => y.status = "refunded"
    /\ InFlight(y) => y = x

(* Doing nothing *)
LEMMA SameFollows ==
    ASSUME NEW x \in SubState, NEW t \in Nat, Served(x, t)
    PROVE  Follows(x, x, t)
  BY DEF Follows

(* The row the first payment leaves, which is where the model begins *)
LEMMA FirstServed ==
    LET x == first_payment(NewRow("pending", 0), 0).state
    IN  x \in SubState /\ Served(x, 0) /\ ~x.charge_pending
  <1> DEFINE x == NewRow("pending", 0)
             y == Opened(x, 0)
             z == first_payment(x, 0).state
  <1>1. x \in SubState /\ Sound(x, 0) /\ x.status = "pending"
    <2>1. x \in SubState /\ x.status = "pending"
      BY DEF NewRow, SubState, Statuses, Time
    <2>2. Sound(x, 0)
      BY NewRowSound DEF Time
    <2> QED BY <2>1, <2>2
  <1>2. z \in SubState /\ Sound(z, 0)
    BY <1>1, HandlersTyped, first_paymentSound
  <1> HIDE DEF x
  <1>3. /\ y \in SubState
        /\ y.status = "active"
        /\ y.current_period_start = 0
        /\ y.current_period_end = add_months(0)
        /\ y.charge_pending = FALSE
    <2>1. 0 \in Nat
      OBVIOUS
    <2> QED BY <1>1, <2>1, OpenedFields, Zenon
  <1>4. z = [y EXCEPT !.pending_since = Nil]
    BY DEF first_payment, To
  <1> HIDE DEF y, z
  <1>5. /\ z.status = "active"
        /\ z.current_period_start = 0
        /\ z.current_period_end = add_months(0)
        /\ z.charge_pending = FALSE
    BY <1>3, <1>4 DEF SubState
  <1>6. Served(z, 0)
    BY <1>2, <1>5, MonthsTyped DEF Served, LiveStatuses
  <1> QED BY <1>2, <1>5, <1>6 DEF x, z

(* A success on a live row opens another period if a charge is in flight or the
   row settles one, and changes nothing otherwise. *)
LEMMA SucceededFollows ==
    ASSUME NEW x \in SubState, NEW t \in Nat, NEW sc \in BOOLEAN,
           Served(x, t), x.status \in LiveStatuses
    PROVE  LET y == OnPaymentSucceeded(x, FALSE, sc, t).state
           IN  /\ Follows(x, y, t)
               /\ ~InFlight(y)
               /\ y.status \in LiveStatuses
               /\ IF sc \/ x.charge_pending
                  THEN y.current_period_start # x.current_period_start
                  ELSE y = x
  <1> DEFINE y == OnPaymentSucceeded(x, FALSE, sc, t).state
             end == x.current_period_end
             start == IF x.status = "active" \/ x.status = "cancel_at_period_end" THEN end ELSE t
  <1> SUFFICES /\ Follows(x, y, t)
               /\ ~InFlight(y)
               /\ y.status \in LiveStatuses
               /\ IF sc \/ x.charge_pending
                  THEN y.current_period_start # x.current_period_start
                  ELSE y = x
    OBVIOUS
  <1>1. /\ end \in Nat /\ end # Nil
        /\ x.current_period_start \in Nat /\ x.current_period_start < end
        /\ x.charge_pending \in BOOLEAN
    BY PolicyAssumption DEF Served, SubState, PolicyAssumption
  <1>2. /\ start \in Nat
        /\ start > x.current_period_start
        /\ add_months(start) \in Nat
        /\ add_months(start) > start
    <2>1. x.status = "grace" => end <= t
      BY DEF Served, Sound, GraceSound
    <2>2. start \in Nat /\ start > x.current_period_start
      BY <1>1, <2>1 DEF LiveStatuses
    <2> QED BY <2>2, MonthsTyped
  <1>3. y \in SubState
    BY HandlersTyped DEF OnPaymentSucceeded, LiveStatuses
  <1>4. Sound(y, t)
    BY renewal_paidSound, cancelled_paidSound DEF OnPaymentSucceeded, LiveStatuses, Served
  <1>5. CASE ~(sc \/ x.charge_pending)
    <2>1. y = x
      BY <1>5 DEF OnPaymentSucceeded, renewal_paid, cancelled_paid, NoOp, To, LiveStatuses
    <2> QED BY <2>1, <1>5, SameFollows DEF InFlight
  <1>6. CASE (sc \/ x.charge_pending) /\ x.status = "cancel_at_period_end"
    <2>1. y = [x EXCEPT !.current_period_start = start,
                        !.current_period_end = add_months(start),
                        !.charge_pending = FALSE,
                        !.attempt = 0]
      BY <1>6, <1>1 DEF OnPaymentSucceeded, cancelled_paid, To, OrElse
    <2> HIDE DEF y, start
    <2>2. /\ y.status = "cancel_at_period_end"
          /\ y.current_period_start = start
          /\ y.current_period_end = add_months(start)
          /\ y.charge_pending = FALSE
          /\ y.cancel_requested_at = x.cancel_requested_at
      BY <2>1, <1>6 DEF SubState
    <2> QED BY <2>2, <1>1, <1>2, <1>3, <1>4, <1>6 DEF Follows, Served, InFlight, LiveStatuses
  <1>7. CASE (sc \/ x.charge_pending) /\ x.status # "cancel_at_period_end"
    <2>1. y = Opened(x, start)
      BY <1>7, <1>1 DEF OnPaymentSucceeded, renewal_paid, To, OrElse, LiveStatuses
    <2> HIDE DEF y, start
    <2>2. /\ y.status = "active"
          /\ y.current_period_start = start
          /\ y.current_period_end = add_months(start)
          /\ y.charge_pending = FALSE
          /\ y.cancel_requested_at = x.cancel_requested_at
      BY <2>1, <1>2, OpenedFields
    <2> QED BY <2>2, <1>1, <1>2, <1>3, <1>4, <1>7 DEF Follows, Served, InFlight, LiveStatuses
  <1> QED BY <1>5, <1>6, <1>7

(* A refusal takes the charge out of flight and leaves the paid period alone. *)
LEMMA FailedFollows ==
    ASSUME NEW x \in SubState, NEW t \in Nat, Served(x, t), x.status \in LiveStatuses
    PROVE  LET y == OnPaymentFailed(x, t).state
           IN  /\ Follows(x, y, t)
               /\ ~InFlight(y)
               /\ y.current_period_start = x.current_period_start
  <1> DEFINE y == OnPaymentFailed(x, t).state
  <1> SUFFICES /\ Follows(x, y, t)
               /\ ~InFlight(y)
               /\ y.current_period_start = x.current_period_start
    OBVIOUS
  <1>1. y \in SubState
    BY HandlersTyped DEF OnPaymentFailed, LiveStatuses, NoOp, To
  <1>2. Sound(y, t)
    BY payment_failedSound DEF OnPaymentFailed, LiveStatuses, Served, NoOp, To
  <1>3. CASE x.status = "cancel_at_period_end" \/ ~x.charge_pending
    <2>1. y = x
      BY <1>3 DEF OnPaymentFailed, payment_failed, NoOp, To, LiveStatuses
    <2> QED BY <2>1, <1>3, SameFollows DEF InFlight
  <1>4. CASE x.status # "cancel_at_period_end" /\ x.charge_pending
    <2> DEFINE end == OrElse(x.current_period_end, t)
               grace == OrElse(x.grace_until, end + GraceDays)
               retry == next_retry_at(end, x.attempt + 1, grace)
               n == x.attempt + 1
    <2>1. y = [x EXCEPT !.status = "grace", !.grace_until = grace, !.next_charge_at = retry,
                        !.attempt = n, !.charge_pending = FALSE]
      BY <1>4 DEF OnPaymentFailed, payment_failed, To, LiveStatuses
    <2> HIDE DEF y, end, grace, retry, n
    <2>2. /\ y.status = "grace"
          /\ y.current_period_start = x.current_period_start
          /\ y.current_period_end = x.current_period_end
          /\ y.charge_pending = FALSE
          /\ y.cancel_requested_at = x.cancel_requested_at
      BY <2>1 DEF SubState
    <2> QED BY <2>2, <1>1, <1>2, <1>4 DEF Follows, Served, InFlight, LiveStatuses
  <1> QED BY <1>3, <1>4

(* A refund, a lapse and a cancel leave the paid period alone. *)
LEMMA StoppedFollows ==
    ASSUME NEW x \in SubState, NEW t \in Nat, Served(x, t)
    PROVE  /\ LET y == refunded(x).state
              IN  /\ Follows(x, y, t)
                  /\ y.status = "refunded"
                  /\ y.current_period_start = x.current_period_start
           /\ (x.status = "grace" /\ Reached(x.grace_until, t))
                \/ (x.status = "cancel_at_period_end" /\ Reached(x.current_period_end, t))
                => Follows(x, Lapse(x).state, t)
           /\ x.status \in {"active", "grace"} => Follows(x, cancel(x, t).state, t)
  <1>1. ASSUME NEW y, y \in {refunded(x).state, Lapse(x).state, cancel(x, t).state}
        PROVE  /\ y \in SubState
               /\ y.current_period_start = x.current_period_start
               /\ y.current_period_end = x.current_period_end
    <2>1. CASE y = refunded(x).state
      BY <2>1, HandlersTyped DEF refunded, To, SubState
    <2>2. CASE y = Lapse(x).state
      BY <2>2, HandlersTyped DEF Lapse, To, SubState
    <2>3. CASE y = cancel(x, t).state
      BY <2>3, HandlersTyped DEF cancel, To, SubState
    <2> QED BY <1>1, <2>1, <2>2, <2>3
  <1>2. /\ refunded(x).state.status = "refunded"
        /\ ~refunded(x).state.charge_pending
        /\ refunded(x).state.cancel_requested_at = x.cancel_requested_at
    BY DEF refunded, To, SubState
  <1>3. /\ Lapse(x).state.status = "lapsed"
        /\ ~Lapse(x).state.charge_pending
        /\ Lapse(x).state.cancel_requested_at = x.cancel_requested_at
    BY DEF Lapse, To, SubState
  <1>4. cancel(x, t).state.status = "cancel_at_period_end"
    BY DEF cancel, To, SubState
  <1>5. Sound(refunded(x).state, t)
    BY StoppedSound DEF Served
  <1>6. Follows(x, refunded(x).state, t)
    BY <1>1, <1>2, <1>5 DEF Follows, Served, InFlight
  <1>7. ASSUME \/ x.status = "grace" /\ Reached(x.grace_until, t)
               \/ x.status = "cancel_at_period_end" /\ Reached(x.current_period_end, t)
        PROVE  Follows(x, Lapse(x).state, t)
    <2>1. Reached(x.current_period_end, t)
      BY <1>7, PolicyAssumption DEF Served, Sound, GraceSound, Reached
    <2>2. Sound(Lapse(x).state, t)
      BY <2>1, StoppedSound DEF Served
    <2> QED BY <1>1, <1>3, <1>7, <2>2 DEF Follows, Served, InFlight
  <1>8. ASSUME x.status \in {"active", "grace"}
        PROVE  Follows(x, cancel(x, t).state, t)
    <2>1. Sound(cancel(x, t).state, t)
      BY <1>8, StoppedSound DEF Served
    <2>2. x.cancel_requested_at = Nil
      BY <1>8 DEF Served, Sound, CancelSound
    <2> QED BY <1>1, <1>4, <1>8, <2>1, <2>2 DEF Follows, Served, InFlight, LiveStatuses
  <1> QED BY <1>1, <1>2, <1>6, <1>7, <1>8

(* A renewal that is due puts the charge of its key in flight, nothing else. *)
LEMMA ChargeStarts ==
    ASSUME NEW x \in SubState, NEW t \in Nat, Served(x, t),
           x.status \in {"active", "grace"}, "Charge" \in renewal_due(x, t).effects
    PROVE  LET y == renewal_due(x, t).state
           IN  /\ y \in SubState /\ Served(y, t)
               /\ x.cancel_requested_at = Nil
               /\ ~x.charge_pending
               /\ y.status = x.status
               /\ y.current_period_start = x.current_period_start
               /\ ChargeKey(y, t) = ChargeKey(x, t)
  <1> DEFINE y == renewal_due(x, t).state
  <1>1. y = [x EXCEPT !.charge_pending = TRUE] /\ x.cancel_requested_at = Nil /\ ~x.charge_pending
    BY DEF renewal_due, NoOp, To
  <1>2. y \in SubState
    BY HandlersTyped
  <1>3. Sound(y, t)
    BY renewal_dueSound DEF Served
  <1> HIDE DEF y
  <1>4. /\ y.status = x.status
        /\ y.current_period_start = x.current_period_start
        /\ y.current_period_end = x.current_period_end
        /\ y.attempt = x.attempt
    BY <1>1 DEF SubState
  <1>5. Served(y, t)
    BY <1>3, <1>4 DEF Served, LiveStatuses
  <1> QED BY <1>1, <1>2, <1>4, <1>5 DEF ChargeKey, y

-----------------------------------------------------------------------------
(* Tables and processes *)

WorkerType == [stage: WorkerStages, key: Keys, seen: Payment]

TxType == [stage: {"idle", "arrived", "read"}, event: Events, seen: Payment]

(* What starts empty is well formed. *)
LEMMA EmptyTyped == NoRow \in Payment /\ IdleWorker \in WorkerType /\ IdleTx \in TxType
  <1>1. NoRow \in Payment
    BY DEF NoRow, Payment, PaymentStatuses
  <1>2. NoKey \in Keys
    BY DEF NoKey, Keys
  <1>3. NoEvent \in Events
    BY <1>2 DEF NoEvent, Events, Kinds
  <1> QED BY <1>1, <1>2, <1>3 DEF IdleWorker, IdleTx, WorkerType, TxType, WorkerStages

(* One worker moves, the others stay where they are. *)
LEMMA WorkerMoves ==
    ASSUME TypeOK, NEW w \in Workers, NEW x \in WorkerType, worker' = [worker EXCEPT ![w] = x]
    PROVE  /\ worker' \in [Workers -> WorkerType]
           /\ worker'[w] = x
           /\ \A v \in Workers \ {w} : worker'[v] = worker[v]
  BY DEF TypeOK, WorkerType

LEMMA TxMoves ==
    ASSUME TypeOK, NEW h \in Handlers, NEW x \in TxType, tx' = [tx EXCEPT ![h] = x]
    PROVE  /\ tx' \in [Handlers -> TxType]
           /\ tx'[h] = x
           /\ \A g \in Handlers \ {h} : tx'[g] = tx[g]
  BY DEF TypeOK, TxType

(* The key of the next charge is a key. *)
LEMMA KeyTyped == ASSUME Inv PROVE ChargeKey(sub, now) \in Keys
  <1>1. sub.current_period_end \in Nat /\ sub.attempt \in Nat
    BY DEF Inv, TypeOK, Served, SubState
  <1>2. sub.current_period_end # Nil
    BY <1>1, PolicyAssumption DEF PolicyAssumption
  <1> QED BY <1>1, <1>2 DEF ChargeKey, idempotency_key, OrElse, Keys

-----------------------------------------------------------------------------
(* Steps of one worker that change nothing else *)

LEMMA WorkerAloneInv ==
    ASSUME Inv, NEW w \in Workers, NEW x \in WorkerType, worker' = [worker EXCEPT ![w] = x],
           UNCHANGED <<sub, now, pay, events, prov, calls, given, tx>>,
           x.stage # "prepared",
           x.stage # "idle" => x.key \in DOMAIN pay,
           x.stage \in {"accepted_read", "refused_read"} => x.seen = pay[x.key]
    PROVE  Inv'
  <1>1. /\ worker' \in [Workers -> WorkerType]
        /\ worker'[w] = x
        /\ \A v \in Workers \ {w} : worker'[v] = worker[v]
    BY WorkerMoves DEF Inv
  <1>2. TypeOK'
    BY <1>1 DEF Inv, TypeOK, WorkerType
  <1>3. Served(sub, now)' /\ OneCallPerKey'
    BY DEF Inv, OneCallPerKey
  <1>4. RowsBehind'
    BY <1>1 DEF Inv, RowsBehind
  <1>5. Uncalled'
    BY <1>1 DEF Inv, Uncalled
  <1>6. AllHonest'
    BY <1>1 DEF Inv, AllHonest, Reading, RowsBehind
  <1>7. FlightKept'
    BY <1>1 DEF Inv, FlightKept, Reading
  <1> QED BY <1>2, <1>3, <1>4, <1>5, <1>6, <1>7 DEF Inv

(* Reading a row, and dying *)
LEMMA ReadInv ==
    ASSUME Inv, NEW w \in Workers, AcceptedRead(w) \/ RefusedRead(w) \/ WorkerCrash(w)
    PROVE  Inv'
  <1>1. worker[w] \in WorkerType
    BY DEF Inv, TypeOK, WorkerType
  <1>2. ASSUME NEW stage \in {"accepted_read", "refused_read"},
               worker[w].stage # "idle",
               worker' = [worker EXCEPT ![w] = [@ EXCEPT !.stage = stage,
                                                         !.seen = pay[worker[w].key]]],
               UNCHANGED <<sub, now, pay, events, prov, calls, given, tx>>
        PROVE  Inv'
    <2> DEFINE x == [worker[w] EXCEPT !.stage = stage, !.seen = pay[worker[w].key]]
    <2>1. worker[w].key \in DOMAIN pay
      BY <1>2 DEF Inv, RowsBehind
    <2>2. pay[worker[w].key] \in Payment
      BY <2>1 DEF Inv, TypeOK
    <2>3. /\ x \in WorkerType
          /\ x.stage = stage /\ x.key = worker[w].key /\ x.seen = pay[x.key]
      BY <1>1, <2>2 DEF WorkerType, WorkerStages
    <2>4. worker' = [worker EXCEPT ![w] = x]
      BY <1>2
    <2> HIDE DEF x
    <2> QED BY <1>2, <2>1, <2>3, <2>4, WorkerAloneInv
  <1>3. CASE AcceptedRead(w)
    BY <1>2, <1>3 DEF AcceptedRead
  <1>4. CASE RefusedRead(w)
    BY <1>2, <1>4 DEF RefusedRead
  <1>5. CASE WorkerCrash(w)
    BY <1>5, EmptyTyped, WorkerAloneInv DEF WorkerCrash, IdleWorker
  <1> QED BY <1>3, <1>4, <1>5

-----------------------------------------------------------------------------
(* The other steps of a worker *)

(* A charge is prepared: its key had no row, so nobody works on it yet. *)
LEMMA PrepareInv ==
    ASSUME Inv, NEW w \in Workers, PrepareCharge(w)
    PROVE  Inv'
  <1> DEFINE k == ChargeKey(sub, now)
             x == [worker[w] EXCEPT !.stage = "prepared", !.key = k]
  <1>1. /\ k \in Keys /\ k \notin DOMAIN pay
        /\ pay' = Inserted(pay, k, NoRow)
        /\ calls' = Inserted(calls, k, 0)
        /\ given' = Inserted(given, k, 0)
        /\ worker' = [worker EXCEPT ![w] = x]
        /\ UNCHANGED <<now, events, prov, tx>>
        /\ worker[w].stage = "idle"
    BY KeyTyped DEF PrepareCharge
  <1>2. /\ sub' \in SubState /\ Served(sub', now)
        /\ sub'.status = sub.status
        /\ ChargeKey(sub', now) = k
    BY ChargeStarts DEF PrepareCharge, Inv, TypeOK
  <1>3. x \in WorkerType /\ x.stage = "prepared" /\ x.key = k
    BY <1>1 DEF Inv, TypeOK, WorkerType, WorkerStages
  <1> HIDE DEF k, x
  <1>4. /\ worker' \in [Workers -> WorkerType]
        /\ worker'[w] = x
        /\ \A v \in Workers \ {w} : worker'[v] = worker[v]
    BY <1>1, <1>3, WorkerMoves DEF Inv
  <1>5. /\ pay' \in [DOMAIN pay \cup {k} -> Payment]
        /\ calls' \in [DOMAIN pay \cup {k} -> Nat]
        /\ given' \in [DOMAIN pay \cup {k} -> Nat]
        /\ DOMAIN pay' = DOMAIN pay \cup {k}
        /\ pay'[k] = NoRow /\ calls'[k] = 0 /\ given'[k] = 0
        /\ \A d \in DOMAIN pay : pay'[d] = pay[d] /\ calls'[d] = calls[d] /\ given'[d] = given[d]
    <2>1. /\ pay \in [DOMAIN pay -> Payment]
          /\ calls \in [DOMAIN pay -> Nat]
          /\ given \in [DOMAIN pay -> Nat]
          /\ NoRow \in Payment /\ 0 \in Nat
      BY EmptyTyped DEF Inv, TypeOK
    <2>2. /\ pay' \in [DOMAIN pay \cup {k} -> Payment]
          /\ DOMAIN pay' = DOMAIN pay \cup {k}
          /\ pay'[k] = NoRow
          /\ \A d \in DOMAIN pay : pay'[d] = pay[d]
      BY <1>1, <2>1 DEF Inserted
    <2>3. /\ calls' \in [DOMAIN pay \cup {k} -> Nat]
          /\ calls'[k] = 0
          /\ \A d \in DOMAIN pay : calls'[d] = calls[d]
      BY <1>1, <2>1 DEF Inserted
    <2>4. /\ given' \in [DOMAIN pay \cup {k} -> Nat]
          /\ given'[k] = 0
          /\ \A d \in DOMAIN pay : given'[d] = given[d]
      BY <1>1, <2>1 DEF Inserted
    <2> QED BY <2>2, <2>3, <2>4
  <1>6. TypeOK'
    BY <1>1, <1>2, <1>4, <1>5 DEF Inv, TypeOK, WorkerType
  <1>7. Served(sub, now)'
    BY <1>1, <1>2
  <1>8. RowsBehind'
    BY <1>1, <1>3, <1>4, <1>5 DEF Inv, RowsBehind
  <1>9. Uncalled'
    <2>1. \A v \in Workers \ {w} :
             worker'[v].stage = "prepared" => worker'[v].key # k /\ worker'[v].key \in DOMAIN pay
      BY <1>1, <1>4 DEF Inv, RowsBehind
    <2> QED BY <1>3, <1>4, <1>5, <2>1 DEF Inv, Uncalled
  <1>10. OneCallPerKey'
    BY <1>5 DEF Inv, TypeOK, OneCallPerKey
  <1>11. AllHonest'
    <2>1. ASSUME NEW d, NEW row, d \in DOMAIN pay, Honest(sub, given[d], row)
          PROVE  Honest(sub', given'[d], row)
      BY <1>2, <1>5, <2>1 DEF Honest
    <2>2. Honest(sub', given'[k], NoRow)
      BY DEF Honest, NoRow
    <2>3. \A d \in DOMAIN pay' : Honest(sub', given'[d], pay'[d])
      BY <1>5, <2>1, <2>2 DEF Inv, AllHonest
    <2>4. \A v \in Workers :
             Reading(v)' => Honest(sub', given'[worker'[v].key], worker'[v].seen)
      BY <1>3, <1>4, <2>1 DEF Inv, AllHonest, RowsBehind, Reading
    <2>5. \A h \in Handlers :
             tx'[h].stage = "read" => Honest(sub', given'[tx'[h].event.key], tx'[h].seen)
      BY <1>1, <2>1 DEF Inv, AllHonest, RowsBehind
    <2> QED BY <2>3, <2>4, <2>5 DEF AllHonest
  <1>12. FlightKept'
    <2>1. \A v \in Workers : ~(Reading(v)' /\ worker'[v].key = k)
      BY <1>1, <1>3, <1>4 DEF Inv, RowsBehind, Reading
    <2> QED BY <1>1, <1>2, <1>5, <2>1 DEF FlightKept, NoRow
  <1> QED BY <1>6, <1>7, <1>8, <1>9, <1>10, <1>11, <1>12 DEF Inv

(* The provider is called: once, since this worker alone was prepared for the
   key and nobody had called it. *)
LEMMA CallInv ==
    ASSUME Inv, NEW w \in Workers, CallProvider(w)
    PROVE  Inv'
  <1> DEFINE k == worker[w].key
  <1>1. PICK taken \in BOOLEAN, answer \in {"accepted", "refused", "unknown"} :
           /\ answer = "accepted" => taken
           /\ prov' = IF taken /\ k \notin DOMAIN prov
                      THEN Inserted(prov, k, [status |-> "processing", since |-> now])
                      ELSE prov
           /\ worker' = [worker EXCEPT ![w] =
                           IF answer = "unknown" THEN IdleWorker ELSE [@ EXCEPT !.stage = answer]]
    BY Zenon DEF CallProvider
  <1>2. /\ worker[w].stage = "prepared"
        /\ calls' = [calls EXCEPT ![k] = @ + 1]
        /\ UNCHANGED <<sub, now, pay, events, given, tx>>
    BY DEF CallProvider
  <1>3. k \in DOMAIN pay /\ calls[k] = 0
    BY <1>2 DEF Inv, RowsBehind, Uncalled
  <1> DEFINE x == IF answer = "unknown" THEN IdleWorker ELSE [worker[w] EXCEPT !.stage = answer]
  <1>4. /\ x \in WorkerType
        /\ x.stage \in {"idle", "accepted", "refused"}
        /\ x.stage # "idle" => x.key = k
    <2>1. CASE answer = "unknown"
      BY <2>1, EmptyTyped DEF IdleWorker
    <2>2. CASE answer # "unknown"
      BY <2>2 DEF Inv, TypeOK, WorkerType, WorkerStages
    <2> QED BY <2>1, <2>2
  <1>5. worker' = [worker EXCEPT ![w] = x]
    BY <1>1
  <1> HIDE DEF x
  <1>6. /\ worker' \in [Workers -> WorkerType]
        /\ worker'[w] = x
        /\ \A v \in Workers \ {w} : worker'[v] = worker[v]
    BY <1>4, <1>5, WorkerMoves DEF Inv
  <1>7. calls' \in [DOMAIN pay -> Nat] /\ \A d \in DOMAIN pay : calls'[d] <= 1
                                         /\ (d # k => calls'[d] = calls[d])
    BY <1>2, <1>3 DEF Inv, TypeOK, OneCallPerKey
  <1>8. DOMAIN prov' \subseteq DOMAIN pay /\ prov' \in [DOMAIN prov' -> ProviderRecord]
    <2>1. CASE prov' = prov
      BY <2>1 DEF Inv, TypeOK
    <2>2. CASE k \notin DOMAIN prov
               /\ prov' = Inserted(prov, k, [status |-> "processing", since |-> now])
      <3>1. [status |-> "processing", since |-> now] \in ProviderRecord
        BY DEF Inv, TypeOK, ProviderRecord
      <3>2. prov \in [DOMAIN prov -> ProviderRecord]
        BY DEF Inv, TypeOK
      <3>3. prov' \in [DOMAIN prov \cup {k} -> ProviderRecord] /\ DOMAIN prov' = DOMAIN prov \cup {k}
        BY <2>2, <3>1, <3>2 DEF Inserted
      <3> QED BY <1>3, <3>3 DEF Inv, TypeOK
    <2> QED BY <1>1, <2>1, <2>2
  <1>9. TypeOK'
    BY <1>2, <1>6, <1>7, <1>8 DEF Inv, TypeOK, WorkerType
  <1>10. Served(sub, now)' /\ OneCallPerKey'
    BY <1>2, <1>7 DEF Inv, OneCallPerKey
  <1>11. RowsBehind'
    BY <1>2, <1>3, <1>4, <1>6 DEF Inv, RowsBehind
  <1>12. Uncalled'
    <2>1. \A v \in Workers \ {w} :
             worker'[v].stage = "prepared" => worker'[v].key \in DOMAIN pay /\ worker'[v].key # k
      BY <1>2, <1>6 DEF Inv, RowsBehind, Uncalled
    <2> QED BY <1>4, <1>6, <1>7, <2>1 DEF Inv, Uncalled
  <1>13. AllHonest'
    BY <1>2, <1>4, <1>6 DEF Inv, AllHonest, Reading
  <1>14. FlightKept'
    BY <1>2, <1>4, <1>6 DEF Inv, FlightKept, Reading
  <1> QED BY <1>9, <1>10, <1>11, <1>12, <1>13, <1>14 DEF Inv

(* The row written back with its reference says what was read: an honest status,
   and `pending' if it is the row of the charge in flight. *)
LEMMA AcceptedWriteInv ==
    ASSUME Inv, NEW w \in Workers, AcceptedWrite(w)
    PROVE  Inv'
  <1> DEFINE k == worker[w].key
             seen == worker[w].seen
             row == [seen EXCEPT !.ref = TRUE]
  <1>1. /\ Reading(w)
        /\ pay' = IF seen.ref THEN pay ELSE [pay EXCEPT ![k] = row]
        /\ worker' = [worker EXCEPT ![w] = IdleWorker]
        /\ UNCHANGED <<sub, now, events, prov, calls, given, tx>>
    BY DEF AcceptedWrite, Reading
  <1>2. k \in DOMAIN pay /\ row \in Payment /\ row.status = seen.status
    BY <1>1 DEF Inv, RowsBehind, Reading, TypeOK, Payment
  <1>3. Honest(sub, given[k], row)
    BY <1>1, <1>2 DEF Inv, AllHonest, Honest
  <1>4. InFlight(sub) /\ k = ChargeKey(sub, now) => row.status = "pending"
    BY <1>1, <1>2 DEF Inv, FlightKept
  <1> HIDE DEF row
  <1>5. /\ worker' \in [Workers -> WorkerType]
        /\ worker'[w] = IdleWorker
        /\ \A v \in Workers \ {w} : worker'[v] = worker[v]
    BY <1>1, EmptyTyped, WorkerMoves DEF Inv
  <1>6. /\ pay' \in [DOMAIN pay -> Payment] /\ DOMAIN pay' = DOMAIN pay
        /\ \A d \in DOMAIN pay : pay'[d] = pay[d] \/ (d = k /\ pay'[d] = row)
    BY <1>1, <1>2 DEF Inv, TypeOK
  <1>7. TypeOK'
    BY <1>1, <1>5, <1>6 DEF Inv, TypeOK, WorkerType
  <1>8. Served(sub, now)' /\ OneCallPerKey'
    BY <1>1 DEF Inv, OneCallPerKey
  <1>9. RowsBehind' /\ Uncalled'
    BY <1>1, <1>5, <1>6 DEF Inv, RowsBehind, Uncalled, IdleWorker
  <1>10. AllHonest'
    BY <1>1, <1>3, <1>5, <1>6 DEF Inv, AllHonest, Reading, IdleWorker
  <1>11. FlightKept'
    BY <1>1, <1>4, <1>5, <1>6 DEF Inv, FlightKept, Reading, IdleWorker
  <1> QED BY <1>7, <1>8, <1>9, <1>10, <1>11 DEF Inv

(* A refused charge: its row fails and the subscription is told, which takes the
   charge out of flight. *)
LEMMA RefusedFollows ==
    ASSUME Inv, NEW w \in Workers, RefusedWrite(w)
    PROVE  Follows(sub, sub', now) /\ (InFlight(sub') => pay' = pay)
  <1>1. CASE UNCHANGED <<pay, sub>>
    BY <1>1, SameFollows DEF Inv, TypeOK
  <1>2. CASE sub.charge_pending /\ sub' = OnPaymentFailed(sub, now).state
    BY <1>2, FailedFollows DEF Inv, TypeOK, Served
  <1>3. CASE ~sub.charge_pending /\ sub' = sub
    BY <1>3, SameFollows DEF Inv, TypeOK, InFlight
  <1> QED BY <1>1, <1>2, <1>3 DEF RefusedWrite

LEMMA RefusedWriteInv ==
    ASSUME Inv, NEW w \in Workers, RefusedWrite(w)
    PROVE  Inv'
  <1> DEFINE k == worker[w].key
             seen == worker[w].seen
             row == [seen EXCEPT !.status = "failed"]
  <1>1. /\ Reading(w)
        /\ worker' = [worker EXCEPT ![w] = IdleWorker]
        /\ UNCHANGED <<now, events, prov, calls, given, tx>>
        /\ \/ UNCHANGED <<pay, sub>>
           \/ /\ pay' = [pay EXCEPT ![k] = row]
              /\ sub' = IF sub.charge_pending THEN OnPaymentFailed(sub, now).state ELSE sub
    BY DEF RefusedWrite, Reading
  <1>2. k \in DOMAIN pay /\ row \in Payment /\ row.status = "failed"
    BY <1>1 DEF Inv, RowsBehind, Reading, TypeOK, Payment, PaymentStatuses
  <1> HIDE DEF row
  <1>3. Follows(sub, sub', now) /\ (InFlight(sub') => pay' = pay)
    BY RefusedFollows
  <1>4. /\ worker' \in [Workers -> WorkerType]
        /\ worker'[w] = IdleWorker
        /\ \A v \in Workers \ {w} : worker'[v] = worker[v]
    BY <1>1, EmptyTyped, WorkerMoves DEF Inv
  <1>5. /\ pay' \in [DOMAIN pay -> Payment] /\ DOMAIN pay' = DOMAIN pay
        /\ \A d \in DOMAIN pay : pay'[d] = pay[d] \/ pay'[d] = row
    BY <1>1, <1>2 DEF Inv, TypeOK
  <1>6. TypeOK'
    BY <1>1, <1>3, <1>4, <1>5 DEF Inv, TypeOK, WorkerType, Follows
  <1>7. Served(sub, now)' /\ OneCallPerKey'
    BY <1>1, <1>3 DEF Inv, OneCallPerKey, Follows
  <1>8. RowsBehind' /\ Uncalled'
    BY <1>1, <1>4, <1>5 DEF Inv, RowsBehind, Uncalled, IdleWorker
  <1>9. AllHonest'
    <2>1. ASSUME NEW n, NEW r, Honest(sub, n, r)
          PROVE  Honest(sub', n, r)
      BY <1>3, <2>1 DEF Honest, Follows
    <2>2. \A n : Honest(sub', n, row)
      BY <1>2 DEF Honest
    <2> QED BY <1>1, <1>4, <1>5, <2>1, <2>2 DEF Inv, AllHonest, Reading, IdleWorker
  <1>10. FlightKept'
    <2> SUFFICES ASSUME InFlight(sub') PROVE FlightKept'
      BY DEF FlightKept
    <2>1. sub' = sub /\ pay' = pay
      BY <1>3 DEF Follows
    <2> QED BY <1>1, <1>4, <2>1 DEF Inv, FlightKept, Reading, IdleWorker
  <1> QED BY <1>6, <1>7, <1>8, <1>9, <1>10 DEF Inv

-----------------------------------------------------------------------------
(* Steps of a handler that change nothing else *)

LEMMA TxAloneInv ==
    ASSUME Inv, NEW h \in Handlers, NEW x \in TxType, tx' = [tx EXCEPT ![h] = x],
           UNCHANGED <<sub, now, pay, events, prov, calls, given, worker>>,
           x.stage # "idle" => x.event.key \in DOMAIN pay,
           x.stage = "read" => x.seen = pay[x.event.key]
    PROVE  Inv'
  <1>1. /\ tx' \in [Handlers -> TxType]
        /\ tx'[h] = x
        /\ \A g \in Handlers \ {h} : tx'[g] = tx[g]
    BY TxMoves DEF Inv
  <1>2. TypeOK'
    BY <1>1 DEF Inv, TypeOK, TxType
  <1>3. Served(sub, now)' /\ OneCallPerKey' /\ Uncalled' /\ FlightKept'
    BY DEF Inv, OneCallPerKey, Uncalled, FlightKept, Reading
  <1>4. RowsBehind'
    BY <1>1 DEF Inv, RowsBehind
  <1>5. AllHonest'
    BY <1>1 DEF Inv, AllHonest, Reading, RowsBehind
  <1> QED BY <1>2, <1>3, <1>4, <1>5 DEF Inv

(* An event of a key whose row exists arrives *)
LEMMA ArriveInv ==
    ASSUME Inv, NEW h \in Handlers, NEW k \in DOMAIN pay, NEW kind \in Kinds, NEW asked \in BOOLEAN,
           tx' = [tx EXCEPT ![h] = [@ EXCEPT !.stage = "arrived",
                                             !.event = [key |-> k, kind |-> kind, asked |-> asked]]],
           UNCHANGED <<sub, now, pay, events, prov, calls, given, worker>>
    PROVE  Inv'
  <1> DEFINE e == [key |-> k, kind |-> kind, asked |-> asked]
             x == [tx[h] EXCEPT !.stage = "arrived", !.event = e]
  <1>1. e \in Events /\ e.key = k
    BY DEF Inv, TypeOK, Events
  <1>2. tx' = [tx EXCEPT ![h] = x]
    OBVIOUS
  <1> HIDE DEF e
  <1>3. x \in TxType /\ x.stage = "arrived" /\ x.event = e
    BY <1>1 DEF Inv, TypeOK, TxType
  <1> HIDE DEF x
  <1> QED BY <1>1, <1>2, <1>3, TxAloneInv

LEMMA WebhookInv ==
    ASSUME Inv, NEW h \in Requests, WebhookArrives(h)
    PROVE  Inv'
  <1>1. PICK k \in DOMAIN prov : \E kind \in Notices(k) :
           tx' = [tx EXCEPT ![h] = [@ EXCEPT !.stage = "arrived",
                                             !.event = [key |-> k, kind |-> kind, asked |-> FALSE]]]
    BY Zenon DEF WebhookArrives
  <1>2. PICK kind \in Notices(k) :
           tx' = [tx EXCEPT ![h] = [@ EXCEPT !.stage = "arrived",
                                             !.event = [key |-> k, kind |-> kind, asked |-> FALSE]]]
    BY <1>1, Zenon
  <1>3. prov[k] \in ProviderRecord
    BY DEF Inv, TypeOK
  <1>4. kind \in Kinds
    BY <1>3 DEF Notices, Kinds, ProviderRecord
  <1>5. k \in DOMAIN pay /\ h \in Handlers /\ FALSE \in BOOLEAN
    BY DEF Inv, TypeOK, Handlers
  <1>6. UNCHANGED <<sub, now, pay, events, prov, calls, given, worker>>
    BY DEF WebhookArrives
  <1> QED BY <1>2, <1>4, <1>5, <1>6, ArriveInv

LEMMA AskInv ==
    ASSUME Inv, NEW k \in DOMAIN pay, AskProvider(k)
    PROVE  Inv'
  <1>1. StatusAnswer(k) \in Kinds
    BY DEF AskProvider, StatusAnswer, Kinds
  <1>2. Reconciler \in Handlers /\ TRUE \in BOOLEAN
    BY DEF Handlers
  <1>3. /\ tx' = [tx EXCEPT ![Reconciler] =
                    [@ EXCEPT !.stage = "arrived",
                              !.event = [key |-> k, kind |-> StatusAnswer(k), asked |-> TRUE]]]
        /\ UNCHANGED <<sub, now, pay, events, prov, calls, given, worker>>
    BY DEF AskProvider
  <1> QED BY <1>1, <1>2, <1>3, ArriveInv

LEMMA BeginInv ==
    ASSUME Inv, NEW h \in Handlers, BeginEvent(h)
    PROVE  Inv'
  <1> DEFINE k == tx[h].event.key
             x == IF tx[h].event \in events THEN IdleTx
                  ELSE [tx[h] EXCEPT !.stage = "read", !.seen = pay[k]]
  <1>1. tx[h].stage = "arrived" /\ k \in DOMAIN pay
    BY DEF BeginEvent, Inv, RowsBehind
  <1>2. pay[k] \in Payment /\ tx[h] \in TxType
    BY <1>1 DEF Inv, TypeOK, TxType
  <1>3. x \in TxType /\ (x.stage # "idle" => x.event = tx[h].event /\ x.seen = pay[k])
    <2>1. CASE tx[h].event \in events
      BY <2>1, EmptyTyped DEF IdleTx
    <2>2. CASE tx[h].event \notin events
      BY <2>2, <1>2 DEF TxType
    <2> QED BY <2>1, <2>2
  <1>4. tx' = [tx EXCEPT ![h] = x]
    BY Zenon DEF BeginEvent
  <1>5. UNCHANGED <<sub, now, pay, events, prov, calls, given, worker>>
    BY DEF BeginEvent
  <1> HIDE DEF x
  <1> QED BY <1>1, <1>3, <1>4, <1>5, TxAloneInv

LEMMA RequestCrashInv ==
    ASSUME Inv, NEW h \in Handlers, RequestCrash(h)
    PROVE  Inv'
  BY EmptyTyped, TxAloneInv DEF RequestCrash, IdleTx

-----------------------------------------------------------------------------
(* A provider's event is committed *)

(* What an event does to the subscription: only a success opens a period, and it
   does unless the row was settled; a refund ends the subscription; a final
   answer takes the charge out of flight. *)
LEMMA MachineFollows ==
    ASSUME Inv, NEW kind \in Kinds, NEW seen \in Payment
    PROVE  LET y == MachineStep(kind, seen)
           IN  /\ Follows(sub, y, now)
               /\ kind # "pending" => ~InFlight(y)
               /\ kind = "pending" => y = sub
               /\ kind # "succeeded" => y.current_period_start = sub.current_period_start
               /\ kind = "refunded" => y.status = "refunded"
               /\ (/\ kind = "succeeded"
                   /\ sub.status \in LiveStatuses
                   /\ sub.charge_pending \/ Settles(kind, seen))
                    => y.current_period_start # sub.current_period_start
               /\ y.current_period_start # sub.current_period_start
                    => kind = "succeeded" /\ (sub.charge_pending \/ Settles(kind, seen))
  <1> DEFINE y == MachineStep(kind, seen)
  <1> SUFFICES /\ Follows(sub, y, now)
               /\ kind # "pending" => ~InFlight(y)
               /\ kind = "pending" => y = sub
               /\ kind # "succeeded" => y.current_period_start = sub.current_period_start
               /\ kind = "refunded" => y.status = "refunded"
               /\ (/\ kind = "succeeded"
                   /\ sub.status \in LiveStatuses
                   /\ sub.charge_pending \/ Settles(kind, seen))
                    => y.current_period_start # sub.current_period_start
               /\ y.current_period_start # sub.current_period_start
                    => kind = "succeeded" /\ (sub.charge_pending \/ Settles(kind, seen))
    OBVIOUS
  <1>1. /\ sub \in SubState /\ now \in Nat /\ Served(sub, now)
        /\ Settles(kind, seen) \in BOOLEAN
        /\ sub.status \in LiveStatuses \cup {"lapsed", "refunded"}
    BY DEF Inv, TypeOK, Served, Settles
  <1>2. CASE kind = "succeeded" /\ sub.status \in LiveStatuses
    <2>1. y = OnPaymentSucceeded(sub, FALSE, Settles(kind, seen), now).state
      BY <1>2 DEF MachineStep, Accepts, LiveStatuses
    <2> HIDE DEF y
    <2> QED BY <1>1, <1>2, <2>1, SucceededFollows
  <1>3. CASE kind = "failed" /\ sub.status \in LiveStatuses
    <2>1. y = OnPaymentFailed(sub, now).state
      BY <1>3 DEF MachineStep, Accepts, LiveStatuses
    <2> HIDE DEF y
    <2> QED BY <1>1, <1>3, <2>1, FailedFollows
  <1>4. CASE kind = "refunded" /\ sub.status # "refunded"
    <2>1. y = refunded(sub).state
      BY <1>1, <1>4 DEF MachineStep, Accepts, LiveStatuses
    <2> HIDE DEF y
    <2>2. ~InFlight(y)
      BY <1>1, <2>1, StoppedFollows DEF InFlight
    <2> QED BY <1>1, <1>4, <2>1, <2>2, StoppedFollows
  <1>5. CASE \/ kind = "pending"
             \/ kind \in {"succeeded", "failed"} /\ sub.status \notin LiveStatuses
             \/ kind = "refunded" /\ sub.status = "refunded"
    <2>1. y = sub
      BY <1>1, <1>5 DEF MachineStep, Accepts, LiveStatuses
    <2>2. kind # "pending" => ~InFlight(sub)
      BY <1>1, <1>5 DEF InFlight, LiveStatuses
    <2> HIDE DEF y
    <2> QED BY <1>1, <1>5, <2>1, <2>2, SameFollows
  <1> QED BY <1>2, <1>3, <1>4, <1>5 DEF Kinds

(* What CommitEvent writes, with names for its parts *)
LEMMA CommitFacts ==
    ASSUME Inv, NEW h \in Handlers, CommitEvent(h)
    PROVE  LET k    == tx[h].event.key
               kind == tx[h].event.kind
               row  == [status |-> kind, ref |-> TRUE]
           IN  /\ tx[h].stage = "read" /\ tx[h].event \in Events
               /\ k \in DOMAIN pay /\ kind \in Kinds /\ row \in Payment /\ tx[h].seen \in Payment
               /\ Honest(sub, given[k], tx[h].seen)
               /\ sub' = MachineStep(kind, tx[h].seen)
               /\ pay' \in [DOMAIN pay -> Payment] /\ DOMAIN pay' = DOMAIN pay
               /\ pay'[k] = row
               /\ \A d \in DOMAIN pay \ {k} : pay'[d] = pay[d]
               /\ given' \in [DOMAIN pay -> Nat]
               /\ \A d \in DOMAIN pay \ {k} : given'[d] = given[d]
               /\ given'[k] = IF sub'.current_period_start # sub.current_period_start
                              THEN given[k] + 1 ELSE given[k]
               /\ tx' \in [Handlers -> TxType]
               /\ tx'[h] = IdleTx
               /\ \A g \in Handlers \ {h} : tx'[g] = tx[g]
               /\ events' = events \cup {tx[h].event}
               /\ UNCHANGED <<now, prov, calls, worker>>
  <1> DEFINE k    == tx[h].event.key
             kind == tx[h].event.kind
             row  == [status |-> kind, ref |-> TRUE]
  <1>1. tx[h].stage = "read" /\ tx[h].event \in Events /\ tx[h].seen \in Payment
    BY DEF CommitEvent, Inv, TypeOK
  <1>2. k \in DOMAIN pay /\ kind \in Kinds /\ Honest(sub, given[k], tx[h].seen)
    BY <1>1 DEF Inv, RowsBehind, AllHonest, Events
  <1>3. row \in Payment
    BY <1>2 DEF Payment, PaymentStatuses, Kinds
  <1>4. /\ sub' = MachineStep(kind, tx[h].seen)
        /\ pay' = [pay EXCEPT ![k] = row]
        /\ given' = IF sub'.current_period_start # sub.current_period_start
                    THEN [given EXCEPT ![k] = @ + 1] ELSE given
        /\ tx' = [tx EXCEPT ![h] = IdleTx]
        /\ events' = events \cup {tx[h].event}
        /\ UNCHANGED <<now, prov, calls, worker>>
    BY DEF CommitEvent
  <1> HIDE DEF row, kind, k
  <1>5. /\ pay' \in [DOMAIN pay -> Payment] /\ DOMAIN pay' = DOMAIN pay
        /\ pay'[k] = row
        /\ \A d \in DOMAIN pay \ {k} : pay'[d] = pay[d]
    BY <1>2, <1>3, <1>4 DEF Inv, TypeOK
  <1>6. /\ given' \in [DOMAIN pay -> Nat]
        /\ \A d \in DOMAIN pay \ {k} : given'[d] = given[d]
        /\ given'[k] = IF sub'.current_period_start # sub.current_period_start
                       THEN given[k] + 1 ELSE given[k]
    BY <1>2, <1>4 DEF Inv, TypeOK
  <1>7. /\ tx' \in [Handlers -> TxType]
        /\ tx'[h] = IdleTx
        /\ \A g \in Handlers \ {h} : tx'[g] = tx[g]
    BY <1>4, EmptyTyped, TxMoves DEF Inv
  <1> QED BY <1>1, <1>2, <1>3, <1>4, <1>5, <1>6, <1>7 DEF k, kind, row

LEMMA CommitInv ==
    ASSUME Inv, NEW h \in Handlers, CommitEvent(h)
    PROVE  Inv'
  <1> DEFINE k    == tx[h].event.key
             kind == tx[h].event.kind
             seen == tx[h].seen
             row  == [status |-> kind, ref |-> TRUE]
  <1>1. /\ tx[h].stage = "read" /\ tx[h].event \in Events
        /\ k \in DOMAIN pay /\ kind \in Kinds /\ row \in Payment /\ seen \in Payment
        /\ Honest(sub, given[k], seen)
        /\ sub' = MachineStep(kind, seen)
        /\ events' = events \cup {tx[h].event}
        /\ UNCHANGED <<now, prov, calls, worker>>
    BY CommitFacts
  <1>2. /\ pay' \in [DOMAIN pay -> Payment] /\ DOMAIN pay' = DOMAIN pay
        /\ pay'[k] = row
        /\ \A d \in DOMAIN pay \ {k} : pay'[d] = pay[d]
    BY CommitFacts
  <1>3. /\ given' \in [DOMAIN pay -> Nat]
        /\ \A d \in DOMAIN pay \ {k} : given'[d] = given[d]
        /\ given'[k] = IF sub'.current_period_start # sub.current_period_start
                       THEN given[k] + 1 ELSE given[k]
    BY CommitFacts
  <1>4. /\ tx' \in [Handlers -> TxType]
        /\ tx'[h] = IdleTx
        /\ \A g \in Handlers \ {h} : tx'[g] = tx[g]
    BY CommitFacts
  <1>5. /\ Follows(sub, sub', now)
        /\ kind # "pending" => ~InFlight(sub')
        /\ kind = "refunded" => sub'.status = "refunded"
        /\ (/\ kind = "succeeded"
            /\ sub.status \in LiveStatuses
            /\ sub.charge_pending \/ Settles(kind, seen))
             => sub'.current_period_start # sub.current_period_start
    BY <1>1, MachineFollows
  <1>6. row.status = kind
    OBVIOUS
  <1>7. given[k] \in Nat /\ given \in [DOMAIN pay -> Nat]
    BY <1>1 DEF Inv, TypeOK
  <1> HIDE DEF k, kind, seen, row
  <1>8. TypeOK'
    BY <1>1, <1>2, <1>3, <1>4, <1>5 DEF Inv, TypeOK, TxType, Follows
  <1>9. Served(sub, now)' /\ OneCallPerKey' /\ Uncalled'
    BY <1>1, <1>5 DEF Inv, OneCallPerKey, Uncalled, Follows
  <1>10. RowsBehind'
    BY <1>1, <1>2, <1>4 DEF Inv, RowsBehind, IdleTx
  <1>11. Honest(sub', given'[k], row)
    <2> SUFFICES ASSUME kind = "succeeded", sub'.status \notin {"lapsed", "refunded"}
                 PROVE  given'[k] >= 1
      BY <1>5, <1>6 DEF Honest
    <2>1. sub.status \in LiveStatuses
      BY <1>5 DEF Inv, Served, Follows
    <2>2. CASE sub.charge_pending \/ Settles(kind, seen)
      BY <2>1, <2>2, <1>3, <1>5, <1>7
    <2>3. CASE ~Settles(kind, seen)
      <3>1. seen.status \in {"succeeded", "refunded"}
        BY <2>3, <1>1 DEF Settles, Payment, PaymentStatuses
      <3>2. given[k] >= 1
        BY <3>1, <2>1, <1>1 DEF Honest, LiveStatuses
      <3> QED BY <3>2, <1>3, <1>7
    <2> QED BY <2>2, <2>3
  <1>12. AllHonest'
    <2>1. ASSUME NEW d \in DOMAIN pay, NEW r, Honest(sub, given[d], r)
          PROVE  Honest(sub', given'[d], r)
      <3>1. given[d] \in Nat /\ given'[d] \in Nat /\ given'[d] >= given[d]
        BY <1>3, <1>7
      <3> QED BY <1>5, <2>1, <3>1 DEF Honest, Follows
    <2>2. \A d \in DOMAIN pay' : Honest(sub', given'[d], pay'[d])
      BY <1>2, <1>11, <2>1 DEF Inv, AllHonest
    <2>3. \A v \in Workers :
             Reading(v)' => Honest(sub', given'[worker'[v].key], worker'[v].seen)
      BY <1>1, <2>1 DEF Inv, AllHonest, RowsBehind, Reading
    <2>4. \A g \in Handlers :
             tx'[g].stage = "read" => Honest(sub', given'[tx'[g].event.key], tx'[g].seen)
      BY <1>4, <2>1 DEF Inv, AllHonest, RowsBehind, IdleTx
    <2> QED BY <2>2, <2>3, <2>4 DEF AllHonest
  <1>13. FlightKept'
    <2> SUFFICES ASSUME InFlight(sub') PROVE FlightKept'
      BY DEF FlightKept
    <2>1. sub' = sub /\ row.status = "pending"
      BY <1>5, <1>6 DEF Follows
    <2> QED BY <1>1, <1>2, <2>1 DEF Inv, FlightKept, Reading
  <1> QED BY <1>8, <1>9, <1>10, <1>12, <1>13 DEF Inv

-----------------------------------------------------------------------------
(* Cancels, expiries, the provider and the clock *)

(* The subscription alone goes on or ends *)
LEMMA SubAloneInv ==
    ASSUME Inv, Follows(sub, sub', now),
           UNCHANGED <<now, pay, events, prov, calls, given, worker, tx>>
    PROVE  Inv'
  <1>1. TypeOK' /\ Served(sub, now)' /\ RowsBehind' /\ Uncalled' /\ OneCallPerKey'
    BY DEF Inv, TypeOK, RowsBehind, Uncalled, OneCallPerKey, Follows
  <1>2. AllHonest'
    <2>1. ASSUME NEW n, NEW r, Honest(sub, n, r)
          PROVE  Honest(sub', n, r)
      BY <2>1 DEF Honest, Follows
    <2> QED BY <2>1 DEF Inv, AllHonest, Reading
  <1>3. FlightKept'
    <2> SUFFICES ASSUME InFlight(sub') PROVE FlightKept'
      BY DEF FlightKept
    <2> QED BY DEF Follows, Inv, FlightKept, Reading
  <1> QED BY <1>1, <1>2, <1>3 DEF Inv

LEMMA CancelFollows == ASSUME Inv, Cancel PROVE Follows(sub, sub', now)
  BY StoppedFollows DEF Cancel, Inv, TypeOK

LEMMA ExpireFollows == ASSUME Inv, Expire PROVE Follows(sub, sub', now)
  <1>1. sub \in SubState /\ now \in Nat /\ Served(sub, now)
    BY DEF Inv, TypeOK
  <1> QED BY <1>1, SameFollows, StoppedFollows
          DEF Expire, grace_expired, period_ended, NoOp, To

(* The provider decides, or refunds, what it took *)
LEMMA ProviderInv ==
    ASSUME Inv, NEW k \in DOMAIN prov, ProviderDecides(k) \/ ProviderRefunds(k)
    PROVE  Inv'
  <1>1. PICK status \in {"paid", "declined", "refunded"} :
           prov' = [prov EXCEPT ![k] = [status |-> status, since |-> now]]
    BY DEF ProviderDecides, ProviderRefunds
  <1>2. UNCHANGED <<sub, now, pay, events, calls, given, worker, tx>>
    BY DEF ProviderDecides, ProviderRefunds
  <1>3. [status |-> status, since |-> now] \in ProviderRecord
    BY DEF Inv, TypeOK, ProviderRecord
  <1>4. DOMAIN prov' = DOMAIN prov /\ prov' \in [DOMAIN prov -> ProviderRecord]
    BY <1>1, <1>3 DEF Inv, TypeOK
  <1>5. TypeOK'
    BY <1>2, <1>4 DEF Inv, TypeOK
  <1> QED BY <1>2, <1>5
          DEF Inv, RowsBehind, Uncalled, OneCallPerKey, AllHonest, FlightKept, Reading

(* The clock moves while nobody works. *)
LEMMA TickInv == ASSUME Inv, Tick PROVE Inv'
  <1>1. now' = now + 1 /\ UNCHANGED <<sub, pay, events, prov, calls, given, worker, tx>>
    BY DEF Tick
  <1>2. TypeOK'
    BY <1>1 DEF Inv, TypeOK
  <1>3. Served(sub, now)'
    BY <1>1, SoundLater DEF Inv, TypeOK, Served
  <1>4. ChargeKey(sub, now)' = ChargeKey(sub, now)
    <2>1. sub.current_period_end # Nil
      BY PolicyAssumption DEF Inv, Served, PolicyAssumption
    <2> QED BY <1>1, <2>1 DEF ChargeKey, OrElse
  <1>5. FlightKept'
    BY <1>1, <1>4 DEF Inv, FlightKept, Reading
  <1> QED BY <1>1, <1>2, <1>3, <1>5
          DEF Inv, RowsBehind, Uncalled, OneCallPerKey, AllHonest, Reading

-----------------------------------------------------------------------------
(* Theorems *)

(* A subscription whose checkout was paid, and no charge yet *)
LEMMA InitInv == Init => Inv
  <1> SUFFICES ASSUME Init PROVE Inv
    OBVIOUS
  <1>1. sub \in SubState /\ Served(sub, now) /\ ~sub.charge_pending /\ now = 0
    BY FirstServed DEF Init
  <1>2. DOMAIN pay = {} /\ DOMAIN prov = {} /\ DOMAIN calls = {} /\ DOMAIN given = {}
    BY DEF Init
  <1>3. /\ worker \in [Workers -> WorkerType] /\ \A w \in Workers : worker[w] = IdleWorker
        /\ tx \in [Handlers -> TxType] /\ \A h \in Handlers : tx[h] = IdleTx
    BY EmptyTyped DEF Init
  <1>4. /\ pay \in [DOMAIN pay -> Payment] /\ prov \in [DOMAIN prov -> ProviderRecord]
        /\ calls \in [DOMAIN pay -> Nat] /\ given \in [DOMAIN pay -> Nat]
    BY <1>2 DEF Init
  <1>5. TypeOK
    BY <1>1, <1>2, <1>3, <1>4 DEF Init, TypeOK, WorkerType, TxType
  <1> QED BY <1>1, <1>2, <1>3, <1>5
          DEF Inv, RowsBehind, Uncalled, OneCallPerKey, AllHonest, FlightKept, InFlight,
              Reading, IdleWorker, IdleTx

(* Every step keeps the invariant. *)
LEMMA StepInv == ASSUME Inv, [Next]_vars PROVE Inv'
  <1>1. ASSUME NEW w \in Workers, WorkerStep(w) \/ WorkerCrash(w) PROVE Inv'
    BY <1>1, PrepareInv, CallInv, ReadInv, AcceptedWriteInv, RefusedWriteInv DEF WorkerStep
  <1>2. ASSUME NEW h \in Requests, WebhookArrives(h) PROVE Inv'
    BY <1>2, WebhookInv
  <1>3. ASSUME NEW k \in DOMAIN pay, AskProvider(k) PROVE Inv'
    BY <1>3, AskInv
  <1>4. ASSUME NEW h \in Handlers, BeginEvent(h) \/ CommitEvent(h) \/ RequestCrash(h) PROVE Inv'
    BY <1>4, BeginInv, CommitInv, RequestCrashInv
  <1>5. ASSUME NEW k \in DOMAIN prov, ProviderDecides(k) \/ ProviderRefunds(k) PROVE Inv'
    BY <1>5, ProviderInv
  <1>6. CASE Cancel \/ Expire
    BY <1>6, CancelFollows, ExpireFollows, SubAloneInv DEF Cancel, Expire
  <1>7. CASE Tick
    BY <1>7, TickInv
  <1>8. CASE UNCHANGED vars
    BY <1>8 DEF vars, Inv, TypeOK, RowsBehind, Uncalled, OneCallPerKey, AllHonest, FlightKept,
                Reading
  <1> QED BY <1>1, <1>2, <1>3, <1>4, <1>5, <1>6, <1>7, <1>8 DEF Next

(* The invariant holds throughout, with either store and either provider. *)
THEOREM Inductive == Spec => []Inv
  BY InitInv, StepInv, PTL DEF Spec

(* The types of the rows, the provider's records and the processes *)
THEOREM TypeCorrect == Spec => []TypeOK
  <1>1. Inv => TypeOK
    BY DEF Inv
  <1> QED BY <1>1, Inductive, PTL

(* The provider is called at most once with an idempotency key, whatever passes
   overlap, crash or run again (docs/BILLING.md: "a scheduler pass that runs
   twice cannot charge twice"). *)
THEOREM CalledOnce == Spec => []OneCallPerKey
  <1>1. Inv => OneCallPerKey
    BY DEF Inv
  <1> QED BY <1>1, Inductive, PTL

(* While charge_pending holds the machine back, the row of its key is pending,
   so the reconciler will find it. *)
THEOREM FlightHasItsRow == Spec => []ChargeInFlightHasItsRow
  <1>1. Inv => ChargeInFlightHasItsRow
    BY DEF Inv, FlightKept, InFlight, ChargeInFlightHasItsRow
  <1> QED BY <1>1, Inductive, PTL

(* Money recorded as taken opened a period, unless the subscription was over:
   also when the success was read against a row that changed since. *)
THEOREM PaidServed == Spec => []PaidIsServedWhileLive
  <1>1. Inv => PaidIsServedWhileLive
    BY DEF Inv, AllHonest, Honest, PaidIsServedWhileLive
  <1> QED BY <1>1, Inductive, PTL

(* After a cancel no step inserts a charge row or takes the cancel back. *)
LEMMA CancelStays ==
    ASSUME Inv, [Next]_vars, sub.cancel_requested_at # Nil
    PROVE  DOMAIN pay' = DOMAIN pay /\ sub'.cancel_requested_at = sub.cancel_requested_at
  <1>1. ASSUME NEW w \in Workers, PrepareCharge(w) PROVE FALSE
    BY <1>1, ChargeStarts DEF PrepareCharge, Inv, TypeOK
  <1>2. ASSUME NEW w \in Workers, RefusedWrite(w)
        PROVE  DOMAIN pay' = DOMAIN pay /\ sub'.cancel_requested_at = sub.cancel_requested_at
    BY <1>2, RefusedFollows DEF RefusedWrite, Follows
  <1>3. ASSUME NEW w \in Workers, AcceptedWrite(w)
        PROVE  DOMAIN pay' = DOMAIN pay /\ sub'.cancel_requested_at = sub.cancel_requested_at
    BY <1>3 DEF AcceptedWrite
  <1>4. ASSUME NEW h \in Handlers, CommitEvent(h)
        PROVE  DOMAIN pay' = DOMAIN pay /\ sub'.cancel_requested_at = sub.cancel_requested_at
    <2>1. /\ DOMAIN pay' = DOMAIN pay
          /\ sub' = MachineStep(tx[h].event.kind, tx[h].seen)
          /\ tx[h].event.kind \in Kinds /\ tx[h].seen \in Payment
      BY <1>4, CommitFacts
    <2>2. Follows(sub, sub', now)
      BY <2>1, MachineFollows
    <2> QED BY <2>1, <2>2 DEF Follows
  <1>5. CASE Cancel \/ Expire
    <2>1. Follows(sub, sub', now) /\ pay' = pay
      BY <1>5, CancelFollows, ExpireFollows DEF Cancel, Expire
    <2> QED BY <2>1 DEF Follows
  <1>6. CASE UNCHANGED <<sub, pay>>
    BY <1>6
  <1>7. ASSUME NEW w \in Workers,
               \/ CallProvider(w) \/ AcceptedRead(w) \/ RefusedRead(w) \/ WorkerCrash(w)
        PROVE  UNCHANGED <<sub, pay>>
    BY <1>7 DEF CallProvider, AcceptedRead, RefusedRead, WorkerCrash
  <1>8. ASSUME NEW h, WebhookArrives(h) \/ BeginEvent(h) \/ RequestCrash(h)
        PROVE  UNCHANGED <<sub, pay>>
    BY <1>8 DEF WebhookArrives, BeginEvent, RequestCrash
  <1>9. ASSUME NEW k, AskProvider(k) \/ ProviderDecides(k) \/ ProviderRefunds(k)
        PROVE  UNCHANGED <<sub, pay>>
    BY <1>9 DEF AskProvider, ProviderDecides, ProviderRefunds
  <1> QED BY <1>1, <1>2, <1>3, <1>4, <1>5, <1>6, <1>7, <1>8, <1>9
          DEF Next, WorkerStep, Tick, vars

(* After a cancel no charge row is ever prepared, and nothing undoes the cancel:
   no late success, refusal, refund or lapse (service/cancel.py). *)
THEOREM CancelStops == Spec => NothingPreparedAfterCancel
  <1>1. Inv /\ [Next]_vars =>
           [sub.cancel_requested_at # Nil =>
              /\ DOMAIN pay' = DOMAIN pay
              /\ sub'.cancel_requested_at = sub.cancel_requested_at]_vars
    BY CancelStays
  <1> QED BY <1>1, Inductive, PTL DEF Spec, NothingPreparedAfterCancel
-----------------------------------------------------------------------------
(* One transaction at a time: a payment's own row settles once *)

Serial == Store = "memory" /\ PendingNotices = FALSE

NobodyReads ==
    /\ \A w \in Workers : ~Reading(w)
    /\ \A h \in Handlers : tx[h].stage # "read"

(* A transaction begins when no other is under way. *)
LEMMA BeginsAlone ==
    ASSUME Serial, CanBegin
    PROVE  NobodyReads
  BY DEF Serial, CanBegin, NobodyReads, Reading

LEMMA NobodySerialised ==
    ASSUME NobodyReads'
    PROVE  Serialised'
  BY DEF NobodyReads, Serialised, Reading

(* Transactions stay one at a time, each with what is stored. *)
LEMMA SerialisedStep ==
    ASSUME SerialInv, Serial, [Next]_vars
    PROVE  Serialised'
  <1> USE DEF SerialInv
  <1>0. /\ worker \in [Workers -> WorkerType]
        /\ tx \in [Handlers -> TxType]
    BY DEF Inv, TypeOK, WorkerType, TxType
  <1>1. ASSUME NEW w \in Workers, PrepareCharge(w)
        PROVE  Serialised'
    <2>1. NobodyReads
      BY <1>1, BeginsAlone DEF PrepareCharge
    <2>2. /\ worker' = [worker EXCEPT ![w] = [@ EXCEPT !.stage = "prepared",
                                                       !.key = ChargeKey(sub, now)]]
          /\ tx' = tx
      BY <1>1 DEF PrepareCharge
    <2>3. worker'[w].stage = "prepared" /\ \A v \in Workers \ {w} : worker'[v] = worker[v]
      BY <1>0, <2>2 DEF WorkerType
    <2> QED BY <2>1, <2>2, <2>3, NobodySerialised DEF NobodyReads, Reading
  <1>2. ASSUME NEW w \in Workers, AcceptedRead(w) \/ RefusedRead(w)
        PROVE  Serialised'
    <2>1. NobodyReads
      BY <1>2, BeginsAlone DEF AcceptedRead, RefusedRead
    <2>2. /\ UNCHANGED <<pay, tx>>
          /\ worker'[w].key = worker[w].key /\ worker'[w].seen = pay[worker[w].key]
          /\ \A v \in Workers \ {w} : worker'[v] = worker[v]
      <3>1. CASE AcceptedRead(w)
        BY <1>0, <3>1 DEF AcceptedRead, WorkerType
      <3>2. CASE RefusedRead(w)
        BY <1>0, <3>2 DEF RefusedRead, WorkerType
      <3> QED BY <1>2, <3>1, <3>2
    <2> QED BY <2>1, <2>2 DEF NobodyReads, Serialised, Reading
  <1>3. ASSUME NEW w \in Workers, CallProvider(w) \/ WorkerCrash(w)
        PROVE  Serialised'
    <2>1. UNCHANGED <<pay, tx>>
      BY <1>3 DEF CallProvider, WorkerCrash
    <2>2. ~Reading(w)' /\ \A v \in Workers \ {w} : worker'[v] = worker[v]
      <3>1. CASE CallProvider(w)
        BY <1>0, <3>1 DEF CallProvider, Reading, IdleWorker, WorkerType
      <3>2. CASE WorkerCrash(w)
        BY <1>0, <3>2 DEF WorkerCrash, Reading, IdleWorker
      <3> QED BY <1>3, <3>1, <3>2
    <2> QED BY <2>1, <2>2 DEF Serialised, Reading
  <1>4. ASSUME NEW w \in Workers, AcceptedWrite(w) \/ RefusedWrite(w)
        PROVE  Serialised'
    <2>1. Reading(w) /\ tx' = tx /\ worker' = [worker EXCEPT ![w] = IdleWorker]
      BY <1>4 DEF AcceptedWrite, RefusedWrite, Reading
    <2>2. NobodyReads'
      BY <1>0, <2>1 DEF Serialised, NobodyReads, Reading, IdleWorker
    <2> QED BY <2>2, NobodySerialised
  <1>5. ASSUME NEW h \in Handlers, BeginEvent(h)
        PROVE  Serialised'
    <2>1. NobodyReads
      BY <1>5, BeginsAlone DEF BeginEvent
    <2>2. /\ UNCHANGED <<pay, worker>>
          /\ tx'[h].stage = "read" =>
                tx'[h].event = tx[h].event /\ tx'[h].seen = pay[tx[h].event.key]
          /\ \A g \in Handlers \ {h} : tx'[g] = tx[g]
      BY <1>0, <1>5 DEF BeginEvent, TxType, IdleTx
    <2> QED BY <2>1, <2>2 DEF NobodyReads, Serialised, Reading
  <1>6. ASSUME NEW h \in Handlers, CommitEvent(h)
        PROVE  Serialised'
    <2>1. tx[h].stage = "read" /\ worker' = worker /\ tx' = [tx EXCEPT ![h] = IdleTx]
      BY <1>6 DEF CommitEvent
    <2>2. NobodyReads'
      BY <1>0, <2>1 DEF Serialised, NobodyReads, Reading, IdleTx
    <2> QED BY <2>2, NobodySerialised
  <1>7. ASSUME NEW h \in Handlers,
               UNCHANGED <<pay, worker>>,
               tx'[h].stage # "read",
               \A g \in Handlers \ {h} : tx'[g] = tx[g]
        PROVE  Serialised'
    BY <1>7 DEF Serialised, Reading
  <1>8. ASSUME NEW h \in Requests, WebhookArrives(h)
        PROVE  Serialised'
    <2>1. h \in Handlers
      BY DEF Handlers
    <2>2. UNCHANGED <<pay, worker>> /\ tx'[h].stage # "read"
          /\ \A g \in Handlers \ {h} : tx'[g] = tx[g]
      BY <1>0, <1>8, <2>1 DEF WebhookArrives, TxType
    <2> QED BY <1>7, <2>1, <2>2
  <1>9. ASSUME NEW k \in DOMAIN pay, AskProvider(k)
        PROVE  Serialised'
    <2>1. Reconciler \in Handlers
      BY DEF Handlers
    <2>2. UNCHANGED <<pay, worker>> /\ tx'[Reconciler].stage # "read"
          /\ \A g \in Handlers \ {Reconciler} : tx'[g] = tx[g]
      BY <1>0, <1>9, <2>1 DEF AskProvider, TxType
    <2> QED BY <1>7, <2>1, <2>2
  <1>10. ASSUME NEW h \in Handlers, RequestCrash(h)
         PROVE  Serialised'
    <2>1. UNCHANGED <<pay, worker>> /\ tx'[h].stage # "read"
          /\ \A g \in Handlers \ {h} : tx'[g] = tx[g]
      BY <1>0, <1>10 DEF RequestCrash, IdleTx
    <2> QED BY <1>7, <2>1
  <1>11. CASE UNCHANGED <<pay, worker, tx>>
    BY <1>11 DEF Serialised, Reading
  <1>12. ASSUME NEW k \in DOMAIN prov, ProviderDecides(k) \/ ProviderRefunds(k)
         PROVE  UNCHANGED <<pay, worker, tx>>
    BY <1>12 DEF ProviderDecides, ProviderRefunds
  <1>13. Cancel \/ Expire \/ Tick \/ UNCHANGED vars => UNCHANGED <<pay, worker, tx>>
    BY DEF Cancel, Expire, Tick, vars
  <1> QED BY <1>1, <1>2, <1>3, <1>4, <1>5, <1>6, <1>8, <1>9, <1>10, <1>11, <1>12, <1>13
          DEF Next, WorkerStep

(* What is said of a key stays true: decisions are final. *)
LEMMA TrueEventsStep ==
    ASSUME SerialInv, Serial, [Next]_vars
    PROVE  TrueEvents'
  <1> USE DEF SerialInv
  <1>0. /\ tx \in [Handlers -> TxType]
        /\ prov \in [DOMAIN prov -> ProviderRecord]
    BY DEF Inv, TypeOK, TxType
  <1>1. ASSUME NEW h \in Handlers,
               prov' = prov,
               \A g \in Handlers \ {h} : tx'[g] = tx[g],
               tx'[h].stage # "idle" => tx[h].stage # "idle" /\ tx'[h].event = tx[h].event
        PROVE  TrueEvents'
    BY <1>1 DEF TrueEvents, Taken
  <1>2. ASSUME NEW h \in Handlers, BeginEvent(h) \/ CommitEvent(h) \/ RequestCrash(h)
        PROVE  TrueEvents'
    <2>1. prov' = prov /\ \A g \in Handlers \ {h} : tx'[g] = tx[g]
      BY <1>0, <1>2 DEF BeginEvent, CommitEvent, RequestCrash
    <2>2. tx'[h].stage # "idle" => tx[h].stage # "idle" /\ tx'[h].event = tx[h].event
      <3>1. CASE BeginEvent(h)
        BY <1>0, <3>1 DEF BeginEvent, TxType, IdleTx
      <3>2. CASE CommitEvent(h) \/ RequestCrash(h)
        BY <1>0, <3>2 DEF CommitEvent, RequestCrash, IdleTx
      <3> QED BY <1>2, <3>1, <3>2
    <2> QED BY <1>1, <2>1, <2>2
  <1>3. ASSUME NEW h \in Handlers, NEW k \in DOMAIN prov, NEW kind, NEW asked,
               tx' = [tx EXCEPT ![h] = [@ EXCEPT !.stage = "arrived",
                                                 !.event = [key |-> k, kind |-> kind,
                                                            asked |-> asked]]],
               prov' = prov,
               kind # "pending",
               kind = "failed" => prov[k].status = "declined",
               kind \in {"succeeded", "refunded"} => Taken(k)
        PROVE  TrueEvents'
    <2>1. tx'[h].event.key = k /\ tx'[h].event.kind = kind
      BY <1>0, <1>3 DEF TxType
    <2>2. \A g \in Handlers \ {h} : tx'[g] = tx[g]
      BY <1>0, <1>3
    <2> QED BY <1>3, <2>1, <2>2 DEF TrueEvents, Taken
  <1>4. ASSUME NEW h \in Requests, WebhookArrives(h)
        PROVE  TrueEvents'
    <2>1. PICK k \in DOMAIN prov : \E kind \in Notices(k) :
             tx' = [tx EXCEPT ![h] = [@ EXCEPT !.stage = "arrived",
                                               !.event = [key |-> k, kind |-> kind, asked |-> FALSE]]]
      BY <1>4, Zenon DEF WebhookArrives
    <2>2. PICK kind \in Notices(k) :
             tx' = [tx EXCEPT ![h] = [@ EXCEPT !.stage = "arrived",
                                               !.event = [key |-> k, kind |-> kind, asked |-> FALSE]]]
      BY <2>1, Zenon
    <2>3. h \in Handlers /\ prov' = prov /\ prov[k] \in ProviderRecord
      BY <1>0, <1>4 DEF Handlers, WebhookArrives
    <2>4. /\ kind # "pending"
          /\ kind = "failed" => prov[k].status = "declined"
          /\ kind \in {"succeeded", "refunded"} => Taken(k)
      BY <2>3 DEF Notices, Serial, ProviderRecord, Taken
    <2> QED BY <1>3, <2>2, <2>3, <2>4
  <1>5. ASSUME NEW k \in DOMAIN pay, AskProvider(k)
        PROVE  TrueEvents'
    <2>1. /\ Reconciler \in Handlers
          /\ prov' = prov
          /\ tx' = [tx EXCEPT ![Reconciler] =
                      [@ EXCEPT !.stage = "arrived",
                                !.event = [key |-> k, kind |-> StatusAnswer(k), asked |-> TRUE]]]
          /\ StatusAnswer(k) # "none"
      BY <1>5 DEF Handlers, AskProvider
    <2>2. /\ k \in DOMAIN prov
          /\ StatusAnswer(k) # "pending"
          /\ StatusAnswer(k) = "failed" => prov[k].status = "declined"
          /\ StatusAnswer(k) \in {"succeeded", "refunded"} => Taken(k)
      <3>1. k \in DOMAIN prov
        BY <2>1 DEF StatusAnswer
      <3>2. CASE prov[k].status = "declined"
        <4>1. StatusAnswer(k) = "failed"
          BY <3>1, <3>2 DEF StatusAnswer
        <4> QED BY <3>1, <3>2, <4>1
      <3>3. CASE prov[k].status = "paid" \/ (prov[k].status = "refunded" /\ Provider = "fake")
        <4>1. StatusAnswer(k) = "succeeded"
          BY <3>1, <3>3 DEF StatusAnswer
        <4> QED BY <3>1, <3>3, <4>1 DEF Taken
      <3>4. CASE prov[k].status # "declined" /\ prov[k].status # "paid"
                 /\ ~(prov[k].status = "refunded" /\ Provider = "fake")
        BY <2>1, <3>1, <3>4 DEF StatusAnswer
      <3> QED BY <3>2, <3>3, <3>4
    <2> QED BY <1>3, <2>1, <2>2
  <1>6. ASSUME tx' = tx,
               \A k \in DOMAIN prov :
                  /\ k \in DOMAIN prov'
                  /\ prov[k].status = "declined" => prov'[k].status = "declined"
                  /\ prov[k].status \in {"paid", "refunded"}
                       => prov'[k].status \in {"paid", "refunded"}
        PROVE  TrueEvents'
    BY <1>6 DEF TrueEvents, Taken
  <1>7. ASSUME NEW w \in Workers, CallProvider(w)
        PROVE  TrueEvents'
    <2>1. tx' = tx /\ \A k \in DOMAIN prov : k \in DOMAIN prov' /\ prov'[k] = prov[k]
      BY <1>7 DEF CallProvider, Inserted
    <2> QED BY <1>6, <2>1
  <1>8. ASSUME NEW k \in DOMAIN prov, ProviderDecides(k) \/ ProviderRefunds(k)
        PROVE  TrueEvents'
    <2>1. tx' = tx
      BY <1>8 DEF ProviderDecides, ProviderRefunds
    <2>2. CASE ProviderDecides(k)
      <3>1. /\ DOMAIN prov' = DOMAIN prov
            /\ prov[k].status = "processing"
            /\ \A d \in DOMAIN prov \ {k} : prov'[d] = prov[d]
        BY <2>2 DEF ProviderDecides
      <3> QED BY <1>6, <2>1, <3>1
    <2>3. CASE ProviderRefunds(k)
      <3>1. /\ DOMAIN prov' = DOMAIN prov
            /\ prov[k].status = "paid"
            /\ prov'[k].status = "refunded"
            /\ \A d \in DOMAIN prov \ {k} : prov'[d] = prov[d]
        BY <2>3 DEF ProviderRefunds
      <3> QED BY <1>6, <2>1, <3>1
    <2> QED BY <1>8, <2>2, <2>3
  <1>9. CASE UNCHANGED <<prov, tx>>
    BY <1>9 DEF TrueEvents, Taken
  <1>10. ASSUME NEW w \in Workers,
                \/ PrepareCharge(w) \/ AcceptedRead(w) \/ AcceptedWrite(w)
                \/ RefusedRead(w) \/ RefusedWrite(w) \/ WorkerCrash(w)
         PROVE  UNCHANGED <<prov, tx>>
    BY <1>10 DEF PrepareCharge, AcceptedRead, AcceptedWrite, RefusedRead, RefusedWrite, WorkerCrash
  <1>11. Cancel \/ Expire \/ Tick \/ UNCHANGED vars => UNCHANGED <<prov, tx>>
    BY DEF Cancel, Expire, Tick, vars
  <1> QED BY <1>2, <1>4, <1>5, <1>7, <1>8, <1>9, <1>10, <1>11 DEF Next, WorkerStep

(* What the commit of an event does to the count of its key: it goes up only for
   a success, and if the row was settled only when a charge is in flight. *)
LEMMA CommitCounts ==
    ASSUME SerialInv, NEW h \in Handlers, CommitEvent(h)
    PROVE  LET k == tx[h].event.key
           IN  given'[k] > given[k] =>
                  /\ tx[h].event.kind = "succeeded"
                  /\ pay[k].status \in {"pending", "failed"} \/ sub.charge_pending
  <1> DEFINE k == tx[h].event.key
             kind == tx[h].event.kind
             seen == tx[h].seen
  <1>1. /\ kind \in Kinds /\ seen \in Payment /\ k \in DOMAIN pay
        /\ sub' = MachineStep(kind, seen)
        /\ tx[h].stage = "read"
        /\ given'[k] = IF sub'.current_period_start # sub.current_period_start
                       THEN given[k] + 1 ELSE given[k]
    BY CommitFacts DEF SerialInv
  <1>2. given[k] \in Nat
    BY <1>1 DEF SerialInv, Inv, TypeOK
  <1>3. seen = pay[k]
    BY <1>1 DEF SerialInv, Serialised
  <1>4. sub'.current_period_start # sub.current_period_start
           => kind = "succeeded" /\ (sub.charge_pending \/ Settles(kind, seen))
    BY <1>1, MachineFollows DEF SerialInv
  <1> HIDE DEF k, kind, seen
  <1>5. given'[k] > given[k] =>
           kind = "succeeded" /\ (pay[k].status \in {"pending", "failed"} \/ sub.charge_pending)
    BY <1>1, <1>2, <1>3, <1>4 DEF Settles
  <1> QED BY <1>5 DEF k, kind, seen

-----------------------------------------------------------------------------
(* The refinement of ChargeLedger, step by step *)

LEMMA BookKept ==
    ASSUME DOMAIN pay' = DOMAIN pay,
           \A k \in DOMAIN pay : Entry(pay'[k].status) = Entry(pay[k].status)
    PROVE  Book' = Book
  BY DEF Book

LEMMA BookChanges ==
    ASSUME NEW k,
           DOMAIN pay' = DOMAIN pay \cup {k},
           \A d \in DOMAIN pay \ {k} : pay'[d] = pay[d]
    PROVE  Book' = Ledger!With(Book, k, Entry(pay'[k].status))
  BY DEF Book, Ledger!With

LEMMA TruthChanges ==
    ASSUME NEW k,
           DOMAIN prov' = DOMAIN prov \cup {k},
           \A d \in DOMAIN prov \ {k} : prov'[d] = prov[d]
    PROVE  Truth' = Ledger!With(Truth, k, prov'[k].status)
  BY DEF Truth, Ledger!With

LEMMA Kept ==
    ASSUME UNCHANGED <<pay, prov, given>>
    PROVE  UNCHANGED Ledger!vars
  BY DEF Ledger!vars, Book, Truth, Opening

(* The row and the call. *)
LEMMA PrepareEnters ==
    ASSUME SerialInv, NEW w \in Workers, PrepareCharge(w)
    PROVE  Ledger!Next
  <1> DEFINE k == ChargeKey(sub, now)
  <1>1. /\ prov' = prov /\ k \notin DOMAIN pay
        /\ pay' = Inserted(pay, k, NoRow)
        /\ given' = Inserted(given, k, 0)
    BY DEF PrepareCharge
  <1> HIDE DEF k
  <1>2. given \in [DOMAIN pay -> Nat]
    BY DEF SerialInv, Inv, TypeOK
  <1>3. /\ DOMAIN pay' = DOMAIN pay \cup {k} /\ pay'[k] = NoRow
        /\ \A d \in DOMAIN pay \ {k} : pay'[d] = pay[d]
    BY <1>1 DEF Inserted
  <1>4. Book' = Ledger!With(Book, k, "open") /\ Truth' = Truth
    BY <1>1, <1>3, BookChanges DEF Entry, NoRow, Truth
  <1>5. Opening' = Opening
    BY <1>1, <1>2 DEF Opening, Inserted
  <1>6. k \notin DOMAIN Book /\ k \in DOMAIN Book'
    BY <1>1, <1>3 DEF Book
  <1>7. Ledger!Enter(k)
    BY <1>4, <1>5, <1>6 DEF Ledger!Enter
  <1> QED BY <1>6, <1>7 DEF Ledger!Next

LEMMA CallTakes ==
    ASSUME SerialInv, NEW w \in Workers, CallProvider(w)
    PROVE  [Ledger!Next]_(Ledger!vars)
  <1> DEFINE k == worker[w].key
  <1>1. k \in DOMAIN pay /\ UNCHANGED <<pay, given>>
    BY DEF CallProvider, SerialInv, Inv, RowsBehind
  <1>2. \/ prov' = prov
        \/ k \notin DOMAIN prov /\ prov' = Inserted(prov, k, [status |-> "processing", since |-> now])
    BY DEF CallProvider
  <1> HIDE DEF k
  <1>3. CASE prov' = prov
    BY <1>1, <1>3, Kept
  <1>4. CASE k \notin DOMAIN prov /\ prov' = Inserted(prov, k, [status |-> "processing", since |-> now])
    <2>1. /\ DOMAIN prov' = DOMAIN prov \cup {k} /\ prov'[k].status = "processing"
          /\ \A d \in DOMAIN prov \ {k} : prov'[d] = prov[d]
      BY <1>4 DEF Inserted
    <2>2. Truth' = Ledger!With(Truth, k, "processing") /\ UNCHANGED <<Book, Opening>>
      BY <1>1, <2>1, TruthChanges DEF Book, Opening
    <2>3. k \in DOMAIN Book \ DOMAIN Truth /\ k \in DOMAIN Book'
      BY <1>1, <1>4, <2>2 DEF Book, Truth
    <2>4. Ledger!Take(k)
      BY <2>2, <2>3 DEF Ledger!Take
    <2> QED BY <2>3, <2>4 DEF Ledger!Next
  <1> QED BY <1>2, <1>3, <1>4

(* What a worker writes back is what is stored, but for a pending row's failure. *)
LEMMA WriteFails ==
    ASSUME SerialInv, NEW w \in Workers, AcceptedWrite(w) \/ RefusedWrite(w)
    PROVE  [Ledger!Next]_(Ledger!vars)
  <1> DEFINE k == worker[w].key
  <1>1. Reading(w) /\ worker[w].stage # "idle" /\ UNCHANGED <<prov, given>>
    BY DEF AcceptedWrite, RefusedWrite, Reading
  <1>2. k \in DOMAIN pay /\ worker[w].seen = pay[k] /\ pay[k] \in Payment
    BY <1>1 DEF SerialInv, Inv, TypeOK, RowsBehind, Serialised
  <1>3. \/ pay' = pay
        \/ pay' = [pay EXCEPT ![k] = [pay[k] EXCEPT !.ref = TRUE]]
        \/ pay[k].status = "pending" /\ pay' = [pay EXCEPT ![k] = [pay[k] EXCEPT !.status = "failed"]]
    BY <1>2 DEF AcceptedWrite, RefusedWrite
  <1> HIDE DEF k
  <1>4. UNCHANGED <<Truth, Opening>>
    BY <1>1 DEF Truth, Opening
  <1>5. CASE pay' = pay
    BY <1>1, <1>5, Kept
  <1>6. CASE pay' = [pay EXCEPT ![k] = [pay[k] EXCEPT !.ref = TRUE]]
    <2>1. [pay[k] EXCEPT !.ref = TRUE].status = pay[k].status
      BY <1>2 DEF Payment
    <2>2. DOMAIN pay' = DOMAIN pay /\ \A d \in DOMAIN pay : pay'[d].status = pay[d].status
      BY <1>2, <1>6, <2>1 DEF SerialInv, Inv, TypeOK
    <2> QED BY <1>4, <2>2, BookKept DEF Ledger!vars
  <1>7. CASE pay[k].status = "pending" /\ pay' = [pay EXCEPT ![k] = [pay[k] EXCEPT !.status = "failed"]]
    <2>1. [pay[k] EXCEPT !.status = "failed"].status = "failed"
      BY <1>2 DEF Payment
    <2>2. /\ DOMAIN pay' = DOMAIN pay \cup {k} /\ pay'[k].status = "failed"
          /\ \A d \in DOMAIN pay \ {k} : pay'[d] = pay[d]
      BY <1>2, <1>7, <2>1 DEF SerialInv, Inv, TypeOK
    <2>3. Book' = Ledger!With(Book, k, "failed")
      BY <2>2, BookChanges DEF Entry
    <2>4. k \in DOMAIN Book /\ Book[k] = "open" /\ k \in DOMAIN Book'
      BY <1>2, <1>7, <2>2 DEF Book, Entry
    <2>5. Ledger!Fail(k)
      BY <1>4, <2>3, <2>4 DEF Ledger!Fail
    <2> QED BY <2>4, <2>5 DEF Ledger!Next
  <1> QED BY <1>3, <1>5, <1>6, <1>7

(* An event fails a row that is not settled, or settles one that was paid for
   and with it opens the period. *)
LEMMA CommitSettles ==
    ASSUME SerialInv, NEW h \in Handlers, CommitEvent(h)
    PROVE  [Ledger!Next]_(Ledger!vars)
  <1> DEFINE k == tx[h].event.key
             kind == tx[h].event.kind
  <1>0. /\ k \in DOMAIN pay /\ tx[h].stage = "read" /\ kind \in Kinds
        /\ DOMAIN pay' = DOMAIN pay /\ pay'[k] = [status |-> kind, ref |-> TRUE]
        /\ \A d \in DOMAIN pay \ {k} : pay'[d] = pay[d]
        /\ \A d \in DOMAIN pay \ {k} : given'[d] = given[d]
        /\ given' \in [DOMAIN pay -> Nat]
        /\ given'[k] = IF sub'.current_period_start # sub.current_period_start
                       THEN given[k] + 1 ELSE given[k]
        /\ prov' = prov
    BY CommitFacts DEF SerialInv
  <1>1. /\ k \in DOMAIN pay /\ tx[h].stage = "read" /\ kind \in Kinds
        /\ DOMAIN pay' = DOMAIN pay \cup {k} /\ pay'[k].status = kind
        /\ \A d \in DOMAIN pay \ {k} : pay'[d] = pay[d] /\ given'[d] = given[d]
        /\ given' \in [DOMAIN pay -> Nat]
        /\ given'[k] = given[k] \/ given'[k] = given[k] + 1
        /\ prov' = prov
    <2> HIDE DEF k, kind
    <2>1. DOMAIN pay' = DOMAIN pay \cup {k} /\ pay'[k].status = kind
      BY <1>0
    <2>2. given'[k] = given[k] \/ given'[k] = given[k] + 1
      BY <1>0
    <2> QED BY <1>0, <2>1, <2>2, Zenon
  <1>2. /\ k \in DOMAIN prov
        /\ kind = "failed" => prov[k].status = "declined"
        /\ kind \in {"succeeded", "refunded"} => Taken(k)
        /\ kind # "pending"
    BY <1>1 DEF SerialInv, TrueEvents
  <1>3. given'[k] > given[k] =>
           kind = "succeeded" /\ (pay[k].status \in {"pending", "failed"} \/ sub.charge_pending)
    BY CommitCounts
  <1>4. given \in [DOMAIN pay -> Nat] /\ pay \in [DOMAIN pay -> Payment]
    BY DEF SerialInv, Inv, TypeOK
  <1>5. Honest(sub, given[k], pay[k]) /\ Served(sub, now)
    BY <1>1 DEF SerialInv, Inv, AllHonest
  <1> HIDE DEF k, kind
  <1>6. Book' = Ledger!With(Book, k, Entry(kind)) /\ Truth' = Truth
    BY <1>1, BookChanges DEF Truth
  <1>7. DOMAIN given' = DOMAIN pay /\ DOMAIN given = DOMAIN pay
    BY <1>1, <1>4
  <1>8. k \in DOMAIN Book /\ k \in DOMAIN Book' /\ Book[k] = Entry(pay[k].status)
    BY <1>1 DEF Book
  <1>9. CASE Settled(k)
    <2>1. Taken(k)
      BY <1>1, <1>9 DEF SerialInv, SettledIsPaid
    <2>2. kind \in {"succeeded", "refunded"}
      BY <1>1, <1>2, <2>1 DEF Kinds, Taken
    <2>3. given[k] = 0 => ~sub.charge_pending
      BY <1>1, <1>4, <1>5, <1>9 DEF Settled, Honest, Served, LiveStatuses
    <2>4. given[k] = 0 => given'[k] = 0
      BY <1>1, <1>3, <1>4, <1>9, <2>3 DEF Settled
    <2>5. Opening' = Opening
      <3>1. given'[k] >= 1 <=> given[k] >= 1
        BY <1>1, <1>4, <2>4
      <3> QED BY <1>1, <1>7, <3>1 DEF Opening
    <2>6. Entry(pay'[k].status) = Entry(pay[k].status)
      BY <1>1, <1>9, <2>2 DEF Entry, Settled
    <2>7. Book' = Book
      BY <1>1, <2>6, BookKept
    <2> QED BY <1>6, <2>5, <2>7 DEF Ledger!vars
  <1>10. CASE ~Settled(k) /\ kind = "failed"
    <2>1. given'[k] = given[k]
      BY <1>1, <1>3, <1>4, <1>10
    <2>2. Opening' = Opening
      BY <1>1, <1>7, <2>1 DEF Opening
    <2>3. CASE pay[k].status = "failed"
      <3>1. Book' = Book
        BY <1>1, <1>10, <2>3, BookKept
      <3> QED BY <1>6, <2>2, <3>1 DEF Ledger!vars
    <2>4. CASE pay[k].status # "failed"
      <3>1. Book[k] = "open"
        BY <1>8, <1>10, <2>4 DEF Entry, Settled
      <3>2. Ledger!Fail(k)
        BY <1>6, <1>8, <1>10, <2>2, <3>1 DEF Ledger!Fail, Entry
      <3> QED BY <1>8, <3>2 DEF Ledger!Next
    <2> QED BY <2>3, <2>4
  <1>11. CASE ~Settled(k) /\ kind \in {"succeeded", "refunded"}
    <2>1. Book[k] \in {"open", "failed"} /\ Book' = Ledger!With(Book, k, "settled")
      BY <1>6, <1>8, <1>11 DEF Entry, Settled
    <2>2. k \in DOMAIN Truth /\ Truth[k] \in {"paid", "refunded"}
      BY <1>2, <1>11 DEF Truth, Taken
    <2>3. Opening' \in {Opening, Opening \cup {k}}
      <3>1. CASE given'[k] = given[k]
        BY <1>1, <1>7, <3>1 DEF Opening
      <3>2. CASE given'[k] = given[k] + 1
        <4>1. given'[k] >= 1
          BY <1>1, <1>4, <3>2
        <4> QED BY <1>1, <1>7, <4>1 DEF Opening
      <3> QED BY <1>1, <3>1, <3>2
    <2>4. Ledger!Settle(k)
      BY <1>6, <1>8, <2>1, <2>2, <2>3 DEF Ledger!Settle
    <2> QED BY <1>8, <2>4 DEF Ledger!Next
  <1> QED BY <1>1, <1>2, <1>9, <1>10, <1>11 DEF Kinds

(* The provider. *)
LEMMA ProviderBecomes ==
    ASSUME SerialInv, NEW k \in DOMAIN prov, ProviderDecides(k) \/ ProviderRefunds(k)
    PROVE  Ledger!Next
  <1>1. UNCHANGED <<pay, given>> /\ k \in DOMAIN pay
    BY DEF ProviderDecides, ProviderRefunds, SerialInv, Inv, TypeOK
  <1>2. UNCHANGED <<Book, Opening>> /\ k \in DOMAIN Book'
    BY <1>1 DEF Book, Opening
  <1>3. PICK new \in {"paid", "declined", "refunded"} :
           /\ prov' = [prov EXCEPT ![k] = [status |-> new, since |-> now]]
           /\ IF new = "refunded" THEN prov[k].status = "paid" ELSE prov[k].status = "processing"
    BY DEF ProviderDecides, ProviderRefunds
  <1>4. /\ DOMAIN prov' = DOMAIN prov \cup {k} /\ prov'[k].status = new
        /\ \A d \in DOMAIN prov \ {k} : prov'[d] = prov[d]
    BY <1>3
  <1>5. Truth' = Ledger!With(Truth, k, new)
    BY <1>4, TruthChanges
  <1>6. k \in DOMAIN Truth /\ Truth[k] = prov[k].status
    BY DEF Truth
  <1>7. \/ Ledger!Becomes(k, "processing", "paid") \/ Ledger!Becomes(k, "processing", "declined")
        \/ Ledger!Becomes(k, "paid", "refunded")
    BY <1>2, <1>3, <1>5, <1>6 DEF Ledger!Becomes
  <1> QED BY <1>2, <1>7 DEF Ledger!Next

LEMMA LedgerStep ==
    ASSUME SerialInv, [Next]_vars
    PROVE  [Ledger!Next]_(Ledger!vars)
  <1>1. ASSUME NEW w \in Workers, AcceptedRead(w) \/ RefusedRead(w) \/ WorkerCrash(w)
        PROVE  UNCHANGED Ledger!vars
    BY <1>1, Kept DEF AcceptedRead, RefusedRead, WorkerCrash
  <1>2. ASSUME NEW h, WebhookArrives(h) \/ BeginEvent(h) \/ RequestCrash(h) \/ AskProvider(h)
        PROVE  UNCHANGED Ledger!vars
    BY <1>2, Kept DEF WebhookArrives, BeginEvent, RequestCrash, AskProvider
  <1>3. Cancel \/ Expire \/ Tick \/ UNCHANGED vars => UNCHANGED Ledger!vars
    BY Kept DEF Cancel, Expire, Tick, vars
  <1> QED
    BY <1>1, <1>2, <1>3, PrepareEnters, CallTakes, WriteFails, CommitSettles, ProviderBecomes
       DEF Next, WorkerStep

(* A step of the ledger keeps what makes it a ledger: what opened a period is
   settled, and what is settled was paid. *)
LEMMA LedgerKept ==
    ASSUME SettledIsPaid, GivenIsSettled, [Ledger!Next]_(Ledger!vars), TypeOK, TypeOK'
    PROVE  SettledIsPaid' /\ GivenIsSettled'
  <1>1. /\ DOMAIN Book = DOMAIN pay /\ \A k \in DOMAIN pay : Book[k] = "settled" <=> Settled(k)
        /\ DOMAIN Truth = DOMAIN prov
        /\ \A k : Taken(k) <=> k \in DOMAIN Truth /\ Truth[k] \in {"paid", "refunded"}
    BY DEF Book, Truth, Entry, Settled, Taken
  <1>2. /\ DOMAIN Book' = DOMAIN pay' /\ \A k \in DOMAIN pay' : Book'[k] = "settled" <=> Settled(k)'
        /\ DOMAIN Truth' = DOMAIN prov'
        /\ \A k : Taken(k)' <=> k \in DOMAIN Truth' /\ Truth'[k] \in {"paid", "refunded"}
    BY DEF Book, Truth, Entry, Settled, Taken
  <1>3. /\ DOMAIN given = DOMAIN pay /\ DOMAIN given' = DOMAIN pay'
        /\ \A k : k \in Opening <=> k \in DOMAIN given /\ given[k] >= 1
        /\ \A k : k \in Opening' <=> k \in DOMAIN given' /\ given'[k] >= 1
    BY DEF TypeOK, Opening
  <1> DEFINE LInv == /\ \A k \in DOMAIN Book : Book[k] = "settled" =>
                           k \in DOMAIN Truth /\ Truth[k] \in {"paid", "refunded"}
                     /\ \A k \in DOMAIN Book : k \in Opening => Book[k] = "settled"
                     /\ Opening \subseteq DOMAIN Book
  <1>4. LInv
    BY <1>1, <1>3 DEF SettledIsPaid, GivenIsSettled
  <1>5. LInv'
    <2>1. CASE UNCHANGED Ledger!vars
      BY <1>4, <2>1 DEF Ledger!vars
    <2>2. CASE Ledger!Next
      <3>1. PICK k \in DOMAIN Book' :
               \/ Ledger!Enter(k) \/ Ledger!Take(k) \/ Ledger!Fail(k) \/ Ledger!Settle(k)
               \/ Ledger!Becomes(k, "processing", "paid")
               \/ Ledger!Becomes(k, "processing", "declined")
               \/ Ledger!Becomes(k, "paid", "refunded")
        BY <2>2 DEF Ledger!Next
      <3>2. CASE Ledger!Enter(k)
        BY <1>4, <3>2 DEF Ledger!Enter, Ledger!With
      <3>3. CASE Ledger!Take(k)
        BY <1>4, <3>3 DEF Ledger!Take, Ledger!With
      <3>4. CASE Ledger!Fail(k)
        BY <1>4, <3>4 DEF Ledger!Fail, Ledger!With
      <3>5. CASE Ledger!Settle(k)
        BY <1>4, <3>5 DEF Ledger!Settle, Ledger!With
      <3>6. CASE \/ Ledger!Becomes(k, "processing", "paid")
                 \/ Ledger!Becomes(k, "processing", "declined")
                 \/ Ledger!Becomes(k, "paid", "refunded")
        BY <1>4, <3>6 DEF Ledger!Becomes, Ledger!With
      <3> QED BY <3>1, <3>2, <3>3, <3>4, <3>5, <3>6
    <2> QED BY <2>1, <2>2
  <1> QED BY <1>2, <1>3, <1>5 DEF SettledIsPaid, GivenIsSettled

LEMMA SerialStep ==
    ASSUME SerialInv, Serial, [Next]_vars
    PROVE  SerialInv'
  <1>1. Inv' /\ Serialised' /\ TrueEvents'
    BY StepInv, SerialisedStep, TrueEventsStep DEF SerialInv
  <1>2. SettledIsPaid' /\ GivenIsSettled'
    <2>1. TypeOK /\ TypeOK'
      BY <1>1 DEF SerialInv, Inv
    <2>2. [Ledger!Next]_(Ledger!vars)
      BY LedgerStep
    <2> QED BY <2>1, <2>2, LedgerKept DEF SerialInv
  <1> QED BY <1>1, <1>2 DEF SerialInv

LEMMA SerialInit == Init => SerialInv
  <1> SUFFICES ASSUME Init PROVE SerialInv
    OBVIOUS
  <1>1. Inv
    BY InitInv
  <1>2. Serialised /\ TrueEvents /\ SettledIsPaid /\ GivenIsSettled
    BY DEF Init, Serialised, TrueEvents, SettledIsPaid, GivenIsSettled, Reading, IdleWorker, IdleTx
  <1> QED BY <1>1, <1>2 DEF SerialInv

(* A step that counts a period for a key is the commit of an event about it. *)
LEMMA SettlesOnceStep ==
    ASSUME SerialInv, [Next]_vars, NEW k \in DOMAIN given,
           given[k] >= 1, given'[k] > given[k]
    PROVE  sub.charge_pending
  <1> USE DEF SerialInv
  <1>1. given \in [DOMAIN pay -> Nat] /\ given'[k] # given[k]
    BY DEF Inv, TypeOK
  <1>2. ASSUME NEW h \in Handlers, CommitEvent(h)
        PROVE  sub.charge_pending
    <2>1. k = tx[h].event.key
      BY <1>1, <1>2, CommitFacts
    <2>2. pay[k].status \in {"pending", "failed"} \/ sub.charge_pending
      BY <1>2, <2>1, CommitCounts
    <2>3. pay[k].status \in {"succeeded", "refunded"}
      BY <1>1 DEF GivenIsSettled, Settled
    <2> QED BY <2>2, <2>3
  <1>3. ASSUME NEW w \in Workers, PrepareCharge(w)
        PROVE  FALSE
    <2>1. given' = Inserted(given, ChargeKey(sub, now), 0) /\ ChargeKey(sub, now) \notin DOMAIN pay
      BY <1>3 DEF PrepareCharge
    <2> QED BY <1>1, <2>1 DEF Inserted
  <1>4. given' # given
    BY <1>1
  <1>5. ASSUME NEW w \in Workers,
               \/ CallProvider(w) \/ AcceptedRead(w) \/ AcceptedWrite(w)
               \/ RefusedRead(w) \/ RefusedWrite(w) \/ WorkerCrash(w)
        PROVE  FALSE
    BY <1>4, <1>5
       DEF CallProvider, AcceptedRead, AcceptedWrite, RefusedRead, RefusedWrite, WorkerCrash
  <1>6. ASSUME NEW h, WebhookArrives(h) \/ BeginEvent(h) \/ RequestCrash(h) \/ AskProvider(h)
        PROVE  FALSE
    BY <1>4, <1>6 DEF WebhookArrives, BeginEvent, RequestCrash, AskProvider
  <1>7. ASSUME NEW d, ProviderDecides(d) \/ ProviderRefunds(d)
        PROVE  FALSE
    BY <1>4, <1>7 DEF ProviderDecides, ProviderRefunds
  <1>8. Cancel \/ Expire \/ Tick \/ UNCHANGED vars => FALSE
    BY <1>4 DEF Cancel, Expire, Tick, vars
  <1> QED BY <1>2, <1>3, <1>5, <1>6, <1>7, <1>8 DEF Next, WorkerStep

(* With the memory store, which runs one transaction at a time, and a provider
   that notifies final answers: a payment that opened a period opens another
   only while a charge is in flight. Postgres does not give this
   (DoubleExtension). *)
THEOREM SettlesOnce ==
    ASSUME Store = "memory", PendingNotices = FALSE
    PROVE  Spec => OwnRowSettlesOnce
  <1>1. Serial
    BY DEF Serial
  <1>2. SerialInv /\ [Next]_vars => SerialInv'
    BY <1>1, SerialStep
  <1>3. SerialInv /\ [Next]_vars =>
           [\A k \in DOMAIN given :
               (given[k] >= 1 /\ given'[k] > given[k]) => sub.charge_pending]_vars
    BY SettlesOnceStep
  <1> QED BY <1>2, <1>3, SerialInit, PTL DEF Spec, OwnRowSettlesOnce

(* Under the same two conditions the charges, the provider and the periods
   implement ChargeLedger. *)
THEOREM LedgerImplemented ==
    ASSUME Store = "memory", PendingNotices = FALSE
    PROVE  Spec => ImplementsLedger
  <1>1. Serial
    BY DEF Serial
  <1>2. Init => Ledger!Init
    <2> SUFFICES ASSUME Init PROVE Ledger!Init
      OBVIOUS
    <2>1. DOMAIN pay = {} /\ DOMAIN prov = {} /\ DOMAIN given = {}
      BY DEF Init
    <2>2. Book = Ledger!Nothing
      BY <2>1 DEF Book, Ledger!Nothing
    <2>3. Truth = Ledger!Nothing
      BY <2>1 DEF Truth, Ledger!Nothing
    <2>4. Opening = {}
      BY <2>1 DEF Opening
    <2> QED BY <2>2, <2>3, <2>4 DEF Ledger!Init
  <1>3. SerialInv /\ [Next]_vars => SerialInv'
    BY <1>1, SerialStep
  <1>4. SerialInv /\ [Next]_vars => [Ledger!Next]_(Ledger!vars)
    BY LedgerStep
  <1> QED BY <1>2, <1>3, <1>4, SerialInit, PTL DEF Spec, ImplementsLedger, Ledger!Spec
=============================================================================
