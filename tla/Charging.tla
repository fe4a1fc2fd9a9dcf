------------------------------ MODULE Charging ------------------------------
(***************************************************************************)
(* One live subscription, its charge rows and everything that touches them *)
(* at once: scheduler workers (api/billing/scheduler.py), webhook requests *)
(* (service/webhooks.py), the reconciler, cancels, expiries, and the       *)
(* payment provider, which is outside src/ and may answer, fail, notify    *)
(* twice, late or out of order.                                            *)
(*                                                                         *)
(* A transaction that takes the subscription's row lock before it reads    *)
(* anything is one step. One that reads a payment row first is two: Read,  *)
(* which keeps what it saw, and Write or Commit, which locks and commits:  *)
(* at READ COMMITTED the others may commit in between. With Store =        *)
(* "memory" (store/memory.py takes one lock per transaction) they may not. *)
(***************************************************************************)
EXTENDS StateMachine, FiniteSets

CONSTANTS
    Workers,          \* scheduler passes that may overlap
    Requests,         \* concurrent webhook requests
    Reconciler,       \* the reconciliation part of a pass
    Store,            \* "postgres" or "memory"
    Provider,         \* "mixplat" or "fake"
    PendingNotices,   \* TRUE: the provider notifies `pending' too
    RedeliveryDays,   \* how long after a decision the provider still notifies it
    MaxTime,          \* bound on the clock
    MaxCharges        \* bound on the number of charge rows

ASSUME ChargingAssumption ==
    /\ Reconciler \notin Requests
    /\ Store \in {"postgres", "memory"}
    /\ Provider \in {"mixplat", "fake"}
    /\ PendingNotices \in BOOLEAN
    /\ RedeliveryDays \in Nat
    /\ MaxTime \in Nat
    /\ MaxCharges \in Nat

VARIABLES
    sub,      \* the subscription row
    now,
    pay,      \* charge rows by idempotency key: status and whether the reference is known
    events,   \* (provider, event id) pairs stored in billing_events
    prov,     \* the provider's truth about the keys it took, and since when
    calls,    \* how often charge_renewal was called with each key
    given,    \* how many periods were opened by a success of each key
    worker,   \* what each scheduler worker is doing
    tx        \* what each request and the reconciler are doing

vars == <<sub, now, pay, events, prov, calls, given, worker, tx>>

Keys == [period_start: Nat, attempt: Nat]

KeysInBounds == [period_start: 1 .. MaxTime, attempt: 0 .. Len(RetryDays)]

PaymentStatuses == {"pending", "succeeded", "failed", "refunded"}

Payment == [status: PaymentStatuses, ref: BOOLEAN]

Handlers == Requests \cup {Reconciler}

(* What the provider says: an event id is the payment, its status and, for
   the answers we asked for, the prefix `reconcile:'. *)
Kinds == {"pending", "succeeded", "failed", "refunded"}

Events == [key: Keys, kind: Kinds, asked: BOOLEAN]

NoKey == [period_start |-> 0, attempt |-> 0]

NoEvent == [key |-> NoKey, kind |-> "pending", asked |-> FALSE]

NoRow == [status |-> "pending", ref |-> FALSE]

WorkerStages == {"idle", "prepared", "accepted", "accepted_read", "refused", "refused_read"}

IdleWorker == [stage |-> "idle", key |-> NoKey, seen |-> NoRow]

IdleTx == [stage |-> "idle", event |-> NoEvent, seen |-> NoRow]

ProviderRecord == [status: {"processing", "paid", "declined", "refunded"}, since: Nat]

TypeOK ==
    /\ sub \in SubState
    /\ now \in Nat
    /\ DOMAIN pay \subseteq Keys
    /\ pay \in [DOMAIN pay -> Payment]
    /\ events \subseteq Events
    /\ DOMAIN prov \subseteq DOMAIN pay
    /\ prov \in [DOMAIN prov -> ProviderRecord]
    /\ calls \in [DOMAIN pay -> Nat]
    /\ given \in [DOMAIN pay -> Nat]
    /\ worker \in [Workers -> [stage: WorkerStages, key: Keys, seen: Payment]]
    /\ tx \in [Handlers -> [stage: {"idle", "arrived", "read"}, event: Events, seen: Payment]]

(* A subscription whose checkout has just been paid *)
Init ==
    /\ sub = first_payment(NewRow("pending", 0), 0).state
    /\ now = 0
    /\ pay = <<>>
    /\ events = {}
    /\ prov = <<>>
    /\ calls = <<>>
    /\ given = <<>>
    /\ worker = [w \in Workers |-> IdleWorker]
    /\ tx = [h \in Handlers |-> IdleTx]

-----------------------------------------------------------------------------
(* The store *)

(* create_payment and the like: a row at a key that has none *)
Inserted(table, key, row) ==
    [k \in DOMAIN table \cup {key} |-> IF k = key THEN row ELSE table[k]]

(* The memory store runs one transaction at a time *)
CanBegin ==
    Store = "memory" =>
        /\ \A w \in Workers : worker[w].stage \notin {"accepted_read", "refused_read"}
        /\ \A h \in Handlers : tx[h].stage # "read"

AtRest ==
    /\ \A w \in Workers : worker[w].stage = "idle"
    /\ \A h \in Handlers : tx[h].stage = "idle"

-----------------------------------------------------------------------------
(* Scheduler: one renewal (_renew_one) in three units *)

(* Mutant: a charge left pending by an earlier pass is taken up again *)
PrepareCharge_resumes(w) ==
    LET t == renewal_due([sub EXCEPT !.charge_pending = FALSE], now)
        k == ChargeKey(sub, now)
        new == k \notin DOMAIN pay
    IN  /\ worker[w].stage = "idle"
        /\ CanBegin
        /\ sub.status \in {"active", "grace"}
        /\ "Charge" \in t.effects
        /\ new => Cardinality(DOMAIN pay) < MaxCharges
        /\ pay' = IF new THEN Inserted(pay, k, NoRow) ELSE pay
        /\ calls' = IF new THEN Inserted(calls, k, 0) ELSE calls
        /\ given' = IF new THEN Inserted(given, k, 0) ELSE given
        /\ sub' = t.state
        /\ worker' = [worker EXCEPT ![w] = [@ EXCEPT !.stage = "prepared", !.key = k]]
        /\ UNCHANGED <<now, events, prov, tx>>

(* Step 1: the payment row and charge_pending, committed together. A key
   whose row exists is audited and never charged: nothing changes. *)
PrepareCharge(w) ==
    LET t == renewal_due(sub, now)
        k == ChargeKey(sub, now)
    IN  /\ worker[w].stage = "idle"
        /\ CanBegin
        /\ sub.status \in {"active", "grace"}
        /\ "Charge" \in t.effects
        /\ k \notin DOMAIN pay
        /\ Cardinality(DOMAIN pay) < MaxCharges
        /\ pay' = Inserted(pay, k, NoRow)
        /\ calls' = Inserted(calls, k, 0)
        /\ given' = Inserted(given, k, 0)
        /\ sub' = t.state
        /\ worker' = [worker EXCEPT ![w] = [@ EXCEPT !.stage = "prepared", !.key = k]]
        /\ UNCHANGED <<now, events, prov, tx>>

(* Step 2: charge_renewal, nothing locked. The provider may take the payment
   and answer, take it and fail to answer (unknown), or refuse; a refusal we
   read may still be a payment it took. *)
CallProvider(w) ==
    LET k == worker[w].key
    IN  /\ worker[w].stage = "prepared"
        /\ calls' = [calls EXCEPT ![k] = @ + 1]
        /\ \E taken \in BOOLEAN, answer \in {"accepted", "refused", "unknown"} :
              /\ answer = "accepted" => taken
              /\ prov' = IF taken /\ k \notin DOMAIN prov
                         THEN Inserted(prov, k, [status |-> "processing", since |-> now])
                         ELSE prov
              /\ worker' = [worker EXCEPT ![w] =
                              IF answer = "unknown" THEN IdleWorker
                              ELSE [@ EXCEPT !.stage = answer]]
        /\ UNCHANGED <<sub, now, pay, events, given, tx>>

(* Step 3, accepted: the row is read without a lock ... *)
AcceptedRead(w) ==
    /\ worker[w].stage = "accepted"
    /\ CanBegin
    /\ worker' = [worker EXCEPT ![w] = [@ EXCEPT !.stage = "accepted_read",
                                                 !.seen = pay[worker[w].key]]]
    /\ UNCHANGED <<sub, now, pay, events, prov, calls, given, tx>>

(* ... and written back whole, status included, if it has no reference *)
AcceptedWrite(w) ==
    LET seen == worker[w].seen
    IN  /\ worker[w].stage = "accepted_read"
        /\ pay' = IF seen.ref THEN pay
                  ELSE [pay EXCEPT ![worker[w].key] = [seen EXCEPT !.ref = TRUE]]
        /\ worker' = [worker EXCEPT ![w] = IdleWorker]
        /\ UNCHANGED <<sub, now, events, prov, calls, given, tx>>

(* Step 3, refused (_charge_refused): read without a lock ... *)
RefusedRead(w) ==
    /\ worker[w].stage = "refused"
    /\ CanBegin
    /\ worker' = [worker EXCEPT ![w] = [@ EXCEPT !.stage = "refused_read",
                                                 !.seen = pay[worker[w].key]]]
    /\ UNCHANGED <<sub, now, pay, events, prov, calls, given, tx>>

(* Mutant: the row fails, the machine is not told *)
RefusedWrite_row_only(w) ==
    LET seen == worker[w].seen
    IN  /\ worker[w].stage = "refused_read"
        /\ pay' = IF seen.status = "pending"
                  THEN [pay EXCEPT ![worker[w].key] = [seen EXCEPT !.status = "failed"]]
                  ELSE pay
        /\ worker' = [worker EXCEPT ![w] = IdleWorker]
        /\ UNCHANGED <<sub, now, events, prov, calls, given, tx>>

(* Mutant: a row settled meanwhile fails all the same *)
RefusedWrite_unchecked(w) ==
    /\ worker[w].stage = "refused_read"
    /\ pay' = [pay EXCEPT ![worker[w].key] = [worker[w].seen EXCEPT !.status = "failed"]]
    /\ sub' = IF sub.charge_pending THEN OnPaymentFailed(sub, now).state ELSE sub
    /\ worker' = [worker EXCEPT ![w] = IdleWorker]
    /\ UNCHANGED <<now, events, prov, calls, given, tx>>

(* ... then failed, and the failure applied if a charge is still pending.
   A row something settled meanwhile, as far as was read, is left alone. *)
RefusedWrite(w) ==
    LET seen == worker[w].seen
    IN  /\ worker[w].stage = "refused_read"
        /\ \/ /\ seen.status # "pending"
              /\ UNCHANGED <<pay, sub>>
           \/ /\ seen.status = "pending"
              /\ pay' = [pay EXCEPT ![worker[w].key] = [seen EXCEPT !.status = "failed"]]
              /\ sub' = IF sub.charge_pending THEN OnPaymentFailed(sub, now).state ELSE sub
        /\ worker' = [worker EXCEPT ![w] = IdleWorker]
        /\ UNCHANGED <<now, events, prov, calls, given, tx>>

(* The process dies, or Postgres aborts its transaction (deadlock) *)
WorkerCrash(w) ==
    /\ worker[w].stage # "idle"
    /\ worker' = [worker EXCEPT ![w] = IdleWorker]
    /\ UNCHANGED <<sub, now, pay, events, prov, calls, given, tx>>

-----------------------------------------------------------------------------
(* Provider events *)

(* The notifications that exist about a key: its final status until the
   provider stops redelivering it, and `pending', which may be overtaken. *)
Notices(k) ==
    LET p == prov[k]
    IN  IF now > p.since + RedeliveryDays THEN {}
        ELSE (CASE p.status = "processing" -> {}
                [] p.status = "paid"       -> {"succeeded"}
                [] p.status = "declined"   -> {"failed"}
                [] p.status = "refunded"   -> IF Provider = "fake"
                                              THEN {"succeeded", "refunded"} ELSE {})
             \cup (IF PendingNotices THEN {"pending"} ELSE {})

(* A webhook request: signature checked and, for MIXPLAT, the success
   confirmed with the provider's status, before anything is stored. *)
WebhookArrives(h) ==
    /\ tx[h].stage = "idle"
    /\ \E k \in DOMAIN prov : \E kind \in Notices(k) :
          tx' = [tx EXCEPT ![h] = [@ EXCEPT !.stage = "arrived",
                                            !.event = [key |-> k, kind |-> kind, asked |-> FALSE]]]
    /\ UNCHANGED <<sub, now, pay, events, prov, calls, given, worker>>

(* What fetch_status says about a key. `none' is no answer or still under way;
   MIXPLAT's status of a refunded payment is one we do not know. *)
StatusAnswer(k) ==
    IF k \notin DOMAIN prov THEN "none"
    ELSE CASE prov[k].status = "declined" -> "failed"
           [] prov[k].status = "paid" -> "succeeded"
           [] prov[k].status = "refunded" /\ Provider = "fake" -> "succeeded"
           [] OTHER -> "none"

(* Mutant: only rows whose reference is known are asked about *)
AskProvider_by_reference(k) ==
    /\ tx[Reconciler].stage = "idle"
    /\ k \in DOMAIN pay
    /\ pay[k].status = "pending"
    /\ pay[k].ref
    /\ \A w \in Workers : worker[w].stage = "idle" \/ worker[w].key # k
    /\ StatusAnswer(k) # "none"
    /\ tx' = [tx EXCEPT ![Reconciler] =
                [@ EXCEPT !.stage = "arrived",
                          !.event = [key |-> k, kind |-> StatusAnswer(k), asked |-> TRUE]]]
    /\ UNCHANGED <<sub, now, pay, events, prov, calls, given, worker>>

(* _reconcile_one: a row pending for 30 minutes, so long after its worker's
   call ended; asked outside any transaction. No answer changes nothing. *)
AskProvider(k) ==
    /\ tx[Reconciler].stage = "idle"
    /\ k \in DOMAIN pay
    /\ pay[k].status = "pending"
    /\ \A w \in Workers : worker[w].stage = "idle" \/ worker[w].key # k
    /\ StatusAnswer(k) # "none"
    /\ tx' = [tx EXCEPT ![Reconciler] =
                [@ EXCEPT !.stage = "arrived",
                          !.event = [key |-> k, kind |-> StatusAnswer(k), asked |-> TRUE]]]
    /\ UNCHANGED <<sub, now, pay, events, prov, calls, given, worker>>

(* insert_event: an id stored before is a duplicate; one another transaction
   is inserting waits for it. Then _resolve reads the row, unlocked. *)
BeginEvent(h) ==
    /\ tx[h].stage = "arrived"
    /\ CanBegin
    /\ \A g \in Handlers \ {h} : ~(tx[g].stage = "read" /\ tx[g].event = tx[h].event)
    /\ tx' = [tx EXCEPT ![h] =
                IF tx[h].event \in events THEN IdleTx
                ELSE [@ EXCEPT !.stage = "read", !.seen = pay[tx[h].event.key]]]
    /\ UNCHANGED <<sub, now, pay, events, prov, calls, given, worker>>

(* Mutants: a row already refused does not settle; every success settles *)
Settles_pending(kind, seen) == kind = "succeeded" /\ seen.status = "pending"

Settles_always(kind, seen) == kind = "succeeded"

(* settles_charge, from the row as it was read before the lock *)
Settles(kind, seen) == kind = "succeeded" /\ seen.status \in {"pending", "failed"}

(* The transition a notification makes on the locked row; a pair outside the
   table (invalid_in_status) changes nothing. *)
MachineStep(kind, seen) ==
    CASE kind = "succeeded" /\ sub.status \in Accepts.PaymentSucceeded ->
            OnPaymentSucceeded(sub, FALSE, Settles(kind, seen), now).state
      [] kind = "failed" /\ sub.status \in Accepts.PaymentFailed ->
            OnPaymentFailed(sub, now).state
      [] kind = "refunded" /\ sub.status \in Accepts.Refunded ->
            refunded(sub).state
      [] OTHER -> sub

(* apply_provider_event after _resolve: lock the subscription, record the
   payment whatever its status was, run the machine, commit. *)
CommitEvent(h) ==
    LET k    == tx[h].event.key
        kind == tx[h].event.kind
        new  == MachineStep(kind, tx[h].seen)
    IN  /\ tx[h].stage = "read"
        /\ events' = events \cup {tx[h].event}
        /\ pay' = [pay EXCEPT ![k] = [status |-> kind, ref |-> TRUE]]
        /\ sub' = new
        /\ given' = IF new.current_period_start # sub.current_period_start
                    THEN [given EXCEPT ![k] = @ + 1]
                    ELSE given
        /\ tx' = [tx EXCEPT ![h] = IdleTx]
        /\ UNCHANGED <<now, prov, calls, worker>>

(* The request dies before its commit: nothing was stored *)
RequestCrash(h) ==
    /\ tx[h].stage # "idle"
    /\ tx' = [tx EXCEPT ![h] = IdleTx]
    /\ UNCHANGED <<sub, now, pay, events, prov, calls, given, worker>>

-----------------------------------------------------------------------------
(* Cancels and expiries, on the locked (or version-checked) row *)

(* The app, the website, support, or the operator's STOP *)
Cancel ==
    /\ CanBegin
    /\ sub.status \in {"active", "grace"}
    /\ sub' = cancel(sub, now).state
    /\ UNCHANGED <<now, pay, events, prov, calls, given, worker, tx>>

(* run_expiries; update_subscription's expected_version makes it atomic *)
Expire ==
    /\ CanBegin
    /\ \/ sub.status = "grace" /\ sub' = grace_expired(sub, now).state
       \/ sub.status = "cancel_at_period_end" /\ sub' = period_ended(sub, now).state
    /\ sub' # sub
    /\ UNCHANGED <<now, pay, events, prov, calls, given, worker, tx>>

-----------------------------------------------------------------------------
(* The provider, and the clock *)

ProviderDecides(k) ==
    /\ k \in DOMAIN prov
    /\ prov[k].status = "processing"
    /\ \E outcome \in {"paid", "declined"} :
          prov' = [prov EXCEPT ![k] = [status |-> outcome, since |-> now]]
    /\ UNCHANGED <<sub, now, pay, events, calls, given, worker, tx>>

ProviderRefunds(k) ==
    /\ k \in DOMAIN prov
    /\ prov[k].status = "paid"
    /\ prov' = [prov EXCEPT ![k] = [status |-> "refunded", since |-> now]]
    /\ UNCHANGED <<sub, now, pay, events, calls, given, worker, tx>>

(* A request or a provider call takes seconds, a tick is a day *)
Tick ==
    /\ now < MaxTime
    /\ AtRest
    /\ now' = now + 1
    /\ UNCHANGED <<sub, pay, events, prov, calls, given, worker, tx>>

-----------------------------------------------------------------------------
WorkerStep(w) ==
    \/ PrepareCharge(w) \/ CallProvider(w)
    \/ AcceptedRead(w) \/ AcceptedWrite(w)
    \/ RefusedRead(w) \/ RefusedWrite(w)

Next ==
    \/ \E w \in Workers : WorkerStep(w) \/ WorkerCrash(w)
    \/ \E h \in Requests : WebhookArrives(h)
    \/ \E k \in DOMAIN pay : AskProvider(k)
    \/ \E h \in Handlers : BeginEvent(h) \/ CommitEvent(h) \/ RequestCrash(h)
    \/ \E k \in DOMAIN prov : ProviderDecides(k) \/ ProviderRefunds(k)
    \/ Cancel \/ Expire \/ Tick

Spec == Init /\ [][Next]_vars

(* Fairness: run_once is a job every 15 minutes, so passes keep coming and
   each asks about every pending row; the store's lock is first come, first
   served, so a transaction that wants to begin or commit does not wait for
   ever (strong, because others may hold the lock in between and the process
   may die and be tried again); a worker goes on with what it started; the
   provider decides what it took; and handlers do not die in the middle of a
   transaction for ever. Nothing makes people cancel, the provider notify, or
   the clock and the expiries advance. *)
Fairness ==
    /\ \A w \in Workers : SF_vars(worker[w].stage # "idle" /\ WorkerStep(w))
    /\ SF_vars(BeginEvent(Reconciler))
    /\ SF_vars(CommitEvent(Reconciler))
    /\ \A h \in Requests : WF_vars(CommitEvent(h))
    /\ \A h \in Handlers : <>[][~(tx[h].stage = "read" /\ RequestCrash(h))]_vars
    /\ WF_vars(\E k \in DOMAIN prov : ProviderDecides(k))
    /\ \A k \in KeysInBounds : SF_vars(AskProvider(k))

FairSpec == Spec /\ Fairness

-----------------------------------------------------------------------------
(* Properties *)

(* The provider is called at most once with a key, whatever passes overlap,
   crash or run again (docs/BILLING.md: "a scheduler pass that runs twice
   cannot charge twice"). *)
OneCallPerKey == \A k \in DOMAIN calls : calls[k] <= 1

(* A charge in flight has a row the reconciler will find: while charge_pending
   stops the machine, the row of its key is still pending. *)
ChargeInFlightHasItsRow ==
    (sub.charge_pending /\ sub.status \in {"active", "grace"}) =>
        /\ ChargeKey(sub, now) \in DOMAIN pay
        /\ pay[ChargeKey(sub, now)].status = "pending"

(* After a cancel no charge row is ever prepared, and nothing takes the cancel
   back: a success, a refusal, a refund or a lapse that comes later. *)
NothingPreparedAfterCancel ==
    [][sub.cancel_requested_at # Nil =>
          /\ DOMAIN pay' = DOMAIN pay
          /\ sub'.cancel_requested_at = sub.cancel_requested_at]_vars

(* A payment recorded as succeeded opened a period, unless the subscription
   had lapsed or been refunded when it came. *)
PaidIsServedWhileLive ==
    \A k \in DOMAIN pay :
        (pay[k].status = "succeeded" /\ sub.status \notin {"lapsed", "refunded"})
            => given[k] >= 1

(* A payment's own row opens one period: a success of a payment that already
   opened one opens another only if a charge is in flight (then the machine
   cannot tell which charge the success is for). *)
OwnRowSettlesOnce ==
    [][\A k \in DOMAIN given :
          (given[k] >= 1 /\ given'[k] > given[k]) => sub.charge_pending]_vars

(* What ChargeLedger calls the charges, the provider and the periods *)
Entry(status) == IF status \in {"succeeded", "refunded"} THEN "settled"
                 ELSE IF status = "failed" THEN "failed" ELSE "open"

Book == [k \in DOMAIN pay |-> Entry(pay[k].status)]

Truth == [k \in DOMAIN prov |-> prov[k].status]

Opening == {k \in DOMAIN given : given[k] >= 1}

Ledger == INSTANCE ChargeLedger WITH book <- Book, truth <- Truth, opened <- Opening

(* With serialised transactions and no `pending' notices the charge rows, the
   provider and the periods implement ChargeLedger: a row is settled only when
   the provider was paid, never fails afterwards, and opens its period in the
   transaction that settles it or not at all. *)
ImplementsLedger == Ledger!Spec

(* One payment never opens two periods *)
GivenAtMostOnce == \A k \in DOMAIN given : given[k] <= 1

(* No charge reaches the provider once the cancel is committed *)
NoCallAfterCancel ==
    [][sub.cancel_requested_at # Nil => calls' = calls]_vars

(* A row the provider has a final answer for does not stay pending: a lost
   webhook is made up for by the reconciler. *)
Unresolved(k) ==
    /\ k \in DOMAIN pay
    /\ pay[k].status = "pending"
    /\ StatusAnswer(k) # "none"

PendingIsResolved == \A k \in KeysInBounds : Unresolved(k) ~> ~Unresolved(k)
=============================================================================
