------------------------------ MODULE Checkout ------------------------------
(***************************************************************************)
(* Buying a subscription: service/checkout.py from the request to the      *)
(* first payment, with the passes that close or rescue an unpaid checkout  *)
(* (scheduler.run_pending_timeouts, run_reconciliation,                    *)
(* run_unmatched_events).  Every phone is an account of its own, as        *)
(* register_device makes it, and all of them give the same number.         *)
(*                                                                         *)
(* start_checkout decides from what it reads without a lock and then       *)
(* writes: BeginCheckout and CreateCheckout.  With Store = "memory"        *)
(* nothing comes in between; Postgres at READ COMMITTED lets others        *)
(* commit.  `active' stands for active and grace, the statuses that charge.*)
(* Grants (promo, T2) are not offered by the router's checkout.            *)
(***************************************************************************)
EXTENDS SeatTable

CONSTANTS
    Requests,         \* concurrent checkout requests
    NoticeNames,      \* what a notification names: "key" (ours) or "ref" (the provider's)
    PendingTimeout,   \* billing_pending_timeout_minutes, in ticks
    MaxWait,          \* CHECKOUT_MAX_WAIT, in ticks
    MaxTries,         \* UNMATCHED_MAX_ATTEMPTS
    MaxCheckouts,     \* bound on the checkouts ever created
    LastStart,        \* bound on the time of the last checkout
    MaxTime           \* bound on the clock

ASSUME CheckoutAssumption ==
    /\ NoticeNames \in {"key", "ref"}
    /\ NoSub \notin 1 .. MaxCheckouts
    /\ IsFiniteSet(Requests)
    /\ PendingTimeout \in Nat /\ MaxWait \in Nat /\ MaxTries \in Nat \ {0}
    /\ MaxCheckouts \in Nat /\ LastStart \in Nat /\ MaxTime \in Nat

VARIABLES
    rows,      \* subscriptions by id: a deleted one is gone from the domain, with its payment
    created,   \* how many checkouts were ever created; the ids are 1 .. created
    prov,      \* the provider's truth about each checkout
    notice,    \* billing_events: what became of the notification of each checkout
    asked,     \* billing_events: the checkouts whose `reconcile:' answer is stored
    served,    \* the checkouts that were ever activated
    req,       \* what each checkout request is doing
    pass,      \* what the scheduler pass is doing
    now

vars == <<rows, created, seat, prov, notice, asked, served, req, pass, now>>

Ids == 1 .. MaxCheckouts

Row ==
    [status: {"pending", "active", "cancel_at_period_end", "lapsed"},
     phone: Phones, since: Nat,
     pay: {"pending", "succeeded", "failed"},   \* its payment row `{sub}:checkout'
     ref: BOOLEAN,                              \* provider_subscription_id recorded
     held: BOOLEAN]                             \* a payment.amount_mismatch audit row

ProviderStates == {"unreached", "processing", "paid", "wrong", "declined"}

IdleRequest == [stage |-> "idle", phone |-> NoSub, id |-> NoSub, olds |-> {}]

IdlePass == [stage |-> "idle", id |-> NoSub, answer |-> "none", closing |-> FALSE]

TypeOK ==
    /\ created \in 0 .. MaxCheckouts
    /\ DOMAIN rows \subseteq 1 .. created
    /\ rows \in [DOMAIN rows -> Row]
    /\ seat \in [Phones -> DOMAIN rows \cup {NoSub}]
    /\ prov \in [Ids -> ProviderStates]
    /\ notice \in [Ids -> [state: {"new", "unmatched", "abandoned", "done"}, tries: 0 .. MaxTries]]
    /\ asked \subseteq Ids
    /\ served \subseteq Ids
    /\ req \in [Requests -> [stage: {"idle", "read", "created", "accepted", "refused"},
                             phone: Phones \cup {NoSub}, id: Ids \cup {NoSub}, olds: SUBSET Ids]]
    /\ pass \in [stage: {"idle", "answered", "close"}, id: Ids \cup {NoSub},
                 answer: {"none", "unknown", "in_progress", "succeeded", "declined"},
                 closing: BOOLEAN]
    /\ now \in Nat

Init ==
    /\ rows = <<>>
    /\ created = 0
    /\ seat = [p \in Phones |-> NoSub]
    /\ prov = [i \in Ids |-> "unreached"]
    /\ notice = [i \in Ids |-> [state |-> "new", tries |-> 0]]
    /\ asked = {}
    /\ served = {}
    /\ req = [r \in Requests |-> IdleRequest]
    /\ pass = IdlePass
    /\ now = 0

-----------------------------------------------------------------------------
(* The store *)

(* The memory store runs one transaction at a time *)
CanBegin == Store = "memory" => \A r \in Requests : req[r].stage # "read"

(* delete_subscription: the payment row goes with it, and SeatsWithout *)
Without(gone) == [i \in DOMAIN rows \ gone |-> rows[i]]

(* create_subscription, with its payment row *)
Inserted(table, id, row) ==
    [i \in DOMAIN table \cup {id} |-> IF i = id THEN row ELSE table[i]]

IsLive(i) == i \in DOMAIN rows /\ rows[i].status \in {"active", "cancel_at_period_end"}

Pending(i) == i \in DOMAIN rows /\ rows[i].status = "pending"

-----------------------------------------------------------------------------
(* A checkout request *)

(* live_subscription_for_device *)
HasLiveSubscription(p) == seat[p] # NoSub /\ IsLive(seat[p])

(* Mutant: a payment of another phone under way does not stop this one *)
refuse_number_in_use_paid_only(p) == \E i \in DOMAIN rows : rows[i].status = "active"

(* Every phone gives the same number: another's paying or pending one refuses *)
refuse_number_in_use(p) ==
    \E i \in DOMAIN rows :
        \/ rows[i].status = "active"
        \/ rows[i].status = "pending" /\ rows[i].phone # p

(* The account's unconfirmed checkouts, which a new one replaces *)
restarted(p) ==
    {i \in DOMAIN rows : /\ rows[i].phone = p
                         /\ rows[i].status = "pending"
                         /\ ~rows[i].held}

(* Step 1 of start_checkout, its reads *)
BeginCheckout(r, p) ==
    /\ req[r].stage = "idle"
    /\ CanBegin
    /\ created + Cardinality({q \in Requests : req[q].stage = "read"}) < MaxCheckouts
    /\ now <= LastStart
    /\ ~HasLiveSubscription(p)
    /\ ~refuse_number_in_use(p)
    /\ req' = [req EXCEPT ![r] = [@ EXCEPT !.stage = "read", !.phone = p, !.olds = restarted(p)]]
    /\ UNCHANGED <<rows, created, seat, prov, notice, asked, served, pass, now>>

(* Step 1, its writes: the replaced checkouts are deleted whatever became of
   them since they were read; a seat on a row that is not live is released;
   one on a live row makes the insert fail and the transaction roll back. *)
CreateCheckout(r) ==
    LET p   == req[r].phone
        own == SeatsWithout(req[r].olds)[p]
        id  == created + 1
    IN  /\ req[r].stage = "read"
        /\ \/ /\ IsLive(own)
              /\ req' = [req EXCEPT ![r] = IdleRequest]
              /\ UNCHANGED <<rows, created, seat>>
           \/ /\ ~IsLive(own)
              /\ rows' = Inserted(Without(req[r].olds), id,
                                  [status |-> "pending", phone |-> p, since |-> now,
                                   pay |-> "pending", ref |-> FALSE, held |-> FALSE])
              /\ created' = id
              /\ seat' = [SeatsWithout(req[r].olds) EXCEPT ![p] = id]
              /\ req' = [req EXCEPT ![r] = [@ EXCEPT !.stage = "created", !.id = id, !.olds = {}]]
        /\ UNCHANGED <<prov, notice, asked, served, pass, now>>

(* Step 2, nothing locked: it may take the payment and answer, take it and
   fail to answer, not be reached at all, or refuse and take nothing. With no
   answer only an audit row is written and the intent is kept. *)
CallProvider(r) ==
    LET i == req[r].id
    IN  /\ req[r].stage = "created"
        /\ \/ /\ prov' = [prov EXCEPT ![i] = "processing"]
              /\ \E stage \in {"accepted", "idle"} :
                    req' = [req EXCEPT ![r] = IF stage = "idle" THEN IdleRequest
                                              ELSE [@ EXCEPT !.stage = stage]]
           \/ /\ \E stage \in {"refused", "idle"} :
                    req' = [req EXCEPT ![r] = IF stage = "idle" THEN IdleRequest
                                              ELSE [@ EXCEPT !.stage = stage]]
              /\ UNCHANGED prov
        /\ UNCHANGED <<rows, created, seat, notice, asked, served, pass, now>>

(* Step 3: the reference is recorded unless the row was closed meanwhile *)
RecordReference(r) ==
    LET i == req[r].id
    IN  /\ req[r].stage = "accepted"
        /\ CanBegin
        /\ rows' = IF i \in DOMAIN rows THEN [rows EXCEPT ![i].ref = TRUE] ELSE rows
        /\ req' = [req EXCEPT ![r] = IdleRequest]
        /\ UNCHANGED <<created, seat, prov, notice, asked, served, pass, now>>

(* _close_refused, on the locked row *)
CloseRefused(r) ==
    LET gone == {i \in {req[r].id} : Pending(i)}
    IN  /\ req[r].stage = "refused"
        /\ CanBegin
        /\ rows' = Without(gone)
        /\ seat' = SeatsWithout(gone)
        /\ req' = [req EXCEPT ![r] = IdleRequest]
        /\ UNCHANGED <<created, prov, notice, asked, served, pass, now>>

(* The process dies; an open transaction rolls back *)
RequestDies(r) ==
    /\ req[r].stage # "idle"
    /\ req' = [req EXCEPT ![r] = IdleRequest]
    /\ UNCHANGED <<rows, created, seat, prov, notice, asked, served, pass, now>>

-----------------------------------------------------------------------------
(* apply_provider_event for a checkout's payment *)

(* The row of a successful payment: pending becomes active, another stays *)
Activated(row) ==
    [row EXCEPT !.status = IF row.status = "pending" THEN "active" ELSE row.status,
                !.pay = "succeeded"]

(* Mutant: the payment row is settled before the amount is compared *)
Applied_unchecked(i, found, kind) ==
    /\ rows' = IF ~found THEN rows
               ELSE CASE kind = "declined" -> Without({j \in {i} : Pending(j)})
                      [] kind = "wrong" -> [rows EXCEPT ![i].held = TRUE, ![i].pay = "succeeded"]
                      [] OTHER -> [rows EXCEPT ![i] = Activated(@)]
    /\ seat' = IF found /\ kind = "declined" /\ Pending(i) THEN SeatsWithout({i}) ELSE seat
    /\ served' = IF found /\ kind = "paid" /\ Pending(i) THEN served \cup {i} ELSE served

(* A decline deletes a pending checkout; a success of another amount leaves
   everything as it was but for the audit row; a success activates. *)
Applied(i, found, kind) ==
    /\ rows' = IF ~found THEN rows
               ELSE CASE kind = "declined" -> Without({j \in {i} : Pending(j)})
                      [] kind = "wrong" -> [rows EXCEPT ![i].held = TRUE]
                      [] OTHER -> [rows EXCEPT ![i] = Activated(@)]
    /\ seat' = IF found /\ kind = "declined" /\ Pending(i) THEN SeatsWithout({i}) ELSE seat
    /\ served' = IF found /\ kind = "paid" /\ Pending(i) THEN served \cup {i} ELSE served

(* _resolve: by our key, while the row exists; by the provider's reference,
   once step 3 has recorded it *)
Matches(i) == i \in DOMAIN rows /\ (NoticeNames = "key" \/ rows[i].ref)

Final(i) == prov[i] \in {"paid", "wrong", "declined"}

(* The first delivery of a checkout's notification. A redelivery finds the
   event stored and changes nothing. *)
Notify(i) ==
    /\ Final(i)
    /\ notice[i].state = "new"
    /\ CanBegin
    /\ Applied(i, Matches(i), prov[i])
    /\ notice' = [notice EXCEPT ![i].state = IF Matches(i) THEN "done" ELSE "unmatched"]
    /\ UNCHANGED <<created, prov, asked, req, pass, now>>

(* Mutant: an unmatched notification is forgotten *)
RetryUnmatched_once(i) ==
    /\ notice[i].state = "unmatched"
    /\ CanBegin
    /\ notice' = [notice EXCEPT ![i].state = "done"]
    /\ UNCHANGED <<rows, seat, served, created, prov, asked, req, pass, now>>

(* run_unmatched_events: matched at last, or given up loudly *)
RetryUnmatched(i) ==
    LET tries == notice[i].tries + 1
    IN  /\ notice[i].state = "unmatched"
        /\ CanBegin
        /\ Applied(i, Matches(i), prov[i])
        /\ notice' = [notice EXCEPT ![i] =
                        [state |-> CASE Matches(i) -> "done"
                                     [] ~Matches(i) /\ tries >= MaxTries -> "abandoned"
                                     [] OTHER -> "unmatched",
                         tries |-> tries]]
        /\ UNCHANGED <<created, prov, asked, req, pass, now>>

-----------------------------------------------------------------------------
(* The scheduler pass *)

(* What fetch_status says; `none' when the provider does not know the key *)
StatusAnswer(i) ==
    CASE prov[i] = "unreached" -> "none"
      [] prov[i] = "processing" -> "in_progress"
      [] prov[i] = "declined" -> "declined"
      [] OTHER -> "succeeded"

(* Mutant: a row whose reference never came is not asked about *)
AskProvider_by_reference(i, closing) ==
    /\ pass.stage = "idle"
    /\ Pending(i)
    /\ rows[i].ref
    /\ now >= rows[i].since + PendingTimeout
    /\ \E answer \in {StatusAnswer(i), "unknown"} :
          pass' = [stage |-> "answered", id |-> i, answer |-> answer, closing |-> closing]
    /\ UNCHANGED <<rows, created, seat, prov, notice, asked, served, req, now>>

(* run_reconciliation (closing = FALSE) and run_pending_timeouts (TRUE): the
   provider is asked with nothing locked, and may not be reachable. *)
AskProvider(i, closing) ==
    /\ pass.stage = "idle"
    /\ Pending(i)
    /\ rows[i].pay = "pending"
    /\ now >= rows[i].since + PendingTimeout
    /\ \E answer \in {StatusAnswer(i), "unknown"} :
          pass' = [stage |-> "answered", id |-> i, answer |-> answer, closing |-> closing]
    /\ UNCHANGED <<rows, created, seat, prov, notice, asked, served, req, now>>

(* Which answers let the timeout go on to close the row *)
TimesOut(i, answer) ==
    \/ answer = "none"
    \/ answer = "in_progress" /\ i \in DOMAIN rows /\ now - rows[i].since >= MaxWait

(* _reconcile_one after the answer. A final answer stored before is not
   applied again; one of a deleted row is stored and matches nothing. *)
ApplyAnswer ==
    LET i     == pass.id
        final == pass.answer \in {"succeeded", "declined"}
        fresh == final /\ i \notin asked
        goon  == pass.closing /\
                 IF final THEN ~fresh /\ i \in DOMAIN rows /\ ~rows[i].held
                 ELSE TimesOut(i, pass.answer)
    IN  /\ pass.stage = "answered"
        /\ CanBegin
        /\ IF fresh THEN Applied(i, i \in DOMAIN rows, prov[i])
           ELSE UNCHANGED <<rows, seat, served>>
        /\ asked' = IF fresh THEN asked \cup {i} ELSE asked
        /\ pass' = IF goon THEN [pass EXCEPT !.stage = "close"] ELSE IdlePass
        /\ UNCHANGED <<created, prov, notice, req, now>>

(* Mutant: held_for_review is not looked at again under the lock *)
CloseTimedOut_unchecked ==
    LET gone == {i \in {pass.id} : Pending(i)}
    IN  /\ pass.stage = "close"
        /\ CanBegin
        /\ rows' = Without(gone)
        /\ seat' = SeatsWithout(gone)
        /\ pass' = IdlePass
        /\ UNCHANGED <<created, prov, notice, asked, served, req, now>>

(* run_pending_timeouts, its last transaction, on the locked row *)
CloseTimedOut ==
    LET gone == {i \in {pass.id} : Pending(i) /\ ~rows[i].held}
    IN  /\ pass.stage = "close"
        /\ CanBegin
        /\ rows' = Without(gone)
        /\ seat' = SeatsWithout(gone)
        /\ pass' = IdlePass
        /\ UNCHANGED <<created, prov, notice, asked, served, req, now>>

PassDies ==
    /\ pass.stage # "idle"
    /\ pass' = IdlePass
    /\ UNCHANGED <<rows, created, seat, prov, notice, asked, served, req, now>>

-----------------------------------------------------------------------------
(* What else happens to a subscription, the provider and the clock *)

(* cancel_subscription *)
Cancel(i) ==
    /\ CanBegin
    /\ i \in DOMAIN rows /\ rows[i].status = "active"
    /\ rows' = [rows EXCEPT ![i].status = "cancel_at_period_end"]
    /\ UNCHANGED <<created, seat, prov, notice, asked, served, req, pass, now>>

(* run_expiries *)
Expire(i) ==
    /\ CanBegin
    /\ IsLive(i)
    /\ rows' = [rows EXCEPT ![i].status = "lapsed"]
    /\ UNCHANGED <<created, seat, prov, notice, asked, served, req, pass, now>>

(* seats.remove_seat: the payer frees a seat, here their own *)
RemoveOwnSeat(p) ==
    /\ CanBegin
    /\ HasLiveSubscription(p)
    /\ seat' = [seat EXCEPT ![p] = NoSub]
    /\ UNCHANGED <<rows, created, prov, notice, asked, served, req, pass, now>>

ProviderDecides(i) ==
    /\ prov[i] = "processing"
    /\ \E outcome \in {"paid", "wrong", "declined"} : prov' = [prov EXCEPT ![i] = outcome]
    /\ UNCHANGED <<rows, created, seat, notice, asked, served, req, pass, now>>

(* A tick is the pending timeout: no request or pass lasts that long *)
Tick ==
    /\ now < MaxTime
    /\ \A r \in Requests : req[r].stage = "idle"
    /\ pass.stage = "idle"
    /\ now' = now + 1
    /\ UNCHANGED <<rows, created, seat, prov, notice, asked, served, req, pass>>

-----------------------------------------------------------------------------
RequestStep(r) ==
    \/ CreateCheckout(r) \/ CallProvider(r) \/ RecordReference(r) \/ CloseRefused(r)

Next ==
    \/ \E r \in Requests :
          \/ \E p \in Phones : BeginCheckout(r, p)
          \/ RequestStep(r)
          \/ RequestDies(r)
    \/ \E i \in Ids :
          \/ Notify(i) \/ RetryUnmatched(i) \/ ProviderDecides(i) \/ Cancel(i) \/ Expire(i)
          \/ \E closing \in BOOLEAN : AskProvider(i, closing)
    \/ ApplyAnswer \/ CloseTimedOut \/ PassDies
    \/ \E p \in Phones : RemoveOwnSeat(p)
    \/ Tick

Spec == Init /\ [][Next]_vars

(* Fairness: requests go on or die; run_once is a job every 15 minutes, so
   every pending row is asked about again and again, the provider answers some
   of those questions, unmatched events are tried again, and a pass does not
   die for ever between its answer and its last transaction; time passes.
   Nothing makes people buy or the provider decide. *)
AskedAndAnswered(i) == AskProvider(i, TRUE) /\ pass'.answer # "unknown"

Fairness ==
    /\ \A r \in Requests : WF_vars(RequestStep(r) \/ RequestDies(r))
    /\ \A i \in Ids : SF_vars(AskedAndAnswered(i)) /\ SF_vars(RetryUnmatched(i))
    /\ SF_vars(ApplyAnswer) /\ SF_vars(CloseTimedOut)
    /\ <>[][~PassDies]_vars
    /\ SF_vars(Tick)

FairSpec == Spec /\ Fairness

(* What only some properties assume: the provider delivers its notifications *)
Delivered == \A i \in Ids : SF_vars(Notify(i))

-----------------------------------------------------------------------------
(* Properties *)

(* One phone number never has two subscriptions that charge it, whatever
   phones and requests race for it (docs/BILLING.md, "One paying subscription
   per phone number"). *)
OnePayingPerNumber == Cardinality({i \in DOMAIN rows : rows[i].status = "active"}) <= 1

(* Once money moved on a checkout, because it was activated or because a
   success was held for review, neither a newer checkout, a refusal nor the
   timeout deletes it and its payment row. *)
KeptOnceMoneyMoved ==
    [][\A i \in DOMAIN rows :
          (rows[i].status # "pending" \/ rows[i].held) => i \in DOMAIN rows']_vars

(* A pending checkout's payment row is pending too: otherwise the timeout
   would delete it without asking the provider. *)
PendingHasOpenPayment ==
    \A i \in DOMAIN rows : rows[i].status = "pending" <=> rows[i].pay = "pending"

(* Every checkout ends: paid, closed, or held for a person *)
PendingEnds == \A i \in Ids : Pending(i) ~> (~Pending(i) \/ rows[i].held)

(* If notifications arrive, money taken for a checkout is never lost without
   a trace: it is served, held for review, or given up loudly
   (`unmatched_abandoned'), even for a checkout that was replaced meanwhile. *)
PaidIsNoticed ==
    Delivered =>
        \A i \in Ids :
            prov[i] \in {"paid", "wrong"} ~>
                \/ i \in served
                \/ i \in DOMAIN rows /\ rows[i].held
                \/ notice[i].state = "abandoned"
=============================================================================
