# Verification of Cleanway / LinkShield

TLA+ modules, TLC configurations and TLAPS proofs kept beside the code of this
repository. They cover three sides of it: the server where money moves (`api/billing`, and
the circuit breaker in front of its outside sources), the browser extension (its sign-in,
its site check and block page), and the uptime monitor that tells the founder when
something is down. Everything is translated from the source; line numbers of every
definition are in `PROJECT.json` under `map`.

Run inside this directory:

    tlc -workers 4 -config Charging.cfg MCCharging.tla     # one run
    tlapm LifecycleProofs.tla                              # one proof module

## 1. The system

| Part | Code | State it keeps | Operations | Here |
|---|---|---|---|---|
| subscription state machine | `api/billing/state_machine.py` | `SubState`: status, period end, next charge, attempts, grace end, charge pending, cancel time | `apply` of 12 events, effects | `StateMachine`, `Lifecycle` |
| scheduler | `api/billing/scheduler.py` | none of its own (cron job) | renewals, expiries, reconciliation, pending timeouts, unmatched events | `Charging`, `Checkout` |
| webhooks | `service/webhooks.py`, `apply_provider_event` | event table | store once, resolve, apply | `Charging`, `Checkout` |
| checkout | `service/checkout.py` | pending subscriptions, payment rows | start (3 steps), restart, refuse, close, hold for review | `Checkout` |
| seats, codes, partner licences | `service/seats.py`, `partner.py` | seats, claim codes | create code, redeem, remove, leave | `Seats` |
| cancel | `service/cancel.py` | | by phone (seat), by number | `Charging`, `Seats` |
| idempotency keys | `deps.py` | reservation row | reserve, wait, replay, store, release | `Idempotency` |
| stores | `store/` | all tables | memory: serialised; postgres: READ COMMITTED | constant `Store` of the modules above |
| providers | `providers/` | the money | charge, status, notifications | part of `Charging`, `Checkout` |
| trial, passes, plan change, devices | `service/` | trials, device tokens | | later |
| circuit breaker | `api/services/circuit_breaker.py` | state, failure count, cooldown, probe flag | call, answer, failure, cancellation | `CircuitBreaker` |
| load shedding, rate limiter | `api/services/` | counters, slots | | later |
| DNS filter | `api/services/doh_*.py` | upstream slots, cache | | upstream slots later |
| Stripe, RevenueCat, account purge, family | `api/routers`, `api/services` | Supabase rows, Redis leases | | later |
| extension: sign-in | `packages/extension-core/src/utils/auth-session.js`, `background/auth.js` | refresh token and connect state in `storage.local`, access token in `storage.session` | hand-off, refresh, heartbeat, link, two sign-outs | `AuthSession` |
| extension: site check | `background/index.js`, `verdict-cache.js`, `public-check.js` | verdicts in memory and mirrored, pause after a 429 | check a page, check a link | `SiteCheck` |
| extension: block page | `background/block-redirect.js`, `page-blocks.js`, `content/index.js`, `utils/family-fanout.js` | allowances, today's blocks, counts | block, open anyway, count, report | `SiteCheck` |
| rest of the extension | `background/`, `content/`, `popup/`, `options/` | | guards of one page, mail scanner, user interface | not modelled |
| uptime monitor | `ops/uptime-worker/worker.js` | failures in a row, what was told, mail error (KV) | one cron run: checks, two mails, write | `UptimeMonitor`, `UptimeChecks` |
| verdicts, feeds, mobile app, website, tools | `api/services`, `mobile`, `landing`, `scripts` | | data, I/O, user interface | not modelled |

How the billing parts interact: `start_checkout` commits a pending subscription, its
owner seat and a payment row, then calls the provider with nothing locked, then commits
the provider's reference. The provider takes money when the person confirms, and
notifies by webhook: once, twice, late, out of order or never. The scheduler, a cron
job every 15 minutes, asks about payments without an answer, times out checkouts,
prepares and calls renewals and expires what ended. Every change of a subscription goes
through the state machine, whose effects run in the same transaction. All of these run
in several processes at once and meet only in the database.

The extension is one background worker per browser, which the browser stops when it is
idle and may kill at any time, and a content script in every page. Pages send messages; each
message is a handler of its own, and at every `await` another handler runs. What is in
memory dies with the worker; `storage.session` lives as long as the browser,
`storage.local` for ever. `packages/extension-core` is the shared source; `extension/`,
`extension-firefox/` and `extension-safari/` are copies of it made by the build. The uptime
monitor is a Cloudflare worker started once a minute, with nothing but one KV record
between its runs.

What is hard there: a refresh token that may be used once, with two storage areas to keep
in step; verdicts, allowances and counts read before an `await` and used after it; a worker
that dies between a claim and what follows it; a mail whose answer says nothing of
whether it arrived.

What is hard in billing: a provider call between two transactions (crash, lost answer, anything
committed in between); two handlers settling one payment; reads before a lock; check
followed by insert at READ COMMITTED; one key used by two requests. PROJECT.json lists
each at its line under `hazards`.

## 2. The modules

**StateMachine** is `state_machine.py` as pure operators, one per handler, with the
table as `Accepts`. A calendar month is `PeriodDays` days, a retry schedule the sequence
`RetryDays`, a charge key the pair of period start and attempt. `PolicyAssumption` is
what `settings.py` guarantees of the policy (retry days increase and none is after the grace).
No variables: every other module uses it, and `StateMachineProofs` holds lemmas on it.

**Lifecycle** drives one subscription with every event the table accepts at any time,
over several rows (a lapsed phone buys again). It is the exhaustive form of the 300
random sequences of `tests/billing/test_state_machine.py`. History variables record
the charges made and which of them a success settled.

**Charging** is one subscription, its charge rows, the provider's view of each charge,
notifications and several actors: scheduler workers (`PrepareCharge`, `CallProvider`,
`AcceptedRead`, `AcceptedWrite`, `RefusedWrite`), webhook requests and the reconciler
(`BeginEvent`, `CommitEvent`), cancel, expiry, refund. A transaction is split where
the code reads before it locks: `BeginEvent` is `_resolve`'s unlocked read of the
payment row, `CommitEvent` is everything after the row lock. With `Store = "memory"`
the two are not interleaved with other transactions (`store/memory.py` has one lock).
`Provider` says whether a success is confirmed by a status call (mixplat) or not.

**Checkout** is two phones buying for one number: the three steps of `start_checkout`
for each request, restart, refusal, no answer, a wrong amount (held for review), notices
that name our key or only the provider's reference (`NoticeNames`), the reconciler,
the timeout and the retry of unmatched events. With `Store = "postgres"` the reads of
the first transaction (`BeginCheckout`) and its writes (`CreateCheckout`) are two steps.

**Seats** is phones, subscriptions and codes. A redemption locks the code, then the
subscription (`Waits` says which locks a transaction waits for), reads (`BeginClaim`) and commits
(`CommitClaim`). A checkout, a new code and a removal lock nothing first: each is a task that
reads first (`ReadForCheckout`, `SeatForCheckout`, `BeginCode`, `BeginRemove`) and writes in a
later step (`StartCheckout`, `CreateCode`, `RemoveSeat`), and on Postgres anything may be committed in between, a payment of the very row a restart
is about to delete included. A row a checkout deletes is held until its commit
(`BeingDeleted`). With `Store = "memory"` one task or redemption is under way at a time. On Postgres
a licence keeps the partner as its payer (`PaidBy`), as the UPDATE there does not name that column.

**SeatTable** is the seats as the store keeps them, at most one per phone, which Checkout and
Seats both extend. (One proof module extends Checkout and Seats together, and another
Idempotency and CircuitBreaker; where the names of two such modules would meet, those of
the second carry its name: `SeatsInit`, `SeatsSpec`, `BreakerNext`, `breaker_vars`, ...)

**Idempotency** is `deps.idempotent` for one key: requests that win, wait, replay,
compute, fail (also after their effect took place), die, or take over a stale
reservation.

**CircuitBreaker** is one breaker shared by all analyses of a process. A call is two
steps around its await; it succeeds, fails or is cancelled by the analysis deadline, and
one that began while the breaker was closed may end after it opened or while the probe is
out. Times are ages that stop at the longest cooldown and the failure count stops at
the threshold; the code compares with nothing beyond, so this model has no bound on time.

**AnswerRegister** is what an Idempotency-Key promises: one answer is decided, and
everybody who is answered gets it. `Idempotency` implements it under the mapping
`answer <- Decided`, `given <- Given`: the reservation row when it is done, and
what each answered request was answered.

**ChargeLedger** is what the renewals promise about money: a charge is entered before the
provider can take it, is settled only when it was paid, and then for good, and opens its
period in the step that settles it or not at all. `Charging` with serialised transactions and without
late `pending` notices implements it under `book <- Book` (the charge rows' status, a refund counted
as settled), `truth <- Truth` (what the provider did) and `opened <- Opening` (the keys that opened a
period); workers, webhook requests, crashes and readings are what the mapping hides.

**GuestList** is what claim codes promise: a code that is out lets one phone onto a
subscription that is open and has a place left at that moment, and whoever is on an open subscription
leaves it alone, one phone at a time, or with everybody when the phone that began it begins another.
`Seats` implements it under `open <- Open` (the live subscriptions), `place <- seat`, `out <- Out` (the
issued codes), `host <- Host` (who began each) and `Strict <- (Store = "memory")`: the steps of a redemption,
a checkout, a new code and a removal and all that may come between them are one step here, their commit.
Strict says that nobody begins another over a subscription that is open. On Postgres that does not
hold: a restart deletes a checkout that was paid meanwhile (section 3, observed), and so
takes everybody off it; GuestList allows there this and nothing else.

**AuthSession** is the worker's sign-in. A handler is a job with a step per `await`: `read`,
`ask`, `store`, `store2`, `beat` of a refresh; `spend`, `save`, `save2`, `link` of a
hand-off; `so...` of a sign-out; `ub...` of the sign-out after a 403. The two storage areas are
two variables, written and removed in the order of `splitStorage`. Supabase is external:
it rotates a token on each use and refuses an old one. What it knows of a token is kept with
every copy of it (`is`: live, spent, dead), so the model needs no history. `Begin` is the
single flight of `ensureFresh`; `IdleStop`, `Kill` and `BrowserRestarts` are the browser.

**SiteCheck** is the page check, link checks, the block page and what follows a shown block,
for several tabs. `Check` decides by the cache, `Lookup` by the pause when it is a link's turn, `Send` is
the request after the wait for the install number, `Answered` / `Unanswered` is the API,
`StatsRead` / `StatsWritten` the mutex's read-modify-write, `BlockPage` / `Navigate` /
`Refused` the redirect, `ProceedRead` / `ProceedWritten` "open anyway", `Claim` ...
`Report` the count and the report of a block. `flagged`, `shown`, `chosen` and `limited`
are history: what the API said, what was on screen, what the person chose, and whether
the browser was asked to wait. `Guess` is the set of hosts the offline scorer calls dangerous.

**UptimeMonitor** is `tick()` in four steps (`Start`, `MailDown`, `MailBack`, `Write`) with
a kill possible between them, for any checks, thresholds and readings; **UptimeChecks**
gives the readings of the code's own kinds of check.

**MC\*** modules only hold the small policies and symmetry sets of the runs.
Definitions named `X_something` with a comment "Mutant" are altered copies of `X`;
they are used by nothing in the specifications, only to see that each property notices
the bug they contain.

## 3. The runs

| Run | Asks | Bounds |
|---|---|---|
| Lifecycle | what no sequence of events may do, charged by us or by the provider | period 3, grace 2, retries on days 1 and 2, 8 days, 2 rows |
| Charging | two overlapping scheduler passes, webhook, reconciler, cancel, expiry, refund on Postgres, late `pending` notices included | 2 workers, 1 webhook request, 2 charges, period 2, 3 days |
| ChargingLive | with serialised transactions: a charge the provider has an answer for does not stay pending; a success counts once unless another charge is in flight; the ledger it implements | 1 worker, 2 charges, period 1, 2 days |
| Checkout | one payer per number, an open payment for each open checkout, nothing paid is deleted, with serialised transactions | 2 phones, 2 requests, 3 checkouts, 2 time steps |
| CheckoutLive | every checkout ends; money taken is noticed if notifications arrive | 1 phone, 1 request, 2 checkouts |
| Seats | seats and codes on Postgres, and the guest list they implement | 3 phones, 2 subscriptions, 2 codes, 2 seats, 2 tasks |
| Idempotency | one key: safety, the register it implements, and every living request ends | 3 requests, TTL 2, 2 waiting steps, 5 time steps |
| CircuitBreaker | one probe, spaced probes, opened only by the threshold, closes again | 3 concurrent calls, threshold 3, cooldown 2, cap 5 |
| AuthSession | no token is spent twice by the extension itself; half a session never stays | 2 refresh slots, 1 hand-off at a time, 2 sessions, 1 kill |
| SiteCheck | whoever lives to decide blocks unless the person chose; the family hears only of confirmed blocks; one count a day; links wait | 2 hosts (one the scorer would block), 2 tabs, 1 link check, 2 visits, 1 lapse, 1 fault |
| UptimeMonitor | mails are true, a mail error means a mail is owed, the founder knows in the end | 2 checks (thresholds 2 and 5, one removable, one silent at times), 1 fault |

Why the bounds are enough for the cases they aim at: two charges suffice for an old
notification to meet a new charge, a period of two days for a retry and an expiry on both
sides of its end, two workers and two phones for every check-then-write race, three phones
for a full plan of two seats, two tasks for a checkout that meets another, a removal or a new code, three requests for a reservation that is taken over while a
third request waits, three calls for a probe with an old call and a new one beside it, and a
cap of 5 over a cooldown of 2 for a doubling that fits and one that is cut; two sessions and
a kill for an old session's refresh that meets a new hand-off, and a second refresh slot for a
second caller to start in if nothing stopped it; two tabs on two hosts for every shared
record of the extension (stats, ledger, allowances, cache); two
checks with different silences and one fault for each place a run can lose a mail or a write. The clock
(`MaxTime`), `MaxCharges`, `MaxCheckouts`, `MaxTries`, `MaxRow`, `LastStart` and
`RedeliveryDays`, `MaxSessions`, `MaxKills`, `MaxVisits`, `MaxLinks`, `MaxLapses` and
`MaxFaults` are bounds of the model only; so is `PaidAhead` (nobody pays beyond the end
of the clock). Runs with a bounded clock say `CHECK_DEADLOCK FALSE`, as it stops every
behaviour, and so do the bounds of SiteCheck (a person who opens nothing more); CircuitBreaker,
AuthSession and UptimeMonitor never stop and are checked for deadlock. A run checks a type
invariant only where it bounds what the code must bound (UptimeMonitor: no count passes its
threshold); those of the other modules are theorems of section 4 or parts of their invariants.

**A run that is expected to fail.** It checks one statement of the repository's own docs,
and TLC finds the code doing otherwise; `findings` in PROJECT.json has the lines and the
quotations.

| Run | Statement | What happens |
|---|---|---|
| DoubleExtension | a period is paid at most once (`GivenAtMostOnce`) | on Postgres a webhook and the reconciler both read the charge row as pending before they lock the subscription, and the second settles it again |

**Observed while modelling, without a run of their own.** The same models show these when
given other constants or another property:

* Checkout with `Store = "postgres"` and nothing else changed: `OnePayingPerNumber` fails. Two checkouts both
  look for the number (`service/checkout.py:112-113`, 170-176) before either inserts (117), with no
  lock and no unique index (`migrations/001_billing_schema.sql:76`), and both are paid (162 says "One
  paying subscription per phone number").
* The same with `KeptOnceMoneyMoved`: a restart lists the account's pending rows without a lock (204)
  and deletes them unconditionally (`store/postgres.py:285-286`), also one that a notification activated
  meanwhile (208 says "money moved on it: kept for a person").
* Seats with `Store = "postgres"`, one phone, one subscription, one code, one task: `LicenceIsOwned` fails.
  `redeem_claim_code` makes the first phone the payer of a licence (`service/seats.py:90`), but the UPDATE
  of the Postgres store does not write that column (`store/postgres.py:270-279`; `store/memory.py`
  does), so the owner can neither create codes nor remove phones (`docs/BILLING.md:192`: "first phone
  to redeem becomes the owner").
* SiteCheck with one host the scorer would block, two tabs, no links and `MaxVisits = 4`: `OpenedStaysOpen` fails.
  `allow()` reads all allowances (`block-redirect.js:81`) and writes them back (83); of two tabs that both
  read first one loses its allowance and is blocked again (19-20: "allowed for that site in that tab").
* With serialised transactions too (`Store = "memory"`, one worker, one request, two charges,
  4 days, `RedeliveryDays = 1`), `GivenAtMostOnce` fails: a webhook whose payment the reconciler
  has settled arrives while the next charge is in flight and is taken for its success
  (`service/checkout.py:352`; `webhooks.py:11-12` says a redelivery has no second effect).
* `NoCallAfterCancel` fails: a cancel committed between the charge row and the provider call
  does not stop the call (`scheduler.py:125`; `service/cancel.py:1-2` says "after a cancel not
  one more kopeck is charged").
* A `pending` notice delivered after the success puts a settled row back to pending
  (`service/checkout.py:380`), and the reconciler counts it again.
* `AcceptedWrite` writes the whole row back from an unlocked read
  (`scheduler.py:140-142`), so on Postgres it can undo a settlement that came in between.
* A success that arrives after the subscription lapsed is recorded as succeeded and gives
  nothing; `PaidIsServedWhileLive` is stated for live subscriptions for this reason.
* On Postgres a checkout can release the phone's seat on a checkout of its own that was paid
  after the seat was read, and a restart takes the seats of the row it deletes with it: `SeatIsKept`
  excepts both.
* A restarted checkout that is paid anyway is reported only by a webhook: its row is gone,
  so the reconciler does not ask. `PaidIsNoticed` therefore has delivery as its premise.
* A payer who frees their own seat finds no subscription to cancel in the app.
* On Postgres a redemption can release a seat it saw on a pending subscription
  that was paid meanwhile; `SeatIsKept` excepts the redeeming phone's own claim.
* `idempotent()` frees the key after any exception, also one raised after the effect took place;
  `EffectOnce` says so.
* A call that is not the probe but fails while the breaker is half open also
  doubles the cooldown (`circuit_breaker.py:147-152`); the branch at 166 is never needed (`OpenIsEarned`).

* Extension sign-in: a sign-out that overlaps the two writes of a refresh is undone by them, so
  the session is back, or half of it until the next refresh (`auth-session.js:337` and `440`;
  `scripts/test-extension-auth.mjs:366` says sign-out forgets every token). A status asked between the
  two removals of a sign-out can mint a new access token. A refusal of an old session's
  token signs out the account that was handed over meanwhile (449). A kill between the two
  writes of a hand-off leaves the old access token beside the new refresh token until it ages.
  `Heals` says that each of these ends, not that it does not happen.
* Two AUTH_CONNECT messages with one state can both pass its check before it is removed
  (`auth-session.js:362-365`).
* Site check: a fallback that comes late overwrites an API verdict in memory
  (`background/index.js:225`), so a confirmed block shown a moment later is not reported; a worker
  killed between the day's claim and the count loses count and report for 24 hours
  (`background/index.js:276-279`).
* Site check: a link check that is past its test of the pause and waits for the install number
  (`public-check.js:164-172`) is sent although a 429 has come meanwhile; `LinksWaitOutThePause` is about
  the test. A page whose check dies with its worker is judged by the offline score alone.
* Block page: a block decided for a page can replace the one the tab has gone on to (169); a worker killed while it
  is asked to block leaves the page open, and nothing asks again (`content/index.js:436-438`).
* Uptime monitor: a "back" mail whose write was lost leaves the check recorded as told, so an
  outage that resumes before a recorded good run is not mailed (`worker.js:18-22` say it would be);
  a "down" mail whose write was lost may get no "back" mail; a deploy that removes the backup
  binding while it is down forgets that it was told; nothing keeps two runs apart.

**Fairness.** Safety runs assume none.

* `FairSpec` of Charging: the cron job runs every 15 minutes, so a worker's pass that goes
  on infinitely often finishes (strong fairness of its steps, of the reconciler's begin and
  commit and of asking about each charge), a webhook request inside its transaction
  commits, and the provider decides sooner or later. Handlers may die, but not for ever.
  No webhook is assumed to arrive, and neither the clock nor an expiry to advance.
* `FairSpec` of Checkout: a request goes on or dies; asking about a checkout and applying
  the answer, retrying unmatched events, closing timed out checkouts and the clock are strongly
  fair for the same reason; from some time on no pass dies. Notifications are assumed
  only as the premise `Delivered` of `PaidIsNoticed`.
* `FairSpec` of Idempotency: every living request goes on.
* `FairSpec` of AuthSession: a handler of a running worker goes on; an idle worker is stopped and
  the next event (a page visit, an alarm) starts it again; the popup or the alarm
  asks for a refresh now and then; access tokens age; and a server that is asked again
  and again answers (strong fairness of `Rotated` and `Refused` only: single answers may
  be lost for ever). No sign-out, hand-off or heartbeat answer is assumed.
* `FairSpec` of UptimeMonitor: cron starts a run every minute and a run that is not killed ends
  (weak fairness of `Tick`). That the mail service works and the check goes on saying
  the same is a premise of `FounderKnows`.
* `FairSpec` of CircuitBreaker: analyses keep coming and time passes. `ClosesAgain` has
  as its premise that from some time on no call fails and that a call is not for ever
  cancelled before it succeeds.

## 4. The proofs

TLAPS 1.4.5 with Z3, Zenon and LS4.

* `StateMachineProofs`: lemmas on the operators. Every handler returns a `SubState`
  (`HandlersTyped`), keeps `Sound`, the shape each status gives to the row - which
  deadlines are set, which attempt comes next, what the grace allows - (`...Sound`), and
  takes only steps that respect cancels, keys and periods (`...Legal`), for any policy
  within `PolicyAssumption`.
* `LifecycleProofs`: `TypeCorrect`, `PaidDaysServed`, `ModeCorrect`, `RetriesBounded`,
  `ChargedOnce`, `CancelFinal` and `PeriodsInOrder`, all from `Inductive`, whose invariant is
  `Inv == TypeOK /\ Sound(s, now) /\ ModeFollowsStatus /\ KeysInv`. The properties alone are
  not inductive: that no key is charged twice needs to know that every charge this row has made is
  of an earlier period or an earlier attempt (`KeysInv`), which needs that an attempt number grows
  before a period is tried again (`Sound`); that nothing lapses early and that
  retries end inside the grace need the deadlines of `Sound`.
* `ChargingProofs`: `CalledOnce`, `FlightHasItsRow`, `PaidServed` and `CancelStops`, on both stores, for
  both providers, with late `pending` notices, any number of workers, requests and charges. `Inv` adds
  to the properties: the subscription is `Sound` and was paid for (`Served`); a key somebody works
  on has a row (`RowsBehind`); a prepared charge is its worker's alone and was not called yet
  (`Uncalled`, from which `OneCallPerKey` follows); what a row says, now or when it was read without
  a lock, the subscription has seen (`AllHonest`); and while a charge is in flight its row is pending
  and no worker holds an older reading to write back (`FlightKept`).
  `SettlesOnce` (`OwnRowSettlesOnce`) has two hypotheses, `Store = "memory"` and no `pending` notices, and
  adds that a reading is still what is stored (`Serialised`), that events say what the provider
  decided (`TrueEvents`), that a settled row was paid (`SettledIsPaid`) and that a key that opened a
  period is settled (`GivenIsSettled`). `LedgerImplemented`, the refinement of ChargeLedger, has the same
  hypotheses: one lemma per action maps it to a step of the ledger or to a stutter, and the last
  two parts of the invariant hold on because every step of the ledger keeps them. Both theorems are false
  without the first hypothesis (DoubleExtension shows it for the first, and for the second
  `AcceptedWrite` and `RefusedWrite` write back an unlocked reading, which unsettles a row), and without
  the second one (a late notice puts the row back to pending, section 3).
* `CheckoutProofs`, about Seats on both stores: `PlanRespected`, `CodeUsedOnce`, `JoinersFindItLive`
  and `SeatsKept`, and `GuestListImplemented`, the refinement of GuestList. None is inductive alone: a
  redemption counts seats in one step and takes one in another, and a task reads in one step what
  it acts on in another. `Held` says what a redemption's two locks keep true in between: its code is still
  out, its subscription lives, has a free seat and is deleted by nobody, and no other redemption is for that
  subscription; steps that take no lock can only free seats of a live subscription.
  `CodesFit` says that a code that is out is for a row that exists, and a licence is never unpaid;
  `TasksKnown` that the rows a task has read are, while they exist, still paid for by the phone that asked,
  so that a restart takes back only what its own phone began, paid meanwhile or not; `Alone` that
  with serialised transactions one task or redemption is under way and what it read is not live,
  which is what Strict needs. `SeatsKept` names, for Postgres, the readers that can still take a seat.
* `CheckoutProofs`, about Checkout on both stores: `CheckoutInductive` and `PendingIsUnpaid`. `CheckoutInv`
  adds which rows requests and the pass know, that nothing is known to the provider before it was
  called (`RequestsKnown`, `NotYetReached`), that only another amount holds a row (`HeldIsWrong`) and that a
  place is left for every checkout that has read (`RoomForReaders`). With serialised transactions
  `OneNumberPaysOnce` and `MoneyKeepsTheRow`, from `SerialInv`: what a checkout read is still so when it
  writes (`ReadStillTrue`), and at most one row charges or may come to charge (`OneMayCharge`). Both theorems
  have `Store = "memory"` as their hypothesis because Postgres does not give them (section 3).
* `GuardProofs`, about Idempotency: `TypeCorrect`, `Exclusive`, `SameAnswer`, `EffectsOnce`, and
  `RegisterImplemented`, the refinement of AnswerRegister, step by step. The
  strengthening says whose reservation the row holds: while a request runs, the row is
  in progress since that request's start, and an answer in the row is its answer.
  `Exclusive` rests on `ComputeAssumption`: a living request computes for at most
  the TTL. Without it the theorem is false (a slow request and its successor both run).
* `GuardProofs`, about CircuitBreaker: `ProbesOneAtATime`, `OpenedByItsThreshold`, `ProbesSpaced`. What
  makes them inductive: a half-open breaker has waited out its cooldown (`HalfOpenIsDue`),
  and whatever renews the wait of an open breaker comes after the last probe started
  (`WaitFollowsProbe`).

* `AuthSessionProofs`: `TypeCorrect` and `NeverSpentTwice`. The invariant is stated over the stored
  token, the jobs and the number of sessions as parameters, so that each step is a
  lemma on values. Its parts: one refresh runs at a time (`SingleFlight`); a token
  about to be sent or stored was not spent before (`Sendable`); a spent token in
  storage has its successor in the hands of the refresh that is about to write it
  (`StoredIsLast`); a session handed over is nowhere else until it is saved (`OwnSession`); only
  such sessions are known (`Known`); and a sign-out for "expired" holds a dead token (`Ended`).
* `UptimeMonitorProofs`: `TypeCorrect`, `ErrorIsOwed`, `TrueMails`, for any set of checks,
  thresholds and readings. The invariant relates the run's locals to the state
  it read, and, while nothing was lost, what was told to what is recorded.
* `SiteCheckProofs`: `TypeCorrect`, `FamilyHears`, `Blocked`, `LinksWait`, `CountedOnce`. The invariant:
  a dangerous API verdict is in the cache or its mirror only if the API gave it (`Sources`);
  the worker's pause follows the kept one while it runs (`Pauses`); an allowance is one the person
  chose (`Choices`); a block page is about a host (`Screens`); and each job's locals fit
  its step, a counted block having been on screen and a page left open by decision having been chosen
  (`Works`); a page whose own handler was stopped is at another step (`lost`), so that no stop excuses any
  other page. The count of blocks has an invariant of its
  own, `CountInv`: one job is inside the mutex (`OneHolds`), what it read there is what is
  stored (`Fresh`), the counter and the claims not yet counted make up the ledger (`Accounts`, a
  cardinality), and a block on screen is in the ledger or being claimed unless the worker was killed
  (`Claims`).

They hold for every number of requests, callers, workers, phones, codes, rows, tabs, hosts and sessions,
every clock bound and every policy; TLC's runs of the same properties are the small instances.
Every invariant and every action property that a passing run checks is a theorem. Outside the
prover, and so only model-checked, are the properties under fairness (`PendingIsResolved`,
`PendingEnds`, `PaidIsNoticed`, `RequestsEnd`, `ClosesAgain`, `Heals`, `FounderKnows`), and the
expected violations of section 3. The assumptions the proofs use are the named ones of the modules
(`PolicyAssumption`, `ChargingAssumption`, `SeatTableAssumption`, ...), which TLC evaluates in every run.

## 5. What is left out and why

Amounts are "what the row expects" or not; phone numbers, consents, ciphers, signatures,
texts and HTTP codes do not change billing state and are left out. Audit rows
appear only where the code reads them back (`held_for_review`). A provider is what its
interface allows. Calendar arithmetic (`add_months`) is a fixed number of days.
In the extension, scores, reasons, badges, the encryption of alerts and hosts judged without
the API are left out; `caution` is not told from safe, as nothing modelled does either. The
guards that judge one page by its own forms and scripts, the mail scanner and the pages of the
extension have no state that several handlers share beyond what is modelled. In the uptime
monitor the wording of mails and errors is left out.
`run_expiries` is one transaction for all subscriptions; with one subscription per
model its all-or-nothing effect is not visible.

## 6. Plan

1. Done: StateMachine, Lifecycle, Charging, Checkout, Seats, Idempotency with AnswerRegister,
   CircuitBreaker, AuthSession, SiteCheck, UptimeMonitor, with proofs of their safety properties.
2. Done: the abstract specifications AnswerRegister, ChargeLedger and GuestList, each with the proof that
   the detailed module implements it. To state next: what a checkout promises (one payer per number, money
   kept) and what a session promises (its tokens used in order).
3. Models that remain, in order of worth: Trial and device passes, plan change, the calendar of
   `add_months`; the load-shedding budgets and the DoH upstream slots (lost wake-ups); Stripe webhook
   leases; account purge against restore; RevenueCat transfers and the mobile app's purchase
   by a person who signs out meanwhile; the DNS probe of `useNetworkShield`.
