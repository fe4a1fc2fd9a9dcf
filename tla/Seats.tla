------------------------------- MODULE Seats --------------------------------
(***************************************************************************)
(* Seats and claim codes: service/seats.py with the parts of checkout,     *)
(* cancel and partner.py that touch seats.  A phone is a device with its   *)
(* own account and number.                                                 *)
(*                                                                         *)
(* redeem_claim_code locks the code and its subscription, reads, and then  *)
(* writes: BeginClaim and CommitClaim.  start_checkout, create_claim_code  *)
(* and remove_seat lock nothing: a request (a task here) reads in one step *)
(* and writes in a later one, and a row it deletes is held from the DELETE *)
(* to its commit.  What becomes of a checkout beyond its seat (numbers,    *)
(* amounts, the provider) is in Checkout; rows held for review are here    *)
(* the unpaid ones a restart leaves alone.                                 *)
(***************************************************************************)
EXTENDS SeatTable

CONSTANTS
    Tasks,         \* requests that run at once: checkouts, new codes, removals
    Subs,          \* subscription ids that may be used
    Codes,         \* claim codes that may be issued
    Partner,       \* the account a licence is issued to
    PlanSeats      \* seats of each subscription's plan

ASSUME SeatsAssumption ==
    /\ NoSub \notin Subs
    /\ Partner \notin Phones
    /\ PlanSeats \in [Subs -> Nat \ {0}]

VARIABLES
    sub,      \* status, payer and origin of each subscription
    code,     \* the claim codes, and (history) who joined with each
    claim,    \* the redemption each phone has under way
    work      \* what each task has read, and is about to write

seats_vars == <<sub, seat, code, claim, work>>

NewSub == [status |-> "none", payer |-> Partner, licence |-> FALSE]

NewCode == [state |-> "unused", sub |-> NoSub, licence |-> FALSE, joined |-> {}]

NoClaim == [stage |-> "idle", code |-> NoSub, seen |-> NoSub, owner |-> FALSE]

(* phone: who asked; olds: the unpaid rows a checkout replaces; drop: the
   stale seat it releases; sub: the subscription of a new code or a removal *)
NoWork == [stage |-> "idle", phone |-> NoSub, olds |-> {}, drop |-> NoSub, sub |-> NoSub]

(* "charging" is active or grace, "stopping" cancel_at_period_end *)
SeatsTypeOK ==
    /\ sub \in [Subs -> [status: {"none", "pending", "charging", "stopping", "over"},
                         payer: Phones \cup {Partner}, licence: BOOLEAN]]
    /\ seat \in [Phones -> {s \in Subs : sub[s].status # "none"} \cup {NoSub}]
    /\ code \in [Codes -> [state: {"unused", "issued", "redeemed", "expired"},
                           sub: Subs \cup {NoSub}, licence: BOOLEAN, joined: SUBSET Phones]]
    /\ claim \in [Phones -> [stage: {"idle", "locked"}, code: Codes \cup {NoSub},
                             seen: Subs \cup {NoSub}, owner: BOOLEAN]]
    /\ work \in [Tasks -> [stage: {"idle", "checkout", "seating", "coding", "removing"},
                            phone: Phones \cup {NoSub}, olds: SUBSET Subs,
                            drop: Subs \cup {NoSub}, sub: Subs \cup {NoSub}]]

SeatsInit ==
    /\ sub = [s \in Subs |-> NewSub]
    /\ seat = [p \in Phones |-> NoSub]
    /\ code = [c \in Codes |-> NewCode]
    /\ claim = [p \in Phones |-> NoClaim]
    /\ work = [r \in Tasks |-> NoWork]

-----------------------------------------------------------------------------
is_live(s) == s # NoSub /\ sub[s].status \in {"charging", "stopping"}

live_subscription_for_device(p) == IF is_live(seat[p]) THEN seat[p] ELSE NoSub

(* The memory store runs one transaction at a time *)
CanStart ==
    Store = "memory" => /\ \A p \in Phones : claim[p].stage = "idle"
                        /\ \A r \in Tasks : work[r].stage = "idle"

(* A checkout has deleted the row and has not committed yet *)
BeingDeleted(s) == \E r \in Tasks : work[r].stage = "seating" /\ s \in work[r].olds

(* Whoever locks or writes the row waits for that, and for a redemption under
   way, which holds its code and its subscription *)
LockedSub(s) ==
    \/ \E p \in Phones : claim[p].stage = "locked" /\ code[claim[p].code].sub = s
    \/ BeingDeleted(s)

LockedCode(c) == \E p \in Phones : claim[p].stage = "locked" /\ claim[p].code = c

(* An id nobody has or remembers: ids are never used twice (uuid4) *)
Unused(s) ==
    /\ sub[s].status = "none"
    /\ \A p \in Phones : claim[p].seen # s
    /\ \A r \in Tasks : s \notin work[r].olds \cup {work[r].drop, work[r].sub}

(* delete_subscription: its claim codes go with it *)
CodesWithout(gone) ==
    [c \in Codes |-> IF code[c].state = "issued" /\ code[c].sub \in gone
                     THEN [code[c] EXCEPT !.state = "expired"] ELSE code[c]]

SetStatus(s, status) == sub' = [sub EXCEPT ![s].status = status]

(* _owned_live_subscription: the phone's live subscription, which it pays for *)
Owned(p, s) == live_subscription_for_device(p) = s /\ s # NoSub /\ sub[s].payer = p

-----------------------------------------------------------------------------
(* Buying and losing a subscription *)

Unpaid(p) == {t \in Subs : sub[t].status = "pending" /\ sub[t].payer = p}

(* start_checkout reads that the phone has no live subscription, and which of
   its unpaid rows to replace: all but those held for review *)
ReadForCheckout(r, p) ==
    /\ work[r].stage = "idle"
    /\ CanStart
    /\ live_subscription_for_device(p) = NoSub
    /\ \E olds \in SUBSET Unpaid(p) :
          work' = [work EXCEPT ![r] = [NoWork EXCEPT !.stage = "checkout", !.phone = p, !.olds = olds]]
    /\ UNCHANGED <<sub, seat, code, claim>>

(* It deletes these, whatever became of them meanwhile, once no redemption or
   other checkout holds one, and looks at the seat that is left *)
SeatForCheckout(r) ==
    LET own == SeatsWithout(work[r].olds)[work[r].phone]
    IN  /\ work[r].stage = "checkout"
        /\ \A t \in work[r].olds : ~LockedSub(t)
        /\ work' = [work EXCEPT ![r].stage = "seating", ![r].drop = IF is_live(own) THEN NoSub ELSE own]
        /\ UNCHANGED <<sub, seat, code, claim>>

(* It releases that seat if it was stale, takes one on the new row, and
   commits; a seat the phone has got by now, or never lost, rolls all back
   (the unique index). *)
StartCheckout(r, s) ==
    LET p    == work[r].phone
        olds == work[r].olds
        gone == SeatsWithout(olds)
    IN  /\ work[r].stage = "seating"
        /\ Unused(s)
        /\ \/ /\ gone[p] \in {work[r].drop, NoSub}
              /\ sub' = [t \in Subs |-> CASE t = s -> [status |-> "pending", payer |-> p, licence |-> FALSE]
                                          [] t \in olds -> NewSub
                                          [] OTHER -> sub[t]]
              /\ seat' = [gone EXCEPT ![p] = s]
              /\ code' = CodesWithout(olds)
           \/ /\ gone[p] \notin {work[r].drop, NoSub}
              /\ UNCHANGED <<sub, seat, code>>
        /\ work' = [work EXCEPT ![r] = NoWork]
        /\ UNCHANGED claim

(* The process dies, or an error ends the request: nothing is written *)
TaskDies(r) ==
    /\ work[r].stage # "idle"
    /\ work' = [work EXCEPT ![r] = NoWork]
    /\ UNCHANGED <<sub, seat, code, claim>>

(* The first payment, on the locked row *)
Paid(s) ==
    /\ CanStart
    /\ sub[s].status = "pending"
    /\ ~LockedSub(s)
    /\ SetStatus(s, "charging")
    /\ UNCHANGED <<seat, code, claim, work>>

(* Mutant: the row is deleted whatever its status is by now *)
Closed_unchecked(s) ==
    /\ CanStart
    /\ sub[s].status # "none"
    /\ ~LockedSub(s)
    /\ sub' = [sub EXCEPT ![s] = NewSub]
    /\ seat' = SeatsWithout({s})
    /\ code' = CodesWithout({s})
    /\ UNCHANGED <<claim, work>>

(* A refusal, a decline or the timeout deletes the row with all that is its *)
Closed(s) ==
    /\ CanStart
    /\ sub[s].status = "pending"
    /\ ~LockedSub(s)
    /\ sub' = [sub EXCEPT ![s] = NewSub]
    /\ seat' = SeatsWithout({s})
    /\ code' = CodesWithout({s})
    /\ UNCHANGED <<claim, work>>

(* Mutant: the row is updated while a redemption holds it *)
Ended_unlocked(s) ==
    /\ CanStart
    /\ is_live(s)
    /\ SetStatus(s, "over")
    /\ UNCHANGED <<seat, code, claim, work>>

(* A lapse or a refund; the row is updated once a redemption lets go of it *)
Ended(s) ==
    /\ CanStart
    /\ is_live(s)
    /\ ~LockedSub(s)
    /\ SetStatus(s, "over")
    /\ UNCHANGED <<seat, code, claim, work>>

(* cancel_subscription, in the app: the payer's phone needs a seat on it *)
CancelInApp(p, s) ==
    /\ CanStart
    /\ Owned(p, s)
    /\ sub[s].status = "charging"
    /\ ~LockedSub(s)
    /\ SetStatus(s, "stopping")
    /\ UNCHANGED <<seat, code, claim, work>>

(* create_partner_license: active at once, its code makes the owner *)
IssueLicence(s, c) ==
    /\ CanStart
    /\ Unused(s)
    /\ code[c].state = "unused"
    /\ sub' = [sub EXCEPT ![s] = [status |-> "charging", payer |-> Partner, licence |-> TRUE]]
    /\ code' = [code EXCEPT ![c] = [@ EXCEPT !.state = "issued", !.sub = s, !.licence = TRUE]]
    /\ UNCHANGED <<seat, claim, work>>

-----------------------------------------------------------------------------
(* Claim codes *)

SeatIsFree(s) == Cardinality(list_seats(s)) < PlanSeats[s]

(* create_claim_code: nothing is locked, the seats are only counted *)
BeginCode(r, p, s) ==
    /\ work[r].stage = "idle"
    /\ CanStart
    /\ Owned(p, s)
    /\ SeatIsFree(s)
    /\ work' = [work EXCEPT ![r] = [NoWork EXCEPT !.stage = "coding", !.sub = s]]
    /\ UNCHANGED <<sub, seat, code, claim>>

(* Its insert waits for who holds the row, and fails if the row is gone *)
CreateCode(r, c) ==
    LET s == work[r].sub
    IN  /\ work[r].stage = "coding"
        /\ ~LockedSub(s)
        /\ \/ /\ sub[s].status # "none"
              /\ code[c].state = "unused"
              /\ code' = [code EXCEPT ![c] = [@ EXCEPT !.state = "issued", !.sub = s]]
           \/ /\ sub[s].status = "none"
              /\ UNCHANGED code
        /\ work' = [work EXCEPT ![r] = NoWork]
        /\ UNCHANGED <<sub, seat, claim>>

ExpireCode(c) ==
    /\ code[c].state = "issued"
    /\ ~LockedCode(c)
    /\ code' = [code EXCEPT ![c].state = "expired"]
    /\ UNCHANGED <<sub, seat, claim, work>>

(* Mutant: only the code is locked *)
Waits_for_code(c) == LockedCode(c)

(* Both rows are locked: another redemption of either waits *)
Waits(c) == LockedCode(c) \/ LockedSub(code[c].sub)

(* Mutant: a code of a subscription that ended still joins *)
Valid_any_status(c) == code[c].state = "issued"

Valid(c) == code[c].state = "issued" /\ is_live(code[c].sub)

Covered(p) == live_subscription_for_device(p) # NoSub

JoinsAsOwner(c) == code[c].licence /\ list_seats(code[c].sub) = {}

(* redeem_claim_code up to its writes, with the code and then its subscription
   locked. A phone that is in already is told so, and nothing changes. *)
BeginClaim(p, c) ==
    /\ claim[p].stage = "idle"
    /\ CanStart
    /\ ~Waits(c)
    /\ Valid(c)
    /\ seat[p] # code[c].sub
    /\ ~Covered(p)
    /\ SeatIsFree(code[c].sub)
    /\ claim' = [claim EXCEPT ![p] = [stage |-> "locked", code |-> c, seen |-> seat[p],
                                      owner |-> JoinsAsOwner(c)]]
    /\ UNCHANGED <<sub, seat, code, work>>

(* update_subscription with a new payer: the UPDATE of postgres.py does not
   name that column *)
PaidBy(s, p) == IF Store = "memory" THEN [sub EXCEPT ![s].payer = p] ELSE sub

(* Mutant: the code is not marked *)
CommitClaim_unmarked(p) ==
    LET c == claim[p].code
        s == code[c].sub
    IN  /\ claim[p].stage = "locked"
        /\ ~BeingDeleted(claim[p].seen)
        /\ seat' = [seat EXCEPT ![p] = s]
        /\ code' = [code EXCEPT ![c].joined = @ \cup {p}]
        /\ claim' = [claim EXCEPT ![p] = NoClaim]
        /\ UNCHANGED <<sub, work>>

(* Its writes: the old seat it saw is released, the new one added unless the
   phone has yet another by now (the unique index: all rolls back), the payer
   set for a licence's owner, the code marked. The release waits for a
   checkout that is deleting that seat. *)
CommitClaim(p) ==
    LET c == claim[p].code
        s == code[c].sub
    IN  /\ claim[p].stage = "locked"
        /\ ~BeingDeleted(claim[p].seen)
        /\ \/ /\ seat[p] \notin {claim[p].seen, NoSub}
              /\ UNCHANGED <<sub, seat, code>>
           \/ /\ seat[p] \in {claim[p].seen, NoSub}
              /\ seat' = [seat EXCEPT ![p] = s]
              /\ sub' = IF claim[p].owner THEN PaidBy(s, p) ELSE sub
              /\ code' = [code EXCEPT ![c].state = "redeemed", ![c].joined = @ \cup {p}]
        /\ claim' = [claim EXCEPT ![p] = NoClaim]
        /\ UNCHANGED work

(* The process dies, its transaction rolls back *)
ClaimDies(p) ==
    /\ claim[p].stage = "locked"
    /\ claim' = [claim EXCEPT ![p] = NoClaim]
    /\ UNCHANGED <<sub, seat, code, work>>

(* remove_seat: the payer frees a seat, their own included. Whether it is
   theirs to free is read, nothing locked, and the seat released later; one
   that is gone by then is an error (TaskDies). *)
BeginRemove(r, p) ==
    /\ work[r].stage = "idle"
    /\ CanStart
    /\ Owned(p, seat[p])
    /\ work' = [work EXCEPT ![r] = [NoWork EXCEPT !.stage = "removing", !.phone = p, !.sub = seat[p]]]
    /\ UNCHANGED <<sub, seat, code, claim>>

RemoveSeat(r, q) ==
    /\ work[r].stage = "removing"
    /\ ~BeingDeleted(work[r].sub)
    /\ seat[q] = work[r].sub
    /\ seat' = [seat EXCEPT ![q] = NoSub]
    /\ work' = [work EXCEPT ![r] = NoWork]
    /\ UNCHANGED <<sub, code, claim>>

-----------------------------------------------------------------------------
Task(r) ==
    \/ \E p \in Phones :
          ReadForCheckout(r, p) \/ BeginRemove(r, p) \/ RemoveSeat(r, p) \/ \E s \in Subs : BeginCode(r, p, s)
    \/ SeatForCheckout(r) \/ TaskDies(r)
    \/ \E s \in Subs : StartCheckout(r, s)
    \/ \E c \in Codes : CreateCode(r, c)

Redemption(p) == CommitClaim(p) \/ ClaimDies(p) \/ \E c \in Codes : BeginClaim(p, c)

Lifetime(s) ==
    \/ Paid(s) \/ Closed(s) \/ Ended(s)
    \/ \E p \in Phones : CancelInApp(p, s)
    \/ \E c \in Codes : IssueLicence(s, c)

SeatsNext ==
    \/ \E r \in Tasks : Task(r)
    \/ \E p \in Phones : Redemption(p)
    \/ \E s \in Subs : Lifetime(s)
    \/ \E c \in Codes : ExpireCode(c)

SeatsSpec == SeatsInit /\ [][SeatsNext]_seats_vars

-----------------------------------------------------------------------------
(* Properties *)

(* A subscription never has more phones than its plan has seats, however many
   codes are out and however many phones redeem at once (001_billing_schema:
   "the seat COUNT is enforced ... inside a transaction that locks"). *)
SeatsWithinPlan == \A s \in Subs : Cardinality(list_seats(s)) <= PlanSeats[s]

(* One code lets one phone in, two phones that type it at once included *)
CodeServesOne == \A c \in Codes : Cardinality(code[c].joined) <= 1

(* Nobody joins a subscription that has ended, not even one that ends while
   the code is being redeemed. *)
JoinsOnlyLive ==
    [][\A p \in Phones : seat'[p] \notin {seat[p], NoSub}
          => sub'[seat'[p]].status \in {"pending", "charging", "stopping"}]_seats_vars

(* A phone keeps its seat while the subscription lives, unless the payer
   frees it. On Postgres it may also lose it to somebody who read the row
   before it was paid: to its own redemption of a code, to its own new
   checkout, or to the restart of the checkout that became this subscription,
   by the one who began that. No closing, no timeout, no other phone's code
   and no other phone's checkout takes it away, and with transactions
   serialised no restart either (seats.py, _close_restarted_checkouts,
   _drop_stale_seat, close_checkout). *)
SeatIsKept ==
    [][\A p \in Phones :
          (is_live(seat[p]) /\ seat'[p] # seat[p]) =>
              \/ \E r \in Tasks : /\ work[r].stage = "removing" /\ work[r].sub = seat[p]
                                   /\ work[r].phone = sub[seat[p]].payer
              \/ /\ Store = "postgres"
                 /\ \/ claim[p].stage = "locked" /\ claim[p].seen = seat[p]
                    \/ \E r \in Tasks :
                          /\ work[r].stage = "seating"
                          /\ \/ work[r].phone = p /\ work[r].drop = seat[p]
                             \/ /\ seat[p] \in work[r].olds
                                /\ work[r].phone = sub[seat[p]].payer]_seats_vars

(* The first phone that redeems a licence's code "becomes the licence's owner
   and can add relatives" (partner.py): a licence with phones on it is paid
   for by one of the phones. *)
LicenceIsOwned ==
    \A s \in Subs : sub[s].licence /\ list_seats(s) # {} => sub[s].payer \in Phones

(* The steps of a redemption, a checkout, a new code and a removal, with all
   that comes in between, implement GuestList, where each is one. *)
Open == {s \in Subs : is_live(s)}

Out == [c \in {c \in Codes : code[c].state = "issued"} |-> code[c].sub]

(* Who began each subscription; nobody began a licence *)
Host == [s \in Subs |-> IF sub[s].status = "none" \/ sub[s].licence THEN NoSub ELSE sub[s].payer]

List == INSTANCE GuestList WITH open <- Open, place <- seat, out <- Out, host <- Host,
                                Strict <- (Store = "memory")

ImplementsGuestList == List!Spec
=============================================================================
