--------------------------- MODULE CheckoutProofs ---------------------------
(***************************************************************************)
(* Getting a place on a subscription: by a claim code (Seats) and by       *)
(* buying one (Checkout).  For any number of phones, codes, subscriptions  *)
(* and plans, a subscription never has more phones than seats, a code lets *)
(* one phone in, and nobody joins what has ended: Seats implements         *)
(* GuestList.  For any number of requests, checkouts and ticks, a pending  *)
(* checkout has an open payment and, with transactions serialised, one     *)
(* number pays once and no checkout whose money moved is deleted.          *)
(***************************************************************************)
EXTENDS Checkout, Seats, FiniteSetTheorems, TLAPS

-----------------------------------------------------------------------------
(* Seats: what a redemption holds *)

Locked(p) == claim[p].stage = "locked"

(* The subscription a phone is joining *)
Joining(p) == code[claim[p].code].sub

Joined(s) == \E p \in Phones : Locked(p) /\ Joining(p) = s

(* A redemption under way holds a code that is out, for a live subscription
   with a free seat that no checkout deletes; nobody else's redemption is for
   the same one; and only a licence gets an owner. *)
Held ==
    /\ \A p \in Phones : Locked(p) =>
          /\ claim[p].code \in Codes
          /\ code[claim[p].code].state = "issued"
          /\ Joining(p) \in Subs
          /\ is_live(Joining(p))
          /\ SeatIsFree(Joining(p))
          /\ ~BeingDeleted(Joining(p))
          /\ claim[p].owner => sub[Joining(p)].licence
    /\ \A p, q \in Phones : (Locked(p) /\ Locked(q) /\ Joining(p) = Joining(q)) => p = q

(* Only a redeemed code has let anybody in *)
CodesUsed == \A c \in Codes : code[c].state # "redeemed" => code[c].joined = {}

(* A code that is out is for a row that exists, a licence's code for a licence;
   and a licence is never unpaid *)
CodesFit ==
    /\ \A c \in Codes :
          /\ code[c].state = "unused" => ~code[c].licence
          /\ code[c].state = "issued" =>
                /\ code[c].sub \in Subs
                /\ sub[code[c].sub].status # "none"
                /\ code[c].licence => sub[code[c].sub].licence
    /\ \A s \in Subs : sub[s].status = "pending" => ~sub[s].licence

(* What a task has read of who pays for a row is so while the row exists *)
Known(r) ==
    /\ work[r].stage = "idle" => work[r] = NoWork
    /\ work[r].stage \in {"checkout", "seating", "removing"} => work[r].phone \in Phones
    /\ work[r].stage \in {"coding", "removing"} => work[r].sub \in Subs
    /\ \A t \in work[r].olds :
          sub[t].status # "none" => sub[t].payer = work[r].phone /\ ~sub[t].licence
    /\ (work[r].stage = "removing" /\ sub[work[r].sub].status # "none")
          => sub[work[r].sub].payer = work[r].phone

TasksKnown == \A r \in Tasks : Known(r)

(* With transactions serialised one of them is under way, and what it read of
   rows that are not live is still so *)
Busy(r) == work[r].stage # "idle"

Alone ==
    Store = "memory" =>
        /\ \A p \in Phones : Locked(p) =>
              /\ \A q \in Phones : Locked(q) => q = p
              /\ \A r \in Tasks : ~Busy(r)
              /\ ~is_live(claim[p].seen)
        /\ \A r \in Tasks : Busy(r) => \A q \in Tasks : Busy(q) => q = r
        /\ \A r \in Tasks : work[r].stage \in {"checkout", "seating"} =>
              /\ ~is_live(seat[work[r].phone])
              /\ \A t \in work[r].olds : ~is_live(t)

Core == SeatsTypeOK /\ Held /\ CodesUsed /\ CodesFit /\ CodeServesOne /\ SeatsWithinPlan

SeatsInv == Core /\ TasksKnown /\ Alone

(* The types of a row, a code, a redemption and a task *)
SubType == [status: {"none", "pending", "charging", "stopping", "over"},
            payer: Phones \cup {Partner}, licence: BOOLEAN]

CodeType == [state: {"unused", "issued", "redeemed", "expired"},
             sub: Subs \cup {NoSub}, licence: BOOLEAN, joined: SUBSET Phones]

ClaimType == [stage: {"idle", "locked"}, code: Codes \cup {NoSub},
              seen: Subs \cup {NoSub}, owner: BOOLEAN]

WorkType == [stage: {"idle", "checkout", "seating", "coding", "removing"},
             phone: Phones \cup {NoSub}, olds: SUBSET Subs,
             drop: Subs \cup {NoSub}, sub: Subs \cup {NoSub}]

(* Where a seat may be *)
SeatHasARow == \A p \in Phones : seat[p] # NoSub => sub[seat[p]].status # "none"

LEMMA SeatsTypes ==
  ASSUME SeatsTypeOK
  PROVE  /\ sub \in [Subs -> SubType]
         /\ seat \in [Phones -> Subs \cup {NoSub}] /\ SeatHasARow
         /\ code \in [Codes -> CodeType]
         /\ claim \in [Phones -> ClaimType]
         /\ work \in [Tasks -> WorkType]
  BY SeatsAssumption
  DEF SeatsTypeOK, SubType, CodeType, ClaimType, WorkType, SeatHasARow, SeatsAssumption

LEMMA TypesTogether ==
  ASSUME sub' \in [Subs -> SubType],
         seat' \in [Phones -> Subs \cup {NoSub}], SeatHasARow',
         code' \in [Codes -> CodeType],
         claim' \in [Phones -> ClaimType],
         work' \in [Tasks -> WorkType]
  PROVE  SeatsTypeOK'
  BY SeatsAssumption
  DEF SeatsTypeOK, SubType, CodeType, ClaimType, WorkType, SeatHasARow, SeatsAssumption

(* The phones on a subscription are finitely many. *)
LEMMA PhonesCounted ==
  ASSUME NEW s
  PROVE  IsFiniteSet(list_seats(s)) /\ Cardinality(list_seats(s)) \in Nat
<1>1. list_seats(s) \in SUBSET Phones
  BY DEF list_seats
<1>2. IsFiniteSet(list_seats(s))
  BY <1>1, FS_Subset, SeatTableAssumption DEF SeatTableAssumption
<1> QED
  BY <1>2, FS_CardinalityType

(* With the plan's seats, numbers that compare. *)
LEMMA SeatsCounted ==
  ASSUME NEW s \in Subs, list_seats(s)' \subseteq list_seats(s)
  PROVE  /\ Cardinality(list_seats(s)) \in Nat
         /\ Cardinality(list_seats(s)') \in Nat
         /\ PlanSeats[s] \in Nat
<1>1. list_seats(s)' \in SUBSET list_seats(s)
  OBVIOUS
<1>2. Cardinality(list_seats(s)') \in Nat
  BY <1>1, PhonesCounted, FS_Subset, FS_CardinalityType
<1>3. PlanSeats[s] \in Nat
  BY SeatsAssumption DEF SeatsAssumption
<1> QED
  BY <1>2, <1>3, PhonesCounted

(* Phones that only leave make no subscription fuller. *)
LEMMA FewerSeats ==
  ASSUME NEW s, list_seats(s)' \subseteq list_seats(s)
  PROVE  Cardinality(list_seats(s)') <= Cardinality(list_seats(s))
<1>1. list_seats(s)' \in SUBSET list_seats(s)
  OBVIOUS
<1> QED
  BY <1>1, PhonesCounted, FS_Subset

(* One phone more fills one seat. *)
LEMMA OneMoreSeat ==
  ASSUME NEW s, NEW p, list_seats(s)' \subseteq list_seats(s) \cup {p}
  PROVE  Cardinality(list_seats(s)') <= Cardinality(list_seats(s)) + 1
<1>1. /\ IsFiniteSet(list_seats(s) \cup {p})
      /\ Cardinality(list_seats(s) \cup {p}) \in Nat
      /\ Cardinality(list_seats(s) \cup {p}) <= Cardinality(list_seats(s)) + 1
  BY PhonesCounted, FS_AddElement, FS_CardinalityType
<1>2. list_seats(s)' \in SUBSET (list_seats(s) \cup {p})
  OBVIOUS
<1>3. /\ IsFiniteSet(list_seats(s)')
      /\ Cardinality(list_seats(s)') <= Cardinality(list_seats(s) \cup {p})
  BY <1>1, <1>2, FS_Subset
<1>4. Cardinality(list_seats(s)') \in Nat
  BY <1>3, FS_CardinalityType
<1> QED
  BY <1>1, <1>3, <1>4, PhonesCounted

LEMMA SeatsInitInv == SeatsInit => SeatsInv
<1> SUFFICES ASSUME SeatsInit PROVE SeatsInv
  OBVIOUS
<1>1. SeatsTypeOK
  BY SeatsAssumption
  DEF SeatsInit, SeatsTypeOK, NewSub, NewCode, NoClaim, NoWork, SeatsAssumption
<1>2. Held /\ CodesUsed /\ CodesFit
  BY DEF SeatsInit, Held, CodesUsed, CodesFit, Locked, NoClaim, NewCode, NewSub
<1>3. CodeServesOne
  <2>1. \A c \in Codes : code[c].joined = {}
    BY DEF SeatsInit, NewCode
  <2>2. Cardinality({}) <= 1
    BY FS_EmptySet
  <2> QED
    BY <2>1, <2>2 DEF CodeServesOne
<1>4. SeatsWithinPlan
  <2> SUFFICES ASSUME NEW s \in Subs PROVE Cardinality(list_seats(s)) <= PlanSeats[s]
    BY DEF SeatsWithinPlan
  <2>1. list_seats(s) = {}
    BY SeatsAssumption DEF SeatsInit, list_seats, SeatsAssumption
  <2> QED
    BY <2>1, FS_EmptySet, SeatsAssumption DEF SeatsAssumption
<1>5. TasksKnown
  BY DEF SeatsInit, TasksKnown, Known, NoWork
<1>6. Alone
  BY DEF SeatsInit, Alone, Locked, Busy, NoClaim, NoWork
<1> QED
  BY <1>1, <1>2, <1>3, <1>4, <1>5, <1>6 DEF SeatsInv, Core

(* A step that moves nobody onto a subscription within its plan leaves it so. *)
LEMMA PlanKept ==
  ASSUME SeatsWithinPlan,
         \A s \in Subs : \/ list_seats(s)' \subseteq list_seats(s)
                         \/ Cardinality(list_seats(s)') <= PlanSeats[s]
  PROVE  SeatsWithinPlan'
<1> SUFFICES ASSUME NEW s \in Subs PROVE Cardinality(list_seats(s)') <= PlanSeats[s]
  BY DEF SeatsWithinPlan
<1>1. CASE list_seats(s)' \subseteq list_seats(s)
  <2>1. /\ Cardinality(list_seats(s)') <= Cardinality(list_seats(s))
        /\ Cardinality(list_seats(s)) <= PlanSeats[s]
    BY <1>1, FewerSeats DEF SeatsWithinPlan
  <2> QED
    BY <1>1, <2>1, SeatsCounted
<1> QED
  BY <1>1

(* A step that begins no redemption, and leaves alone the codes of those under
   way, their subscriptions and who joins these, keeps what they hold. *)
LEMMA HeldWhile ==
  ASSUME Held,
         \A p \in Phones : Locked(p)' => claim'[p] = claim[p],
         \A p \in Phones, c \in Codes, s \in Subs :
             (/\ Locked(p) /\ Locked(p)'
              /\ claim[p].code = c /\ code[c].state = "issued" /\ code[c].sub = s
              /\ is_live(s) /\ ~BeingDeleted(s))
             => /\ code'[c].state = "issued" /\ code'[c].sub = s
                /\ is_live(s)' /\ list_seats(s)' \subseteq list_seats(s)
                /\ ~BeingDeleted(s)' /\ sub'[s].licence = sub[s].licence
  PROVE  Held'
<1>1. ASSUME NEW p \in Phones, Locked(p)'
      PROVE  \E s \in Subs :
                /\ Locked(p)
                /\ claim'[p].code \in Codes
                /\ code'[claim'[p].code].state = "issued"
                /\ Joining(p) = s /\ Joining(p)' = s
                /\ is_live(s)' /\ SeatIsFree(s)'
                /\ ~BeingDeleted(s)' /\ (claim'[p].owner => sub'[s].licence)
  <2>1. /\ Locked(p)
        /\ claim[p].code \in Codes
        /\ code[claim[p].code].state = "issued"
        /\ Joining(p) \in Subs
        /\ is_live(Joining(p))
        /\ SeatIsFree(Joining(p))
        /\ ~BeingDeleted(Joining(p))
        /\ claim[p].owner => sub[Joining(p)].licence
    BY <1>1 DEF Held, Locked
  <2>2. PICK s \in Subs : s = Joining(p)
    BY <2>1
  <2>3. PICK c \in Codes : claim[p].code = c /\ claim'[p].code = c /\ code[c].sub = s
    BY <1>1, <2>1, <2>2 DEF Joining
  <2>4. /\ code'[c].state = "issued" /\ code'[c].sub = s
        /\ is_live(s)' /\ list_seats(s)' \subseteq list_seats(s)
        /\ ~BeingDeleted(s)' /\ sub'[s].licence = sub[s].licence
    BY <1>1, <2>1, <2>2, <2>3
  <2>5. SeatIsFree(s)'
    <3>1. /\ Cardinality(list_seats(s)') <= Cardinality(list_seats(s))
          /\ Cardinality(list_seats(s)) < PlanSeats[s]
      BY <2>1, <2>2, <2>4, FewerSeats DEF SeatIsFree
    <3> QED
      BY <3>1, SeatsCounted, <2>4 DEF SeatIsFree
  <2>6. claim'[p].owner => sub'[s].licence
    BY <1>1, <2>1, <2>2, <2>4
  <2> QED
    BY <2>1, <2>2, <2>3, <2>4, <2>5, <2>6 DEF Joining
<1> SUFFICES /\ \A p \in Phones : Locked(p)' =>
                  /\ claim'[p].code \in Codes
                  /\ code'[claim'[p].code].state = "issued"
                  /\ Joining(p)' \in Subs
                  /\ is_live(Joining(p))'
                  /\ SeatIsFree(Joining(p))'
                  /\ ~BeingDeleted(Joining(p))'
                  /\ claim'[p].owner => sub'[Joining(p)'].licence
             /\ \A p, q \in Phones :
                  (Locked(p)' /\ Locked(q)' /\ Joining(p)' = Joining(q)') => p = q
  BY DEF Held
<1>2. ASSUME NEW p \in Phones, Locked(p)'
      PROVE  /\ claim'[p].code \in Codes
             /\ code'[claim'[p].code].state = "issued"
             /\ Joining(p)' \in Subs
             /\ is_live(Joining(p))'
             /\ SeatIsFree(Joining(p))'
             /\ ~BeingDeleted(Joining(p))'
             /\ claim'[p].owner => sub'[Joining(p)'].licence
  <2>1. PICK s \in Subs :
           /\ claim'[p].code \in Codes
           /\ code'[claim'[p].code].state = "issued"
           /\ Joining(p)' = s
           /\ is_live(s)' /\ SeatIsFree(s)'
           /\ ~BeingDeleted(s)' /\ (claim'[p].owner => sub'[s].licence)
    BY <1>1, <1>2
  <2> QED
    BY <2>1 DEF is_live, SeatIsFree, list_seats, BeingDeleted
<1>3. ASSUME NEW p \in Phones, NEW q \in Phones, Locked(p)', Locked(q)', Joining(p)' = Joining(q)'
      PROVE  p = q
  <2>1. Locked(p) /\ Locked(q) /\ Joining(p) = Joining(q)
    BY <1>1, <1>3
  <2> QED
    BY <2>1 DEF Held
<1> QED
  BY <1>2, <1>3

(* No checkout begins to delete a row. *)
LEMMA DeletesNoMore ==
  ASSUME \A r \in Tasks : work'[r] = work[r] \/ work'[r].stage # "seating"
  PROVE  \A s : BeingDeleted(s)' => BeingDeleted(s)
  BY DEF BeingDeleted

(* A step that begins no redemption, leaves those under way what they hold and
   seats nobody keeps all but what the tasks know. *)
LEMMA QuietStep ==
  ASSUME SeatsInv, SeatsTypeOK', CodesFit', claim' = claim,
         \A c \in Codes :
             /\ code'[c].joined = code[c].joined
             /\ code'[c].state # "redeemed" => code[c].state # "redeemed",
         \A c \in Codes, s \in Subs :
             (/\ LockedCode(c) /\ code[c].state = "issued" /\ code[c].sub = s
              /\ is_live(s) /\ ~BeingDeleted(s))
             => /\ code'[c].state = "issued" /\ code'[c].sub = s
                /\ is_live(s)' /\ ~BeingDeleted(s)' /\ sub'[s].licence = sub[s].licence,
         \A s \in Subs : list_seats(s)' \subseteq list_seats(s)
  PROVE  Core'
<1>1. Held'
  <2>1. \A p \in Phones : Locked(p) => LockedCode(claim[p].code)
    BY DEF LockedCode, Locked
  <2> QED
    BY <2>1, HeldWhile DEF SeatsInv, Core
<1>2. SeatsWithinPlan'
  <2>1. \A s \in Subs : list_seats(s)' \subseteq list_seats(s)
    OBVIOUS
  <2> QED
    BY <2>1, PlanKept DEF SeatsInv, Core
<1>3. \A c \in Codes : /\ code'[c].joined = code[c].joined
                       /\ code'[c].state # "redeemed" => code[c].joined = {}
  <2>1. \A c \in Codes : /\ code'[c].joined = code[c].joined
                         /\ code'[c].state # "redeemed" => code[c].state # "redeemed"
    OBVIOUS
  <2> QED
    BY <2>1 DEF SeatsInv, Core, CodesUsed
<1>4. CodesUsed' /\ CodeServesOne'
  BY <1>3, Zenon DEF SeatsInv, Core, CodesUsed, CodeServesOne
<1> QED
  BY <1>1, <1>2, <1>4 DEF Core

(* Seats are read only where they are. *)
LEMMA SeatsStay == ASSUME seat' = seat, NEW s PROVE list_seats(s)' = list_seats(s)
  BY DEF list_seats

(* One task goes on *)
LEMMA TaskGoesOn ==
  ASSUME work \in [Tasks -> WorkType], NEW r \in Tasks, NEW w \in WorkType,
         work' = [work EXCEPT ![r] = w]
  PROVE  /\ work' \in [Tasks -> WorkType] /\ work'[r] = w
         /\ \A q \in Tasks \ {r} : work'[q] = work[q]
  OBVIOUS

LEMMA TaskEnds ==
  ASSUME work \in [Tasks -> WorkType], NEW r \in Tasks, work' = [work EXCEPT ![r] = NoWork]
  PROVE  /\ work' \in [Tasks -> WorkType] /\ work'[r] = NoWork
         /\ \A q \in Tasks \ {r} : work'[q] = work[q]
         /\ \A s : BeingDeleted(s)' => BeingDeleted(s)
<1>1. NoWork \in WorkType /\ NoWork.stage = "idle"
  BY DEF NoWork, WorkType
<1>2. /\ work' \in [Tasks -> WorkType] /\ work'[r] = NoWork
      /\ \A q \in Tasks \ {r} : work'[q] = work[q]
  BY <1>1, TaskGoesOn
<1> QED
  BY <1>1, <1>2, DeletesNoMore

(* A task that only reads, deletes rows no redemption holds, or dies. *)
LEMMA WorkStep ==
  ASSUME SeatsInv, UNCHANGED <<sub, seat, code, claim>>, work' \in [Tasks -> WorkType],
         \A s \in Subs : BeingDeleted(s)' => BeingDeleted(s) \/ ~LockedSub(s)
  PROVE  Core'
<1>1. SeatsTypeOK'
  BY SeatsTypes, TypesTogether DEF SeatsInv, Core, SeatHasARow
<1>2. CodesFit'
  BY DEF SeatsInv, Core, CodesFit
<1>3. ASSUME NEW c \in Codes, NEW s \in Subs,
             LockedCode(c), code[c].sub = s, ~BeingDeleted(s), is_live(s)
      PROVE  ~BeingDeleted(s)' /\ is_live(s)'
  <2>1. LockedSub(s)
    BY <1>3 DEF LockedCode, LockedSub
  <2> QED
    BY <1>3, <2>1 DEF is_live
<1>4. \A s \in Subs : list_seats(s)' = list_seats(s)
  BY SeatsStay
<1> QED
  BY <1>1, <1>2, <1>3, <1>4, QuietStep

LEMMA TaskInv ==
  ASSUME SeatsInv, NEW r \in Tasks,
         \/ \E p \in Phones : ReadForCheckout(r, p) \/ BeginRemove(r, p) \/ \E s \in Subs : BeginCode(r, p, s)
         \/ SeatForCheckout(r) \/ TaskDies(r)
  PROVE  Core'
<1>1. /\ sub \in [Subs -> SubType] /\ seat \in [Phones -> Subs \cup {NoSub}]
      /\ work \in [Tasks -> WorkType]
  BY SeatsTypes DEF SeatsInv, Core
<1>2. UNCHANGED <<sub, seat, code, claim>>
  BY DEF ReadForCheckout, BeginRemove, BeginCode, SeatForCheckout, TaskDies
<1>3. CASE TaskDies(r)
  <2>1. work' = [work EXCEPT ![r] = NoWork]
    BY <1>3 DEF TaskDies
  <2> QED
    BY <1>1, <1>2, <2>1, TaskEnds, WorkStep
<1>4. ASSUME NEW w \in WorkType, work' = [work EXCEPT ![r] = w],
             w.stage = "seating" => \A t \in w.olds : ~LockedSub(t)
      PROVE  Core'
  <2>1. /\ work' \in [Tasks -> WorkType] /\ work'[r] = w
        /\ \A q \in Tasks \ {r} : work'[q] = work[q]
    BY <1>1, <1>4, TaskGoesOn
  <2>2. \A s \in Subs : BeingDeleted(s)' => BeingDeleted(s) \/ ~LockedSub(s)
    BY <1>4, <2>1 DEF BeingDeleted
  <2> QED
    BY <1>2, <2>1, <2>2, WorkStep
<1>5. ASSUME NEW p \in Phones, ReadForCheckout(r, p) PROVE Core'
  <2>1. PICK olds \in SUBSET Unpaid(p) :
           work' = [work EXCEPT ![r] = [NoWork EXCEPT !.stage = "checkout", !.phone = p, !.olds = olds]]
    BY <1>5 DEF ReadForCheckout
  <2>2. [NoWork EXCEPT !.stage = "checkout", !.phone = p, !.olds = olds] \in WorkType
    BY DEF NoWork, WorkType, Unpaid
  <2> QED
    BY <1>4, <2>1, <2>2 DEF NoWork
<1>6. ASSUME NEW p \in Phones, BeginRemove(r, p) PROVE Core'
  <2>1. [NoWork EXCEPT !.stage = "removing", !.phone = p, !.sub = seat[p]] \in WorkType
    BY <1>1 DEF NoWork, WorkType
  <2> QED
    BY <1>4, <1>6, <2>1 DEF BeginRemove, NoWork
<1>7. ASSUME NEW p \in Phones, NEW s \in Subs, BeginCode(r, p, s) PROVE Core'
  <2>1. [NoWork EXCEPT !.stage = "coding", !.sub = s] \in WorkType
    BY DEF NoWork, WorkType
  <2> QED
    BY <1>4, <1>7, <2>1 DEF BeginCode, NoWork
<1>8. CASE SeatForCheckout(r)
  <2>1. PICK d \in Subs \cup {NoSub} :
           work' = [work EXCEPT ![r].stage = "seating", ![r].drop = d]
    <3>1. SeatsWithout(work[r].olds)[work[r].phone] \in Subs \cup {NoSub}
      <4>1. work[r].phone \in Phones
        BY <1>8 DEF SeatForCheckout, SeatsInv, TasksKnown, Known
      <4> QED
        BY <1>1, <4>1 DEF SeatsWithout
    <3> QED
      BY <1>8, <3>1 DEF SeatForCheckout
  <2>2. work' = [work EXCEPT ![r] = [work[r] EXCEPT !.stage = "seating", !.drop = d]]
    BY <1>1, <2>1 DEF WorkType
  <2>3. /\ [work[r] EXCEPT !.stage = "seating", !.drop = d] \in WorkType
        /\ [work[r] EXCEPT !.stage = "seating", !.drop = d].olds = work[r].olds
    BY <1>1 DEF WorkType
  <2>4. \A t \in work[r].olds : ~LockedSub(t)
    BY <1>8 DEF SeatForCheckout
  <2> QED
    BY <1>4, <2>2, <2>3, <2>4
<1> QED
  BY <1>3, <1>5, <1>6, <1>7, <1>8
(* The codes of rows that go expire, and nothing else happens to codes. *)
LEMMA CodesGone ==
  ASSUME code \in [Codes -> CodeType], NEW gone, code' = CodesWithout(gone)
  PROVE  /\ code' \in [Codes -> CodeType]
         /\ \A c \in Codes :
               /\ code'[c].joined = code[c].joined
               /\ code'[c].sub = code[c].sub
               /\ code'[c].licence = code[c].licence
               /\ code'[c].state = IF code[c].state = "issued" /\ code[c].sub \in gone
                                   THEN "expired" ELSE code[c].state
<1>1. ASSUME NEW c \in Codes
      PROVE  /\ [code[c] EXCEPT !.state = "expired"] \in CodeType
             /\ [code[c] EXCEPT !.state = "expired"].joined = code[c].joined
             /\ [code[c] EXCEPT !.state = "expired"].sub = code[c].sub
             /\ [code[c] EXCEPT !.state = "expired"].licence = code[c].licence
             /\ [code[c] EXCEPT !.state = "expired"].state = "expired"
  BY DEF CodeType
<1>2. ASSUME NEW c \in Codes, code[c].state = "issued" /\ code[c].sub \in gone
      PROVE  code'[c] = [code[c] EXCEPT !.state = "expired"]
  BY <1>2 DEF CodesWithout
<1>3. ASSUME NEW c \in Codes, ~(code[c].state = "issued" /\ code[c].sub \in gone)
      PROVE  code'[c] = code[c]
  BY <1>3 DEF CodesWithout
<1>4. ASSUME NEW c \in Codes
      PROVE  /\ code'[c] \in CodeType
             /\ code'[c].joined = code[c].joined
             /\ code'[c].sub = code[c].sub
             /\ code'[c].licence = code[c].licence
             /\ code'[c].state = IF code[c].state = "issued" /\ code[c].sub \in gone
                                 THEN "expired" ELSE code[c].state
  <2>1. CASE code[c].state = "issued" /\ code[c].sub \in gone
    BY <1>1, <1>2, <2>1
  <2>2. CASE ~(code[c].state = "issued" /\ code[c].sub \in gone)
    BY <1>3, <2>2
  <2> QED
    BY <2>1, <2>2
<1> QED
  BY <1>4 DEF CodesWithout

(* Writing a checkout: the rows it read go with their seats and codes, and the
   phone sits on the new row alone. *)
LEMMA StartCheckoutInv ==
  ASSUME SeatsInv, NEW r \in Tasks, NEW s \in Subs, StartCheckout(r, s)
  PROVE  Core'
<1>1. /\ sub \in [Subs -> SubType] /\ seat \in [Phones -> Subs \cup {NoSub}]
      /\ SeatHasARow /\ code \in [Codes -> CodeType] /\ claim \in [Phones -> ClaimType]
      /\ work \in [Tasks -> WorkType]
  BY SeatsTypes DEF SeatsInv, Core
<1>2. /\ work[r].stage = "seating" /\ claim' = claim
      /\ sub[s].status = "none" /\ s \notin work[r].olds
      /\ work' = [work EXCEPT ![r] = NoWork]
  BY DEF StartCheckout, Unused
<1>3. work' \in [Tasks -> WorkType] /\ \A t : BeingDeleted(t)' => BeingDeleted(t)
  BY <1>1, <1>2, TaskEnds
<1>4. CASE UNCHANGED <<sub, seat, code>>
  BY <1>2, <1>3, <1>4, WorkStep
<1>5. CASE ~UNCHANGED <<sub, seat, code>>
  <2> DEFINE p == work[r].phone
             old == work[r].olds
             row == [status |-> "pending", payer |-> p, licence |-> FALSE]
  <2>0. /\ p \in Phones
        /\ \A t \in old : BeingDeleted(t)
    BY <1>2 DEF SeatsInv, TasksKnown, Known, BeingDeleted
  <2>1. /\ sub' = [t \in Subs |-> CASE t = s -> row [] t \in old -> NewSub [] OTHER -> sub[t]]
        /\ seat' = [SeatsWithout(old) EXCEPT ![p] = s]
        /\ code' = CodesWithout(old)
    BY <1>5 DEF StartCheckout
  <2>2. s \notin old /\ row \in SubType /\ NewSub \in SubType
    BY <1>2, <2>0 DEF SubType, NewSub
  <2>3. /\ sub'[s] = row
        /\ \A t \in old \cap Subs : sub'[t] = NewSub
        /\ \A t \in Subs : t # s /\ t \notin old => sub'[t] = sub[t]
    BY <2>1, <2>2
  <2> HIDE DEF p, old
  <2>4. /\ seat'[p] = s
        /\ \A q \in Phones : q # p => seat'[q] = IF seat[q] \in old THEN NoSub ELSE seat[q]
        /\ seat' \in [Phones -> Subs \cup {NoSub}]
    BY <1>1, <2>0, <2>1 DEF SeatsWithout
  <2>5. sub' \in [Subs -> SubType]
    <3>1. \A t \in Subs : sub'[t] \in SubType
      BY <1>1, <2>2, <2>3
    <3> QED
      BY <2>1, <3>1
  <2>6. SeatHasARow'
    BY <1>1, <2>3, <2>4 DEF SeatHasARow
  <2>7. /\ code' \in [Codes -> CodeType]
        /\ \A c \in Codes :
              /\ code'[c].joined = code[c].joined
              /\ code'[c].sub = code[c].sub
              /\ code'[c].licence = code[c].licence
              /\ code'[c].state = IF code[c].state = "issued" /\ code[c].sub \in old
                                  THEN "expired" ELSE code[c].state
    BY <1>1, <2>1, CodesGone
  <2>8. SeatsTypeOK'
    BY <1>1, <1>2, <1>3, <2>4, <2>5, <2>6, <2>7, TypesTogether
  <2>9. CodesFit'
    <3>1. \A c \in Codes : code[c].state = "issued" =>
             code[c].sub \in Subs /\ code[c].sub # s
      BY <1>2 DEF SeatsInv, Core, CodesFit
    <3>2. \A t \in Subs : sub'[t].status = "pending" => ~sub'[t].licence
      BY <2>3 DEF SeatsInv, Core, CodesFit, NewSub
    <3> QED
      BY <2>3, <2>7, <3>1, <3>2 DEF SeatsInv, Core, CodesFit
  <2>10. list_seats(s)' = {p}
    BY <1>1, <1>2, <2>0, <2>4, SeatsAssumption DEF list_seats, SeatHasARow, SeatsAssumption
  <2>11. \A t \in Subs : t # s => list_seats(t)' \subseteq list_seats(t)
    BY <2>4, SeatsAssumption DEF list_seats, SeatsAssumption
  <2>12. Held'
    <3>1. \A t \in Subs : (is_live(t) /\ ~BeingDeleted(t)) =>
             t # s /\ t \notin old /\ sub'[t] = sub[t] /\ is_live(t)' /\ ~BeingDeleted(t)'
      BY <1>2, <1>3, <2>0, <2>3 DEF is_live
    <3> QED
      BY <1>2, <2>7, <2>11, <3>1, HeldWhile DEF SeatsInv, Core, Locked
  <2>13. SeatsWithinPlan'
    <3>1. Cardinality(list_seats(s)') <= PlanSeats[s]
      <4>1. Cardinality(list_seats(s)') = 1
        BY <2>10, FS_Singleton
      <4>2. PlanSeats[s] \in Nat \ {0}
        BY SeatsAssumption DEF SeatsAssumption
      <4> QED
        BY <4>1, <4>2
    <3> QED
      BY <2>11, <3>1, PlanKept DEF SeatsInv, Core
  <2>14. CodesUsed' /\ CodeServesOne'
    <3>1. \A c \in Codes : /\ code'[c].joined = code[c].joined
                           /\ code'[c].state # "redeemed" => code[c].joined = {}
      BY <2>7 DEF SeatsInv, Core, CodesUsed
    <3> QED
      BY <3>1, Zenon DEF SeatsInv, Core, CodesUsed, CodeServesOne
  <2> QED
    BY <2>8, <2>9, <2>12, <2>13, <2>14 DEF Core
<1> QED
  BY <1>4, <1>5

(* A new status, but for one that begins or ends a row. *)
LEMMA StatusStep ==
  ASSUME SeatsTypeOK, NEW s \in Subs, NEW st \in {"charging", "stopping", "over"},
         SetStatus(s, st), UNCHANGED <<seat, code, claim, work>>
  PROVE  /\ SeatsTypeOK'
         /\ sub'[s].status = st /\ sub'[s].payer = sub[s].payer /\ sub'[s].licence = sub[s].licence
         /\ \A t \in Subs : t # s => sub'[t] = sub[t]
<1>1. /\ sub \in [Subs -> SubType] /\ seat \in [Phones -> Subs \cup {NoSub}]
      /\ SeatHasARow /\ code \in [Codes -> CodeType] /\ claim \in [Phones -> ClaimType]
      /\ work \in [Tasks -> WorkType]
  BY SeatsTypes
<1>2. [sub[s] EXCEPT !.status = st] \in SubType
  BY <1>1 DEF SubType
<1>3. /\ sub' = [sub EXCEPT ![s] = [sub[s] EXCEPT !.status = st]]
      /\ sub' \in [Subs -> SubType]
  BY <1>1, <1>2 DEF SetStatus
<1>4. /\ sub'[s].status = st /\ sub'[s].payer = sub[s].payer /\ sub'[s].licence = sub[s].licence
      /\ \A t \in Subs : t # s => sub'[t] = sub[t]
  BY <1>1, <1>3 DEF SubType
<1>5. SeatHasARow'
  BY <1>1, <1>4, SeatsAssumption DEF SeatHasARow, SeatsAssumption
<1> QED
  BY <1>1, <1>3, <1>4, <1>5, TypesTogether

LEMMA StatusInv ==
  ASSUME SeatsInv, NEW s \in Subs,
         Paid(s) \/ Ended(s) \/ \E p \in Phones : CancelInApp(p, s)
  PROVE  Core'
<1>0. SeatsTypeOK
  BY DEF SeatsInv, Core
<1>1. PICK st \in {"charging", "stopping", "over"} :
         /\ SetStatus(s, st) /\ UNCHANGED <<seat, code, claim, work>>
         /\ ~LockedSub(s) /\ sub[s].status # "none"
  BY DEF Paid, Ended, CancelInApp, is_live
<1>2. /\ SeatsTypeOK'
      /\ sub'[s].status = st /\ sub'[s].licence = sub[s].licence
      /\ \A t \in Subs : t # s => sub'[t] = sub[t]
  BY <1>0, <1>1, StatusStep
<1>3. CodesFit'
  BY <1>1, <1>2 DEF SeatsInv, Core, CodesFit
<1>4. ASSUME NEW c \in Codes, NEW t \in Subs,
             LockedCode(c), code[c].sub = t, is_live(t), ~BeingDeleted(t)
      PROVE  is_live(t)' /\ ~BeingDeleted(t)' /\ sub'[t].licence = sub[t].licence
  <2>1. LockedSub(t)
    BY <1>4 DEF LockedCode, LockedSub
  <2>2. sub'[t] = sub[t]
    BY <1>1, <1>2, <2>1
  <2> QED
    BY <1>1, <1>4, <2>2 DEF is_live, BeingDeleted
<1>5. \A t \in Subs : list_seats(t)' = list_seats(t)
  BY <1>1, SeatsStay
<1> QED
  BY <1>1, <1>2, <1>3, <1>4, <1>5, QuietStep

(* A row that was never paid is closed: its seats and its codes go. *)
LEMMA ClosedInv ==
  ASSUME SeatsInv, NEW s \in Subs, Closed(s)
  PROVE  Core'
<1>1. /\ sub \in [Subs -> SubType] /\ seat \in [Phones -> Subs \cup {NoSub}]
      /\ SeatHasARow /\ code \in [Codes -> CodeType] /\ claim \in [Phones -> ClaimType]
      /\ work \in [Tasks -> WorkType]
  BY SeatsTypes DEF SeatsInv, Core
<1>2. /\ sub[s].status = "pending"
      /\ sub' = [sub EXCEPT ![s] = NewSub]
      /\ seat' = [p \in Phones |-> IF seat[p] = s THEN NoSub ELSE seat[p]]
      /\ code' = CodesWithout({s}) /\ claim' = claim /\ work' = work
  BY DEF Closed, SeatsWithout
<1>3. NewSub \in SubType
  BY DEF NewSub, SubType
<1>4. sub' \in [Subs -> SubType] /\ seat' \in [Phones -> Subs \cup {NoSub}]
  BY <1>1, <1>2, <1>3
<1>5. SeatHasARow'
  BY <1>1, <1>2, SeatsAssumption DEF SeatHasARow, SeatsAssumption
<1>6. /\ code' \in [Codes -> CodeType]
      /\ \A c \in Codes :
            /\ code'[c].joined = code[c].joined
            /\ code'[c].sub = code[c].sub
            /\ code'[c].licence = code[c].licence
            /\ code'[c].state = IF code[c].state = "issued" /\ code[c].sub \in {s}
                                THEN "expired" ELSE code[c].state
  BY <1>1, <1>2, CodesGone
<1>7. SeatsTypeOK'
  BY <1>1, <1>2, <1>4, <1>5, <1>6, TypesTogether
<1>8. sub'[s] = NewSub /\ \A t \in Subs : t # s => sub'[t] = sub[t]
  BY <1>1, <1>2
<1>9. CodesFit'
  BY <1>6, <1>8 DEF SeatsInv, Core, CodesFit, NewSub
<1>10. ASSUME NEW t \in Subs, is_live(t), ~BeingDeleted(t)
       PROVE  t # s /\ is_live(t)' /\ ~BeingDeleted(t)' /\ sub'[t] = sub[t]
  BY <1>2, <1>8, <1>10 DEF is_live, BeingDeleted
<1>11. \A t \in Subs : list_seats(t)' \subseteq list_seats(t)
  BY <1>2, SeatsAssumption DEF list_seats, SeatsAssumption
<1> QED
  BY <1>2, <1>6, <1>7, <1>9, <1>10, <1>11, QuietStep

(* A licence is live from the start; its code is new. *)
LEMMA IssueLicenceInv ==
  ASSUME SeatsInv, NEW s \in Subs, NEW c \in Codes, IssueLicence(s, c)
  PROVE  Core'
<1> DEFINE row == [status |-> "charging", payer |-> Partner, licence |-> TRUE]
           new == [code[c] EXCEPT !.state = "issued", !.sub = s, !.licence = TRUE]
<1>1. /\ sub \in [Subs -> SubType] /\ seat \in [Phones -> Subs \cup {NoSub}]
      /\ SeatHasARow /\ code \in [Codes -> CodeType] /\ claim \in [Phones -> ClaimType]
      /\ work \in [Tasks -> WorkType]
  BY SeatsTypes DEF SeatsInv, Core
<1>2. /\ sub[s].status = "none" /\ code[c].state = "unused"
      /\ sub' = [sub EXCEPT ![s] = row] /\ code' = [code EXCEPT ![c] = new]
      /\ seat' = seat /\ claim' = claim /\ work' = work
  BY DEF IssueLicence, Unused
<1>3. /\ row \in SubType /\ new \in CodeType
      /\ new.state = "issued" /\ new.joined = code[c].joined /\ new.sub = s
  BY <1>1 DEF SubType, CodeType
<1> HIDE DEF new
<1>4. sub' \in [Subs -> SubType] /\ code' \in [Codes -> CodeType]
  BY <1>1, <1>2, <1>3
<1>5. SeatHasARow'
  BY <1>1, <1>2, SeatsAssumption DEF SeatHasARow, SeatsAssumption
<1>6. SeatsTypeOK'
  BY <1>1, <1>2, <1>4, <1>5, TypesTogether
<1>7. /\ sub'[s] = row /\ \A t \in Subs : t # s => sub'[t] = sub[t]
      /\ code'[c] = new /\ \A d \in Codes : d # c => code'[d] = code[d]
  BY <1>1, <1>2
<1>8. CodesFit'
  BY <1>3, <1>7 DEF SeatsInv, Core, CodesFit
<1>9. \A t \in Subs : is_live(t) => is_live(t)' /\ sub'[t] = sub[t]
  BY <1>2, <1>7 DEF is_live
<1>10. \A t \in Subs : list_seats(t)' = list_seats(t) /\ (BeingDeleted(t)' <=> BeingDeleted(t))
  BY <1>2, SeatsStay DEF BeingDeleted
<1> QED
  BY <1>2, <1>3, <1>6, <1>7, <1>8, <1>9, <1>10, QuietStep

(* A step that changes one code that lets nobody in, then or later *)
LEMMA CodeChanges ==
  ASSUME SeatsInv, NEW c \in Codes, NEW new \in CodeType,
         code' = [code EXCEPT ![c] = new], UNCHANGED <<sub, seat, claim>>,
         work' \in [Tasks -> WorkType], \A s : BeingDeleted(s)' => BeingDeleted(s),
         new.joined = code[c].joined, code[c].state # "redeemed", new.state \notin {"redeemed", "unused"},
         code[c].state = "issued" => ~LockedCode(c),
         new.state = "issued" => /\ new.sub \in Subs /\ sub[new.sub].status # "none"
                                 /\ new.licence => sub[new.sub].licence
  PROVE  Core'
<1>1. /\ sub \in [Subs -> SubType] /\ seat \in [Phones -> Subs \cup {NoSub}]
      /\ SeatHasARow /\ code \in [Codes -> CodeType] /\ claim \in [Phones -> ClaimType]
  BY SeatsTypes DEF SeatsInv, Core
<1>2. /\ code' \in [Codes -> CodeType] /\ code'[c] = new
      /\ \A d \in Codes : d # c => code'[d] = code[d]
  BY <1>1
<1>3. SeatsTypeOK'
  BY <1>1, <1>2, TypesTogether DEF SeatHasARow
<1>4. CodesFit'
  BY <1>2 DEF SeatsInv, Core, CodesFit
<1>5. \A t \in Subs : list_seats(t)' = list_seats(t) /\ (is_live(t) => is_live(t)')
  BY SeatsStay DEF is_live
<1> QED
  BY <1>2, <1>3, <1>4, <1>5, QuietStep

(* Making a code, and a code that runs out. *)
LEMMA CodeInv ==
  ASSUME SeatsInv, NEW c \in Codes,
         ExpireCode(c) \/ \E r \in Tasks : CreateCode(r, c)
  PROVE  Core'
<1>1. code \in [Codes -> CodeType] /\ work \in [Tasks -> WorkType]
  BY SeatsTypes DEF SeatsInv, Core
<1>2. CASE ExpireCode(c)
  <2> DEFINE new == [code[c] EXCEPT !.state = "expired"]
  <2>1. new \in CodeType /\ new.joined = code[c].joined /\ new.state = "expired"
    BY <1>1 DEF CodeType
  <2>2. /\ code' = [code EXCEPT ![c] = new] /\ UNCHANGED <<sub, seat, claim, work>>
        /\ code[c].state = "issued" /\ ~LockedCode(c)
    BY <1>2 DEF ExpireCode
  <2>3. \A s : BeingDeleted(s)' => BeingDeleted(s)
    BY <2>2 DEF BeingDeleted
  <2> HIDE DEF new
  <2> QED
    BY <1>1, <2>1, <2>2, <2>3, CodeChanges
<1>3. ASSUME NEW r \in Tasks, CreateCode(r, c) PROVE Core'
  <2> DEFINE s == work[r].sub
             new == [code[c] EXCEPT !.state = "issued", !.sub = s]
  <2>1. s \in Subs /\ work' = [work EXCEPT ![r] = NoWork] /\ UNCHANGED <<sub, seat, claim>>
    BY <1>3 DEF CreateCode, SeatsInv, TasksKnown, Known
  <2>2. work' \in [Tasks -> WorkType] /\ \A t : BeingDeleted(t)' => BeingDeleted(t)
    BY <1>1, <2>1, TaskEnds
  <2>3. CASE UNCHANGED code
    BY <2>1, <2>2, <2>3, WorkStep
  <2>4. CASE ~UNCHANGED code
    <3>1. /\ code' = [code EXCEPT ![c] = new]
          /\ code[c].state = "unused" /\ sub[s].status # "none"
      BY <1>3, <2>4 DEF CreateCode
    <3>2. ~code[c].licence
      BY <3>1 DEF SeatsInv, Core, CodesFit
    <3> HIDE DEF s
    <3>3. /\ new \in CodeType /\ new.joined = code[c].joined /\ new.state = "issued"
          /\ new.sub = s /\ ~new.licence
      BY <1>1, <2>1, <3>2 DEF CodeType
    <3> HIDE DEF new
    <3> QED
      BY <2>1, <2>2, <3>1, <3>3, CodeChanges
  <2> QED
    BY <2>3, <2>4
<1> QED
  BY <1>2, <1>3

(* The payer frees a seat. *)
LEMMA RemoveSeatInv ==
  ASSUME SeatsInv, NEW r \in Tasks, NEW q \in Phones, RemoveSeat(r, q)
  PROVE  Core'
<1>1. /\ sub \in [Subs -> SubType] /\ seat \in [Phones -> Subs \cup {NoSub}]
      /\ SeatHasARow /\ code \in [Codes -> CodeType] /\ claim \in [Phones -> ClaimType]
      /\ work \in [Tasks -> WorkType]
  BY SeatsTypes DEF SeatsInv, Core
<1>2. /\ seat' = [seat EXCEPT ![q] = NoSub] /\ UNCHANGED <<sub, code, claim>>
      /\ work' = [work EXCEPT ![r] = NoWork]
  BY DEF RemoveSeat
<1>3. seat' \in [Phones -> Subs \cup {NoSub}] /\ SeatHasARow'
  BY <1>1, <1>2 DEF SeatHasARow
<1>4. work' \in [Tasks -> WorkType] /\ \A t : BeingDeleted(t)' => BeingDeleted(t)
  BY <1>1, <1>2, TaskEnds
<1>5. SeatsTypeOK'
  BY <1>1, <1>2, <1>3, <1>4, TypesTogether
<1>6. \A t \in Subs : list_seats(t)' \subseteq list_seats(t)
  BY <1>1, <1>2, SeatsAssumption DEF list_seats, SeatsAssumption
<1>7. CodesFit' /\ \A t \in Subs : is_live(t) => is_live(t)'
  BY <1>2 DEF is_live, SeatsInv, Core, CodesFit
<1> QED
  BY <1>2, <1>4, <1>5, <1>6, <1>7, QuietStep

-----------------------------------------------------------------------------
(* Seats: the redemption *)

(* It begins with a code and a subscription that nobody else holds. *)
LEMMA BeginClaimInv ==
  ASSUME SeatsInv, NEW p \in Phones, NEW c \in Codes, BeginClaim(p, c)
  PROVE  Core'
<1> DEFINE new == [stage |-> "locked", code |-> c, seen |-> seat[p], owner |-> JoinsAsOwner(c)]
<1>1. /\ sub \in [Subs -> SubType] /\ seat \in [Phones -> Subs \cup {NoSub}]
      /\ SeatHasARow /\ code \in [Codes -> CodeType] /\ claim \in [Phones -> ClaimType]
      /\ work \in [Tasks -> WorkType]
  BY SeatsTypes DEF SeatsInv, Core
<1>2. /\ claim' = [claim EXCEPT ![p] = new] /\ UNCHANGED <<sub, seat, code, work>>
      /\ ~LockedSub(code[c].sub) /\ ~BeingDeleted(code[c].sub)
      /\ code[c].state = "issued" /\ is_live(code[c].sub) /\ SeatIsFree(code[c].sub)
  BY DEF BeginClaim, Waits, Valid, LockedSub
<1>3. /\ new \in ClaimType /\ new.stage = "locked" /\ new.code = c
      /\ new.owner => code[c].licence
  BY <1>1 DEF ClaimType, JoinsAsOwner
<1> HIDE DEF new
<1>4. /\ claim' \in [Phones -> ClaimType] /\ claim'[p] = new
      /\ \A q \in Phones : q # p => claim'[q] = claim[q]
  BY <1>1, <1>2, <1>3
<1>5. SeatsTypeOK'
  BY <1>1, <1>2, <1>4, TypesTogether DEF SeatHasARow
<1>6. code[c].sub \in Subs /\ (new.owner => sub[code[c].sub].licence)
  BY <1>2, <1>3 DEF SeatsInv, Core, CodesFit
<1>7. /\ \A t : /\ is_live(t)' = is_live(t) /\ SeatIsFree(t)' = SeatIsFree(t)
                /\ BeingDeleted(t)' = BeingDeleted(t)
      /\ SeatsWithinPlan' /\ CodeServesOne' /\ CodesUsed' /\ CodesFit'
  BY <1>2 DEF is_live, SeatIsFree, list_seats, BeingDeleted, SeatsInv, Core, SeatsWithinPlan,
              CodeServesOne, CodesUsed, CodesFit
<1>8. \A q \in Phones : (Locked(q)' /\ q # p) => Locked(q) /\ Joining(q)' = Joining(q) /\ Joining(q) # code[c].sub
  BY <1>2, <1>4 DEF Locked, Joining, LockedSub
<1>9. Joining(p)' = code[c].sub
  BY <1>2, <1>3, <1>4 DEF Joining
<1>10. Held'
  <2>1. ASSUME NEW q \in Phones, Locked(q)'
        PROVE  /\ claim'[q].code \in Codes
               /\ code'[claim'[q].code].state = "issued"
               /\ Joining(q)' \in Subs
               /\ is_live(Joining(q))'
               /\ SeatIsFree(Joining(q))'
               /\ ~BeingDeleted(Joining(q))'
               /\ claim'[q].owner => sub'[Joining(q)'].licence
    <3>1. CASE q = p
      BY <1>2, <1>3, <1>4, <1>6, <1>9, <3>1 DEF is_live, SeatIsFree, list_seats, BeingDeleted
    <3>2. CASE q # p
      <4>1. /\ claim'[q] = claim[q] /\ Locked(q) /\ Joining(q)' = Joining(q)
        BY <1>4, <1>8, <2>1, <3>2
      <4>2. /\ claim[q].code \in Codes /\ code[claim[q].code].state = "issued"
            /\ Joining(q) \in Subs /\ is_live(Joining(q)) /\ SeatIsFree(Joining(q))
            /\ ~BeingDeleted(Joining(q)) /\ (claim[q].owner => sub[Joining(q)].licence)
        BY <4>1 DEF SeatsInv, Core, Held
      <4> QED
        BY <1>2, <4>1, <4>2 DEF is_live, SeatIsFree, list_seats, BeingDeleted
    <3> QED
      BY <3>1, <3>2
  <2>2. ASSUME NEW q \in Phones, NEW r \in Phones, Locked(q)', Locked(r)', Joining(q)' = Joining(r)'
        PROVE  q = r
    BY <1>8, <1>9, <2>2 DEF SeatsInv, Core, Held
  <2> QED
    BY <2>1, <2>2 DEF Held
<1> QED
  BY <1>5, <1>7, <1>10 DEF Core

(* It ends without a trace: the process died, or the phone sits elsewhere. *)
LEMMA ClaimLeftInv ==
  ASSUME SeatsInv, NEW p \in Phones, claim' = [claim EXCEPT ![p] = NoClaim],
         UNCHANGED <<sub, seat, code, work>>
  PROVE  Core'
<1>1. /\ sub \in [Subs -> SubType] /\ seat \in [Phones -> Subs \cup {NoSub}]
      /\ SeatHasARow /\ code \in [Codes -> CodeType] /\ claim \in [Phones -> ClaimType]
      /\ work \in [Tasks -> WorkType]
  BY SeatsTypes DEF SeatsInv, Core
<1>2. /\ claim' \in [Phones -> ClaimType] /\ ~Locked(p)'
      /\ \A q \in Phones : q # p => claim'[q] = claim[q]
  BY <1>1 DEF ClaimType, NoClaim, Locked
<1>3. SeatsTypeOK'
  BY <1>1, <1>2, TypesTogether DEF SeatHasARow
<1>4. /\ \A t \in Subs : /\ is_live(t) => is_live(t)' /\ list_seats(t)' = list_seats(t)
                         /\ BeingDeleted(t)' => BeingDeleted(t)
      /\ SeatsWithinPlan' /\ CodeServesOne' /\ CodesUsed' /\ CodesFit'
  BY DEF is_live, list_seats, BeingDeleted, SeatsInv, Core, SeatsWithinPlan, CodeServesOne,
         CodesUsed, CodesFit
<1>5. Held'
  BY <1>2, <1>4, HeldWhile DEF SeatsInv, Core
<1> QED
  BY <1>3, <1>4, <1>5 DEF Core

(* It commits: one seat of its subscription is taken, one code used; nothing of
   a row changes but a licence's payer. *)
LEMMA CommitClaimSub ==
  ASSUME SeatsInv, NEW p \in Phones, CommitClaim(p)
  PROVE  /\ sub' \in [Subs -> SubType]
         /\ \A t \in Subs : /\ sub'[t].status = sub[t].status
                            /\ sub'[t].licence = sub[t].licence
                            /\ sub'[t].payer # sub[t].payer => Store = "memory" /\ sub[t].licence
<1>1. sub \in [Subs -> SubType] /\ Locked(p)
  BY SeatsTypes DEF SeatsInv, Core, CommitClaim, Locked
<1>2. PICK s \in Subs : s = Joining(p) /\ (claim[p].owner => sub[s].licence)
  BY <1>1 DEF SeatsInv, Core, Held
<1>3. CASE sub' = sub
  BY <1>1, <1>3
<1>4. CASE sub' # sub
  <2>1. sub' = [sub EXCEPT ![s].payer = p] /\ Store = "memory" /\ claim[p].owner
    BY <1>2, <1>4 DEF CommitClaim, PaidBy, Joining
  <2>2. /\ [sub[s] EXCEPT !.payer = p] \in SubType
        /\ [sub[s] EXCEPT !.payer = p].status = sub[s].status
        /\ [sub[s] EXCEPT !.payer = p].licence = sub[s].licence
    BY <1>1 DEF SubType
  <2>3. sub' = [sub EXCEPT ![s] = [sub[s] EXCEPT !.payer = p]]
    BY <1>1, <2>1 DEF SubType
  <2> QED
    BY <1>1, <1>2, <2>1, <2>2, <2>3
<1> QED
  BY <1>3, <1>4

LEMMA CommitClaimInv ==
  ASSUME SeatsInv, NEW p \in Phones, CommitClaim(p)
  PROVE  Core'
<1>1. CASE UNCHANGED <<sub, seat, code>>
  BY <1>1, ClaimLeftInv DEF CommitClaim
<1>2. CASE ~UNCHANGED <<sub, seat, code>>
  <2>1. /\ sub \in [Subs -> SubType] /\ seat \in [Phones -> Subs \cup {NoSub}]
        /\ SeatHasARow /\ code \in [Codes -> CodeType] /\ claim \in [Phones -> ClaimType]
        /\ work \in [Tasks -> WorkType]
    BY SeatsTypes DEF SeatsInv, Core
  <2>2. Locked(p) /\ claim' = [claim EXCEPT ![p] = NoClaim] /\ work' = work
    BY DEF CommitClaim, Locked
  <2>3. PICK c \in Codes, s \in Subs :
           /\ claim[p].code = c /\ code[c].sub = s /\ code[c].state = "issued"
           /\ is_live(s) /\ SeatIsFree(s)
    BY <2>2 DEF SeatsInv, Core, Held, Joining
  <2> DEFINE new == [code[c] EXCEPT !.state = "redeemed", !.joined = code[c].joined \cup {p}]
  <2>4. code[c].joined = {}
    BY <2>3 DEF SeatsInv, Core, CodesUsed
  <2>5. /\ new \in CodeType /\ new.joined = {p} /\ new.state = "redeemed"
    BY <2>1, <2>4 DEF CodeType
  <2>6. code' = [code EXCEPT ![c] = new] /\ seat' = [seat EXCEPT ![p] = s]
    <3>1. /\ code' = [code EXCEPT ![c].state = "redeemed", ![c].joined = @ \cup {p}]
          /\ seat' = [seat EXCEPT ![p] = s]
      BY <1>2, <2>3 DEF CommitClaim
    <3> QED
      BY <2>1, <3>1 DEF CodeType
  <2> HIDE DEF new
  <2>7. /\ sub' \in [Subs -> SubType]
        /\ \A t \in Subs : sub'[t].status = sub[t].status /\ sub'[t].licence = sub[t].licence
    BY CommitClaimSub
  <2>8. /\ code' \in [Codes -> CodeType] /\ code'[c] = new
        /\ \A d \in Codes : d # c => code'[d] = code[d]
    BY <2>1, <2>5, <2>6
  <2>9. /\ seat' \in [Phones -> Subs \cup {NoSub}] /\ seat'[p] = s
        /\ \A q \in Phones : q # p => seat'[q] = seat[q]
    BY <2>1, <2>6
  <2>10. /\ claim' \in [Phones -> ClaimType] /\ ~Locked(p)'
         /\ \A q \in Phones : q # p => claim'[q] = claim[q]
    BY <2>1, <2>2 DEF ClaimType, NoClaim, Locked
  <2>11. SeatHasARow'
    <3>1. sub[s].status # "none"
      BY <2>3 DEF is_live
    <3> QED
      BY <2>1, <2>7, <2>9, <3>1 DEF SeatHasARow
  <2>12. SeatsTypeOK'
    BY <2>1, <2>2, <2>7, <2>8, <2>9, <2>10, <2>11, TypesTogether
  <2>13. \A t \in Subs : /\ is_live(t) => is_live(t)'
                         /\ t # s => list_seats(t)' \subseteq list_seats(t)
                         /\ BeingDeleted(t)' => BeingDeleted(t)
    BY <2>2, <2>7, <2>9 DEF is_live, list_seats, BeingDeleted
  <2>14. Held'
    <3>1. \A q \in Phones : (Locked(q) /\ q # p) => Joining(q) # s /\ claim[q].code # c
      BY <2>2, <2>3 DEF SeatsInv, Core, Held, Joining
    <3>2. \A q \in Phones : Locked(q)' => claim'[q] = claim[q] /\ q # p
      BY <2>10
    <3>3. ASSUME NEW q \in Phones, NEW d \in Codes, NEW t \in Subs,
                 Locked(q), Locked(q)', claim[q].code = d, code[d].sub = t
          PROVE  d # c /\ t # s
      BY <3>1, <3>2, <3>3 DEF Joining
    <3> QED
      BY <2>7, <2>8, <2>13, <3>2, <3>3, HeldWhile DEF SeatsInv, Core
  <2>15. SeatsWithinPlan'
    <3>1. list_seats(s)' \subseteq list_seats(s) \cup {p}
      BY <2>9 DEF list_seats
    <3>2. /\ Cardinality(list_seats(s)') <= Cardinality(list_seats(s)) + 1
          /\ Cardinality(list_seats(s)) < PlanSeats[s]
      BY <2>3, <3>1, OneMoreSeat DEF SeatIsFree
    <3>3. /\ Cardinality(list_seats(s)) \in Nat /\ PlanSeats[s] \in Nat
      BY PhonesCounted, SeatsAssumption DEF SeatsAssumption
    <3>4. Cardinality(list_seats(s)') \in Nat
      <4>1. list_seats(s)' \in SUBSET Phones
        BY DEF list_seats
      <4> QED
        BY <4>1, FS_Subset, FS_CardinalityType, SeatTableAssumption DEF SeatTableAssumption
    <3>5. Cardinality(list_seats(s)') <= PlanSeats[s]
      BY <3>2, <3>3, <3>4
    <3> QED
      BY <2>13, <3>5, PlanKept DEF SeatsInv, Core
  <2>16. CodesUsed'
    BY <2>5, <2>8 DEF SeatsInv, Core, CodesUsed
  <2>17. CodeServesOne'
    <3>1. Cardinality({p}) = 1
      BY FS_Singleton
    <3>2. ASSUME NEW d \in Codes PROVE Cardinality(code'[d].joined) <= 1
      <4>1. CASE d = c
        BY <2>5, <2>8, <3>1, <4>1
      <4>2. CASE d # c
        BY <2>8, <4>2 DEF SeatsInv, Core, CodeServesOne
      <4> QED
        BY <4>1, <4>2
    <3> QED
      BY <3>2 DEF CodeServesOne
  <2>18. CodesFit'
    BY <2>5, <2>7, <2>8 DEF SeatsInv, Core, CodesFit
  <2> QED
    BY <2>12, <2>14, <2>15, <2>16, <2>17, <2>18 DEF Core
<1> QED
  BY <1>1, <1>2

-----------------------------------------------------------------------------
(* Seats: what the tasks have read *)

(* A row that exists after a step did so before, with the same payer but for a
   licence that gets its owner; or its id is one that nobody had in mind. *)
LEMMA RowsRemain ==
  ASSUME SeatsInv, SeatsNext, NEW t \in Subs, sub'[t].status # "none"
  PROVE  \/ Unused(t)
         \/ /\ sub[t].status # "none" /\ sub'[t].licence = sub[t].licence
            /\ \/ sub'[t].payer = sub[t].payer
               \/ Store = "memory" /\ sub[t].licence /\ \E p \in Phones : Locked(p)
<1>0. sub \in [Subs -> SubType] /\ SeatsTypeOK
  BY SeatsTypes DEF SeatsInv, Core
<1>1. CASE sub' = sub
  BY <1>1
<1>2. ASSUME NEW r \in Tasks, NEW s \in Subs, StartCheckout(r, s), sub' # sub
      PROVE  t = s \/ (sub'[t] = sub[t] /\ sub[t].status # "none")
  <2>1. CASE t # s /\ t \in work[r].olds
    <3>1. sub'[t] = NewSub
      BY <1>2, <2>1 DEF StartCheckout
    <3> QED
      BY <3>1 DEF NewSub
  <2>2. CASE t # s /\ t \notin work[r].olds
    <3>1. sub'[t] = sub[t]
      BY <1>2, <2>2 DEF StartCheckout
    <3> QED
      BY <3>1
  <2> QED
    BY <2>1, <2>2
<1>3. ASSUME NEW s \in Subs, Paid(s) \/ Ended(s) \/ \E p \in Phones : CancelInApp(p, s)
      PROVE  sub[t].status # "none" /\ sub'[t].payer = sub[t].payer /\ sub'[t].licence = sub[t].licence
  <2>1. PICK st \in {"charging", "stopping", "over"} :
           SetStatus(s, st) /\ UNCHANGED <<seat, code, claim, work>> /\ sub[s].status # "none"
    BY <1>3 DEF Paid, Ended, CancelInApp, is_live
  <2>2. /\ sub'[s].payer = sub[s].payer /\ sub'[s].licence = sub[s].licence
        /\ \A u \in Subs : u # s => sub'[u] = sub[u]
    BY <1>0, <2>1, StatusStep
  <2> QED
    BY <2>1, <2>2
<1>4. ASSUME NEW s \in Subs, Closed(s) PROVE sub'[t] = sub[t] /\ sub[t].status # "none"
  BY <1>0, <1>4 DEF Closed, NewSub
<1>5. ASSUME NEW s \in Subs, NEW c \in Codes, IssueLicence(s, c)
      PROVE  Unused(s) /\ (t = s \/ (sub'[t] = sub[t] /\ sub[t].status # "none"))
  BY <1>0, <1>5 DEF IssueLicence
<1>6. ASSUME NEW p \in Phones, CommitClaim(p)
      PROVE  /\ Locked(p) /\ sub[t].status # "none" /\ sub'[t].licence = sub[t].licence
             /\ sub'[t].payer # sub[t].payer => Store = "memory" /\ sub[t].licence
  BY <1>6, CommitClaimSub DEF CommitClaim, Locked
<1>7. ASSUME NEW r \in Tasks, Task(r), sub' # sub PROVE \E s \in Subs : StartCheckout(r, s)
  BY <1>7 DEF Task, ReadForCheckout, BeginRemove, RemoveSeat, BeginCode, SeatForCheckout, TaskDies, CreateCode
<1>8. ASSUME NEW r \in Tasks, Task(r) PROVE Unused(t) \/ (sub'[t] = sub[t] /\ sub[t].status # "none")
  BY <1>1, <1>2, <1>7, <1>8 DEF StartCheckout
<1>9. ASSUME NEW p \in Phones, Redemption(p) PROVE sub' = sub \/ CommitClaim(p)
  BY <1>9 DEF Redemption, BeginClaim, ClaimDies
<1>10. ASSUME NEW c \in Codes, ExpireCode(c) PROVE sub' = sub
  BY <1>10 DEF ExpireCode
<1> QED
  BY <1>1, <1>3, <1>4, <1>5, <1>6, <1>8, <1>9, <1>10 DEF SeatsNext, Lifetime

LEMMA IdleKnown ==
  ASSUME NEW r \in Tasks, work'[r] = NoWork
  PROVE  Known(r)'
  BY DEF Known, NoWork

(* A task that does nothing still knows what it knew. *)
LEMMA WaitingKnown ==
  ASSUME SeatsInv, SeatsNext, NEW r \in Tasks, work'[r] = work[r]
  PROVE  Known(r)'
<1>0. Known(r) /\ work \in [Tasks -> WorkType]
  BY SeatsTypes DEF SeatsInv, Core, TasksKnown
<1>1. CASE work[r].stage = "idle"
  BY <1>0, <1>1, IdleKnown DEF Known
<1>2. CASE work[r].stage # "idle"
  <2>1. Store = "memory" => \A p \in Phones : ~Locked(p)
    BY <1>2 DEF SeatsInv, Alone, Busy
  <2>2. ASSUME NEW t \in Subs, t \in work[r].olds \/ t = work[r].sub, sub'[t].status # "none"
        PROVE  /\ sub[t].status # "none" /\ sub'[t].licence = sub[t].licence
               /\ sub'[t].payer = sub[t].payer
    <3>1. ~Unused(t)
      BY <2>2 DEF Unused
    <3> QED
      BY <2>1, <2>2, <3>1, RowsRemain
  <2>3. work[r].olds \subseteq Subs
    BY <1>0 DEF WorkType
  <2> QED
    BY <1>0, <2>2, <2>3 DEF Known
<1> QED
  BY <1>1, <1>2

LEMMA TasksKnownStep ==
  ASSUME SeatsInv, SeatsNext
  PROVE  TasksKnown'
<1>0. /\ work \in [Tasks -> WorkType] /\ TasksKnown
      /\ sub \in [Subs -> SubType] /\ seat \in [Phones -> Subs \cup {NoSub}]
  BY SeatsTypes DEF SeatsInv, Core
<1>1. ASSUME NEW r \in Tasks, Task(r), NEW q \in Tasks, q # r PROVE work'[q] = work[q]
  BY <1>0, <1>1
  DEF Task, ReadForCheckout, BeginRemove, RemoveSeat, BeginCode, SeatForCheckout, StartCheckout,
      TaskDies, CreateCode
<1>2. ASSUME NEW r \in Tasks, Task(r) PROVE Known(r)'
  <2>1. ASSUME work' = [work EXCEPT ![r] = NoWork] PROVE Known(r)'
    BY <1>0, <2>1, IdleKnown
  <2>2. ASSUME NEW p \in Phones, ReadForCheckout(r, p) PROVE Known(r)'
    <3>1. PICK olds \in SUBSET Unpaid(p) :
             work' = [work EXCEPT ![r] = [NoWork EXCEPT !.stage = "checkout", !.phone = p, !.olds = olds]]
      BY <2>2 DEF ReadForCheckout
    <3>2. /\ work'[r].stage = "checkout" /\ work'[r].phone = p /\ work'[r].olds = olds /\ sub' = sub
      BY <1>0, <2>2, <3>1 DEF ReadForCheckout, NoWork
    <3>3. \A t \in olds : sub[t].payer = p /\ ~sub[t].licence
      BY DEF Unpaid, SeatsInv, Core, CodesFit
    <3> QED
      BY <3>2, <3>3 DEF Known
  <2>3. ASSUME NEW p \in Phones, BeginRemove(r, p) PROVE Known(r)'
    <3>1. work'[r].stage = "removing" /\ work'[r].phone = p /\ work'[r].sub = seat[p] /\ work'[r].olds = {}
      BY <1>0, <2>3 DEF BeginRemove, NoWork
    <3>2. seat[p] \in Subs /\ sub[seat[p]].payer = p /\ sub' = sub
      BY <1>0, <2>3 DEF BeginRemove, Owned
    <3> QED
      BY <3>1, <3>2 DEF Known
  <2>4. ASSUME NEW p \in Phones, NEW s \in Subs, BeginCode(r, p, s) PROVE Known(r)'
    <3>1. work'[r].stage = "coding" /\ work'[r].sub = s /\ work'[r].olds = {}
      BY <1>0, <2>4 DEF BeginCode, NoWork
    <3> QED
      BY <3>1 DEF Known
  <2>5. CASE SeatForCheckout(r)
    <3>1. /\ work'[r].stage = "seating" /\ work'[r].phone = work[r].phone /\ work'[r].olds = work[r].olds
          /\ work[r].stage = "checkout" /\ sub' = sub
      BY <1>0, <2>5 DEF SeatForCheckout, WorkType
    <3>2. Known(r)
      BY <1>0 DEF TasksKnown
    <3> QED
      BY <3>1, <3>2 DEF Known
  <2> QED
    BY <1>2, <2>1, <2>2, <2>3, <2>4, <2>5 DEF Task, RemoveSeat, StartCheckout, TaskDies, CreateCode
<1>3. CASE \E r \in Tasks : Task(r)
  BY <1>1, <1>2, <1>3, WaitingKnown DEF TasksKnown
<1>4. CASE work' = work
  BY <1>4, WaitingKnown DEF TasksKnown
<1>5. (\E r \in Tasks : Task(r)) \/ work' = work
  BY DEF SeatsNext, Redemption, BeginClaim, CommitClaim, ClaimDies, Lifetime, Paid, Closed, Ended,
         CancelInApp, IssueLicence, ExpireCode
<1> QED
  BY <1>3, <1>4, <1>5

(* With transactions serialised one of them is under way at most. *)
LEMMA AloneStep ==
  ASSUME SeatsInv, SeatsNext
  PROVE  Alone'
<1> SUFFICES ASSUME Store = "memory" PROVE Alone'
  BY DEF Alone
<1>0. /\ work \in [Tasks -> WorkType] /\ claim \in [Phones -> ClaimType] /\ Alone
  BY SeatsTypes DEF SeatsInv, Core
<1>1. ASSUME \A p \in Phones : ~Locked(p)', \A r \in Tasks : ~Busy(r)' PROVE Alone'
  BY <1>1 DEF Alone, Busy
<1>2. CanStart => /\ \A p \in Phones : ~Locked(p)
                  /\ \A r \in Tasks : ~Busy(r)
  BY DEF CanStart, Locked, Busy
<1>3. ASSUME NEW r \in Tasks, Busy(r), claim' = claim, work' = [work EXCEPT ![r] = NoWork] PROVE Alone'
  <2>1. \A p \in Phones : ~Locked(p)'
    BY <1>0, <1>3 DEF Alone, Locked
  <2>2. \A q \in Tasks : ~Busy(q)'
    BY <1>0, <1>3 DEF Alone, Busy, NoWork
  <2> QED
    BY <1>1, <2>1, <2>2
<1>4. ASSUME NEW r \in Tasks, \A p \in Phones : ~Locked(p)', \A q \in Tasks \ {r} : ~Busy(q)',
             work'[r].stage \in {"checkout", "seating"} =>
                 /\ ~is_live(seat[work'[r].phone]) /\ \A t \in work'[r].olds : ~is_live(t),
             UNCHANGED <<sub, seat>>
      PROVE  Alone'
  BY <1>4 DEF Alone, Busy, is_live
<1>5. ASSUME NEW r \in Tasks, Task(r) PROVE Alone'
  <2>1. CASE TaskDies(r) \/ (\E s \in Subs : StartCheckout(r, s)) \/ (\E c \in Codes : CreateCode(r, c))
             \/ (\E q \in Phones : RemoveSeat(r, q))
    BY <1>3, <2>1 DEF TaskDies, StartCheckout, CreateCode, RemoveSeat, Busy
  <2>2. ASSUME NEW p \in Phones, ReadForCheckout(r, p) PROVE Alone'
    <3>1. /\ \A q \in Phones : ~Locked(q)'
          /\ \A q \in Tasks \ {r} : ~Busy(q)'
      BY <1>0, <1>2, <2>2 DEF ReadForCheckout, Locked, Busy
    <3>2. PICK olds \in SUBSET Unpaid(p) :
             work' = [work EXCEPT ![r] = [NoWork EXCEPT !.stage = "checkout", !.phone = p, !.olds = olds]]
      BY <2>2 DEF ReadForCheckout
    <3>3. work'[r].phone = p /\ work'[r].olds = olds
      BY <1>0, <3>2 DEF NoWork
    <3>4. ~is_live(seat[p]) /\ \A t \in olds : ~is_live(t)
      BY <2>2 DEF ReadForCheckout, live_subscription_for_device, is_live, Unpaid
    <3> QED
      BY <1>4, <2>2, <3>1, <3>3, <3>4 DEF ReadForCheckout
  <2>3. ASSUME NEW p \in Phones, BeginRemove(r, p) \/ \E s \in Subs : BeginCode(r, p, s) PROVE Alone'
    <3>1. /\ \A q \in Phones : ~Locked(q)'
          /\ \A q \in Tasks \ {r} : ~Busy(q)'
      BY <1>0, <1>2, <2>3 DEF BeginRemove, BeginCode, Locked, Busy
    <3>2. work'[r].stage \in {"removing", "coding"} /\ UNCHANGED <<sub, seat>>
      BY <1>0, <2>3 DEF BeginRemove, BeginCode, NoWork
    <3> QED
      BY <1>4, <3>1, <3>2
  <2>4. CASE SeatForCheckout(r)
    <3>1. /\ work[r].stage = "checkout" /\ UNCHANGED <<sub, seat, claim>>
          /\ work'[r].phone = work[r].phone /\ work'[r].olds = work[r].olds
          /\ \A q \in Tasks \ {r} : work'[q] = work[q]
      BY <1>0, <2>4 DEF SeatForCheckout, WorkType
    <3>2. ~is_live(seat[work[r].phone]) /\ \A t \in work[r].olds : ~is_live(t)
      BY <1>0, <3>1 DEF Alone
    <3>3. \A q \in Tasks \ {r} : ~Busy(q)'
      BY <1>0, <3>1 DEF Alone, Busy
    <3>4. \A q \in Phones : ~Locked(q)'
      BY <1>0, <3>1 DEF Alone, Locked, Busy
    <3> QED
      BY <1>4, <3>1, <3>2, <3>3, <3>4
  <2> QED
    BY <1>5, <2>1, <2>2, <2>3, <2>4 DEF Task
<1>6. ASSUME NEW s \in Subs, Lifetime(s) PROVE Alone'
  <2>1. CanStart /\ claim' = claim /\ work' = work
    BY <1>6 DEF Lifetime, Paid, Closed, Ended, CancelInApp, IssueLicence
  <2> QED
    BY <1>1, <1>2, <2>1 DEF Locked, Busy
<1>7. ASSUME NEW p \in Phones, CommitClaim(p) \/ ClaimDies(p) PROVE Alone'
  <2>1. Locked(p) /\ claim' = [claim EXCEPT ![p] = NoClaim] /\ work' = work
    BY <1>7 DEF CommitClaim, ClaimDies, Locked
  <2>2. \A q \in Phones : ~Locked(q)'
    BY <1>0, <2>1 DEF Alone, Locked, NoClaim
  <2>3. \A r \in Tasks : ~Busy(r)'
    BY <1>0, <2>1 DEF Alone, Busy
  <2> QED
    BY <1>1, <2>2, <2>3
<1>8. ASSUME NEW p \in Phones, NEW c \in Codes, BeginClaim(p, c) PROVE Alone'
  <2>1. /\ \A r \in Tasks : work'[r].stage = "idle"
        /\ \A q \in Phones : claim'[q].stage = "locked" => q = p
    BY <1>0, <1>2, <1>8 DEF BeginClaim, Locked, Busy
  <2>2. claim'[p].seen = NoSub \/ sub'[claim'[p].seen].status \notin {"charging", "stopping"}
    BY <1>0, <1>8 DEF BeginClaim, Covered, live_subscription_for_device, is_live
  <2> QED
    BY <2>1, <2>2 DEF Alone, Locked, Busy, is_live
<1>9. ASSUME NEW c \in Codes, ExpireCode(c) PROVE Alone'
  BY <1>0, <1>9 DEF ExpireCode, Alone, Locked, Busy, is_live
<1> QED
  BY <1>5, <1>6, <1>7, <1>8, <1>9 DEF SeatsNext, Redemption

-----------------------------------------------------------------------------
(* Seats: the theorems *)

LEMMA SeatsStep == ASSUME SeatsInv, [SeatsNext]_seats_vars PROVE SeatsInv'
<1>1. CASE UNCHANGED seats_vars
  <2>1. UNCHANGED <<sub, seat, code, claim, work>>
    BY <1>1 DEF seats_vars
  <2>2. Core'
    <3>1. work' \in [Tasks -> WorkType]
      BY <2>1, SeatsTypes DEF SeatsInv, Core
    <3> QED
      BY <2>1, <3>1, WorkStep DEF BeingDeleted
  <2>3. TasksKnown' /\ Alone'
    BY <2>1 DEF SeatsInv, TasksKnown, Known, Alone, Locked, Busy, is_live
  <2> QED
    BY <2>2, <2>3 DEF SeatsInv
<1>2. CASE SeatsNext
  <2>1. ASSUME NEW r \in Tasks, Task(r) PROVE Core'
    BY <2>1, TaskInv, StartCheckoutInv, RemoveSeatInv, CodeInv DEF Task
  <2>2. ASSUME NEW p \in Phones, Redemption(p) PROVE Core'
    <3>1. CASE ClaimDies(p)
      BY <3>1, ClaimLeftInv DEF ClaimDies
    <3> QED
      BY <2>2, <3>1, BeginClaimInv, CommitClaimInv DEF Redemption
  <2>3. ASSUME NEW s \in Subs, Lifetime(s) PROVE Core'
    BY <2>3, StatusInv, ClosedInv, IssueLicenceInv DEF Lifetime
  <2>4. ASSUME NEW c \in Codes, ExpireCode(c) PROVE Core'
    BY <2>4, CodeInv
  <2>5. Core'
    BY <1>2, <2>1, <2>2, <2>3, <2>4 DEF SeatsNext
  <2> QED
    BY <1>2, <2>5, TasksKnownStep, AloneStep DEF SeatsInv
<1> QED
  BY <1>1, <1>2

(* What a redemption holds, who has used which code and what a task has read is
   an invariant of every interleaving of these with everything else. *)
THEOREM SeatsInductive == SeatsSpec => []SeatsInv
<1> QED
  BY SeatsInitInv, SeatsStep, PTL DEF SeatsSpec

(* A subscription never has more phones than its plan has seats, for any
   number of phones and codes (redeem_claim_code counts under the lock). *)
THEOREM PlanRespected == SeatsSpec => []SeatsWithinPlan
<1>1. SeatsInv => SeatsWithinPlan
  BY DEF SeatsInv, Core
<1> QED
  BY <1>1, SeatsInductive, PTL

(* One code lets one phone in, whoever types it at once. *)
THEOREM CodeUsedOnce == SeatsSpec => []CodeServesOne
<1>1. SeatsInv => CodeServesOne
  BY DEF SeatsInv, Core
<1> QED
  BY <1>1, SeatsInductive, PTL

(* The steps that move a phone *)
LEMMA WhoMoves ==
  ASSUME SeatsInv, SeatsNext, NEW p \in Phones, seat'[p] # seat[p]
  PROVE  \/ \E r \in Tasks, s \in Subs :
               StartCheckout(r, s) /\ work[r].phone = p /\ ~UNCHANGED <<sub, seat, code>>
         \/ \E r \in Tasks, s \in Subs :
               StartCheckout(r, s) /\ seat'[p] = NoSub /\ seat[p] \in work[r].olds
         \/ CommitClaim(p)
         \/ \E s \in Subs : Closed(s) /\ seat'[p] = NoSub /\ seat[p] = s
         \/ \E r \in Tasks : RemoveSeat(r, p) /\ seat'[p] = NoSub
<1>1. seat \in [Phones -> Subs \cup {NoSub}]
  BY SeatsTypes DEF SeatsInv, Core
<1>2. ASSUME NEW r \in Tasks, NEW s \in Subs, StartCheckout(r, s), work[r].phone # p
      PROVE  seat'[p] = NoSub /\ seat[p] \in work[r].olds
  <2>1. work[r].phone \in Phones
    BY <1>2 DEF StartCheckout, SeatsInv, TasksKnown, Known
  <2>2. seat' = [SeatsWithout(work[r].olds) EXCEPT ![work[r].phone] = s]
    BY <1>2 DEF StartCheckout
  <2> QED
    BY <1>1, <1>2, <2>1, <2>2 DEF SeatsWithout
<1>3. ~UNCHANGED <<sub, seat, code>>
  OBVIOUS
<1>4. ASSUME NEW r \in Tasks, Task(r)
      PROVE  (\E s \in Subs : StartCheckout(r, s)) \/ \E q \in Phones : RemoveSeat(r, q)
  BY <1>4 DEF Task, ReadForCheckout, BeginRemove, BeginCode, SeatForCheckout, TaskDies, CreateCode
<1>5. ASSUME NEW r \in Tasks, NEW q \in Phones, RemoveSeat(r, q) PROVE q = p /\ seat'[p] = NoSub
  BY <1>1, <1>5 DEF RemoveSeat
<1>6. ASSUME NEW q \in Phones, Redemption(q) PROVE CommitClaim(p)
  <2>1. CommitClaim(q)
    BY <1>6 DEF Redemption, BeginClaim, ClaimDies
  <2> QED
    BY <1>1, <2>1 DEF CommitClaim
<1>7. ASSUME NEW s \in Subs, Lifetime(s) PROVE Closed(s) /\ seat'[p] = NoSub /\ seat[p] = s
  BY <1>1, <1>7 DEF Lifetime, Paid, Closed, Ended, CancelInApp, IssueLicence, SeatsWithout
<1> QED
  BY <1>2, <1>3, <1>4, <1>5, <1>6, <1>7 DEF SeatsNext, ExpireCode

(* Nobody joins a subscription that has ended: its row is locked from the
   check to the commit. *)
THEOREM JoinersFindItLive == SeatsSpec => JoinsOnlyLive
<1> DEFINE Step == \A p \in Phones : seat'[p] \notin {seat[p], NoSub}
                      => sub'[seat'[p]].status \in {"pending", "charging", "stopping"}
<1>1. SeatsInv /\ [SeatsNext]_seats_vars => [Step]_seats_vars
  <2> SUFFICES ASSUME SeatsInv, SeatsNext, NEW p \in Phones, seat'[p] \notin {seat[p], NoSub}
               PROVE  sub'[seat'[p]].status \in {"pending", "charging", "stopping"}
    OBVIOUS
  <2>0. /\ sub \in [Subs -> SubType] /\ seat \in [Phones -> Subs \cup {NoSub}]
    BY SeatsTypes DEF SeatsInv, Core
  <2>1. ASSUME NEW r \in Tasks, NEW s \in Subs, StartCheckout(r, s), work[r].phone = p
        PROVE  sub'[seat'[p]].status \in {"pending", "charging", "stopping"}
    <3>1. /\ seat' = [SeatsWithout(work[r].olds) EXCEPT ![p] = s]
          /\ sub' = [t \in Subs |-> CASE t = s -> [status |-> "pending", payer |-> p, licence |-> FALSE]
                                      [] t \in work[r].olds -> NewSub
                                      [] OTHER -> sub[t]]
          /\ s \notin work[r].olds
      BY <2>1 DEF StartCheckout, Unused
    <3>2. seat'[p] = s /\ sub'[s].status = "pending"
      BY <3>1 DEF SeatsWithout
    <3> QED
      BY <3>2
  <2>2. CASE CommitClaim(p)
    <3>1. Locked(p) /\ seat'[p] = Joining(p)
      BY <2>0, <2>2 DEF CommitClaim, Locked, Joining
    <3>2. Joining(p) \in Subs /\ is_live(Joining(p))
      BY <3>1 DEF SeatsInv, Core, Held
    <3>3. sub'[Joining(p)].status = sub[Joining(p)].status
      BY <2>2, <3>2, CommitClaimSub
    <3> QED
      BY <3>1, <3>2, <3>3 DEF is_live
  <2> QED
    BY <2>1, <2>2, WhoMoves
<1>2. JoinsOnlyLive <=> [][Step]_seats_vars
  BY DEF JoinsOnlyLive
<1> HIDE DEF Step
<1> QED
  BY <1>1, <1>2, SeatsInductive, PTL DEF SeatsSpec

(* A live subscription's phone that moves does so by the payer's leave, or, on
   Postgres alone, by what its own redemption or checkout, or the payer's
   restart, read before. *)
LEMMA LiveSeatMoves ==
  ASSUME SeatsInv, SeatsNext, NEW p \in Phones, is_live(seat[p]), seat'[p] # seat[p]
  PROVE  \/ \E r \in Tasks : /\ work[r].stage = "removing" /\ work[r].sub = seat[p]
                              /\ work[r].phone = sub[seat[p]].payer
         \/ /\ Store = "postgres"
            /\ \/ claim[p].stage = "locked" /\ claim[p].seen = seat[p]
               \/ \E r \in Tasks :
                     /\ work[r].stage = "seating"
                     /\ \/ work[r].phone = p /\ work[r].drop = seat[p]
                        \/ /\ seat[p] \in work[r].olds
                           /\ work[r].phone = sub[seat[p]].payer
<1>1. /\ seat[p] # NoSub /\ sub[seat[p]].status # "none"
      /\ Alone /\ TasksKnown /\ Store \in {"memory", "postgres"}
      /\ seat \in [Phones -> Subs \cup {NoSub}]
  BY SeatTableAssumption, SeatsTypes DEF SeatsInv, Core, is_live, SeatTableAssumption
<1>2. ASSUME NEW r \in Tasks, work[r].stage = "seating", seat[p] \in work[r].olds
      PROVE  Store = "postgres" /\ work[r].phone = sub[seat[p]].payer
  BY <1>1, <1>2 DEF Alone, TasksKnown, Known
<1>3. ASSUME NEW r \in Tasks, NEW s \in Subs, StartCheckout(r, s), work[r].phone = p,
             seat[p] \notin work[r].olds
      PROVE  work[r].stage = "seating" /\ work[r].drop = seat[p] /\ Store = "postgres"
  <2>1. work[r].stage = "seating" /\ seat[p] \in {work[r].drop, NoSub}
    BY <1>1, <1>3 DEF StartCheckout, SeatsWithout
  <2>2. Store # "memory"
    BY <1>1, <1>3, <2>1 DEF Alone
  <2> QED
    BY <1>1, <2>1, <2>2
<1>4. ASSUME CommitClaim(p)
      PROVE  claim[p].stage = "locked" /\ claim[p].seen = seat[p] /\ Store = "postgres"
  <2>1. claim[p].stage = "locked" /\ claim[p].seen = seat[p]
    BY <1>1, <1>4 DEF CommitClaim
  <2> QED
    BY <1>1, <2>1 DEF Alone, Locked
<1>5. ASSUME NEW r \in Tasks, RemoveSeat(r, p)
      PROVE  /\ work[r].stage = "removing" /\ work[r].sub = seat[p]
             /\ work[r].phone = sub[seat[p]].payer
  BY <1>1, <1>5 DEF RemoveSeat, TasksKnown, Known
<1>6. ASSUME NEW s \in Subs, Closed(s) PROVE seat[p] # s
  BY <1>6 DEF Closed, is_live
<1>7. ASSUME NEW r \in Tasks, NEW s \in Subs, StartCheckout(r, s) PROVE work[r].stage = "seating"
  BY <1>7 DEF StartCheckout
<1> QED
  BY <1>2, <1>3, <1>4, <1>5, <1>6, <1>7, WhoMoves

(* A phone keeps its seat while the subscription lives, unless the payer frees
   it or, on Postgres, somebody acts on what they read before: no closing, no
   other phone's code and no other phone's checkout takes it away. *)
THEOREM SeatsKept == SeatsSpec => SeatIsKept
<1>1. SeatsInv /\ [SeatsNext]_seats_vars =>
         [\A p \in Phones :
             (is_live(seat[p]) /\ seat'[p] # seat[p]) =>
                 \/ \E r \in Tasks : /\ work[r].stage = "removing" /\ work[r].sub = seat[p]
                                      /\ work[r].phone = sub[seat[p]].payer
                 \/ /\ Store = "postgres"
                    /\ \/ claim[p].stage = "locked" /\ claim[p].seen = seat[p]
                       \/ \E r \in Tasks :
                             /\ work[r].stage = "seating"
                             /\ \/ work[r].phone = p /\ work[r].drop = seat[p]
                                \/ /\ seat[p] \in work[r].olds
                                   /\ work[r].phone = sub[seat[p]].payer]_seats_vars
  BY LiveSeatMoves
<1> QED
  BY <1>1, SeatsInductive, PTL DEF SeatsSpec, SeatIsKept

-----------------------------------------------------------------------------
(* Seats: the refinement of GuestList, step by step *)

LEMMA OpenKept ==
  ASSUME \A s \in Subs : is_live(s)' <=> is_live(s)
  PROVE  Open' = Open
  BY DEF Open

LEMMA HostKept ==
  ASSUME \A s \in Subs : /\ sub'[s].status = "none" <=> sub[s].status = "none"
                         /\ sub'[s].licence = sub[s].licence
                         /\ sub[s].licence \/ sub'[s].payer = sub[s].payer
  PROVE  Host' = Host
  BY Zenon DEF Host

(* What a task that waits, reads or rolls back leaves as it was *)
LEMMA ListStays ==
  ASSUME UNCHANGED <<sub, seat, code>>
  PROVE  UNCHANGED List!vars
<1>1. Open' = Open
  BY OpenKept DEF is_live
<1>2. Host' = Host
  BY HostKept
<1>3. Out' = Out
  BY DEF Out
<1> QED
  BY <1>1, <1>2, <1>3 DEF List!vars

LEMMA BeginStep ==
  ASSUME SeatsInv, NEW r \in Tasks, NEW s \in Subs, StartCheckout(r, s)
  PROVE  UNCHANGED List!vars \/ \E p \in Phones : List!Begin(p, s)
<1>1. CASE UNCHANGED <<sub, seat, code>>
  BY <1>1, ListStays
<1>2. CASE ~UNCHANGED <<sub, seat, code>>
  <2> DEFINE p    == work[r].phone
             olds == work[r].olds
             old  == {t \in olds : Host[t] = p}
  <2>1. /\ sub \in [Subs -> SubType] /\ seat \in [Phones -> Subs \cup {NoSub}] /\ SeatHasARow
        /\ code \in [Codes -> CodeType] /\ olds \subseteq Subs /\ NoSub \notin Subs
    <3>1. work \in [Tasks -> WorkType]
      BY SeatsTypes DEF SeatsInv, Core
    <3> QED
      BY <3>1, SeatsTypes, SeatsAssumption DEF SeatsInv, Core, SeatsAssumption, WorkType
  <2>2. /\ work[r].stage = "seating" /\ p \in Phones
        /\ \A t \in olds : sub[t].status # "none" => sub[t].payer = p /\ ~sub[t].licence
    BY DEF StartCheckout, SeatsInv, TasksKnown, Known
  <2>3. /\ sub[s].status = "none" /\ s \notin olds
        /\ sub' = [t \in Subs |-> CASE t = s -> [status |-> "pending", payer |-> p, licence |-> FALSE]
                                    [] t \in olds -> NewSub
                                    [] OTHER -> sub[t]]
        /\ seat' = [SeatsWithout(olds) EXCEPT ![p] = s]
        /\ code' = CodesWithout(olds)
    BY <1>2 DEF StartCheckout, Unused
  <2>4. \A t \in olds : sub[t].status # "none" => t \in old
    BY <2>1, <2>2 DEF Host
  <2>5. /\ sub'[s] = [status |-> "pending", payer |-> p, licence |-> FALSE]
        /\ \A t \in olds : sub'[t] = NewSub
        /\ \A t \in Subs : t # s /\ t \notin olds => sub'[t] = sub[t]
    BY <2>1, <2>3
  <2>6. Store = "memory" => seat[p] \notin Open /\ old \cap Open = {}
    BY <2>2 DEF SeatsInv, Alone, Open
  <2>7. old \in SUBSET {t \in Subs : Host[t] = p} /\ old \subseteq olds
    BY <2>1
  <2> HIDE DEF p, olds, old
  <2>8. s \notin Open /\ List!Guests(s) = {} /\ Host[s] = NoSub
    BY <2>1, <2>3 DEF Open, is_live, List!Guests, SeatHasARow, Host
  <2>9. seat' = [q \in Phones |-> IF q = p THEN s ELSE IF seat[q] \in old THEN NoSub ELSE seat[q]]
    <3>1. \A q \in Phones : seat[q] \in olds <=> seat[q] \in old
      BY <2>1, <2>4, <2>7 DEF SeatHasARow
    <3> QED
      BY <2>3, <3>1 DEF SeatsWithout
  <2>10. Open' = Open \ old
    <3>1. ASSUME NEW t \in Subs PROVE is_live(t)' <=> (is_live(t) /\ t \notin old)
      <4>1. CASE t = s
        BY <2>3, <2>5, <4>1 DEF is_live
      <4>2. CASE t # s /\ t \in olds
        BY <2>4, <2>5, <4>2 DEF is_live, NewSub
      <4>3. CASE t # s /\ t \notin olds
        BY <2>5, <2>7, <4>3 DEF is_live
      <4> QED
        BY <4>1, <4>2, <4>3
    <3> QED
      BY <3>1 DEF Open
  <2>11. Out' = List!Without(old)
    <3>1. \A c \in Codes : code[c].state = "issued" => (code[c].sub \in olds <=> code[c].sub \in old)
      BY <2>4, <2>7 DEF SeatsInv, Core, CodesFit
    <3>2. \A c \in Codes : /\ code'[c].sub = code[c].sub
                           /\ code'[c].state = IF code[c].state = "issued" /\ code[c].sub \in olds
                                               THEN "expired" ELSE code[c].state
      BY <2>1, <2>3, CodesGone
    <3>3. \A c \in Codes : code'[c].state = "issued" <=> (code[c].state = "issued" /\ code[c].sub \notin old)
      BY <3>1, <3>2
    <3>4. {c \in Codes : code'[c].state = "issued"} = {c \in DOMAIN Out : Out[c] \notin old}
      BY <3>3 DEF Out
    <3> QED
      BY <3>2, <3>4 DEF Out, List!Without
  <2>12. Host' = List!Hosts(p, s, old)
    <3>1. ASSUME NEW t \in Subs
          PROVE  Host'[t] = IF t = s THEN p ELSE IF t \in old THEN NoSub ELSE Host[t]
      <4>1. CASE t = s
        BY <2>5, <4>1 DEF Host
      <4>2. CASE t # s /\ t \in olds
        BY <2>4, <2>5, <4>2 DEF Host, NewSub
      <4>3. CASE t # s /\ t \notin olds
        BY <2>5, <2>7, <4>3 DEF Host
      <4> QED
        BY <4>1, <4>2, <4>3
    <3> QED
      BY <3>1 DEF Host, List!Hosts
  <2>13. List!Begin(p, s)
    BY <2>6, <2>7, <2>8, <2>9, <2>10, <2>11, <2>12 DEF List!Begin
  <2> QED
    BY <2>2, <2>13
<1> QED
  BY <1>1, <1>2

(* At its commit a redemption still has what it saw: its locks hold it. *)
LEMMA JoinStep ==
  ASSUME SeatsInv, NEW p \in Phones, CommitClaim(p)
  PROVE  UNCHANGED List!vars \/ \E c \in Codes : List!Join(p, c)
<1> DEFINE c == claim[p].code
           s == code[c].sub
<1>0. sub \in [Subs -> SubType] /\ code \in [Codes -> CodeType]
  BY SeatsTypes DEF SeatsInv, Core
<1>1. CASE UNCHANGED <<sub, seat, code>>
  BY <1>1, ListStays
<1>2. CASE ~UNCHANGED <<sub, seat, code>>
  <2>1. /\ Locked(p)
        /\ seat' = [seat EXCEPT ![p] = s]
        /\ code' = [code EXCEPT ![c].state = "redeemed", ![c].joined = @ \cup {p}]
    BY <1>2 DEF CommitClaim, Locked
  <2>2. c \in Codes /\ code[c].state = "issued" /\ s \in Subs /\ is_live(s) /\ SeatIsFree(s)
    BY <2>1 DEF SeatsInv, Core, Held, Joining
  <2> HIDE DEF c, s
  <2>3. \A t \in Subs : /\ sub'[t].status = sub[t].status
                        /\ sub'[t].licence = sub[t].licence
                        /\ sub[t].licence \/ sub'[t].payer = sub[t].payer
    BY CommitClaimSub
  <2>4. Open' = Open /\ s \in Open /\ Host' = Host
    BY <2>2, <2>3, OpenKept, HostKept DEF is_live, Open
  <2>5. /\ code'[c].state = "redeemed"
        /\ \A d \in Codes \ {c} : code'[d] = code[d]
    BY <1>0, <2>1, <2>2 DEF CodeType
  <2>6. c \in DOMAIN Out /\ Out[c] = s
    BY <2>2 DEF Out, s
  <2>7. Out' = [d \in DOMAIN Out \ {c} |-> Out[d]]
    <3>1. {d \in Codes : code'[d].state = "issued"} = {d \in Codes : code[d].state = "issued"} \ {c}
      BY <2>5
    <3> QED
      BY <2>5, <3>1 DEF Out
  <2>8. Cardinality(List!Guests(s)) < PlanSeats[s]
    BY <2>2 DEF SeatIsFree, list_seats, List!Guests
  <2>9. List!Join(p, c)
    <3>1. List!TakeBack(c)
      BY <2>6, <2>7 DEF List!TakeBack
    <3>2. Out[c] \in Open /\ List!Cardinality(List!Guests(Out[c])) < PlanSeats[Out[c]]
      BY <2>4, <2>6, <2>8 DEF Cardinality, List!Cardinality
    <3>3. seat' = [seat EXCEPT ![p] = Out[c]]
      BY <2>1, <2>6
    <3> QED
      BY <3>1, <3>2, <3>3, <2>4 DEF List!Join
  <2> QED
    BY <2>2, <2>9
<1> QED
  BY <1>1, <1>2

(* Closing, paying, ending and cancelling change one subscription. *)
LEMMA SubStep ==
  ASSUME SeatsInv, NEW s \in Subs,
         Closed(s) \/ Paid(s) \/ Ended(s) \/ \E p \in Phones : CancelInApp(p, s)
  PROVE  UNCHANGED List!vars \/ List!TakenBack(s) \/ List!Opens(s) \/ List!Ends(s)
<1>0. sub \in [Subs -> SubType] /\ code \in [Codes -> CodeType] /\ s # NoSub /\ SeatsTypeOK
  BY SeatsTypes, SeatsAssumption DEF SeatsInv, Core, SeatsAssumption
<1>1. CASE Closed(s)
  <2>1. sub'[s] = NewSub /\ sub[s].status = "pending" /\ \A t \in Subs \ {s} : sub'[t] = sub[t]
    BY <1>0, <1>1 DEF Closed
  <2>2. Open' = Open /\ s \notin Open
    BY <2>1, OpenKept DEF is_live, NewSub, Open
  <2>3. seat' = [q \in Phones |-> IF seat[q] = s THEN NoSub ELSE seat[q]]
    BY <1>1 DEF Closed, SeatsWithout
  <2>4. Out' = List!Without({s})
    <3>1. \A c \in Codes : /\ code'[c].sub = code[c].sub
                           /\ code'[c].state = IF code[c].state = "issued" /\ code[c].sub \in {s}
                                               THEN "expired" ELSE code[c].state
      BY <1>0, <1>1, CodesGone DEF Closed
    <3>2. {c \in Codes : code'[c].state = "issued"} = {c \in DOMAIN Out : Out[c] \notin {s}}
      BY <3>1 DEF Out
    <3> QED
      BY <3>1, <3>2 DEF Out, List!Without
  <2>5. Host' = List!Hosts(NoSub, s, {s})
    BY <2>1 DEF Host, List!Hosts, NewSub
  <2> QED
    BY <2>2, <2>3, <2>4, <2>5 DEF List!TakenBack
<1>2. ASSUME NEW st \in {"charging", "stopping", "over"}, SetStatus(s, st), sub[s].status # "none",
             UNCHANGED <<seat, code, claim, work>>
      PROVE  /\ sub'[s].status = st
             /\ \A t \in Subs \ {s} : sub'[t] = sub[t]
             /\ seat' = seat /\ Out' = Out /\ Host' = Host
  <2>1. /\ sub'[s].status = st /\ sub'[s].payer = sub[s].payer /\ sub'[s].licence = sub[s].licence
        /\ \A t \in Subs : t # s => sub'[t] = sub[t]
    BY <1>0, <1>2, StatusStep
  <2>2. Host' = Host
    BY <1>2, <2>1, HostKept
  <2> QED
    BY <1>2, <2>1, <2>2 DEF Out
<1>3. CASE Paid(s)
  <2>1. /\ sub'[s].status = "charging" /\ (\A t \in Subs \ {s} : sub'[t] = sub[t])
        /\ seat' = seat /\ Out' = Out /\ Host' = Host
    BY <1>2, <1>3 DEF Paid
  <2>2. Open' = Open \cup {s}
    BY <1>0, <2>1 DEF Open, is_live
  <2> QED
    BY <2>1, <2>2 DEF List!Opens
<1>4. CASE Ended(s)
  <2>1. /\ sub'[s].status = "over" /\ (\A t \in Subs \ {s} : sub'[t] = sub[t])
        /\ seat' = seat /\ Out' = Out /\ Host' = Host
    BY <1>2, <1>4 DEF Ended, is_live
  <2>2. Open' = Open \ {s}
    BY <1>0, <2>1 DEF Open, is_live
  <2> QED
    BY <2>1, <2>2 DEF List!Ends
<1>5. CASE \E p \in Phones : CancelInApp(p, s)
  <2>1. /\ sub[s].status = "charging" /\ sub'[s].status = "stopping"
        /\ \A t \in Subs \ {s} : sub'[t] = sub[t]
        /\ seat' = seat /\ Out' = Out /\ Host' = Host
    BY <1>2, <1>5 DEF CancelInApp
  <2>2. Open' = Open
    BY <1>0, <2>1, OpenKept DEF is_live
  <2> QED
    BY <2>1, <2>2 DEF List!vars
<1> QED
  BY <1>1, <1>3, <1>4, <1>5

(* Codes are issued while they are unused, and expire while they are out. *)
LEMMA CodeStep ==
  ASSUME SeatsInv, NEW c \in Codes
  PROVE  /\ \A r \in Tasks : CreateCode(r, c) => UNCHANGED List!vars \/ \E s \in Subs : List!Issue(s, c)
         /\ \A s \in Subs : IssueLicence(s, c) => List!Licence(s, c)
         /\ ExpireCode(c) => List!Void(c)
<1>0. /\ sub \in [Subs -> SubType] /\ code \in [Codes -> CodeType]
      /\ seat \in [Phones -> Subs \cup {NoSub}] /\ SeatHasARow /\ NoSub \notin Subs
  BY SeatsTypes, SeatsAssumption DEF SeatsInv, Core, SeatsAssumption
<1>1. ASSUME code[c].state # "issued", NEW s \in Subs,
             code'[c].state = "issued" /\ code'[c].sub = s,
             \A d \in Codes \ {c} : code'[d] = code[d]
      PROVE  c \notin DOMAIN Out /\ List!HandOut(c, s)
  <2>1. {d \in Codes : code'[d].state = "issued"} = {d \in Codes : code[d].state = "issued"} \cup {c}
    BY <1>1
  <2> QED
    BY <1>1, <2>1 DEF Out, List!HandOut
<1>2. ASSUME NEW r \in Tasks, CreateCode(r, c)
      PROVE  UNCHANGED List!vars \/ \E s \in Subs : List!Issue(s, c)
  <2>1. CASE UNCHANGED code
    BY <1>2, <2>1, ListStays DEF CreateCode
  <2>2. CASE ~UNCHANGED code
    <3> DEFINE s == work[r].sub
    <3>1. s \in Subs
      BY <1>2 DEF CreateCode, SeatsInv, TasksKnown, Known
    <3>2. /\ code[c].state = "unused" /\ UNCHANGED <<sub, seat>>
          /\ code' = [code EXCEPT ![c] = [code[c] EXCEPT !.state = "issued", !.sub = s]]
      BY <1>2, <2>2 DEF CreateCode
    <3> HIDE DEF s
    <3>3. code'[c] = [code[c] EXCEPT !.state = "issued", !.sub = s]
      BY <1>0, <3>2
    <3>4. code'[c].state = "issued" /\ code'[c].sub = s
      BY <1>0, <3>3 DEF CodeType
    <3>5. c \notin DOMAIN Out /\ List!HandOut(c, s)
      BY <1>0, <1>1, <3>1, <3>2, <3>4
    <3>6. Open' = Open /\ Host' = Host
      BY <3>2, OpenKept, HostKept DEF is_live
    <3> QED
      BY <3>1, <3>2, <3>5, <3>6 DEF List!Issue
  <2> QED
    BY <2>1, <2>2
<1>3. ASSUME NEW s \in Subs, IssueLicence(s, c) PROVE List!Licence(s, c)
  <2>1. /\ sub[s].status = "none" /\ code[c].state = "unused" /\ seat' = seat
        /\ sub' = [sub EXCEPT ![s] = [status |-> "charging", payer |-> Partner, licence |-> TRUE]]
        /\ code' = [code EXCEPT ![c] = [code[c] EXCEPT !.state = "issued", !.sub = s, !.licence = TRUE]]
    BY <1>3 DEF IssueLicence, Unused
  <2>2. code'[c] = [code[c] EXCEPT !.state = "issued", !.sub = s, !.licence = TRUE]
    BY <1>0, <2>1
  <2>3. code'[c].state = "issued" /\ code'[c].sub = s
    BY <1>0, <2>2 DEF CodeType
  <2>4. c \notin DOMAIN Out /\ List!HandOut(c, s)
    BY <1>0, <1>1, <2>1, <2>3
  <2>5. /\ sub'[s] = [status |-> "charging", payer |-> Partner, licence |-> TRUE]
        /\ \A t \in Subs \ {s} : sub'[t] = sub[t]
    BY <1>0, <2>1
  <2>6. Open' = Open \cup {s}
    BY <1>0, <2>5 DEF Open, is_live
  <2>7. List!Guests(s) = {}
    BY <1>0, <2>1 DEF List!Guests, SeatHasARow
  <2>8. Host' = Host
    <3>1. \A t \in Subs : Host'[t] = Host[t]
      BY <2>1, <2>5 DEF Host
    <3> QED
      BY <3>1 DEF Host
  <2> QED
    BY <2>1, <2>4, <2>6, <2>7, <2>8 DEF List!Licence
<1>4. ASSUME ExpireCode(c) PROVE List!Void(c)
  <2>1. /\ code[c].state = "issued" /\ UNCHANGED <<sub, seat>>
        /\ code'[c].state = "expired" /\ \A d \in Codes \ {c} : code'[d] = code[d]
    BY <1>0, <1>4 DEF ExpireCode, CodeType
  <2>2. {d \in Codes : code'[d].state = "issued"} = {d \in Codes : code[d].state = "issued"} \ {c}
    BY <2>1
  <2>3. c \in DOMAIN Out /\ Out' = [d \in DOMAIN Out \ {c} |-> Out[d]]
    BY <2>1, <2>2 DEF Out
  <2>4. Open' = Open /\ Host' = Host
    BY <2>1, OpenKept, HostKept DEF is_live
  <2> QED
    BY <2>1, <2>3, <2>4 DEF List!Void, List!TakeBack
<1> QED
  BY <1>2, <1>3, <1>4

LEMMA GuestListStep ==
  ASSUME SeatsInv, [SeatsNext]_seats_vars
  PROVE  [List!Next]_(List!vars)
<1>1. CASE UNCHANGED <<sub, seat, code>>
  BY <1>1, ListStays
<1>2. ASSUME NEW r \in Tasks, NEW q \in Phones, RemoveSeat(r, q) PROVE List!Next
  <2>1. UNCHANGED <<sub, code>> /\ seat' = [seat EXCEPT ![q] = NoSub]
    BY <1>2 DEF RemoveSeat
  <2>2. Open' = Open /\ Out' = Out /\ Host' = Host
    BY <2>1, OpenKept, HostKept DEF is_live, Out
  <2> QED
    BY <2>1, <2>2 DEF List!Next, List!Leave
<1>3. ASSUME NEW r \in Tasks, Task(r) PROVE [List!Next]_(List!vars)
  <2>1. ASSUME NEW s \in Subs, StartCheckout(r, s) PROVE [List!Next]_(List!vars)
    BY <2>1, BeginStep DEF List!Next
  <2>2. ASSUME NEW c \in Codes, CreateCode(r, c) PROVE [List!Next]_(List!vars)
    BY <2>2, CodeStep DEF List!Next
  <2>3. CASE \/ SeatForCheckout(r) \/ TaskDies(r)
             \/ \E p \in Phones : \/ ReadForCheckout(r, p) \/ BeginRemove(r, p)
                                  \/ \E s \in Subs : BeginCode(r, p, s)
    <3>1. UNCHANGED <<sub, seat, code>>
      BY <2>3 DEF SeatForCheckout, TaskDies, ReadForCheckout, BeginRemove, BeginCode
    <3> QED
      BY <1>1, <3>1
  <2> QED
    BY <1>2, <1>3, <2>1, <2>2, <2>3 DEF Task
<1>4. ASSUME NEW p \in Phones, Redemption(p) PROVE [List!Next]_(List!vars)
  <2>1. CASE CommitClaim(p)
    BY <2>1, JoinStep DEF List!Next
  <2>2. CASE ClaimDies(p) \/ \E c \in Codes : BeginClaim(p, c)
    <3>1. UNCHANGED <<sub, seat, code>>
      BY <2>2 DEF ClaimDies, BeginClaim
    <3> QED
      BY <1>1, <3>1
  <2> QED
    BY <1>4, <2>1, <2>2 DEF Redemption
<1>5. ASSUME NEW s \in Subs, Lifetime(s) PROVE [List!Next]_(List!vars)
  <2>1. CASE Closed(s) \/ Paid(s) \/ Ended(s) \/ \E p \in Phones : CancelInApp(p, s)
    BY <2>1, SubStep DEF List!Next
  <2>2. CASE \E c \in Codes : IssueLicence(s, c)
    BY <2>2, CodeStep DEF List!Next
  <2> QED
    BY <1>5, <2>1, <2>2 DEF Lifetime
<1>6. ASSUME NEW c \in Codes, ExpireCode(c) PROVE [List!Next]_(List!vars)
  BY <1>6, CodeStep DEF List!Next
<1>7. UNCHANGED seats_vars => UNCHANGED <<sub, seat, code>>
  BY DEF seats_vars
<1> QED
  BY <1>1, <1>3, <1>4, <1>5, <1>6, <1>7 DEF SeatsNext

(* Redemptions, checkouts, new codes and removals, each in its steps and with
   everything that may come in between, implement those of one step; with
   transactions serialised, those that take no live subscription back. *)
THEOREM GuestListImplemented == SeatsSpec => ImplementsGuestList
<1>1. SeatsInit => List!Init
  <2> SUFFICES ASSUME SeatsInit PROVE List!Init
    OBVIOUS
  <2>1. Open = {} /\ Host = [s \in Subs |-> NoSub]
    BY DEF SeatsInit, Open, Host, is_live, NewSub
  <2>2. {c \in Codes : code[c].state = "issued"} = {}
    BY DEF SeatsInit, NewCode
  <2>3. Out = [c \in {} |-> NoSub]
    BY <2>2 DEF Out
  <2> QED
    BY <2>1, <2>3 DEF SeatsInit, List!Init
<1>2. SeatsInv /\ [SeatsNext]_seats_vars => [List!Next]_(List!vars)
  BY GuestListStep
<1> QED
  BY <1>1, <1>2, SeatsInductive, PTL DEF SeatsSpec, ImplementsGuestList, List!Spec

-----------------------------------------------------------------------------
(* Checkout: what is true of the rows, the requests and the pass *)

(* What may still charge the number: a row that does, or one that is not paid
   yet and is not held for review *)
MayCharge(i) ==
    \/ rows[i].status = "active"
    \/ rows[i].status = "pending" /\ ~rows[i].held

Readers == {r \in Requests : req[r].stage = "read"}

(* Every reader has an id to create its row with *)
RoomForReaders == created + Cardinality(Readers) <= MaxCheckouts

(* A notification that is tried again has a try left *)
TriesLeft ==
    \A i \in Ids :
        /\ notice[i].state = "new" => notice[i].tries = 0
        /\ notice[i].state = "unmatched" => notice[i].tries < MaxTries

(* A request works on its own row, which the provider has not heard of before
   it is called, nor after it refused *)
RequestsKnown ==
    /\ \A r \in Requests :
          /\ req[r].stage = "read" => req[r].phone \in Phones
          /\ req[r].stage \in {"created", "accepted", "refused"} => req[r].id \in 1 .. created
          /\ req[r].stage \in {"created", "refused"} => prov[req[r].id] = "unreached"
    /\ \A r, q \in Requests :
          (/\ req[r].stage \in {"created", "refused"} /\ req[q].stage \in {"created", "refused"}
           /\ req[r].id = req[q].id) => r = q

PassKnown == pass.stage # "idle" => pass.id \in Ids

(* The provider has not heard of a row that was never created *)
NotYetReached == \A i \in Ids : i > created => prov[i] = "unreached"

(* Only another amount holds a row *)
HeldIsWrong == \A i \in DOMAIN rows : rows[i].held => prov[i] = "wrong"

CheckoutInv ==
    /\ TypeOK /\ RoomForReaders /\ TriesLeft /\ RequestsKnown /\ PassKnown
    /\ NotYetReached /\ HeldIsWrong /\ PendingHasOpenPayment

(* With transactions serialised: one checkout at a time is between its reads
   and its writes, and what it read is still so *)
ReadStillTrue ==
    /\ \A r, q \in Readers : r = q
    /\ \A r \in Readers, i \in DOMAIN rows :
          /\ MayCharge(i) => i \in req[r].olds
          /\ i \in req[r].olds => rows[i].status = "pending" /\ ~rows[i].held

OneMayCharge == \A i, j \in DOMAIN rows : MayCharge(i) /\ MayCharge(j) => i = j

SerialInv == CheckoutInv /\ ReadStillTrue /\ OneMayCharge

(* The types of a request, a notification and the pass *)
RequestType == [stage: {"idle", "read", "created", "accepted", "refused"},
                phone: Phones \cup {NoSub}, id: Ids \cup {NoSub}, olds: SUBSET Ids]

NoticeType == [state: {"new", "unmatched", "abandoned", "done"}, tries: 0 .. MaxTries]

PassType == [stage: {"idle", "answered", "close"}, id: Ids \cup {NoSub},
             answer: {"none", "unknown", "in_progress", "succeeded", "declined"},
             closing: BOOLEAN]

(* What a step may do to the rows, the creation of one apart: it keeps their
   types and their seats, makes none chargeable, holds none but one of another
   amount, and deletes only what is unpaid and not held. *)
RowsLegal ==
    /\ DOMAIN rows' \subseteq DOMAIN rows
    /\ rows' \in [DOMAIN rows' -> Row]
    /\ \A i \in DOMAIN rows' :
          /\ rows'[i].status = "pending" <=> rows'[i].pay = "pending"
          /\ MayCharge(i)' => MayCharge(i)
          /\ rows'[i].held => prov[i] = "wrong"
    /\ \A i \in DOMAIN rows : i \notin DOMAIN rows' => rows[i].status = "pending" /\ ~rows[i].held
    /\ seat' \in [Phones -> DOMAIN rows' \cup {NoSub}]

LEMMA CheckoutInitInv == Init => CheckoutInv /\ ReadStillTrue /\ OneMayCharge
<1> SUFFICES ASSUME Init PROVE CheckoutInv /\ ReadStillTrue /\ OneMayCharge
  OBVIOUS
<1>1. DOMAIN rows = {} /\ rows \in [DOMAIN rows -> Row] /\ Readers = {}
  BY DEF Init, Readers, IdleRequest
<1>2. created \in 0 .. MaxCheckouts /\ RoomForReaders
  BY <1>1, FS_EmptySet, CheckoutAssumption DEF Init, RoomForReaders, CheckoutAssumption
<1>3. notice \in [Ids -> NoticeType] /\ TriesLeft
  BY CheckoutAssumption DEF Init, NoticeType, TriesLeft, CheckoutAssumption
<1>4. TypeOK
  BY <1>1, <1>2, <1>3
  DEF Init, TypeOK, NoticeType, ProviderStates, IdleRequest, IdlePass
<1>5. RequestsKnown /\ PassKnown /\ NotYetReached
  BY DEF Init, RequestsKnown, PassKnown, NotYetReached, IdleRequest, IdlePass
<1>6. HeldIsWrong /\ PendingHasOpenPayment /\ ReadStillTrue /\ OneMayCharge
  BY <1>1 DEF HeldIsWrong, PendingHasOpenPayment, ReadStillTrue, OneMayCharge
<1> QED
  BY <1>2, <1>3, <1>4, <1>5, <1>6 DEF CheckoutInv

-----------------------------------------------------------------------------
(* Checkout: the rows *)

(* A step that leaves the rows and the seats alone. *)
LEMMA RowsLeft ==
  ASSUME CheckoutInv, rows' = rows, seat' = seat
  PROVE  RowsLegal
  BY DEF CheckoutInv, TypeOK, PendingHasOpenPayment, HeldIsWrong, RowsLegal, MayCharge

(* A seat that is given back. *)
LEMMA SeatGivenBack ==
  ASSUME CheckoutInv, rows' = rows, NEW p \in Phones, seat' = [seat EXCEPT ![p] = NoSub]
  PROVE  RowsLegal
<1>1. seat' \in [Phones -> DOMAIN rows' \cup {NoSub}]
  BY DEF CheckoutInv, TypeOK
<1> QED
  BY <1>1 DEF CheckoutInv, TypeOK, PendingHasOpenPayment, HeldIsWrong, RowsLegal, MayCharge

(* Deleting rows that are unpaid and not held. *)
LEMMA RowsDeleted ==
  ASSUME CheckoutInv, NEW gone, rows' = Without(gone), seat' = SeatsWithout(gone),
         \A i \in gone : Pending(i) /\ ~rows[i].held
  PROVE  RowsLegal
<1>1. /\ DOMAIN rows' = DOMAIN rows \ gone
      /\ \A i \in DOMAIN rows' : rows'[i] = rows[i]
      /\ rows' \in [DOMAIN rows' -> Row]
  BY DEF Without, CheckoutInv, TypeOK
<1>2. seat' \in [Phones -> DOMAIN rows' \cup {NoSub}]
  BY <1>1 DEF SeatsWithout, CheckoutInv, TypeOK
<1> QED
  BY <1>1, <1>2
  DEF CheckoutInv, PendingHasOpenPayment, HeldIsWrong, RowsLegal, MayCharge, Pending

(* Changing one row. *)
LEMMA RowUpdated ==
  ASSUME CheckoutInv, NEW i \in DOMAIN rows, NEW row \in Row,
         rows' = [rows EXCEPT ![i] = row], seat' = seat,
         row.status = "pending" <=> row.pay = "pending",
         row.status = "active" \/ (row.status = "pending" /\ ~row.held) => MayCharge(i),
         row.held => prov[i] = "wrong"
  PROVE  RowsLegal
<1>1. /\ DOMAIN rows' = DOMAIN rows /\ rows'[i] = row
      /\ \A j \in DOMAIN rows : j # i => rows'[j] = rows[j]
      /\ rows' \in [DOMAIN rows' -> Row]
  BY DEF CheckoutInv, TypeOK
<1>2. seat' \in [Phones -> DOMAIN rows' \cup {NoSub}]
  BY <1>1 DEF CheckoutInv, TypeOK
<1> QED
  BY <1>1, <1>2
  DEF CheckoutInv, PendingHasOpenPayment, HeldIsWrong, RowsLegal, MayCharge

(* Applying what the provider says of a row: declined, another amount, paid. *)
LEMMA AppliedLegal ==
  ASSUME CheckoutInv, NEW i \in Ids, NEW found \in BOOLEAN, found => i \in DOMAIN rows,
         Applied(i, found, prov[i])
  PROVE  RowsLegal /\ served' \subseteq Ids
<1>1. served' \subseteq Ids
  BY DEF Applied, CheckoutInv, TypeOK
<1>2. CASE ~found
  BY <1>1, <1>2, RowsLeft DEF Applied
<1>3. CASE found /\ prov[i] = "declined"
  <2> DEFINE gone == {j \in {i} : Pending(j)}
  <2>1. rows' = Without(gone)
    BY <1>3 DEF Applied
  <2>2. seat' = SeatsWithout(gone)
    <3>1. CASE Pending(i)
      <4>1. gone = {i}
        BY <3>1
      <4> QED
        BY <1>3, <3>1, <4>1 DEF Applied
    <3>2. CASE ~Pending(i)
      <4>1. gone = {}
        BY <3>2
      <4>2. SeatsWithout({}) = seat
        BY DEF SeatsWithout, CheckoutInv, TypeOK
      <4> QED
        BY <1>3, <3>2, <4>1, <4>2 DEF Applied
    <3> QED
      BY <3>1, <3>2
  <2>3. \A j \in gone : Pending(j) /\ ~rows[j].held
    BY <1>3 DEF CheckoutInv, HeldIsWrong, Pending, TypeOK, Row
  <2> HIDE DEF gone
  <2> QED
    BY <1>1, <2>1, <2>2, <2>3, RowsDeleted
<1>4. CASE found /\ prov[i] = "wrong"
  <2> DEFINE row == [rows[i] EXCEPT !.held = TRUE]
  <2>1. rows' = [rows EXCEPT ![i] = row] /\ seat' = seat /\ i \in DOMAIN rows
    BY <1>4 DEF Applied
  <2>2. /\ row \in Row /\ row.held /\ row.status = rows[i].status /\ row.pay = rows[i].pay
    <3>1. rows[i] \in Row
      BY <2>1 DEF CheckoutInv, TypeOK
    <3> QED
      BY <3>1 DEF Row
  <2> HIDE DEF row
  <2>3. /\ row.status = "pending" <=> row.pay = "pending"
        /\ row.status = "active" => MayCharge(i)
    BY <2>1, <2>2 DEF CheckoutInv, PendingHasOpenPayment, MayCharge
  <2> QED
    BY <1>1, <1>4, <2>1, <2>2, <2>3, RowUpdated
<1>5. CASE found /\ prov[i] \notin {"declined", "wrong"}
  <2> DEFINE row == Activated(rows[i])
  <2>1. rows' = [rows EXCEPT ![i] = row] /\ seat' = seat /\ i \in DOMAIN rows
    BY <1>5 DEF Applied
  <2>2. ~rows[i].held
    BY <1>5, <2>1 DEF CheckoutInv, HeldIsWrong, TypeOK, Row
  <2>3. /\ row \in Row /\ row.held = rows[i].held /\ row.pay = "succeeded"
        /\ row.status # "pending"
        /\ row.status = "active" => rows[i].status \in {"pending", "active"}
    <3>1. rows[i] \in Row
      BY <2>1 DEF CheckoutInv, TypeOK
    <3> QED
      BY <3>1 DEF Row, Activated
  <2> HIDE DEF row
  <2>4. row.status = "active" => MayCharge(i)
    BY <2>2, <2>3 DEF MayCharge
  <2> QED
    BY <1>1, <2>1, <2>2, <2>3, <2>4, RowUpdated
<1> QED
  BY <1>2, <1>3, <1>4, <1>5

-----------------------------------------------------------------------------
(* Checkout: the requests *)

(* The state, part by part. *)
LEMMA CheckoutTypes ==
  ASSUME CheckoutInv
  PROVE  /\ created \in Nat /\ created <= MaxCheckouts /\ MaxCheckouts \in Nat
         /\ DOMAIN rows \subseteq 1 .. created /\ DOMAIN rows \subseteq Ids
         /\ seat \in [Phones -> DOMAIN rows \cup {NoSub}]
         /\ prov \in [Ids -> ProviderStates]
         /\ notice \in [Ids -> NoticeType]
         /\ asked \subseteq Ids /\ served \subseteq Ids
         /\ req \in [Requests -> RequestType]
         /\ pass \in PassType
         /\ now \in Nat
  BY CheckoutAssumption
  DEF CheckoutInv, TypeOK, NoticeType, RequestType, PassType, CheckoutAssumption, Ids

(* Readers are finitely many; fewer of them need less room. *)
LEMMA ReadersCounted ==
  ASSUME CheckoutInv
  PROVE  IsFiniteSet(Readers) /\ Cardinality(Readers) \in Nat
<1>1. Readers \in SUBSET Requests
  BY DEF Readers
<1>2. IsFiniteSet(Readers)
  BY <1>1, FS_Subset, CheckoutAssumption DEF CheckoutAssumption
<1> QED
  BY <1>2, FS_CardinalityType

LEMMA FewerReaders ==
  ASSUME CheckoutInv, created' = created, Readers' \subseteq Readers
  PROVE  RoomForReaders'
<1>1. Readers' \in SUBSET Readers
  OBVIOUS
<1>2. IsFiniteSet(Readers') /\ Cardinality(Readers') <= Cardinality(Readers)
  BY <1>1, ReadersCounted, FS_Subset
<1>3. Cardinality(Readers') \in Nat
  BY <1>2, FS_CardinalityType
<1> QED
  BY <1>2, <1>3, ReadersCounted, CheckoutTypes DEF CheckoutInv, RoomForReaders

(* A step that creates no row: its parts. *)
LEMMA StepTogether ==
  ASSUME CheckoutInv, RowsLegal, created' = created,
         prov' \in [Ids -> ProviderStates], NotYetReached',
         \A i \in Ids : prov[i] = "wrong" => prov'[i] = "wrong",
         notice' \in [Ids -> NoticeType], TriesLeft',
         asked' \subseteq Ids, served' \subseteq Ids,
         req' \in [Requests -> RequestType], RequestsKnown', RoomForReaders',
         pass' \in PassType, PassKnown', now' \in Nat
  PROVE  CheckoutInv'
<1>1. /\ DOMAIN rows' \subseteq 1 .. created'
      /\ DOMAIN rows' \subseteq Ids
      /\ created' \in 0 .. MaxCheckouts
  BY CheckoutTypes DEF RowsLegal
<1>2. TypeOK'
  BY <1>1 DEF TypeOK, RowsLegal, NoticeType, RequestType, PassType
<1>3. HeldIsWrong' /\ PendingHasOpenPayment'
  BY <1>1 DEF RowsLegal, HeldIsWrong, PendingHasOpenPayment
<1> QED
  BY <1>2, <1>3 DEF CheckoutInv

(* Requests that only leave. *)
LEMMA RequestsLeave ==
  ASSUME CheckoutInv, created' = created,
         req' \in [Requests -> RequestType],
         \A r \in Requests : req'[r] = req[r] \/ req'[r] = IdleRequest,
         \A i \in Ids : prov[i] = "unreached" => prov'[i] = "unreached"
  PROVE  RequestsKnown' /\ RoomForReaders' /\ NotYetReached'
<1>1. Readers' \subseteq Readers
  BY DEF Readers, IdleRequest
<1>2. NotYetReached'
  BY DEF CheckoutInv, NotYetReached
<1>3. \A r \in Requests : req'[r].stage # "idle" => req'[r] = req[r]
  BY DEF IdleRequest
<1>4. 1 .. created \subseteq Ids
  BY CheckoutTypes DEF Ids
<1>5. RequestsKnown'
  BY <1>3, <1>4 DEF CheckoutInv, RequestsKnown
<1> QED
  BY <1>1, <1>2, <1>5, FewerReaders

(* A request that becomes idle. *)
LEMMA RequestLeaves ==
  ASSUME CheckoutInv, NEW r \in Requests, req' = [req EXCEPT ![r] = IdleRequest]
  PROVE  /\ req' \in [Requests -> RequestType]
         /\ \A q \in Requests : req'[q] = req[q] \/ req'[q] = IdleRequest
<1>1. IdleRequest \in RequestType
  BY DEF IdleRequest, RequestType
<1> QED
  BY <1>1, CheckoutTypes

(* A step of the rows, the notifications and the pass, and requests that leave. *)
LEMMA RowStep ==
  ASSUME CheckoutInv, RowsLegal, UNCHANGED <<created, prov>>,
         req' \in [Requests -> RequestType],
         \A r \in Requests : req'[r] = req[r] \/ req'[r] = IdleRequest,
         notice' \in [Ids -> NoticeType], TriesLeft',
         asked' \subseteq Ids, served' \subseteq Ids,
         pass' \in PassType, PassKnown', now' \in Nat
  PROVE  CheckoutInv'
<1>1. \A i \in Ids : prov'[i] = prov[i]
  OBVIOUS
<1>2. RequestsKnown' /\ RoomForReaders' /\ NotYetReached'
  BY <1>1, RequestsLeave
<1>3. prov' \in [Ids -> ProviderStates]
  BY CheckoutTypes
<1> QED
  BY <1>1, <1>2, <1>3, StepTogether

(* What a step of the requests alone leaves as it was. *)
LEMMA Others ==
  ASSUME CheckoutInv, UNCHANGED <<notice, asked, served, pass, now>>
  PROVE  /\ notice' \in [Ids -> NoticeType] /\ TriesLeft'
         /\ asked' \subseteq Ids /\ served' \subseteq Ids
         /\ pass' \in PassType /\ PassKnown' /\ now' \in Nat
<1>1. TriesLeft' /\ PassKnown'
  BY DEF CheckoutInv, TriesLeft, PassKnown
<1> QED
  BY <1>1, CheckoutTypes

LEMMA BeginCheckoutInv ==
  ASSUME CheckoutInv, NEW r \in Requests, NEW p \in Phones, BeginCheckout(r, p)
  PROVE  CheckoutInv'
<1> DEFINE new == [req[r] EXCEPT !.stage = "read", !.phone = p, !.olds = restarted(p)]
<1>1. /\ req[r].stage = "idle" /\ req' = [req EXCEPT ![r] = new]
      /\ created + Cardinality(Readers) < MaxCheckouts
      /\ UNCHANGED <<rows, created, seat, prov, notice, asked, served, pass, now>>
  BY DEF BeginCheckout, Readers
<1>2. restarted(p) \in SUBSET Ids
  BY CheckoutTypes DEF restarted
<1>3. new \in RequestType /\ new.stage = "read" /\ new.phone = p
  <2>1. req[r] \in RequestType
    BY CheckoutTypes
  <2> QED
    BY <1>2, <2>1 DEF RequestType
<1> HIDE DEF new
<1>4. /\ req' \in [Requests -> RequestType] /\ req'[r] = new
      /\ \A q \in Requests : q # r => req'[q] = req[q]
  BY <1>1, <1>3, CheckoutTypes
<1>5. RoomForReaders'
  <2>1. Readers' = Readers \cup {r} /\ r \notin Readers
    BY <1>1, <1>3, <1>4 DEF Readers
  <2>2. Cardinality(Readers') = Cardinality(Readers) + 1
    BY <2>1, ReadersCounted, FS_AddElement
  <2> QED
    BY <1>1, <2>2, ReadersCounted, CheckoutTypes DEF RoomForReaders
<1>6. RequestsKnown'
  BY <1>1, <1>3, <1>4 DEF CheckoutInv, RequestsKnown
<1>7. prov' \in [Ids -> ProviderStates] /\ NotYetReached'
  BY <1>1, CheckoutTypes DEF CheckoutInv, NotYetReached
<1> QED
  BY <1>1, <1>4, <1>5, <1>6, <1>7, RowsLeft, Others, StepTogether

LEMMA CallProviderInv ==
  ASSUME CheckoutInv, NEW r \in Requests, CallProvider(r)
  PROVE  CheckoutInv'
<1> DEFINE i == req[r].id
<1>1. /\ req[r].stage = "created"
      /\ UNCHANGED <<rows, created, seat, notice, asked, served, pass, now>>
  BY DEF CallProvider
<1>2. /\ i \in 1 .. created /\ i \in Ids /\ prov[i] = "unreached"
      /\ \A q \in Requests : (q # r /\ req[q].stage \in {"created", "refused"}) => req[q].id # i
  BY <1>1, CheckoutTypes DEF CheckoutInv, RequestsKnown, Ids
<1>3. PICK new \in RequestType :
         /\ req' = [req EXCEPT ![r] = new]
         /\ \/ new.stage = "idle"
            \/ new.stage = "accepted" /\ new.id = i
            \/ new.stage = "refused" /\ new.id = i /\ prov' = prov
  <2>1. req[r] \in RequestType
    BY CheckoutTypes
  <2>2. \A st \in {"accepted", "refused"} :
           LET y == [req[r] EXCEPT !.stage = st]
           IN  y \in RequestType /\ y.stage = st /\ y.id = i
    BY <2>1 DEF RequestType
  <2>3. IdleRequest \in RequestType /\ IdleRequest.stage = "idle"
    BY DEF IdleRequest, RequestType
  <2>4. \/ req' = [req EXCEPT ![r] = IdleRequest]
        \/ req' = [req EXCEPT ![r] = [req[r] EXCEPT !.stage = "accepted"]]
        \/ req' = [req EXCEPT ![r] = [req[r] EXCEPT !.stage = "refused"]] /\ prov' = prov
    BY DEF CallProvider
  <2> QED
    BY <2>2, <2>3, <2>4
<1>4. \/ prov' = prov
      \/ prov' = [prov EXCEPT ![i] = "processing"]
  BY DEF CallProvider
<1> HIDE DEF i
<1>5. /\ prov' \in [Ids -> ProviderStates]
      /\ \A j \in Ids : j # i => prov'[j] = prov[j]
      /\ \A j \in Ids : prov[j] = "wrong" => prov'[j] = "wrong"
  BY <1>2, <1>4, CheckoutTypes DEF ProviderStates
<1>6. /\ req' \in [Requests -> RequestType] /\ req'[r] = new
      /\ \A q \in Requests : q # r => req'[q] = req[q]
  BY <1>3, CheckoutTypes
<1>7. RoomForReaders'
  <2>1. Readers' \subseteq Readers
    BY <1>3, <1>6 DEF Readers
  <2> QED
    BY <1>1, <2>1, FewerReaders
<1>8. NotYetReached'
  BY <1>1, <1>2, <1>5, CheckoutTypes DEF CheckoutInv, NotYetReached
<1>9. RequestsKnown'
  <2>1. \A q \in Requests : q # r =>
           /\ req[q].stage = "read" => req[q].phone \in Phones
           /\ req[q].stage \in {"created", "accepted", "refused"} => req[q].id \in 1 .. created
           /\ req[q].stage \in {"created", "refused"} =>
                 /\ prov'[req[q].id] = "unreached" /\ req[q].id # i
    BY <1>2, <1>5, CheckoutTypes DEF CheckoutInv, RequestsKnown, Ids
  <2>2. /\ new.stage # "read" /\ new.stage # "created"
        /\ new.stage \in {"accepted", "refused"} => new.id = i
        /\ new.stage = "refused" => prov'[i] = "unreached"
    BY <1>2, <1>3
  <2>3. \A q, t \in Requests :
           (/\ q # r /\ t # r
            /\ req[q].stage \in {"created", "refused"} /\ req[t].stage \in {"created", "refused"}
            /\ req[q].id = req[t].id) => q = t
    BY DEF CheckoutInv, RequestsKnown
  <2> QED
    BY <1>1, <1>2, <1>6, <2>1, <2>2, <2>3 DEF RequestsKnown
<1> QED
  BY <1>1, <1>5, <1>6, <1>7, <1>8, <1>9, RowsLeft, Others, StepTogether

(* Creating a row, with the next id, in place of those it replaces. *)
LEMMA Created ==
  ASSUME CheckoutInv, NEW r \in Requests, CreateCheckout(r), created' # created
  PROVE  /\ CheckoutInv'
         /\ Readers' \subseteq Readers \ {r} /\ r \in Readers
         /\ created + 1 \in DOMAIN rows' /\ created + 1 \notin DOMAIN rows
         /\ \A i \in DOMAIN rows' : i # created + 1 =>
               i \in DOMAIN rows \ req[r].olds /\ rows'[i] = rows[i]
         /\ \A i \in DOMAIN rows : i \notin req[r].olds => i \in DOMAIN rows'
<1> DEFINE p == req[r].phone
           id == created + 1
           olds == req[r].olds
           row == [status |-> "pending", phone |-> p, since |-> now,
                   pay |-> "pending", ref |-> FALSE, held |-> FALSE]
           new == [req[r] EXCEPT !.stage = "created", !.id = id, !.olds = {}]
<1>1. /\ req[r].stage = "read"
      /\ rows' = Inserted(Without(olds), id, row)
      /\ created' = id
      /\ seat' = [SeatsWithout(olds) EXCEPT ![p] = id]
      /\ req' = [req EXCEPT ![r] = new]
      /\ UNCHANGED <<prov, notice, asked, served, pass, now>>
  BY DEF CreateCheckout
<1>2. r \in Readers /\ p \in Phones
  BY <1>1 DEF Readers, CheckoutInv, RequestsKnown
<1>3. Readers' = Readers \ {r}
  BY <1>1, CheckoutTypes DEF Readers, RequestType
<1>4. Cardinality(Readers') = Cardinality(Readers) - 1
  BY <1>2, <1>3, ReadersCounted, FS_RemoveElement
<1>5. id <= MaxCheckouts /\ RoomForReaders'
  <2>1. Cardinality(Readers') \in Nat
    <3>1. IsFiniteSet(Readers')
      BY <1>3, ReadersCounted, FS_RemoveElement
    <3> QED
      BY <3>1, FS_CardinalityType
  <2> QED
    BY <1>1, <1>4, <2>1, ReadersCounted, CheckoutTypes DEF CheckoutInv, RoomForReaders
<1>6. id \in Nat /\ id \in Ids /\ id \in 1 .. id /\ created < id /\ 1 .. created \subseteq 1 .. id
  BY <1>5, CheckoutTypes DEF Ids
<1>7. row \in Row
  BY <1>2, CheckoutTypes DEF Row
<1>8. /\ new \in RequestType /\ new.stage = "created" /\ new.id = id
  <2>1. req[r] \in RequestType
    BY CheckoutTypes
  <2> QED
    BY <1>6, <2>1 DEF RequestType
<1>9. prov[id] = "unreached"
  BY <1>6 DEF CheckoutInv, NotYetReached
<1>10. id \notin DOMAIN rows
  BY <1>6, CheckoutTypes
<1> HIDE DEF row, new, id
<1>11. /\ DOMAIN rows' = (DOMAIN rows \ olds) \cup {id}
       /\ rows'[id] = row
       /\ \A i \in DOMAIN rows' : i # id => i \in DOMAIN rows \ olds /\ rows'[i] = rows[i]
  BY <1>1, <1>10 DEF Inserted, Without
<1>12. rows' \in [DOMAIN rows' -> Row]
  <2>1. \A i \in DOMAIN rows' : rows'[i] \in Row
    BY <1>7, <1>11 DEF CheckoutInv, TypeOK
  <2>2. rows' = [i \in DOMAIN rows' |-> rows'[i]]
    BY <1>1 DEF Inserted
  <2> QED
    BY <2>1, <2>2
<1>13. seat' \in [Phones -> DOMAIN rows' \cup {NoSub}]
  BY <1>1, <1>11, CheckoutTypes DEF SeatsWithout
<1>14. /\ req' \in [Requests -> RequestType] /\ req'[r] = new
       /\ \A q \in Requests : q # r => req'[q] = req[q]
  BY <1>1, <1>8, CheckoutTypes
<1>15. DOMAIN rows' \subseteq 1 .. created'
  BY <1>1, <1>6, <1>11, CheckoutTypes
<1>16. created' \in 0 .. MaxCheckouts
  BY <1>1, <1>5, <1>6, CheckoutTypes
<1>17. TypeOK'
  <2>1. /\ prov' \in [Ids -> ProviderStates] /\ notice' \in [Ids -> NoticeType]
        /\ asked' \subseteq Ids /\ served' \subseteq Ids /\ pass' \in PassType /\ now' \in Nat
    BY <1>1, CheckoutTypes
  <2> QED
    BY <1>12, <1>13, <1>14, <1>15, <1>16, <2>1 DEF TypeOK, NoticeType, RequestType, PassType
<1>18. RequestsKnown'
  <2>1. \A q \in Requests :
           (q # r /\ req[q].stage \in {"created", "accepted", "refused"}) =>
               req[q].id \in 1 .. id /\ req[q].id # id
    BY <1>6, CheckoutTypes DEF CheckoutInv, RequestsKnown
  <2> QED
    BY <1>1, <1>6, <1>8, <1>9, <1>14, <2>1 DEF CheckoutInv, RequestsKnown
<1>19. NotYetReached'
  BY <1>1, <1>6, CheckoutTypes DEF CheckoutInv, NotYetReached, Ids
<1>20. TriesLeft' /\ PassKnown'
  BY <1>1, Others
<1>21. HeldIsWrong' /\ PendingHasOpenPayment'
  <2>1. row.held = FALSE /\ row.status = "pending" /\ row.pay = "pending"
    BY DEF row
  <2> QED
    BY <1>1, <1>11, <2>1 DEF CheckoutInv, HeldIsWrong, PendingHasOpenPayment
<1> QED
  BY <1>2, <1>3, <1>5, <1>10, <1>11, <1>17, <1>18, <1>19, <1>20, <1>21 DEF CheckoutInv, id

(* The insert failed: nothing is created. *)
LEMMA NotCreated ==
  ASSUME CheckoutInv, NEW r \in Requests, CreateCheckout(r), created' = created
  PROVE  CheckoutInv' /\ RowsLegal /\ rows' = rows /\ req' = [req EXCEPT ![r] = IdleRequest]
<1>1. /\ req' = [req EXCEPT ![r] = IdleRequest] /\ UNCHANGED <<rows, created, seat>>
      /\ UNCHANGED <<prov, notice, asked, served, pass, now>>
  BY CheckoutTypes DEF CreateCheckout
<1> QED
  BY <1>1, RowsLeft, RequestLeaves, Others, RowStep

-----------------------------------------------------------------------------
(* Checkout: the requests and the events that change rows *)

(* The transactions after the provider's answer, and a death. *)
LEMMA RequestEndsInv ==
  ASSUME CheckoutInv, NEW r \in Requests,
         RecordReference(r) \/ CloseRefused(r) \/ RequestDies(r)
  PROVE  CheckoutInv' /\ RowsLegal /\ req' = [req EXCEPT ![r] = IdleRequest]
<1>1. /\ req' = [req EXCEPT ![r] = IdleRequest]
      /\ UNCHANGED <<created, prov, notice, asked, served, pass, now>>
  BY DEF RecordReference, CloseRefused, RequestDies
<1>2. RowsLegal
  <2>1. CASE RequestDies(r)
    BY <2>1, RowsLeft DEF RequestDies
  <2>2. CASE RecordReference(r)
    <3> DEFINE i == req[r].id
               row == [rows[i] EXCEPT !.ref = TRUE]
    <3>1. CASE i \notin DOMAIN rows
      BY <2>2, <3>1, RowsLeft DEF RecordReference
    <3>2. CASE i \in DOMAIN rows
      <4>1. rows' = [rows EXCEPT ![i] = row] /\ seat' = seat
        BY <2>2, <3>2 DEF RecordReference
      <4>2. /\ row \in Row /\ row.status = rows[i].status /\ row.pay = rows[i].pay
            /\ row.held = rows[i].held
        <5>1. rows[i] \in Row
          BY <3>2 DEF CheckoutInv, TypeOK
        <5> QED
          BY <5>1 DEF Row
      <4> HIDE DEF row
      <4>3. /\ row.status = "pending" <=> row.pay = "pending"
            /\ row.status = "active" \/ (row.status = "pending" /\ ~row.held) => MayCharge(i)
            /\ row.held => prov[i] = "wrong"
        BY <3>2, <4>2 DEF CheckoutInv, PendingHasOpenPayment, HeldIsWrong, MayCharge
      <4> QED
        BY <3>2, <4>1, <4>2, <4>3, RowUpdated
    <3> QED
      BY <3>1, <3>2
  <2>3. CASE CloseRefused(r)
    <3> DEFINE gone == {i \in {req[r].id} : Pending(i)}
    <3>1. rows' = Without(gone) /\ seat' = SeatsWithout(gone)
      BY <2>3 DEF CloseRefused
    <3>2. \A i \in gone : Pending(i) /\ ~rows[i].held
      BY <2>3 DEF CloseRefused, CheckoutInv, RequestsKnown, HeldIsWrong, Pending, TypeOK, Row
    <3> HIDE DEF gone
    <3> QED
      BY <3>1, <3>2, RowsDeleted
  <2> QED
    BY <2>1, <2>2, <2>3
<1> QED
  BY <1>1, <1>2, RequestLeaves, Others, RowStep

(* A notification, the first time and again. *)
LEMMA NoticeInv ==
  ASSUME CheckoutInv, NEW i \in Ids, Notify(i) \/ RetryUnmatched(i)
  PROVE  CheckoutInv' /\ RowsLegal
<1>1. /\ Applied(i, Matches(i), prov[i])
      /\ UNCHANGED <<created, prov, asked, req, pass, now>>
  BY DEF Notify, RetryUnmatched
<1>2. Matches(i) \in BOOLEAN /\ (Matches(i) => i \in DOMAIN rows)
  BY DEF Matches
<1>3. RowsLegal /\ served' \subseteq Ids
  BY <1>1, <1>2, AppliedLegal
<1>4. notice[i] \in NoticeType /\ notice[i].tries \in Nat /\ MaxTries \in Nat \ {0}
  BY CheckoutTypes, CheckoutAssumption DEF NoticeType, CheckoutAssumption
<1>5. PICK new \in NoticeType :
         /\ notice' = [notice EXCEPT ![i] = new]
         /\ new.state # "new"
         /\ new.state = "unmatched" => new.tries < MaxTries
  <2>1. CASE Notify(i)
    <3> DEFINE st == IF Matches(i) THEN "done" ELSE "unmatched"
               new == [notice[i] EXCEPT !.state = st]
    <3>1. notice' = [notice EXCEPT ![i] = new]
      BY <2>1 DEF Notify
    <3>2. st \in {"done", "unmatched"} /\ notice[i].tries = 0
      BY <2>1 DEF Notify, CheckoutInv, TriesLeft
    <3> HIDE DEF st
    <3>3. new \in NoticeType /\ new.state = st /\ new.tries = 0
      BY <1>4, <3>2 DEF NoticeType
    <3>4. new.state # "new" /\ new.tries < MaxTries
      BY <1>4, <3>2, <3>3
    <3> HIDE DEF new
    <3> QED
      BY <3>1, <3>3, <3>4
  <2>2. CASE RetryUnmatched(i)
    <3> DEFINE tries == notice[i].tries + 1
               st == CASE Matches(i) -> "done"
                       [] ~Matches(i) /\ tries >= MaxTries -> "abandoned"
                       [] OTHER -> "unmatched"
               new == [state |-> st, tries |-> tries]
    <3>1. notice' = [notice EXCEPT ![i] = new]
      BY <2>2 DEF RetryUnmatched
    <3>2. notice[i].tries < MaxTries
      BY <2>2 DEF RetryUnmatched, CheckoutInv, TriesLeft
    <3>3. tries \in 0 .. MaxTries
      BY <1>4, <3>2
    <3>4. st \in {"done", "abandoned", "unmatched"} /\ (st = "unmatched" => tries < MaxTries)
      BY <1>4, <3>3
    <3> HIDE DEF st, tries
    <3>5. new \in NoticeType /\ new.state = st /\ new.tries = tries
      BY <3>3, <3>4 DEF NoticeType
    <3> HIDE DEF new
    <3> QED
      BY <3>1, <3>4, <3>5
  <2> QED
    BY <2>1, <2>2
<1>6. notice' \in [Ids -> NoticeType] /\ TriesLeft'
  BY <1>5, CheckoutTypes DEF CheckoutInv, TriesLeft
<1>7. PassKnown'
  BY <1>1 DEF CheckoutInv, PassKnown
<1> QED
  BY <1>1, <1>3, <1>6, <1>7, CheckoutTypes, RowStep

(* The pass: asking, the answer, the close, its death. *)
LEMMA PassInv ==
  ASSUME CheckoutInv,
         \/ \E i \in Ids, closing \in BOOLEAN : AskProvider(i, closing)
         \/ ApplyAnswer \/ CloseTimedOut \/ PassDies
  PROVE  CheckoutInv' /\ RowsLegal /\ req' = req
<1>0. IdlePass \in PassType /\ IdlePass.stage = "idle"
  BY DEF IdlePass, PassType
<1>1. UNCHANGED <<created, prov, notice, req, now>>
  BY DEF AskProvider, ApplyAnswer, CloseTimedOut, PassDies
<1>2. RowsLegal /\ served' \subseteq Ids /\ asked' \subseteq Ids /\ pass' \in PassType /\ PassKnown'
  <2>1. CASE \E i \in Ids, closing \in BOOLEAN : AskProvider(i, closing)
    <3>1. PICK i \in Ids, closing \in BOOLEAN : AskProvider(i, closing)
      BY <2>1
    <3>2. PICK answer \in {StatusAnswer(i), "unknown"} :
             pass' = [stage |-> "answered", id |-> i, answer |-> answer, closing |-> closing]
      BY <3>1 DEF AskProvider
    <3>3. answer \in {"none", "unknown", "in_progress", "succeeded", "declined"}
      BY <3>2 DEF StatusAnswer
    <3>4. pass' \in PassType /\ PassKnown'
      BY <3>2, <3>3 DEF PassType, PassKnown
    <3> QED
      BY <3>1, <3>4, RowsLeft, CheckoutTypes DEF AskProvider
  <2>2. CASE ApplyAnswer
    <3> DEFINE i == pass.id
    <3>1. i \in Ids /\ pass.stage = "answered"
      BY <2>2 DEF ApplyAnswer, CheckoutInv, PassKnown
    <3>2. asked' \subseteq Ids
      BY <2>2, <3>1, CheckoutTypes DEF ApplyAnswer
    <3>3. pass' = IdlePass \/ pass' = [pass EXCEPT !.stage = "close"]
      BY <2>2 DEF ApplyAnswer
    <3>4. /\ [pass EXCEPT !.stage = "close"] \in PassType
          /\ [pass EXCEPT !.stage = "close"].id = i
      BY CheckoutTypes DEF PassType
    <3>5. pass' \in PassType /\ PassKnown'
      BY <1>0, <3>1, <3>3, <3>4 DEF PassKnown
    <3>6. \/ Applied(i, i \in DOMAIN rows, prov[i])
          \/ UNCHANGED <<rows, seat, served>>
      BY <2>2 DEF ApplyAnswer
    <3>7. RowsLegal /\ served' \subseteq Ids
      <4>1. CASE UNCHANGED <<rows, seat, served>>
        BY <4>1, RowsLeft, CheckoutTypes
      <4>2. CASE Applied(i, i \in DOMAIN rows, prov[i])
        <5>1. (i \in DOMAIN rows) \in BOOLEAN /\ ((i \in DOMAIN rows) => i \in DOMAIN rows)
          OBVIOUS
        <5> QED
          BY <3>1, <4>2, <5>1, AppliedLegal
      <4> QED
        BY <3>6, <4>1, <4>2
    <3> QED
      BY <3>2, <3>5, <3>7
  <2>3. CASE CloseTimedOut
    <3> DEFINE gone == {i \in {pass.id} : Pending(i) /\ ~rows[i].held}
    <3>1. rows' = Without(gone) /\ seat' = SeatsWithout(gone)
      BY <2>3 DEF CloseTimedOut
    <3>2. \A i \in gone : Pending(i) /\ ~rows[i].held
      OBVIOUS
    <3> HIDE DEF gone
    <3>3. RowsLegal
      BY <3>1, <3>2, RowsDeleted
    <3> QED
      BY <1>0, <2>3, <3>3, CheckoutTypes DEF CloseTimedOut, PassKnown
  <2>4. CASE PassDies
    BY <1>0, <2>4, RowsLeft, CheckoutTypes DEF PassDies, PassKnown
  <2> QED
    BY <2>1, <2>2, <2>3, <2>4
<1>3. notice' \in [Ids -> NoticeType] /\ TriesLeft' /\ now' \in Nat /\ req' \in [Requests -> RequestType]
  BY <1>1, CheckoutTypes DEF CheckoutInv, TriesLeft
<1> QED
  BY <1>1, <1>2, <1>3, RowStep

(* The subscriber, the provider and the clock. *)
LEMMA OutsideInv ==
  ASSUME CheckoutInv,
         \/ \E i \in Ids : ProviderDecides(i) \/ Cancel(i) \/ Expire(i)
         \/ \E p \in Phones : RemoveOwnSeat(p)
         \/ Tick
  PROVE  CheckoutInv' /\ RowsLegal /\ req' = req
<1>1. CASE \E i \in Ids : Cancel(i) \/ Expire(i)
  <2>1. PICK i \in Ids, st \in {"cancel_at_period_end", "lapsed"} :
           /\ i \in DOMAIN rows /\ IsLive(i)
           /\ rows' = [rows EXCEPT ![i].status = st]
           /\ UNCHANGED <<created, seat, prov, notice, asked, served, req, pass, now>>
    BY <1>1 DEF Cancel, Expire, IsLive
  <2> DEFINE row == [rows[i] EXCEPT !.status = st]
  <2>2. /\ row \in Row /\ row.status = st /\ row.pay = rows[i].pay /\ row.held = rows[i].held
    <3>1. rows[i] \in Row
      BY <2>1 DEF CheckoutInv, TypeOK
    <3> QED
      BY <3>1 DEF Row
  <2>3. rows' = [rows EXCEPT ![i] = row]
    BY <2>1
  <2> HIDE DEF row
  <2>4. /\ row.status = "pending" <=> row.pay = "pending"
        /\ row.held => prov[i] = "wrong"
    BY <2>1, <2>2 DEF CheckoutInv, PendingHasOpenPayment, HeldIsWrong, IsLive
  <2>5. RowsLegal
    BY <2>1, <2>2, <2>3, <2>4, RowUpdated
  <2> QED
    BY <2>1, <2>5, Others, CheckoutTypes, RowStep
<1>2. CASE \E p \in Phones : RemoveOwnSeat(p)
  <2>1. RowsLegal
    BY <1>2, SeatGivenBack DEF RemoveOwnSeat
  <2>2. UNCHANGED <<created, prov, notice, asked, served, req, pass, now>>
    BY <1>2 DEF RemoveOwnSeat
  <2> QED
    BY <2>1, <2>2, Others, CheckoutTypes, RowStep
<1>3. CASE \E i \in Ids : ProviderDecides(i)
  <2>1. PICK i \in Ids, outcome \in {"paid", "wrong", "declined"} :
           /\ prov[i] = "processing" /\ prov' = [prov EXCEPT ![i] = outcome]
           /\ UNCHANGED <<rows, created, seat, notice, asked, served, req, pass, now>>
    BY <1>3 DEF ProviderDecides
  <2>2. /\ prov' \in [Ids -> ProviderStates]
        /\ \A j \in Ids : /\ prov[j] = "wrong" => prov'[j] = "wrong"
                          /\ prov[j] = "unreached" => prov'[j] = "unreached"
    BY <2>1, CheckoutTypes DEF ProviderStates
  <2>3. RequestsKnown' /\ RoomForReaders' /\ NotYetReached'
    BY <2>1, <2>2, CheckoutTypes, RequestsLeave
  <2> QED
    BY <2>1, <2>2, <2>3, RowsLeft, Others, CheckoutTypes, StepTogether
<1>4. CASE Tick
  <2>1. UNCHANGED <<rows, created, seat, prov, notice, asked, served, req, pass>> /\ now' \in Nat
    BY <1>4, CheckoutTypes DEF Tick
  <2>2. TriesLeft' /\ PassKnown'
    BY <2>1 DEF CheckoutInv, TriesLeft, PassKnown
  <2> QED
    BY <2>1, <2>2, RowsLeft, CheckoutTypes, RowStep
<1> QED
  BY <1>1, <1>2, <1>3, <1>4

-----------------------------------------------------------------------------
(* Checkout: every step *)

(* With transactions serialised a step that changes rows finds no reader. *)
RowsWait == Store = "memory" /\ Readers # {} => rows' = rows

(* A step that neither begins nor creates a checkout. *)
OtherStep ==
    /\ CheckoutInv' /\ RowsLegal /\ RowsWait
    /\ \A r \in Requests : req'[r] = req[r] \/ req'[r].stage # "read"

LEMMA NextCases ==
  ASSUME CheckoutInv, [Next]_vars
  PROVE  \/ OtherStep
         \/ \E r \in Requests, p \in Phones : BeginCheckout(r, p)
         \/ \E r \in Requests : CreateCheckout(r) /\ created' # created
<1>0. (Store = "memory" /\ CanBegin) => Readers = {}
  BY DEF CanBegin, Readers
<1>1. CASE UNCHANGED vars
  BY <1>1, RowsLeft, Others, CheckoutTypes, RowStep DEF vars, OtherStep, RowsWait
<1>2. ASSUME NEW r \in Requests, CreateCheckout(r), created' = created PROVE OtherStep
  <2>1. CheckoutInv' /\ RowsLegal /\ rows' = rows /\ req' = [req EXCEPT ![r] = IdleRequest]
    BY <1>2, NotCreated
  <2> QED
    BY <2>1, CheckoutTypes DEF OtherStep, RowsWait, IdleRequest
<1>3. ASSUME NEW r \in Requests, CallProvider(r) PROVE OtherStep
  <2>1. CheckoutInv' /\ RowsLegal /\ rows' = rows
    BY <1>3, CallProviderInv, RowsLeft DEF CallProvider
  <2>2. PICK st \in {"accepted", "refused", "idle"} :
           req' = [req EXCEPT ![r] = IF st = "idle" THEN IdleRequest ELSE [@ EXCEPT !.stage = st]]
    BY <1>3 DEF CallProvider
  <2>3. req'[r].stage # "read" /\ \A q \in Requests : q # r => req'[q] = req[q]
    BY <2>2, CheckoutTypes DEF IdleRequest, RequestType
  <2> QED
    BY <2>1, <2>3 DEF OtherStep, RowsWait
<1>4. ASSUME NEW r \in Requests, RecordReference(r) \/ CloseRefused(r) \/ RequestDies(r)
      PROVE  OtherStep
  <2>1. CheckoutInv' /\ RowsLegal /\ req' = [req EXCEPT ![r] = IdleRequest]
    BY <1>4, RequestEndsInv
  <2>2. rows' = rows \/ CanBegin
    BY <1>4 DEF RecordReference, CloseRefused, RequestDies
  <2> QED
    BY <1>0, <2>1, <2>2, CheckoutTypes DEF OtherStep, RowsWait, IdleRequest
<1>5. ASSUME NEW i \in Ids, Notify(i) \/ RetryUnmatched(i) PROVE OtherStep
  BY <1>0, <1>5, NoticeInv DEF OtherStep, RowsWait, Notify, RetryUnmatched
<1>6. ASSUME \/ \E i \in Ids, closing \in BOOLEAN : AskProvider(i, closing)
             \/ ApplyAnswer \/ CloseTimedOut \/ PassDies
      PROVE  OtherStep
  <2>1. rows' = rows \/ CanBegin
    BY <1>6 DEF AskProvider, ApplyAnswer, CloseTimedOut, PassDies
  <2> QED
    BY <1>0, <1>6, <2>1, PassInv DEF OtherStep, RowsWait
<1>7. ASSUME \/ \E i \in Ids : ProviderDecides(i) \/ Cancel(i) \/ Expire(i)
             \/ \E p \in Phones : RemoveOwnSeat(p)
             \/ Tick
      PROVE  OtherStep
  <2>1. rows' = rows \/ CanBegin
    BY <1>7 DEF ProviderDecides, Cancel, Expire, RemoveOwnSeat, Tick
  <2> QED
    BY <1>0, <1>7, <2>1, OutsideInv DEF OtherStep, RowsWait
<1> QED
  BY <1>1, <1>2, <1>3, <1>4, <1>5, <1>6, <1>7 DEF Next, RequestStep

LEMMA CheckoutStep == ASSUME CheckoutInv, [Next]_vars PROVE CheckoutInv'
  BY NextCases, BeginCheckoutInv, Created DEF OtherStep

(* With transactions serialised, what a reader read stays true and at most one
   row may charge. *)
LEMMA SerialStep ==
  ASSUME Store = "memory", SerialInv, [Next]_vars
  PROVE  SerialInv'
<1>0. CheckoutInv /\ CheckoutInv'
  BY CheckoutStep DEF SerialInv
<1>1. CASE OtherStep
  <2>1. \A r \in Readers' : r \in Readers /\ req'[r] = req[r]
    BY <1>1 DEF OtherStep, Readers
  <2>2. \A i \in DOMAIN rows' : i \in DOMAIN rows /\ (MayCharge(i)' => MayCharge(i))
    BY <1>1 DEF OtherStep, RowsLegal
  <2>3. OneMayCharge'
    BY <2>2 DEF SerialInv, OneMayCharge
  <2>4. ReadStillTrue'
    <3>1. CASE Readers = {}
      BY <2>1, <3>1 DEF ReadStillTrue
    <3>2. CASE rows' = rows
      BY <2>1, <3>2 DEF SerialInv, ReadStillTrue, MayCharge
    <3> QED
      BY <1>1, <3>1, <3>2 DEF OtherStep, RowsWait
  <2> QED
    BY <1>0, <2>3, <2>4 DEF SerialInv
<1>2. CASE \E r \in Requests, p \in Phones : BeginCheckout(r, p)
  <2>1. PICK r \in Requests, p \in Phones : BeginCheckout(r, p)
    BY <1>2
  <2>2. /\ rows' = rows /\ req' = [req EXCEPT ![r] =
              [req[r] EXCEPT !.stage = "read", !.phone = p, !.olds = restarted(p)]]
        /\ ~refuse_number_in_use(p) /\ Readers = {}
    BY <2>1 DEF BeginCheckout, CanBegin, Readers
  <2>3. /\ req'[r].olds = restarted(p)
        /\ \A q \in Requests : q # r => req'[q] = req[q]
    <3> DEFINE new == [req[r] EXCEPT !.stage = "read", !.phone = p, !.olds = restarted(p)]
    <3>1. req[r] \in RequestType
      BY <1>0, CheckoutTypes
    <3>2. new.olds = restarted(p)
      BY <3>1 DEF RequestType
    <3>3. req' = [req EXCEPT ![r] = new]
      BY <2>2
    <3> HIDE DEF new
    <3> QED
      BY <1>0, <3>2, <3>3, CheckoutTypes
  <2>4. Readers' \subseteq {r}
    BY <2>2, <2>3 DEF Readers
  <2>5. \A i \in DOMAIN rows :
           /\ MayCharge(i) => i \in restarted(p)
           /\ i \in restarted(p) => rows[i].status = "pending" /\ ~rows[i].held
    BY <2>2 DEF MayCharge, refuse_number_in_use, restarted
  <2>6. ReadStillTrue'
    BY <2>2, <2>3, <2>4, <2>5 DEF ReadStillTrue, MayCharge
  <2>7. OneMayCharge'
    BY <2>2 DEF SerialInv, OneMayCharge, MayCharge
  <2> QED
    BY <1>0, <2>6, <2>7 DEF SerialInv
<1>3. CASE \E r \in Requests : CreateCheckout(r) /\ created' # created
  <2>1. PICK r \in Requests : CreateCheckout(r) /\ created' # created
    BY <1>3
  <2>2. /\ Readers' \subseteq Readers \ {r} /\ r \in Readers
        /\ \A i \in DOMAIN rows' : i # created + 1 =>
              i \in DOMAIN rows \ req[r].olds /\ rows'[i] = rows[i]
    BY <1>0, <2>1, Created
  <2>3. Readers' = {}
    BY <2>2 DEF SerialInv, ReadStillTrue
  <2>4. ReadStillTrue'
    BY <2>3 DEF ReadStillTrue
  <2>5. \A i \in DOMAIN rows' : MayCharge(i)' => i = created + 1
    BY <2>2 DEF SerialInv, ReadStillTrue, MayCharge
  <2>6. OneMayCharge'
    BY <2>5 DEF OneMayCharge
  <2> QED
    BY <1>0, <2>4, <2>6 DEF SerialInv
<1> QED
  BY <1>0, <1>1, <1>2, <1>3, NextCases

-----------------------------------------------------------------------------
(* Checkout: the theorems *)

(* The invariant of the rows, the requests, the notifications and the pass, on
   both stores and for any number of phones, requests and checkouts. *)
THEOREM CheckoutInductive == Spec => []CheckoutInv
<1> QED
  BY CheckoutInitInv, CheckoutStep, PTL DEF Spec

(* A pending checkout's payment is pending too, so that the timeout asks the
   provider before it deletes the row. *)
THEOREM PendingIsUnpaid == Spec => []PendingHasOpenPayment
<1>1. CheckoutInv => PendingHasOpenPayment
  BY DEF CheckoutInv
<1> QED
  BY <1>1, CheckoutInductive, PTL

(* With transactions serialised, a checkout decides by what is still so when it
   writes, and at most one row may ever charge the number. *)
THEOREM CheckoutSerial == ASSUME Store = "memory" PROVE Spec => []SerialInv
<1>1. Init => SerialInv
  BY CheckoutInitInv DEF SerialInv
<1>2. SerialInv /\ [Next]_vars => SerialInv'
  BY SerialStep
<1> QED
  BY <1>1, <1>2, PTL DEF Spec

(* With transactions serialised, one number never has two subscriptions that
   charge it. *)
THEOREM OneNumberPaysOnce == ASSUME Store = "memory" PROVE Spec => []OnePayingPerNumber
<1>1. SerialInv => OnePayingPerNumber
  <2> SUFFICES ASSUME SerialInv PROVE OnePayingPerNumber
    OBVIOUS
  <2> DEFINE paying == {i \in DOMAIN rows : rows[i].status = "active"}
  <2>1. \A i, j \in paying : i = j
    BY DEF SerialInv, OneMayCharge, MayCharge
  <2> HIDE DEF paying
  <2>2. CASE paying = {}
    <3>1. Cardinality(paying) = 0
      BY <2>2, FS_EmptySet
    <3> QED
      BY <3>1 DEF OnePayingPerNumber, paying
  <2>3. CASE paying # {}
    <3>1. PICK i \in paying : TRUE
      BY <2>3
    <3>2. paying = {i}
      BY <2>1, <3>1
    <3>3. Cardinality(paying) = 1
      BY <3>2, FS_Singleton
    <3> QED
      BY <3>3 DEF OnePayingPerNumber, paying
  <2> QED
    BY <2>2, <2>3
<1> QED
  BY <1>1, CheckoutSerial, PTL

(* With transactions serialised, no step deletes a checkout that was activated
   or is held for review. *)
THEOREM MoneyKeepsTheRow == ASSUME Store = "memory" PROVE Spec => KeptOnceMoneyMoved
<1> DEFINE Step == \A i \in DOMAIN rows :
                      (rows[i].status # "pending" \/ rows[i].held) => i \in DOMAIN rows'
<1>1. SerialInv /\ [Next]_vars => [Step]_vars
  <2> SUFFICES ASSUME SerialInv, [Next]_vars,
                      NEW i \in DOMAIN rows, rows[i].status # "pending" \/ rows[i].held
               PROVE  i \in DOMAIN rows'
    OBVIOUS
  <2>0. CheckoutInv
    BY DEF SerialInv
  <2>1. CASE OtherStep
    BY <2>1 DEF OtherStep, RowsLegal
  <2>2. CASE \E r \in Requests, p \in Phones : BeginCheckout(r, p)
    BY <2>2 DEF BeginCheckout
  <2>3. ASSUME NEW r \in Requests, CreateCheckout(r), created' # created PROVE i \in DOMAIN rows'
    <3>1. r \in Readers /\ (i \notin req[r].olds => i \in DOMAIN rows')
      BY <2>0, <2>3, Created
    <3> QED
      BY <3>1 DEF SerialInv, ReadStillTrue
  <2> QED
    BY <2>0, <2>1, <2>2, <2>3, NextCases
<1>2. KeptOnceMoneyMoved <=> [][Step]_vars
  BY DEF KeptOnceMoneyMoved
<1> HIDE DEF Step
<1> QED
  BY <1>1, <1>2, CheckoutSerial, PTL DEF Spec
=============================================================================
