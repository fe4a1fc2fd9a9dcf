------------------------------ MODULE GuestList -------------------------------
(***************************************************************************)
(* What claim codes and checkouts promise about places, as if each were    *)
(* one step: a code that is out lets one phone in, onto a subscription     *)
(* that is open and has a place left at that very moment.  Nobody else     *)
(* comes onto a subscription that is open.  Who is on one leaves it alone, *)
(* one phone at a time, or with everybody when the phone that began it     *)
(* begins another - which it may not do, when Strict, with one that is     *)
(* open, nor when it sits on one.                                          *)
(***************************************************************************)
EXTENDS Integers, FiniteSets

CONSTANTS Phones, Subs, Codes, NoSub, PlanSeats,
          Strict   \* nobody begins anew over a subscription that is open

VARIABLES
    open,    \* the subscriptions that may be joined
    place,   \* where each phone is, NoSub for nowhere
    out,     \* the codes that may be used, with the subscription of each
    host     \* the phone that began each subscription

vars == <<open, place, out, host>>

Guests(s) == {p \in Phones : place[p] = s}

Init ==
    /\ open = {}
    /\ place = [p \in Phones |-> NoSub]
    /\ out = [c \in {} |-> NoSub]
    /\ host = [s \in Subs |-> NoSub]

HandOut(c, s) == out' = [d \in DOMAIN out \cup {c} |-> IF d = c THEN s ELSE out[d]]

TakeBack(c) == c \in DOMAIN out /\ out' = [d \in DOMAIN out \ {c} |-> out[d]]

(* The codes of subscriptions that are gone, and who began them *)
Without(gone) == [d \in {d \in DOMAIN out : out[d] \notin gone} |-> out[d]]

Hosts(p, s, gone) == [t \in Subs |-> IF t = s THEN p ELSE IF t \in gone THEN NoSub ELSE host[t]]

Join(p, c) ==
    /\ TakeBack(c)
    /\ out[c] \in open
    /\ Cardinality(Guests(out[c])) < PlanSeats[out[c]]
    /\ place' = [place EXCEPT ![p] = out[c]]
    /\ UNCHANGED <<open, host>>

Leave(p) == place' = [place EXCEPT ![p] = NoSub] /\ UNCHANGED <<open, out, host>>

(* p begins a subscription of its own, and may take back some it began before *)
Begin(p, s) ==
    /\ s \notin open /\ Guests(s) = {} /\ host[s] = NoSub
    /\ \E old \in SUBSET {t \in Subs : host[t] = p} :
          /\ Strict => place[p] \notin open /\ old \cap open = {}
          /\ place' = [q \in Phones |-> IF q = p THEN s
                                        ELSE IF place[q] \in old THEN NoSub ELSE place[q]]
          /\ open' = open \ old
          /\ out' = Without(old)
          /\ host' = Hosts(p, s, old)

TakenBack(s) ==
    /\ s \notin open
    /\ place' = [q \in Phones |-> IF place[q] = s THEN NoSub ELSE place[q]]
    /\ out' = Without({s})
    /\ host' = Hosts(NoSub, s, {s})
    /\ UNCHANGED open

Opens(s) == open' = open \cup {s} /\ UNCHANGED <<place, out, host>>

Ends(s) == open' = open \ {s} /\ UNCHANGED <<place, out, host>>

(* A licence opens with a code and nobody on it *)
Licence(s, c) ==
    /\ Guests(s) = {} /\ c \notin DOMAIN out
    /\ open' = open \cup {s} /\ HandOut(c, s)
    /\ UNCHANGED <<place, host>>

(* A code for a subscription that was open when it was asked for *)
Issue(s, c) == c \notin DOMAIN out /\ HandOut(c, s) /\ UNCHANGED <<open, place, host>>

Void(c) == TakeBack(c) /\ UNCHANGED <<open, place, host>>

Next ==
    \/ \E p \in Phones : Leave(p) \/ (\E c \in Codes : Join(p, c)) \/ \E s \in Subs : Begin(p, s)
    \/ \E s \in Subs :
          \/ TakenBack(s) \/ Opens(s) \/ Ends(s)
          \/ \E c \in Codes : Licence(s, c) \/ Issue(s, c)
    \/ \E c \in Codes : Void(c)

Spec == Init /\ [][Next]_vars
===============================================================================
