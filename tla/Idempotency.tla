---------------------------- MODULE Idempotency -----------------------------
(***************************************************************************)
(* One Idempotency-Key of one device: deps.idempotent and the three store  *)
(* operations under it. Requests with the key come at any time, run the    *)
(* side effect (a checkout, a claim code) between two transactions, and    *)
(* may die anywhere. The row does not say whose reservation it holds.      *)
(***************************************************************************)
EXTENDS Integers

CONSTANTS
    Requests,      \* requests that carry the key
    NoRequest,
    TTL,           \* _IDEMPOTENCY_RESERVATION_TTL
    WaitSteps,     \* _IDEMPOTENCY_WAIT_STEPS
    MaxCompute,    \* how long a live request computes at most
    MaxTime        \* bound on the clock

ASSUME IdempotencyAssumption ==
    /\ NoRequest \notin Requests
    /\ TTL \in Nat
    /\ WaitSteps \in Nat \ {0}
    /\ MaxCompute \in Nat
    /\ MaxTime \in Nat

(* What the five minutes of the TTL are for: calls to providers time out long
   before, so no live request computes for longer. *)
ASSUME ComputeAssumption == MaxCompute <= TTL

VARIABLES
    slot,      \* the row of idempotency_keys: absent, in progress since `at', or an answer
    req,       \* stage of each request, steps it waited, when it won the key, its answer
    effects,   \* history: the requests whose side effect took place
    now

vars == <<slot, req, effects, now>>

Stages == {"new", "waiting", "computing", "computed", "failed",
           "answered", "error", "conflict", "dead"}

(* Between winning the key and giving it up *)
Running(r) == req[r].stage \in {"computing", "computed", "failed"}

NoSlot == [state |-> "absent", at |-> 0, answer |-> NoRequest]

TypeOK ==
    /\ slot \in [state: {"absent", "in_progress", "done"}, at: Nat, answer: Requests \cup {NoRequest}]
    /\ req \in [Requests -> [stage: Stages, waited: 0 .. WaitSteps, start: Nat,
                             answer: Requests \cup {NoRequest}]]
    /\ effects \subseteq Requests
    /\ now \in Nat

Init ==
    /\ slot = NoSlot
    /\ req = [r \in Requests |-> [stage |-> "new", waited |-> 0, start |-> 0, answer |-> NoRequest]]
    /\ effects = {}
    /\ now = 0

-----------------------------------------------------------------------------
(* Mutant: a reservation of just the TTL is taken over *)
Stale_early == now - slot.at >= TTL

(* created_at < now - TTL *)
Stale == now - slot.at > TTL

Asking(r) == req[r].stage \in {"new", "waiting"}

(* Mutant: an old answer is taken over too *)
Reserve_answered(r) ==
    /\ Asking(r)
    /\ slot.state = "absent" \/ Stale
    /\ slot' = [state |-> "in_progress", at |-> now, answer |-> NoRequest]
    /\ req' = [req EXCEPT ![r] = [@ EXCEPT !.stage = "computing", !.start = now]]
    /\ UNCHANGED <<effects, now>>

(* reserve_idempotency_key wins: the key is free, or its owner took too long *)
Reserve(r) ==
    /\ Asking(r)
    /\ slot.state = "absent" \/ (slot.state = "in_progress" /\ Stale)
    /\ slot' = [state |-> "in_progress", at |-> now, answer |-> NoRequest]
    /\ req' = [req EXCEPT ![r] = [@ EXCEPT !.stage = "computing", !.start = now]]
    /\ UNCHANGED <<effects, now>>

(* It finds an answer and replays it *)
Replay(r) ==
    /\ Asking(r)
    /\ slot.state = "done"
    /\ req' = [req EXCEPT ![r] = [@ EXCEPT !.stage = "answered", !.answer = slot.answer]]
    /\ UNCHANGED <<slot, effects, now>>

(* Mutant: the steps are not counted *)
Wait_forever(r) ==
    /\ Asking(r)
    /\ slot.state = "absent" \/ (slot.state = "in_progress" /\ ~Stale)
    /\ req' = [req EXCEPT ![r].stage = "waiting"]
    /\ UNCHANGED <<slot, effects, now>>

(* It finds the key in progress (or released between the store's two
   statements, which counts as busy) and sleeps, or gives up with 409 *)
Wait(r) ==
    /\ Asking(r)
    /\ slot.state = "absent" \/ (slot.state = "in_progress" /\ ~Stale)
    /\ req' = [req EXCEPT ![r] = [@ EXCEPT
                 !.waited = req[r].waited + 1,
                 !.stage = IF req[r].waited + 1 >= WaitSteps THEN "conflict" ELSE "waiting"]]
    /\ UNCHANGED <<slot, effects, now>>

(* compute(): the side effect takes place, or it raises, or both: a checkout
   whose provider does not answer keeps its committed intent and raises. *)
Compute(r) ==
    /\ req[r].stage = "computing"
    /\ \/ /\ effects' = effects \cup {r}
          /\ \E stage \in {"computed", "failed"} : req' = [req EXCEPT ![r].stage = stage]
       \/ /\ req' = [req EXCEPT ![r].stage = "failed"]
          /\ UNCHANGED effects
    /\ UNCHANGED <<slot, now>>

(* Mutant: the answer is not stored, the key is released *)
Store_release(r) ==
    /\ req[r].stage = "computed"
    /\ slot' = NoSlot
    /\ req' = [req EXCEPT ![r] = [@ EXCEPT !.stage = "answered", !.answer = r]]
    /\ UNCHANGED <<effects, now>>

(* put_idempotent_response: a stored answer is never replaced; the request
   answers with its own in any case *)
Store(r) ==
    /\ req[r].stage = "computed"
    /\ slot' = IF slot.state = "done" THEN slot
               ELSE [slot EXCEPT !.state = "done", !.answer = r]
    /\ req' = [req EXCEPT ![r] = [@ EXCEPT !.stage = "answered", !.answer = r]]
    /\ UNCHANGED <<effects, now>>

(* release_idempotency_key: whatever reservation is there goes *)
Release(r) ==
    /\ req[r].stage = "failed"
    /\ slot' = IF slot.state = "in_progress" THEN NoSlot ELSE slot
    /\ req' = [req EXCEPT ![r].stage = "error"]
    /\ UNCHANGED <<effects, now>>

Die(r) ==
    /\ Asking(r) \/ Running(r)
    /\ req' = [req EXCEPT ![r].stage = "dead"]
    /\ UNCHANGED <<slot, effects, now>>

(* Time passes, but no live request computes longer than MaxCompute *)
Tick ==
    /\ now < MaxTime
    /\ \A r \in Requests : Running(r) => now + 1 - req[r].start <= MaxCompute
    /\ now' = now + 1
    /\ UNCHANGED <<slot, req, effects>>

Step(r) == Reserve(r) \/ Replay(r) \/ Wait(r) \/ Compute(r) \/ Store(r) \/ Release(r)

Next == Tick \/ \E r \in Requests : Step(r) \/ Die(r)

Spec == Init /\ [][Next]_vars

(* Every request that lives goes on: the waiting loop and compute() end *)
FairSpec == Spec /\ \A r \in Requests : WF_vars(Step(r))

-----------------------------------------------------------------------------
(* Properties *)

(* Two requests with one key never run the side effect at the same time, as
   long as none computes for longer than the reservation lasts. *)
OneAtATime == \A r, q \in Requests : Running(r) /\ Running(q) => r = q

(* All answers given for the key are the same one *)
OneAnswer ==
    \A r, q \in Requests :
        req[r].stage = "answered" /\ req[q].stage = "answered" => req[r].answer = req[q].answer

(* deps.idempotent and the store implement the register of one answer: it is
   decided when it is stored, and then neither replaced nor released. *)
Decided == IF slot.state = "done" THEN slot.answer ELSE NoRequest
Given   == [r \in Requests |-> IF req[r].stage = "answered" THEN req[r].answer ELSE NoRequest]

Register == INSTANCE AnswerRegister WITH answer <- Decided, given <- Given

ImplementsRegister == Register!Spec

(* The side effect takes place again only if the request it took place for
   died before it could answer, or answered with an error. *)
EffectOnce ==
    \A r, q \in effects :
        req[r].stage \in {"computed", "answered"} /\ req[q].stage \in {"computed", "answered"}
            => r = q

(* Every request ends, with an answer, an error or a 409 *)
RequestsEnd ==
    \A r \in Requests : <>(req[r].stage \in {"answered", "error", "conflict", "dead"})
=============================================================================
