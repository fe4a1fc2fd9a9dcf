----------------------------- MODULE GuardProofs -----------------------------
(***************************************************************************)
(* The two guards a call passes: the idempotency key of a request that may *)
(* be sent again (Idempotency) and the breaker in front of a source that   *)
(* may be dead (CircuitBreaker). For every number of requests, TTL and     *)
(* wait, one request at a time runs the side effect, one answer is given,  *)
(* and an effect is repeated only after its request died or failed. For    *)
(* every number of callers, threshold and cooldown, there is one probe at  *)
(* a time, only its threshold of failures opens a breaker, and probes are  *)
(* spaced by the cooldown.                                                 *)
(***************************************************************************)
EXTENDS Idempotency, CircuitBreaker, TLAPS

-----------------------------------------------------------------------------
(* The idempotency key *)

(* A request that still asks has steps left *)
StepsLeft == \A r \in Requests : Asking(r) => req[r].waited < WaitSteps

(* A running request is the one the row was reserved for, not too long ago *)
Owner ==
    \A r \in Requests : Running(r) =>
        /\ slot.state = "in_progress"
        /\ slot.at = req[r].start
        /\ now - req[r].start <= MaxCompute

(* An answer that was given is the stored one *)
Answers ==
    \A r \in Requests : req[r].stage = "answered" =>
        slot.state = "done" /\ req[r].answer = slot.answer

(* Where a request whose effect took place can be; it answers for itself *)
Effects ==
    \A r \in effects :
        /\ req[r].stage \in {"computed", "answered", "failed", "error", "dead"}
        /\ req[r].stage = "answered" => req[r].answer = r

Inv == TypeOK /\ StepsLeft /\ Owner /\ OneAtATime /\ Answers /\ Effects

(* Nothing is reserved and nobody runs at first *)
LEMMA InitInv == Init => Inv
  BY IdempotencyAssumption
  DEF Init, Inv, TypeOK, StepsLeft, Owner, OneAtATime, Answers, Effects, Asking, Running, Stages, NoSlot,
      IdempotencyAssumption

(* What a request is *)
RequestType ==
    [stage: Stages, waited: 0 .. WaitSteps, start: Nat, answer: Requests \cup {NoRequest}]

(* A request that is replaced by another record keeps the type *)
LEMMA RequestReplaced ==
  ASSUME TypeOK, NEW r \in Requests, NEW rec \in RequestType, req' = [req EXCEPT ![r] = rec],
         slot' \in [state: {"absent", "in_progress", "done"}, at: Nat,
                    answer: Requests \cup {NoRequest}],
         effects' \subseteq Requests, now' = now
  PROVE  TypeOK'
<1>1. req \in [Requests -> RequestType]
  BY DEF TypeOK, RequestType
<1>2. req' \in [Requests -> RequestType]
  BY <1>1
<1> QED
  BY <1>2 DEF TypeOK, RequestType

(* Every step keeps the types *)
LEMMA TypeStep == ASSUME TypeOK, StepsLeft, [Next]_vars PROVE TypeOK'
<1>0. \A r \in Requests : req[r] \in RequestType
  BY DEF TypeOK, RequestType
<1>1. CASE UNCHANGED vars
  BY <1>1 DEF vars, TypeOK
<1>2. CASE Tick
  BY <1>2 DEF Tick, TypeOK
<1>3. ASSUME NEW r \in Requests, Step(r) \/ Die(r) PROVE TypeOK'
  <2> DEFINE old == req[r]
  <2>0. old \in RequestType
    BY <1>0
  <2>1. CASE Reserve(r)
    <3> DEFINE rec == [old EXCEPT !.stage = "computing", !.start = now]
    <3>1. rec \in RequestType
      BY <2>0 DEF RequestType, Stages, TypeOK
    <3> QED
      BY <2>1, <3>1, RequestReplaced DEF Reserve, TypeOK
  <2>2. CASE Replay(r)
    <3> DEFINE rec == [old EXCEPT !.stage = "answered", !.answer = slot.answer]
    <3>1. rec \in RequestType
      BY <2>0 DEF RequestType, Stages, TypeOK
    <3> QED
      BY <2>2, <3>1, RequestReplaced DEF Replay, TypeOK
  <2>3. CASE Wait(r)
    <3> DEFINE next == IF req[r].waited + 1 >= WaitSteps THEN "conflict" ELSE "waiting"
               rec == [old EXCEPT !.waited = req[r].waited + 1, !.stage = next]
    <3>1. req[r].waited + 1 \in 0 .. WaitSteps
      BY <2>3, IdempotencyAssumption DEF Wait, Asking, StepsLeft, TypeOK, IdempotencyAssumption
    <3>2. next \in Stages
      BY DEF Stages
    <3>3. rec \in RequestType
      <4> HIDE DEF next
      <4> QED
        BY <2>0, <3>1, <3>2 DEF RequestType
    <3> QED
      BY <2>3, <3>3, RequestReplaced DEF Wait, TypeOK
  <2>4. CASE Compute(r)
    <3> DEFINE rec(s) == [old EXCEPT !.stage = s]
    <3>1. rec("computed") \in RequestType /\ rec("failed") \in RequestType
      BY <2>0 DEF RequestType, Stages
    <3> QED
      BY <2>4, <3>1, RequestReplaced DEF Compute, TypeOK
  <2>5. CASE Store(r)
    <3> DEFINE rec == [old EXCEPT !.stage = "answered", !.answer = r]
    <3>1. rec \in RequestType
      BY <2>0 DEF RequestType, Stages
    <3> QED
      BY <2>5, <3>1, RequestReplaced DEF Store, TypeOK
  <2>6. CASE Release(r)
    <3> DEFINE rec == [old EXCEPT !.stage = "error"]
    <3>1. rec \in RequestType
      BY <2>0 DEF RequestType, Stages
    <3> QED
      BY <2>6, <3>1, RequestReplaced DEF Release, NoSlot, TypeOK
  <2>7. CASE Die(r)
    <3> DEFINE rec == [old EXCEPT !.stage = "dead"]
    <3>1. rec \in RequestType
      BY <2>0 DEF RequestType, Stages
    <3> QED
      BY <2>7, <3>1, RequestReplaced DEF Die, TypeOK
  <2> QED
    BY <1>3, <2>1, <2>2, <2>3, <2>4, <2>5, <2>6, <2>7 DEF Step
<1> QED
  BY <1>1, <1>2, <1>3 DEF Next

(* What a step of request r leaves of the other requests: all of it *)
LEMMA Others ==
  ASSUME TypeOK, NEW r \in Requests, Step(r) \/ Die(r)
  PROVE  \A q \in Requests \ {r} : req'[q] = req[q]
  BY DEF TypeOK, Step, Reserve, Replay, Wait, Compute, Store, Release, Die

(* Every step keeps the invariant. Reserve is why ComputeAssumption is needed:
   a reservation old enough to be taken over has no running request left. *)
LEMMA StepInv == ASSUME Inv, [Next]_vars PROVE Inv'
<1> USE IdempotencyAssumption, ComputeAssumption DEF IdempotencyAssumption
<1>1. TypeOK /\ TypeOK'
  BY TypeStep DEF Inv
<1>2. CASE UNCHANGED vars
  BY <1>2 DEF vars, Inv, TypeOK, StepsLeft, Owner, OneAtATime, Answers, Effects, Asking, Running
<1>3. CASE Tick
  BY <1>1, <1>3 DEF Tick, Inv, TypeOK, StepsLeft, Owner, OneAtATime, Answers, Effects, Asking, Running
<1>4. ASSUME NEW r \in Requests, Step(r) \/ Die(r) PROVE Inv'
  <2>0. \A q \in Requests \ {r} : req'[q] = req[q]
    BY <1>1, <1>4, Others
  <2> USE <1>1, <2>0 DEF Inv, StepsLeft, Owner, OneAtATime, Answers, Effects, Asking, Running
  <2>1. CASE Reserve(r)
    <3>1. ~Running(r) /\ req'[r].stage = "computing" /\ req'[r].start = now
      BY <2>1 DEF Reserve, TypeOK
    <3>2. slot' = [state |-> "in_progress", at |-> now, answer |-> NoRequest]
      BY <2>1 DEF Reserve
    <3>3. \A q \in Requests : ~Running(q)
      BY <2>1 DEF Reserve, Stale, TypeOK
    <3>4. \A q \in Requests : req[q].stage # "answered"
      BY <2>1 DEF Reserve
    <3>5. r \notin effects /\ effects' = effects /\ now' = now
      BY <2>1 DEF Reserve
    <3> QED
      BY <3>1, <3>2, <3>3, <3>4, <3>5 DEF TypeOK
  <2>2. CASE Replay(r)
    <3>1. req'[r].stage = "answered" /\ req'[r].answer = slot.answer
      BY <2>2 DEF Replay, TypeOK
    <3>2. slot' = slot /\ effects' = effects /\ now' = now /\ slot.state = "done"
      BY <2>2 DEF Replay
    <3>3. r \notin effects
      BY <2>2 DEF Replay
    <3> QED
      BY <3>1, <3>2, <3>3 DEF TypeOK
  <2>3. CASE Wait(r)
    <3>1. req'[r].stage \in {"conflict", "waiting"}
      BY <2>3 DEF Wait, TypeOK
    <3>2. req'[r].stage = "waiting" => req'[r].waited < WaitSteps
      BY <2>3 DEF Wait, TypeOK
    <3>3. slot' = slot /\ effects' = effects /\ now' = now
      BY <2>3 DEF Wait
    <3>4. r \notin effects
      BY <2>3 DEF Wait
    <3> QED
      BY <3>1, <3>2, <3>3, <3>4 DEF TypeOK
  <2>4. CASE Compute(r)
    <3>1. /\ req[r].stage = "computing" /\ req'[r].stage \in {"computed", "failed"}
          /\ req'[r].start = req[r].start
      BY <2>4 DEF Compute, TypeOK
    <3>2. slot' = slot /\ now' = now
      BY <2>4 DEF Compute
    <3>3. r \notin effects
      BY <2>4 DEF Compute
    <3>4. \/ effects' = effects
          \/ effects' = effects \cup {r}
      BY <2>4 DEF Compute
    <3> QED
      BY <3>1, <3>2, <3>3, <3>4 DEF TypeOK
  <2>5. CASE Store(r)
    <3>1. req[r].stage = "computed" /\ req'[r].stage = "answered" /\ req'[r].answer = r
      BY <2>5 DEF Store, TypeOK
    <3>2. slot.state = "in_progress" /\ slot'.state = "done" /\ slot'.answer = r
      BY <2>5, <3>1 DEF Store, TypeOK
    <3>3. \A q \in Requests \ {r} : ~Running(q) /\ req[q].stage # "answered"
      BY <3>1, <3>2
    <3>4. effects' = effects /\ now' = now
      BY <2>5 DEF Store
    <3> QED
      BY <3>1, <3>2, <3>3, <3>4 DEF TypeOK
  <2>6. CASE Release(r)
    <3>1. req[r].stage = "failed" /\ req'[r].stage = "error"
      BY <2>6 DEF Release, TypeOK
    <3>2. \A q \in Requests \ {r} : ~Running(q) /\ req[q].stage # "answered"
      BY <3>1
    <3>3. effects' = effects /\ now' = now
      BY <2>6, <3>1 DEF Release
    <3> QED
      BY <3>1, <3>2, <3>3 DEF TypeOK
  <2>7. CASE Die(r)
    <3>1. req'[r].stage = "dead"
      BY <2>7 DEF Die, TypeOK
    <3>2. slot' = slot /\ effects' = effects /\ now' = now
      BY <2>7 DEF Die
    <3> QED
      BY <3>1, <3>2 DEF TypeOK
  <2> QED
    BY <1>4, <2>1, <2>2, <2>3, <2>4, <2>5, <2>6, <2>7 DEF Step
<1> QED
  BY <1>2, <1>3, <1>4 DEF Next

(* The invariant holds of every behaviour *)
THEOREM Inductive == Spec => []Inv
  BY InitInv, StepInv, PTL DEF Spec

(* Every variable keeps its type, whatever the bounds *)
THEOREM TypeCorrect == Spec => []TypeOK
<1>1. Inv => TypeOK
  BY DEF Inv
<1> QED
  BY <1>1, Inductive, PTL

(* deps.idempotent: no two requests with one key run compute() at once *)
THEOREM Exclusive == Spec => []OneAtATime
<1>1. Inv => OneAtATime
  BY DEF Inv
<1> QED
  BY <1>1, Inductive, PTL

(* deps.idempotent: whoever gets an answer gets the one that is stored *)
THEOREM SameAnswer == Spec => []OneAnswer
<1>1. Inv => OneAnswer
  BY DEF Inv, Answers, OneAnswer
<1> QED
  BY <1>1, Inductive, PTL

(* deps.idempotent: a repeated key repeats the side effect only for a request
   that ended without an answer: it died, or it failed *)
THEOREM EffectsOnce == Spec => []EffectOnce
<1>1. Inv => EffectOnce
  <2> SUFFICES ASSUME Inv, NEW r \in effects, NEW q \in effects,
                      req[r].stage \in {"computed", "answered"},
                      req[q].stage \in {"computed", "answered"}
               PROVE  r = q
    BY DEF EffectOnce
  <2>1. r \in Requests /\ q \in Requests
    BY DEF Inv, TypeOK
  <2>3. CASE req[r].stage = "computed" /\ req[q].stage = "computed"
    BY <2>1, <2>3 DEF Inv, OneAtATime, Running
  <2>4. CASE req[r].stage = "answered" /\ req[q].stage = "answered"
    BY <2>1, <2>4 DEF Inv, Effects, Answers
  <2>5. CASE req[r].stage # req[q].stage
    BY <2>1, <2>5 DEF Inv, Owner, Answers, Running
  <2> QED
    BY <2>3, <2>4, <2>5
<1> QED
  BY <1>1, Inductive, PTL

(* The key is a register of one answer (deps.idempotent): each step of the
   store decides it, repeats it or leaves it alone. *)
THEOREM RegisterImplemented == Spec => ImplementsRegister
<1>1. Init => Register!Init
  BY DEF Init, Register!Init, Decided, Given, NoSlot
<1>2. Inv /\ [Next]_vars => [Register!Next]_(Register!vars)
  <2> SUFFICES ASSUME Inv, [Next]_vars
               PROVE  Register!Next \/ UNCHANGED Register!vars
    BY DEF Register!vars
  <2>0. /\ req \in [Requests -> RequestType]
        /\ slot \in [state: {"absent", "in_progress", "done"}, at: Nat, answer: Requests \cup {NoRequest}]
        /\ NoRequest \notin Requests
    BY IdempotencyAssumption DEF IdempotencyAssumption, Inv, TypeOK, RequestType
  <2>1. ASSUME Decided' = Decided, \A r \in Requests : Given'[r] = Given[r]
        PROVE  UNCHANGED Register!vars
    <3>1. Given' = Given
      BY <2>1 DEF Given
    <3> QED BY <2>1, <3>1 DEF Register!vars
  <2>2. CASE UNCHANGED <<slot, req>>
    <3>1. Decided' = Decided /\ Given' = Given
      BY <2>2 DEF Decided, Given
    <3> QED BY <3>1 DEF Register!vars
  <2>3. ASSUME NEW r \in Requests, Step(r) \/ Die(r)
        PROVE  Register!Next \/ UNCHANGED Register!vars
    <3>1. CASE Reserve(r) \/ Wait(r) \/ Compute(r) \/ Release(r) \/ Die(r)
      <4>1. /\ req[r].stage # "answered" /\ req'[r].stage # "answered"
            /\ \A q \in Requests : q # r => req'[q] = req[q]
        <5>1. CASE Reserve(r)
          BY <2>0, <5>1 DEF Reserve, Asking, RequestType
        <5>2. CASE Wait(r)
          BY <2>0, <5>2 DEF Wait, Asking, RequestType
        <5>3. CASE Compute(r)
          BY <2>0, <5>3 DEF Compute, RequestType
        <5>4. CASE Release(r)
          BY <2>0, <5>4 DEF Release, RequestType
        <5>5. CASE Die(r)
          BY <2>0, <5>5 DEF Die, Asking, Running, RequestType
        <5> QED BY <3>1, <5>1, <5>2, <5>3, <5>4, <5>5
      <4>2. Decided' = Decided
        BY <2>0, <3>1 DEF Reserve, Wait, Compute, Release, Die, Decided, NoSlot
      <4>3. \A q \in Requests : Given'[q] = Given[q]
        BY <4>1 DEF Given
      <4> QED BY <2>1, <4>2, <4>3
    <3>2. CASE Replay(r)
      <4>1. /\ slot.state = "done" /\ slot' = slot /\ req[r].stage # "answered"
            /\ req'[r].stage = "answered" /\ req'[r].answer = slot.answer
            /\ \A q \in Requests : q # r => req'[q] = req[q]
        BY <2>0, <3>2 DEF Replay, Asking, RequestType
      <4>2. Given' = [Given EXCEPT ![r] = Decided] /\ Decided' = Decided /\ Given[r] = NoRequest
        BY <4>1 DEF Given, Decided
      <4>3. CASE Decided # NoRequest
        BY <4>2, <4>3 DEF Register!Next, Register!Repeat
      <4>4. CASE Decided = NoRequest
        <5>1. \A q \in Requests : Given'[q] = Given[q]
          BY <4>2, <4>4 DEF Given
        <5> QED BY <2>1, <4>2, <5>1
      <4> QED BY <4>3, <4>4
    <3>3. CASE Store(r)
      <4>1. slot.state = "in_progress"
        BY <3>3 DEF Store, Inv, Owner, Running
      <4>2. /\ Decided = NoRequest /\ Decided' = r
            /\ req'[r].stage = "answered" /\ req'[r].answer = r
            /\ \A q \in Requests : q # r => req'[q] = req[q]
        BY <2>0, <3>3, <4>1 DEF Store, Decided, RequestType
      <4>3. Given' = [Given EXCEPT ![r] = r]
        BY <4>2 DEF Given
      <4> QED BY <4>2, <4>3 DEF Register!Next, Register!Decide
    <3> QED BY <2>3, <3>1, <3>2, <3>3 DEF Step
  <2> QED BY <2>2, <2>3 DEF Next, Tick, vars
<1> QED BY <1>1, <1>2, Inductive, PTL DEF Spec, ImplementsRegister, Register!Spec

-----------------------------------------------------------------------------
(* The circuit breaker *)

(* The two parts the properties need to be inductive: a breaker is half open only
   when its cooldown is over, and whatever renews the wait came after the last
   probe started, unless that probe is what is waited for. *)
HalfOpenIsDue == state = "half_open" => age >= cooldown

WaitFollowsProbe ==
    state = "open" \/ (state = "half_open" /\ ~probing) => age <= since_probe

BreakerInv == /\ BreakerTypeOK /\ OneProbe /\ OpenIsEarned
              /\ HalfOpenIsDue /\ WaitFollowsProbe

(* The longest cooldown is at least the base: max(cap, self.cooldown_seconds) *)
LEMMA LongestIsLongest ==
  Longest \in Nat /\ Cooldown <= Longest /\ MaxCooldown <= Longest
  BY BreakerAssumption, SMT DEF BreakerAssumption, Longest

(* A doubled cooldown stays between the base and the cap (line 152). *)
LEMMA DoubledIsACooldown ==
  ASSUME cooldown \in Cooldown .. Longest
  PROVE  Doubled \in Cooldown .. Longest
  <1>1. Cooldown \in Nat /\ Longest \in Nat /\ Cooldown <= Longest
    BY BreakerAssumption, LongestIsLongest DEF BreakerAssumption
  <1> HIDE DEF Longest
  <1> QED BY <1>1, SMT DEF Doubled, AtMost

(* The breaker starts closed, with nothing counted. *)
LEMMA BreakerInitInv ==
  ASSUME BreakerInit
  PROVE  BreakerInv
  <1>1. BreakerTypeOK
    <2>1. probing \in BOOLEAN
      BY Zenon DEF BreakerInit
    <2>2. calls \in [Callers -> {"idle", "calling", "probing"}]
      BY DEF BreakerInit
    <2> QED BY BreakerAssumption, <2>1, <2>2, LongestIsLongest, SMT DEF BreakerAssumption, BreakerInit, BreakerTypeOK
  <1>2. OneProbe
    BY Zenon DEF BreakerInit, OneProbe
  <1> QED BY <1>1, <1>2 DEF BreakerInit, BreakerInv, OpenIsEarned, HalfOpenIsDue, WaitFollowsProbe

(* The end of a call: the flag falls with the probe, and with nothing else. *)
LEMMA EndedKeepsOneProbe ==
  ASSUME BreakerTypeOK, OneProbe, NEW c \in Callers, Ended(c)
  PROVE  /\ OneProbe'
         /\ probing' \in BOOLEAN
         /\ probing' => probing
         /\ calls' \in [Callers -> {"idle", "calling", "probing"}]
         /\ calls[c] = "probing" => ~probing'
         /\ calls[c] # "probing" => probing' = probing
  <1>1. calls' \in [Callers -> {"idle", "calling", "probing"}]
    BY DEF Ended, BreakerTypeOK
  <1>2. \A d \in Callers : calls'[d] = IF d = c THEN "idle" ELSE calls[d]
    BY DEF Ended, BreakerTypeOK
  <1>3. /\ probing' \in BOOLEAN
        /\ probing' => probing
        /\ calls[c] = "probing" => ~probing'
        /\ calls[c] # "probing" => probing' = probing
    BY Zenon DEF Ended, BreakerTypeOK
  <1>4. probing' => \E d \in Callers : calls'[d] = "probing"
    <2> SUFFICES ASSUME probing' PROVE \E d \in Callers : calls'[d] = "probing"
      OBVIOUS
    <2>1. PICK d \in Callers : calls[d] = "probing"
      BY <1>3 DEF OneProbe
    <2>2. d # c
      BY <2>1, <1>3
    <2> QED BY <2>1, <2>2, <1>2
  <1>5. ASSUME NEW d \in Callers, calls'[d] = "probing"
        PROVE  probing'
    <2>1. d # c /\ calls[d] = "probing"
      BY <1>2, <1>5
    <2>2. probing /\ calls[c] # "probing"
      BY <2>1 DEF OneProbe
    <2> QED BY <2>2, <1>3
  <1>6. \A d, e \in Callers : calls'[d] = "probing" /\ calls'[e] = "probing" => d = e
    BY <1>2 DEF OneProbe
  <1> QED BY <1>1, <1>3, <1>4, <1>5, <1>6, Zenon DEF OneProbe

(* A call starts, ordinary or as the probe. *)
LEMMA StartKeepsInv ==
  ASSUME BreakerInv, NEW c \in Callers, Start(c)
  PROVE  BreakerInv'
  <1>1. CASE StartCall(c)
    <2>1. state = "closed" /\ state' = "closed"
      BY <1>1 DEF StartCall, Observed
    <2>2. calls' \in [Callers -> {"idle", "calling", "probing"}]
      BY <1>1 DEF StartCall, BreakerInv, BreakerTypeOK
    <2>3. \A d \in Callers : calls'[d] = IF d = c THEN "calling" ELSE calls[d]
      BY <1>1 DEF StartCall, BreakerInv, BreakerTypeOK
    <2>4. calls[c] = "idle" /\ probing' = probing
      BY <1>1 DEF StartCall
    <2>5. \A d \in Callers : calls'[d] = "probing" <=> calls[d] = "probing"
      BY <2>3, <2>4
    <2>6. OneProbe'
      BY <2>4, <2>5, Zenon DEF OneProbe, BreakerInv
    <2>7. BreakerTypeOK'
      BY <1>1, <2>2, Zenon DEF StartCall, BreakerInv, BreakerTypeOK
    <2> QED BY <2>1, <2>6, <2>7, Zenon DEF BreakerInv, OpenIsEarned, HalfOpenIsDue, WaitFollowsProbe
  <1>2. CASE StartProbe(c)
    <2>1. /\ Observed = "half_open"
          /\ ~probing
          /\ state \in {"open", "half_open"}
          /\ age >= cooldown
      BY <1>2 DEF StartProbe, Skipped, Observed, BreakerInv, HalfOpenIsDue
    <2>2. calls' \in [Callers -> {"idle", "calling", "probing"}]
      BY <1>2 DEF StartProbe, BreakerInv, BreakerTypeOK
    <2>3. \A d \in Callers : calls'[d] = IF d = c THEN "probing" ELSE calls[d]
      BY <1>2 DEF StartProbe, BreakerInv, BreakerTypeOK
    <2>4. \A d \in Callers : calls[d] # "probing"
      BY <2>1 DEF BreakerInv, OneProbe
    <2>5. probing' /\ \A d \in Callers : calls'[d] = "probing" <=> d = c
      BY <1>2, <2>3, <2>4 DEF StartProbe
    <2>6. OneProbe'
      BY <2>5, Zenon DEF OneProbe
    <2>7. probing' \in BOOLEAN
      BY <1>2, Zenon DEF StartProbe
    <2>8. BreakerTypeOK'
      <3>1. 0 \in 0 .. Longest
        BY LongestIsLongest, SMT
      <3> QED BY <1>2, <2>2, <2>7, <3>1, Zenon DEF StartProbe, BreakerInv, BreakerTypeOK
    <2>9. /\ state' = "half_open" /\ failures' = failures
          /\ age' = age /\ cooldown' = cooldown
      BY <1>2 DEF StartProbe
    <2>10. OpenIsEarned' /\ HalfOpenIsDue' /\ WaitFollowsProbe'
      BY <2>1, <2>5, <2>9, SMT DEF BreakerInv, OpenIsEarned, HalfOpenIsDue, WaitFollowsProbe
    <2> QED BY <2>6, <2>8, <2>10 DEF BreakerInv
  <1> QED BY <1>1, <1>2 DEF Start

(* Whichever call answers, the breaker closes with nothing counted. *)
LEMMA SucceedKeepsInv ==
  ASSUME BreakerInv, NEW c \in Callers, Succeed(c)
  PROVE  BreakerInv'
  <1>1. OneProbe' /\ probing' \in BOOLEAN /\ calls' \in [Callers -> {"idle", "calling", "probing"}]
    BY EndedKeepsOneProbe, Zenon DEF BreakerInv, Succeed
  <1>2. /\ state' = "closed" /\ failures' = 0 /\ cooldown' = Cooldown
        /\ age' = age /\ since_probe' = since_probe
    BY DEF Succeed, OnSuccess
  <1>3. 0 \in 0 .. Threshold /\ Cooldown \in Cooldown .. Longest
    BY BreakerAssumption, LongestIsLongest, SMT DEF BreakerAssumption
  <1>4. BreakerTypeOK'
    BY <1>1, <1>2, <1>3, Zenon DEF BreakerInv, BreakerTypeOK
  <1> QED BY <1>1, <1>2, <1>4 DEF BreakerInv, OpenIsEarned, HalfOpenIsDue, WaitFollowsProbe

(* Whichever call fails: the count and the wait are renewed; from half open the
   breaker opens with its count still at the threshold. *)
LEMMA FailKeepsInv ==
  ASSUME BreakerInv, NEW c \in Callers, Fail(c)
  PROVE  BreakerInv'
  <1>1. OneProbe' /\ probing' \in BOOLEAN /\ calls' \in [Callers -> {"idle", "calling", "probing"}]
    BY EndedKeepsOneProbe, Zenon DEF BreakerInv, Fail
  <1>2. /\ failures' = AtMost(failures + 1, Threshold)
        /\ age' = 0
        /\ since_probe' = since_probe
        /\ state' = IF failures + 1 >= Threshold \/ state = "half_open" THEN "open" ELSE state
    BY DEF Fail, OnFailure
  <1>3. Threshold \in Nat /\ Longest \in Nat /\ failures \in 0 .. Threshold
        /\ since_probe \in 0 .. Longest
        /\ state \in {"closed", "open", "half_open"}
    BY BreakerAssumption, LongestIsLongest DEF BreakerAssumption, BreakerInv, BreakerTypeOK
  <1>4. cooldown' \in Cooldown .. Longest
    <2>1. Cooldown \in Cooldown .. Longest
      BY BreakerAssumption, LongestIsLongest, SMT DEF BreakerAssumption
    <2>2. cooldown \in Cooldown .. Longest
      BY DEF BreakerInv, BreakerTypeOK
    <2>3. Doubled \in Cooldown .. Longest
      BY <2>2, DoubledIsACooldown
    <2>4. cooldown' = CASE state = "half_open" -> Doubled
                        [] state = "closed" -> Cooldown
                        [] OTHER -> cooldown
      BY DEF Fail, OnFailure
    <2> HIDE DEF Doubled, Longest
    <2> QED BY <1>3, <2>1, <2>2, <2>3, <2>4
  <1>5. failures' \in 0 .. Threshold /\ (failures + 1 >= Threshold => failures' = Threshold)
    <2> HIDE DEF Longest
    <2> QED BY <1>2, <1>3, SMT DEF AtMost
  <1>6. state' \in {"closed", "open", "half_open"} /\ state' # "half_open"
    BY <1>2, <1>3
  <1>7. age' \in 0 .. Longest /\ age' <= since_probe'
    BY <1>2, <1>3, SMT
  <1>8. BreakerTypeOK'
    BY <1>1, <1>2, <1>3, <1>4, <1>5, <1>6, <1>7, Zenon DEF BreakerTypeOK
  <1>9. OpenIsEarned'
    <2>1. CASE state = "closed"
      BY <1>2, <1>5, <2>1 DEF OpenIsEarned
    <2>2. CASE state # "closed"
      <3>1. failures = Threshold
        BY <2>2 DEF BreakerInv, OpenIsEarned
      <3>2. failures + 1 >= Threshold
        BY <3>1, <1>3, SMT
      <3> QED BY <3>2, <1>5 DEF OpenIsEarned
    <2> QED BY <2>1, <2>2
  <1> QED BY <1>1, <1>6, <1>7, <1>8, <1>9 DEF BreakerInv, HalfOpenIsDue, WaitFollowsProbe

(* A cancelled probe renews the wait; any other cancelled call changes nothing. *)
LEMMA CancelKeepsInv ==
  ASSUME BreakerInv, NEW c \in Callers, Cancel(c)
  PROVE  BreakerInv'
  <1>1. /\ OneProbe' /\ probing' \in BOOLEAN
        /\ calls' \in [Callers -> {"idle", "calling", "probing"}]
        /\ calls[c] = "probing" => ~probing'
        /\ calls[c] # "probing" => probing' = probing
    BY EndedKeepsOneProbe, Zenon DEF BreakerInv, Cancel
  <1>2. failures' = failures /\ cooldown' = cooldown /\ since_probe' = since_probe
    BY DEF Cancel, OnProbeCancelled
  <1>3. Longest \in Nat /\ since_probe \in 0 .. Longest
        /\ 0 \in 0 .. Longest /\ 0 <= since_probe
    <2>1. Longest \in Nat /\ since_probe \in 0 .. Longest
      BY LongestIsLongest DEF BreakerInv, BreakerTypeOK
    <2> HIDE DEF Longest
    <2> QED BY <2>1, SMT
  <1>4. CASE calls[c] = "probing" /\ state = "half_open"
    <2>1. state' = "open" /\ age' = 0
      BY <1>4 DEF Cancel, OnProbeCancelled
    <2>2. BreakerTypeOK'
      BY <1>1, <1>2, <1>3, <2>1, Zenon DEF BreakerInv, BreakerTypeOK
    <2> QED BY <1>1, <1>2, <1>3, <1>4, <2>1, <2>2 DEF BreakerInv, OpenIsEarned, HalfOpenIsDue, WaitFollowsProbe
  <1>5. CASE ~(calls[c] = "probing" /\ state = "half_open")
    <2>1. state' = state /\ age' = age
      BY <1>5 DEF Cancel, OnProbeCancelled
    <2>2. BreakerTypeOK'
      BY <1>1, <1>2, <2>1, Zenon DEF BreakerInv, BreakerTypeOK
    <2>3. state = "half_open" => (probing' = probing)
      BY <1>1, <1>5
    <2> QED BY <1>1, <1>2, <2>1, <2>2, <2>3 DEF BreakerInv, OpenIsEarned, HalfOpenIsDue, WaitFollowsProbe
  <1> QED BY <1>4, <1>5

(* Reading the state opens it halfway when its cooldown is over. *)
LEMMA ReadStateKeepsInv ==
  ASSUME BreakerInv, ReadState
  PROVE  BreakerInv'
  BY DEF BreakerInv, ReadState, Observed, BreakerTypeOK, OneProbe,
         OpenIsEarned, HalfOpenIsDue, WaitFollowsProbe

(* Time moves both ages alike. *)
LEMMA TickKeepsInv ==
  ASSUME BreakerInv, BreakerTick
  PROVE  BreakerInv'
  <1>1. /\ Longest \in Nat /\ age \in 0 .. Longest /\ since_probe \in 0 .. Longest
        /\ Cooldown \in Nat /\ cooldown \in Cooldown .. Longest
    BY BreakerAssumption, LongestIsLongest DEF BreakerAssumption, BreakerInv, BreakerTypeOK
  <1>2. /\ age' = AtMost(age + 1, Longest)
        /\ since_probe' = AtMost(since_probe + 1, Longest)
        /\ UNCHANGED <<state, failures, cooldown, probing, calls>>
    BY DEF BreakerTick
  <1>3. /\ age' \in 0 .. Longest /\ since_probe' \in 0 .. Longest
        /\ age' >= age
        /\ age <= since_probe => age' <= since_probe'
    <2> HIDE DEF Longest
    <2> QED BY <1>1, <1>2, SMT DEF AtMost
  <1>4. BreakerTypeOK'
    BY <1>2, <1>3, Zenon DEF BreakerInv, BreakerTypeOK
  <1>5. OneProbe' /\ OpenIsEarned'
    BY <1>2, Zenon DEF BreakerInv, OneProbe, OpenIsEarned
  <1>6. HalfOpenIsDue' /\ WaitFollowsProbe'
    <2> HIDE DEF Longest
    <2>1. age >= cooldown => age' >= cooldown'
      BY <1>1, <1>2, <1>3, SMT
    <2> QED BY <1>2, <1>3, <2>1 DEF BreakerInv, HalfOpenIsDue, WaitFollowsProbe
  <1> QED BY <1>4, <1>5, <1>6 DEF BreakerInv

(* Every step keeps the invariant. *)
LEMMA BreakerStepKeepsInv ==
  ASSUME BreakerInv, [BreakerNext]_breaker_vars
  PROVE  BreakerInv'
  <1>1. ASSUME NEW c \in Callers,
               Start(c) \/ Succeed(c) \/ Fail(c) \/ Cancel(c)
        PROVE  BreakerInv'
    BY <1>1, StartKeepsInv, SucceedKeepsInv, FailKeepsInv, CancelKeepsInv
  <1>2. CASE ReadState
    BY <1>2, ReadStateKeepsInv
  <1>3. CASE BreakerTick
    BY <1>3, TickKeepsInv
  <1>4. CASE UNCHANGED breaker_vars
    BY <1>4 DEF breaker_vars, BreakerInv, BreakerTypeOK, OneProbe, OpenIsEarned,
                HalfOpenIsDue, WaitFollowsProbe
  <1> QED BY <1>1, <1>2, <1>3, <1>4 DEF BreakerNext

(* The invariant holds throughout. *)
THEOREM BreakerInvariant ==
  BreakerSpec => []BreakerInv
  <1>1. BreakerInit => BreakerInv
    BY BreakerInitInv
  <1>2. BreakerInv /\ [BreakerNext]_breaker_vars => BreakerInv'
    BY BreakerStepKeepsInv
  <1> QED BY <1>1, <1>2, PTL DEF BreakerSpec

(* One probe is out at a time and _probing says whether, however many calls
   started before the breaker opened and answer late. *)
THEOREM ProbesOneAtATime ==
  BreakerSpec => []OneProbe
  <1>1. BreakerInv => OneProbe
    BY DEF BreakerInv
  <1> QED BY <1>1, BreakerInvariant, PTL

(* A breaker is open or half open only after its threshold of failures since the
   last success: reopening below the threshold never happens. *)
THEOREM OpenedByItsThreshold ==
  BreakerSpec => []OpenIsEarned
  <1>1. BreakerInv => OpenIsEarned
    BY DEF BreakerInv
  <1> QED BY <1>1, BreakerInvariant, PTL

(* A probe starts at least a cooldown after the one before it, for every threshold,
   cooldown and cap: the wait is renewed after a probe starts and before the next. *)
THEOREM ProbesSpaced ==
  BreakerSpec => ProbesAreSpaced
  <1> DEFINE Spaced == \A c \in Callers :
                 calls[c] # "probing" /\ calls'[c] = "probing" => since_probe >= cooldown
  <1>1. BreakerInv /\ [BreakerNext]_breaker_vars => [Spaced]_breaker_vars
    <2> SUFFICES ASSUME BreakerInv, BreakerNext, NEW c \in Callers,
                        calls[c] # "probing", calls'[c] = "probing"
                 PROVE  since_probe >= cooldown
      BY DEF Spaced
    <2>1. PICK d \in Callers : StartProbe(d)
      <3>1. ~ReadState /\ ~BreakerTick
        BY DEF ReadState, BreakerTick
      <3>2. ASSUME NEW d \in Callers, Succeed(d) \/ Fail(d) \/ Cancel(d)
            PROVE  FALSE
        <4>1. calls' = [calls EXCEPT ![d] = "idle"]
          BY <3>2 DEF Succeed, Fail, Cancel, Ended
        <4> QED BY <4>1 DEF BreakerInv, BreakerTypeOK
      <3>3. ASSUME NEW d \in Callers, StartCall(d) PROVE FALSE
        BY <3>3 DEF StartCall, BreakerInv, BreakerTypeOK
      <3> QED BY <3>1, <3>2, <3>3 DEF BreakerNext, Start
    <2>2. /\ ~probing
          /\ state \in {"open", "half_open"}
          /\ age >= cooldown
      BY <2>1 DEF StartProbe, Skipped, Observed, BreakerInv, HalfOpenIsDue
    <2>3. age <= since_probe
      BY <2>2 DEF BreakerInv, WaitFollowsProbe
    <2>4. age \in Nat /\ since_probe \in Nat /\ cooldown \in Nat
      <3>1. /\ Longest \in Nat /\ Cooldown \in Nat /\ age \in 0 .. Longest
            /\ since_probe \in 0 .. Longest /\ cooldown \in Cooldown .. Longest
        BY BreakerAssumption, LongestIsLongest DEF BreakerAssumption, BreakerInv, BreakerTypeOK
      <3> HIDE DEF Longest
      <3> QED BY <3>1, SMT
    <2> QED BY <2>2, <2>3, <2>4, SMT
  <1>2. ProbesAreSpaced <=> [][Spaced]_breaker_vars
    BY DEF ProbesAreSpaced
  <1> HIDE DEF Spaced
  <1> QED BY <1>1, <1>2, BreakerInvariant, PTL DEF BreakerSpec
=============================================================================
