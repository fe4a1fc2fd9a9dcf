--------------------------- MODULE CircuitBreaker ---------------------------
(***************************************************************************)
(* services/circuit_breaker.py: one breaker, shared by all the analyses of *)
(* a process. Calls interleave at their await: one that started while the  *)
(* breaker was closed may answer after it opened, or while a probe is out. *)
(* Times are kept as ages that stop at the longest cooldown, and the count *)
(* of failures stops at the threshold: the code compares them with nothing *)
(* beyond, so no behaviour is cut.                                         *)
(***************************************************************************)
EXTENDS Integers

CONSTANTS
    Callers,       \* concurrent calls
    Threshold,     \* failure_threshold
    Cooldown,      \* cooldown_seconds
    MaxCooldown    \* max_cooldown_seconds; 0 stands for None, which acts alike

ASSUME BreakerAssumption ==
    /\ Threshold \in Nat \ {0}
    /\ Cooldown \in Nat \ {0}
    /\ MaxCooldown \in Nat

VARIABLES
    state,         \* _state
    failures,      \* _failure_count, up to Threshold
    age,           \* time since _last_failure_time, up to Longest
    cooldown,      \* _cooldown
    probing,       \* _probing
    calls,         \* what each caller is in: nothing, an ordinary call, the probe
    since_probe    \* history: time since a probe last started, up to Longest

breaker_vars == <<state, failures, age, cooldown, probing, calls, since_probe>>

AtMost(n, most) == IF n <= most THEN n ELSE most

(* max(cap, self.cooldown_seconds) *)
Longest == IF MaxCooldown >= Cooldown THEN MaxCooldown ELSE Cooldown

BreakerInit ==
    /\ state = "closed"
    /\ failures = 0
    /\ age = Longest
    /\ cooldown = Cooldown
    /\ probing = FALSE
    /\ calls = [c \in Callers |-> "idle"]
    /\ since_probe = Longest

-----------------------------------------------------------------------------
(* The property `state': an open breaker whose cooldown is over is half open *)
Observed == IF state = "open" /\ age >= cooldown THEN "half_open" ELSE state

(* Mutant: the probe that is out does not hold the others back *)
Skipped_only_open == Observed = "open"

(* call() answers with the fallback *)
Skipped == Observed = "open" \/ (Observed = "half_open" /\ probing)

Doubled == AtMost(2 * cooldown, Longest)

(* Mutant: only the probe's success closes *)
OnSuccess_of_probe ==
    /\ state' = IF state = "half_open" THEN "closed" ELSE state
    /\ failures' = 0
    /\ cooldown' = Cooldown
    /\ UNCHANGED age

(* _on_success: whichever call it was *)
OnSuccess ==
    /\ state' = "closed"
    /\ failures' = 0
    /\ cooldown' = Cooldown
    /\ UNCHANGED age

(* _on_failure: whichever call it was *)
OnFailure ==
    /\ failures' = AtMost(failures + 1, Threshold)
    /\ age' = 0
    /\ cooldown' = CASE state = "half_open" -> Doubled
                     [] state = "closed" -> Cooldown
                     [] OTHER -> cooldown
    /\ state' = IF failures + 1 >= Threshold \/ state = "half_open" THEN "open" ELSE state

(* Mutant: the breaker is left half open *)
OnProbeCancelled_left == UNCHANGED <<state, age, failures, cooldown>>

(* _on_probe_cancelled *)
OnProbeCancelled ==
    /\ IF state = "half_open" THEN state' = "open" /\ age' = 0 ELSE UNCHANGED <<state, age>>
    /\ UNCHANGED <<failures, cooldown>>

(* The finally of call() *)
Ended(c) ==
    /\ calls' = [calls EXCEPT ![c] = "idle"]
    /\ probing' = (probing /\ calls[c] # "probing")

-----------------------------------------------------------------------------
(* call() up to its await: as the probe, or as an ordinary call *)
StartProbe(c) ==
    /\ calls[c] = "idle"
    /\ ~Skipped
    /\ Observed = "half_open"
    /\ state' = "half_open"
    /\ probing' = TRUE
    /\ calls' = [calls EXCEPT ![c] = "probing"]
    /\ since_probe' = 0
    /\ UNCHANGED <<failures, age, cooldown>>

StartCall(c) ==
    /\ calls[c] = "idle"
    /\ ~Skipped
    /\ Observed = "closed"
    /\ calls' = [calls EXCEPT ![c] = "calling"]
    /\ UNCHANGED <<state, failures, age, cooldown, probing, since_probe>>

(* A skipped call, like get_status, has only read the state *)
ReadState ==
    /\ state' = Observed
    /\ UNCHANGED <<failures, age, cooldown, probing, calls, since_probe>>

(* The source answers *)
Succeed(c) ==
    /\ calls[c] # "idle"
    /\ OnSuccess
    /\ Ended(c)
    /\ UNCHANGED since_probe

(* It fails, or its own time limit ends the call *)
Fail(c) ==
    /\ calls[c] # "idle"
    /\ OnFailure
    /\ Ended(c)
    /\ UNCHANGED since_probe

(* Mutant: no finally, the flag outlives a cancelled probe *)
Cancel_flagged(c) ==
    /\ calls[c] # "idle"
    /\ IF calls[c] = "probing" THEN OnProbeCancelled
                               ELSE UNCHANGED <<state, failures, age, cooldown>>
    /\ calls' = [calls EXCEPT ![c] = "idle"]
    /\ UNCHANGED <<probing, since_probe>>

(* The deadline of the analysis cancels the call *)
Cancel(c) ==
    /\ calls[c] # "idle"
    /\ IF calls[c] = "probing" THEN OnProbeCancelled
                               ELSE UNCHANGED <<state, failures, age, cooldown>>
    /\ Ended(c)
    /\ UNCHANGED since_probe

BreakerTick ==
    /\ age' = AtMost(age + 1, Longest)
    /\ since_probe' = AtMost(since_probe + 1, Longest)
    /\ UNCHANGED <<state, failures, cooldown, probing, calls>>

Start(c) == StartProbe(c) \/ StartCall(c)

BreakerNext ==
    \/ \E c \in Callers : Start(c) \/ Succeed(c) \/ Fail(c) \/ Cancel(c)
    \/ ReadState
    \/ BreakerTick

BreakerSpec == BreakerInit /\ [][BreakerNext]_breaker_vars

(* Analyses keep coming, and the clock runs *)
FairBreaker == BreakerSpec /\ WF_breaker_vars(\E c \in Callers : Start(c)) /\ WF_breaker_vars(BreakerTick)

-----------------------------------------------------------------------------
(* The cooldown stays between the base and the cap *)
BreakerTypeOK ==
    /\ state \in {"closed", "open", "half_open"}
    /\ failures \in 0 .. Threshold
    /\ age \in 0 .. Longest
    /\ cooldown \in Cooldown .. Longest
    /\ probing \in BOOLEAN
    /\ calls \in [Callers -> {"idle", "calling", "probing"}]
    /\ since_probe \in 0 .. Longest

(* One probe is out at a time, through every reopening and every late answer,
   and _probing says whether (lines 92-102, 114-118). *)
OneProbe ==
    /\ probing <=> \E c \in Callers : calls[c] = "probing"
    /\ \A c, d \in Callers : calls[c] = "probing" /\ calls[d] = "probing" => c = d

(* A breaker that is not closed has counted its threshold of failures since the
   last success, so the branch of _on_failure that reopens below it is never
   needed (lines 156-172). *)
OpenIsEarned == state # "closed" => failures = Threshold

(* A dead source is asked once per cooldown: from the start of one probe to the
   start of the next at least the cooldown passes, also when the first was
   cancelled or overtaken by the answers of older calls (lines 92-97, 129-140). *)
ProbesAreSpaced ==
    [][\A c \in Callers : calls[c] # "probing" /\ calls'[c] = "probing" => since_probe >= cooldown]_breaker_vars

(* A source that has recovered is used again: when calls no longer fail, and not
   every one is cancelled first, the breaker closes for good. *)
Recovered == <>[][~ \E c \in Callers : Fail(c)]_breaker_vars /\ \A c \in Callers : SF_breaker_vars(Succeed(c))
ClosesAgain == Recovered => <>[](state = "closed")
=============================================================================
