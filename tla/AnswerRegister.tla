----------------------------- MODULE AnswerRegister -----------------------------
(***************************************************************************)
(* What an Idempotency-Key promises its callers, whoever computes, waits,    *)
(* dies or takes over underneath: one answer is decided for the key, by one  *)
(* request, and every request that is answered is given that answer.        *)
(***************************************************************************)
CONSTANTS Requests, NoRequest

VARIABLES
    answer,     \* whose answer was decided, NoRequest before
    given       \* the answer each request was given

vars == <<answer, given>>

Init ==
    /\ answer = NoRequest
    /\ given = [r \in Requests |-> NoRequest]

(* r is the first to be answered: its answer is everybody's *)
Decide(r) ==
    /\ answer = NoRequest
    /\ answer' = r
    /\ given' = [given EXCEPT ![r] = r]

(* r is answered with what was decided *)
Repeat(r) ==
    /\ answer # NoRequest /\ given[r] = NoRequest
    /\ given' = [given EXCEPT ![r] = answer]
    /\ UNCHANGED answer

Next == \E r \in Requests : Decide(r) \/ Repeat(r)

Spec == Init /\ [][Next]_vars
=============================================================================
