----------------------------- MODULE UptimeMonitor -----------------------------
(***************************************************************************)
(* The uptime monitor (ops/uptime-worker/worker.js): a cron job that reads   *)
(* its state from KV, runs every check, mails the founder what has newly     *)
(* failed and what is back, and writes the state again.                     *)
(*                                                                         *)
(* A run (tick) is four steps with an await between each: the checks, the    *)
(* mail "down", the mail "back", the write.  Mails fail while the mail       *)
(* service is out; one may also go out although its send reports an error.   *)
(* The run may be killed between two steps and the write may fail.  Cron     *)
(* starts one run a minute and a run takes seconds: runs do not overlap.     *)
(*                                                                         *)
(* What the checks say of the outside is UptimeChecks' Reading; here it is   *)
(* any operator.  Left out: the texts of errors and mails, and the writes    *)
(* that only refresh a time (the heartbeat).                                *)
(***************************************************************************)
EXTENDS Integers

CONSTANTS
    Checks,             \* CHECKS, by name
    Optional,           \* those with an `enabled` test: the backup check
    Threshold(_),       \* THRESHOLD: judged failures in a row before a mail
    Worlds,             \* what the checks may find outside
    Reading(_, _),      \* what check c says of world w: "ok", "bad" or "skip"
    MaxFaults           \* bound: killed runs, failed writes, misreported sends

ASSUME ChecksAssumption ==
    /\ Optional \subseteq Checks
    /\ \A c \in Checks : Threshold(c) \in Nat \ {0}
    /\ \A c \in Checks, w \in Worlds : Reading(c, w) \in {"ok", "bad", "skip"}
    /\ MaxFaults \in Nat

VARIABLES
    fails, down, alertError,    \* the state in KV
    pc, run,                    \* the run in progress: its step and its locals
    world, bound,               \* what the last run found: services, R2 binding
    mailUp,                     \* the mail service works
    told,                       \* checks the founder's latest mail calls down
    streak,                     \* judged failures in a row, up to the threshold
    faults                      \* faults so far

kv    == <<fails, down, alertError>>
found == <<world, bound>>
vars  == <<kv, pc, run, found, mailUp, told, streak, faults>>

-----------------------------------------------------------------------------
(* A count is kept only for the checks that have one (fails is an object in
   the code): NoCount is the missing key. *)
NoCount == -1
Counts  == [Checks -> Nat \cup {NoCount}]

Failing(f) == {c \in Checks : f[c] >= Threshold(c)}

Capped_not(n, c) == n                       \* mutant: counts grow on
Capped(n, c)  == IF n < Threshold(c) THEN n ELSE Threshold(c)
Next1(f, c)   == Capped((IF f[c] = NoCount THEN 0 ELSE f[c]) + 1, c)
Enabled(b)    == (Checks \ Optional) \cup b

(* Mutant: silence is a failure *)
Count_silence(f, c, w, b) == IF c \notin Enabled(b) THEN NoCount
                             ELSE IF Reading(c, w) = "ok" THEN 0 ELSE Next1(f, c)

(* A skipped check keeps its count, one that is not run loses it *)
Count(f, c, w, b) == IF c \notin Enabled(b) THEN NoCount
                     ELSE CASE Reading(c, w) = "skip" -> f[c]
                            [] Reading(c, w) = "bad"  -> Next1(f, c)
                            [] OTHER                  -> 0

Streak(c, w, b) == IF c \notin Enabled(b) \/ Reading(c, w) = "ok" THEN 0
                   ELSE IF Reading(c, w) = "bad" THEN Capped(streak[c] + 1, c)
                   ELSE streak[c]

Resting == [fails |-> [c \in Checks |-> NoCount], down |-> {},
            newlyDown |-> {}, recovered |-> {}, sendError |-> FALSE]

RunType == [fails : Counts, down : SUBSET Checks, newlyDown : SUBSET Checks,
            recovered : SUBSET Checks, sendError : BOOLEAN]

TypeOK ==
    /\ fails \in Counts /\ down \subseteq Checks /\ alertError \in BOOLEAN
    /\ pc \in {"idle", "mailDown", "mailBack", "write"} /\ run \in RunType
    /\ world \in Worlds /\ bound \subseteq Optional /\ mailUp \in BOOLEAN
    /\ told \subseteq Checks
    /\ streak \in [Checks -> Nat]
    /\ faults \in 0..MaxFaults
    /\ \A c \in Checks : streak[c] <= Threshold(c)
    /\ \A c \in Checks : fails[c] <= Threshold(c)

Init ==
    /\ fails = [c \in Checks |-> NoCount] /\ down = {} /\ alertError = FALSE
    /\ pc = "idle" /\ run = Resting
    /\ world \in Worlds /\ bound \in SUBSET Optional /\ mailUp = TRUE
    /\ told = {} /\ streak = [c \in Checks |-> 0] /\ faults = 0

-----------------------------------------------------------------------------
(* Mutant: a check is new only in the run that reaches the threshold *)
NewlyDown_once(f, d) == {c \in Failing(f) \ d : fails[c] < Threshold(c)}

(* What fails and the founder was not told of, in this run or an earlier one *)
NewlyDown(f, d) == Failing(f) \ d

(* tick, up to its first mail: read the state, run the checks, compare.  The
   services and the binding may be anything at each run. *)
Start ==
    /\ pc = "idle"
    /\ \E w \in Worlds, b \in SUBSET Optional :
         LET f == [c \in Checks |-> Count(fails, c, w, b)]
             d == {c \in down : f[c] # NoCount}
         IN /\ run' = [fails |-> f, down |-> d, newlyDown |-> NewlyDown(f, d),
                       recovered |-> d \ Failing(f), sendError |-> FALSE]
            /\ streak' = [c \in Checks |-> Streak(c, w, b)]
            /\ world' = w /\ bound' = b
    /\ pc' = "mailDown"
    /\ UNCHANGED <<kv, mailUp, told, faults>>

(* One mail: sent and known sent; not sent; sent although the call failed *)
Delivered   == mailUp  /\ UNCHANGED faults
Undelivered == ~mailUp /\ UNCHANGED faults
Misreported == mailUp  /\ faults < MaxFaults /\ faults' = faults + 1

(* sendError; a mail not sent is not marked as told, so the next run tries *)
NotSent_unnoticed(r) == r                   \* mutant: nobody sees it
NotSent(r) == [r EXCEPT !.sendError = TRUE]

MailDown ==
    /\ pc = "mailDown"
    /\ pc' = "mailBack"
    /\ \/ /\ run.newlyDown = {}
          /\ UNCHANGED <<run, told, faults>>
       \/ /\ run.newlyDown # {} /\ Delivered
          /\ run'  = [run EXCEPT !.down = @ \cup run.newlyDown]
          /\ told' = told \cup run.newlyDown
       \/ /\ run.newlyDown # {}
          /\ \/ Undelivered /\ told' = told
             \/ Misreported /\ told' = told \cup run.newlyDown
          /\ run' = NotSent(run)
    /\ UNCHANGED <<kv, found, mailUp, streak>>

MailBack ==
    /\ pc = "mailBack"
    /\ pc' = "write"
    /\ \/ /\ run.recovered = {}
          /\ UNCHANGED <<run, told, faults>>
       \/ /\ run.recovered # {} /\ Delivered
          /\ run'  = [run EXCEPT !.down = @ \ run.recovered]
          /\ told' = told \ run.recovered
       \/ /\ run.recovered # {}
          /\ \/ Undelivered /\ told' = told
             \/ Misreported /\ told' = told \ run.recovered
          /\ run' = NotSent(run)
    /\ UNCHANGED <<kv, found, mailUp, streak>>

(* The write at the end of tick; a failed one is only logged *)
Write ==
    /\ pc = "write"
    /\ \/ /\ fails' = run.fails /\ down' = run.down
          /\ alertError' = run.sendError
          /\ UNCHANGED faults
       \/ /\ faults < MaxFaults /\ faults' = faults + 1
          /\ UNCHANGED kv
    /\ pc' = "idle" /\ run' = Resting
    /\ UNCHANGED <<found, mailUp, told, streak>>

(* The platform ends the run between two steps *)
Killed ==
    /\ pc # "idle" /\ faults < MaxFaults
    /\ faults' = faults + 1
    /\ pc' = "idle" /\ run' = Resting
    /\ UNCHANGED <<kv, found, mailUp, told, streak>>

(* Outside: the mail service goes and comes back *)
MailChanges ==
    /\ mailUp' = ~mailUp
    /\ UNCHANGED <<kv, pc, run, found, told, streak, faults>>

Tick == Start \/ MailDown \/ MailBack \/ Write
Next == Tick \/ Killed \/ MailChanges

Spec     == Init /\ [][Next]_vars
(* cron starts a run every minute, and a run that is not killed ends *)
FairSpec == Spec /\ WF_vars(Tick)

-----------------------------------------------------------------------------
(* The stored alert_error, which turns the DNS canary red, is there exactly
   while a mail is owed: while what the founder was told (down) is not what
   fails.  Killed runs, failed writes and misreported sends included
   (the comment on alertError in tick). *)
ErrorMeansMailOwed == alertError <=> down # Failing(fails)

(* While nothing was lost, a check is called down after as many judged
   failures in a row as its threshold asks and never twice, and called back
   only after it was called down (tick: fails, newlyDown, recovered).  One
   that a deploy took away in between may be called down again. *)
MailsAreTrue ==
    [][faults' = 0 =>
        /\ \A c \in told' \ told : streak[c] = Threshold(c)
        /\ pc = "mailDown" => run.newlyDown \cap told \subseteq Optional
        /\ pc = "mailBack" => run.recovered \subseteq told]_vars

(* Once mails go out again, a check that keeps failing is in the end recorded
   as told, and one that is back for good no longer is, whatever was lost
   before.  The founder knows the same, if no run, write or send was lost and
   no deploy took the check away (tick; retried next minute). *)
Stays(c, said) == <>[](c \in Enabled(bound) /\ Reading(c, world) = said /\ mailUp)

FounderKnows ==
    \A c \in Checks :
        /\ Stays(c, "bad") => <>[](c \in down /\ (c \in told \/ faults > 0))
        /\ Stays(c, "ok")  => <>[](c \notin down /\ (c \notin told \/ faults > 0 \/ c \in Optional))
=============================================================================
