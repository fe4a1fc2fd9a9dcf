-------------------------- MODULE UptimeMonitorProofs --------------------------
(***************************************************************************)
(* For any checks, thresholds and worlds, and however many runs are killed,  *)
(* writes fail and sends misreport: the monitor's stored error is there      *)
(* exactly while a mail is owed, and its mails are true while nothing is     *)
(* lost.                                                                   *)
(***************************************************************************)
EXTENDS UptimeMonitor, TLAPS

(* What a run in progress knows at each step.  The error of the first mail
   stands for "something failing is not recorded as told"; the second turns it
   into "failing and told differ". *)
RunCompares ==
    LET F == Failing(run.fails)
    IN /\ pc = "mailDown" => /\ run.newlyDown = F \ run.down
                             /\ run.recovered = run.down \ F
                             /\ run.sendError = FALSE
       /\ pc = "mailBack" => /\ run.recovered = run.down \ F
                             /\ run.sendError = TRUE <=> F \ run.down # {}
       /\ pc = "write"    => (run.sendError = TRUE <=> run.down # F)

(* The counts and the list a run works on, those in KV between runs *)
CountsNow == IF pc = "idle" THEN fails ELSE run.fails
DownNow   == IF pc = "idle" THEN down ELSE run.down

Bounded == /\ \A c \in Checks : run.fails[c] <= Threshold(c)
           /\ \A c \in down : fails[c] # NoCount
           /\ \A c \in run.down : run.fails[c] # NoCount

(* While nothing was lost, they are the truth *)
Truthful ==
    faults = 0 => /\ \A c \in Checks : streak[c] = IF CountsNow[c] = NoCount THEN 0 ELSE CountsNow[c]
                  /\ DownNow \subseteq told
                  /\ told \ DownNow \subseteq Optional

Inv == TypeOK /\ ErrorMeansMailOwed /\ RunCompares /\ Bounded /\ Truthful

-----------------------------------------------------------------------------
(* One check counted: a count in range, missing only if the check is not run
   or was missing before; and the streak keeps step with it. *)
LEMMA Counted ==
  ASSUME fails \in Counts, streak \in [Checks -> Nat],
         NEW c \in Checks, NEW w \in Worlds, NEW b \in SUBSET Optional,
         fails[c] <= Threshold(c), streak[c] <= Threshold(c)
  PROVE  /\ Count(fails, c, w, b) \in Nat \cup {NoCount}
         /\ Count(fails, c, w, b) <= Threshold(c)
         /\ Streak(c, w, b) \in Nat /\ Streak(c, w, b) <= Threshold(c)
         /\ Count(fails, c, w, b) = NoCount => c \in Optional \/ fails[c] = NoCount
         /\ streak[c] = (IF fails[c] = NoCount THEN 0 ELSE fails[c])
              => Streak(c, w, b) = (IF Count(fails, c, w, b) = NoCount THEN 0
                                    ELSE Count(fails, c, w, b))
  <1>1. Threshold(c) \in Nat \ {0} /\ Reading(c, w) \in {"ok", "bad", "skip"}
    BY ChecksAssumption DEF ChecksAssumption
  <1>2. fails[c] \in Nat \cup {-1} /\ streak[c] \in Nat
    BY DEF Counts, NoCount
  <1>3. c \notin Enabled(b) => c \in Optional
    BY DEF Enabled
  <1>4. CASE c \notin Enabled(b)
    <2>1. Count(fails, c, w, b) = -1 /\ Streak(c, w, b) = 0
      BY <1>4 DEF Count, Streak, NoCount
    <2> QED BY <2>1, <1>1, <1>3, <1>4, SMT DEF NoCount
  <1>5. CASE c \in Enabled(b) /\ Reading(c, w) = "skip"
    <2>1. Count(fails, c, w, b) = fails[c] /\ Streak(c, w, b) = streak[c]
      BY <1>5 DEF Count, Streak
    <2> QED BY <2>1, <1>1, <1>2, SMT DEF NoCount
  <1>6. CASE c \in Enabled(b) /\ Reading(c, w) = "ok"
    <2>1. Count(fails, c, w, b) = 0 /\ Streak(c, w, b) = 0
      BY <1>6 DEF Count, Streak
    <2> QED BY <2>1, <1>1, SMT DEF NoCount
  <1>7. CASE c \in Enabled(b) /\ Reading(c, w) = "bad"
    <2>1. /\ Count(fails, c, w, b) = Next1(fails, c)
          /\ Streak(c, w, b) = Capped(streak[c] + 1, c)
      BY <1>7 DEF Count, Streak
    <2> QED BY <2>1, <1>1, <1>2, SMT DEF Next1, Capped, NoCount
  <1> QED BY <1>1, <1>4, <1>5, <1>6, <1>7

(* The first state: nothing counted, nobody told. *)
LEMMA InitInv == Init => Inv
  <1> SUFFICES ASSUME Init PROVE Inv
    OBVIOUS
  <1> DEFINE empty == [c \in Checks |-> NoCount]
  <1>1. \A c \in Checks : -1 <= Threshold(c) /\ 0 <= Threshold(c) /\ ~(-1 >= Threshold(c))
    <2> SUFFICES ASSUME NEW c \in Checks
                 PROVE  -1 <= Threshold(c) /\ 0 <= Threshold(c) /\ ~(-1 >= Threshold(c))
      OBVIOUS
    <2>1. Threshold(c) \in Nat \ {0}
      BY ChecksAssumption DEF ChecksAssumption
    <2> QED BY <2>1, SMT
  <1>2. empty \in Counts /\ \A c \in Checks : empty[c] = -1
    BY DEF Counts, NoCount
  <1>3. Failing(empty) = {}
    BY <1>1, <1>2, SMT DEF Failing
  <1>4. Resting \in RunType /\ Resting.fails = empty
    BY <1>2 DEF Resting, RunType
  <1>5. TypeOK
    <2>0. \A c \in Checks : fails[c] = -1 /\ streak[c] = 0
      BY DEF Init, NoCount
    <2>1. \A c \in Checks : fails[c] <= Threshold(c) /\ streak[c] <= Threshold(c)
      BY <1>1, <2>0
    <2>2. faults \in 0..MaxFaults
      BY ChecksAssumption, SMT DEF ChecksAssumption, Init
    <2> QED BY <1>2, <1>4, <2>1, <2>2, Zenon DEF Init, TypeOK
  <1>6. Bounded
    <2>0. \A c \in Checks : run.fails[c] = -1
      BY <1>2, <1>4 DEF Init
    <2>1. \A c \in Checks : run.fails[c] <= Threshold(c)
      BY <1>1, <2>0
    <2> QED BY <2>1 DEF Bounded, Init, Resting
  <1>7. ErrorMeansMailOwed
    BY <1>3 DEF Init, ErrorMeansMailOwed
  <1>8. RunCompares
    BY DEF Init, RunCompares
  <1>9. Truthful
    BY <1>2 DEF Init, Truthful, CountsNow, DownNow, NoCount
  <1> QED BY <1>5, <1>6, <1>7, <1>8, <1>9 DEF Inv

(* A run starts from what KV holds. *)
LEMMA StartKeepsInv ==
  ASSUME Inv, Start
  PROVE  Inv'
  <1>1. PICK w \in Worlds, b \in SUBSET Optional :
          LET f == [c \in Checks |-> Count(fails, c, w, b)]
              d == {c \in down : f[c] # NoCount}
          IN /\ run' = [fails |-> f, down |-> d, newlyDown |-> Failing(f) \ d,
                        recovered |-> d \ Failing(f), sendError |-> FALSE]
             /\ streak' = [c \in Checks |-> Streak(c, w, b)]
             /\ world' = w /\ bound' = b
    BY Zenon DEF Start, NewlyDown
  <1> DEFINE f == [c \in Checks |-> Count(fails, c, w, b)]
             d == {c \in down : f[c] # NoCount}
  <1>2. /\ run'.fails = f /\ run'.down = d /\ run'.newlyDown = Failing(f) \ d
        /\ run'.recovered = d \ Failing(f) /\ run'.sendError = FALSE
    BY <1>1, Zenon
  <1>3. /\ pc = "idle" /\ pc' = "mailDown"
        /\ fails' = fails /\ down' = down /\ alertError' = alertError
        /\ mailUp' = mailUp /\ told' = told /\ faults' = faults
    BY DEF Start, kv
  <1>4. /\ fails \in Counts /\ streak \in [Checks -> Nat] /\ down \subseteq Checks
        /\ \A c \in Checks : fails[c] <= Threshold(c) /\ streak[c] <= Threshold(c)
    BY DEF Inv, TypeOK
  <1>5. \A c \in Checks : /\ f[c] \in Nat \cup {NoCount}
                          /\ f[c] <= Threshold(c)
                          /\ streak'[c] \in Nat /\ streak'[c] <= Threshold(c)
                          /\ f[c] = NoCount => c \in Optional \/ fails[c] = NoCount
                          /\ streak[c] = (IF fails[c] = NoCount THEN 0 ELSE fails[c])
                               => streak'[c] = (IF f[c] = NoCount THEN 0 ELSE f[c])
    <2> SUFFICES ASSUME NEW c \in Checks
                 PROVE  /\ f[c] \in Nat \cup {NoCount}
                        /\ f[c] <= Threshold(c)
                        /\ streak'[c] \in Nat /\ streak'[c] <= Threshold(c)
                        /\ f[c] = NoCount => c \in Optional \/ fails[c] = NoCount
                        /\ streak[c] = (IF fails[c] = NoCount THEN 0 ELSE fails[c])
                             => streak'[c] = (IF f[c] = NoCount THEN 0 ELSE f[c])
      OBVIOUS
    <2>1. f[c] = Count(fails, c, w, b) /\ streak'[c] = Streak(c, w, b)
      BY <1>1
    <2> QED BY <1>4, <2>1, Counted
  <1>6. f \in Counts /\ streak' \in [Checks -> Nat]
    BY <1>1, <1>5 DEF Counts
  <1>7. run' \in RunType
    <2>1. Failing(f) \subseteq Checks
      BY DEF Failing
    <2> HIDE DEF f, d
    <2>2. d \subseteq Checks
      BY <1>4 DEF d
    <2> QED BY <1>1, <1>6, <2>1, <2>2 DEF RunType, f, d
  <1> HIDE DEF f
  <1>8. TypeOK'
    BY <1>1, <1>3, <1>4, <1>5, <1>6, <1>7, Zenon DEF Inv, TypeOK
  <1>9. ErrorMeansMailOwed'
    BY <1>3 DEF Inv, ErrorMeansMailOwed, Failing
  <1>10. RunCompares'
    <2>1. Failing(run.fails)' = Failing(f)
      BY <1>2 DEF Failing
    <2> QED BY <1>2, <1>3, <2>1 DEF RunCompares
  <1>11. DownNow' = d /\ CountsNow' = f /\ DownNow = down /\ CountsNow = fails
    BY <1>2, <1>3 DEF DownNow, CountsNow
  <1>12. Bounded'
    BY <1>2, <1>3, <1>5 DEF Inv, Bounded
  <1>13. Truthful'
    <2> SUFFICES ASSUME faults = 0
                 PROVE  /\ \A c \in Checks : streak'[c] = IF f[c] = NoCount THEN 0 ELSE f[c]
                        /\ d \subseteq told /\ told \ d \subseteq Optional
      BY <1>3, <1>11 DEF Truthful
    <2>1. /\ \A c \in Checks : streak[c] = IF fails[c] = NoCount THEN 0 ELSE fails[c]
          /\ down \subseteq told /\ told \ down \subseteq Optional
          /\ \A c \in down : fails[c] # NoCount
      BY <1>11 DEF Inv, Truthful, Bounded
    <2>2. \A c \in Checks : streak'[c] = IF f[c] = NoCount THEN 0 ELSE f[c]
      BY <1>5, <2>1
    <2>3. told \ d \subseteq Optional
      BY <1>4, <1>5, <2>1
    <2> QED BY <2>1, <2>2, <2>3
  <1> QED BY <1>8, <1>9, <1>10, <1>12, <1>13 DEF Inv

(* A mail touches the run, the founder and the faults, and nothing else. *)
LEMMA MailDownKeepsInv ==
  ASSUME Inv, MailDown
  PROVE  Inv'
  <1> DEFINE F == Failing(run.fails)
  <1>1. /\ pc = "mailDown" /\ pc' = "mailBack"
        /\ fails' = fails /\ down' = down /\ alertError' = alertError
        /\ world' = world /\ bound' = bound /\ mailUp' = mailUp /\ streak' = streak
    BY DEF MailDown, kv, found
  <1>2. run \in RunType /\ told \subseteq Checks /\ faults \in 0..MaxFaults
    BY DEF Inv, TypeOK
  <1>3. /\ run.newlyDown = F \ run.down /\ run.recovered = run.down \ F
        /\ run.sendError = FALSE
    BY <1>1 DEF Inv, RunCompares
  <1>4. /\ run' \in RunType
        /\ run'.fails = run.fails /\ run'.recovered = run.recovered
        /\ \/ /\ run'.down = run.down \cup (F \ run.down) /\ run'.sendError = FALSE
              /\ told' = told \cup (F \ run.down) /\ faults' = faults
           \/ /\ run'.down = run.down /\ run'.sendError = TRUE /\ F \ run.down # {}
              /\ \/ told' = told /\ faults' = faults
                 \/ told' = told \cup (F \ run.down) /\ faults < MaxFaults /\ faults' = faults + 1
    <2> HIDE DEF F
    <2>1. CASE run.newlyDown = {} /\ UNCHANGED <<run, told, faults>>
      BY <1>2, <1>3, <2>1
    <2>2. CASE /\ run.newlyDown # {} /\ Delivered
               /\ run'  = [run EXCEPT !.down = @ \cup run.newlyDown]
               /\ told' = told \cup run.newlyDown
      BY <1>2, <1>3, <2>2 DEF RunType, Delivered
    <2>3. CASE /\ run.newlyDown # {}
               /\ \/ Undelivered /\ told' = told
                  \/ Misreported /\ told' = told \cup run.newlyDown
               /\ run' = NotSent(run)
      BY <1>2, <1>3, <2>3 DEF RunType, Undelivered, Misreported, NotSent
    <2> QED BY <2>1, <2>2, <2>3, Zenon DEF MailDown
  <1>5. F \subseteq Checks
    BY DEF Failing
  <1>6. TypeOK'
    <2>1. told' \subseteq Checks
      BY <1>2, <1>4, <1>5
    <2>2. faults' \in 0..MaxFaults
      BY <1>2, <1>4, ChecksAssumption, SMT DEF ChecksAssumption
    <2> QED BY <1>1, <1>4, <2>1, <2>2, Zenon DEF Inv, TypeOK
  <1>7. ErrorMeansMailOwed'
    BY <1>1 DEF Inv, ErrorMeansMailOwed, Failing
  <1>8. Failing(run.fails)' = F
    BY <1>4 DEF Failing
  <1>9. RunCompares'
    <2> HIDE DEF F
    <2> QED BY <1>1, <1>3, <1>4, <1>8 DEF RunCompares
  <1>10. /\ DownNow = run.down /\ DownNow' = run'.down
         /\ CountsNow = run.fails /\ CountsNow' = run.fails
    BY <1>1, <1>4 DEF DownNow, CountsNow
  <1>11. Bounded'
    <2>1. \A c \in F : run.fails[c] # NoCount
      <3> SUFFICES ASSUME NEW c \in F PROVE run.fails[c] # NoCount
        OBVIOUS
      <3>1. c \in Checks /\ run.fails[c] >= Threshold(c)
        BY DEF Failing
      <3>2. Threshold(c) \in Nat \ {0}
        BY <3>1, ChecksAssumption DEF ChecksAssumption
      <3> QED BY <3>1, <3>2, SMT DEF NoCount
    <2> HIDE DEF F
    <2> QED BY <1>1, <1>4, <2>1 DEF Inv, Bounded
  <1>12. Truthful'
    <2> HIDE DEF F
    <2> SUFFICES ASSUME faults' = 0
                 PROVE  /\ \A c \in Checks : streak'[c] = IF CountsNow'[c] = NoCount THEN 0 ELSE CountsNow'[c]
                        /\ DownNow' \subseteq told' /\ told' \ DownNow' \subseteq Optional
      BY DEF Truthful
    <2>1. faults = 0 /\ faults' = faults
      BY <1>2, <1>4, SMT
    <2>2. /\ \A c \in Checks : streak[c] = IF CountsNow[c] = NoCount THEN 0 ELSE CountsNow[c]
          /\ DownNow \subseteq told /\ told \ DownNow \subseteq Optional
      BY <2>1 DEF Inv, Truthful
    <2>3. \/ run'.down = run.down \cup (F \ run.down) /\ told' = told \cup (F \ run.down)
          \/ run'.down = run.down /\ told' = told
      <3>1. faults' # faults + 1
        BY <1>2, <2>1, SMT
      <3> QED BY <1>4, <3>1
    <2> QED BY <1>1, <1>10, <2>2, <2>3
  <1> QED BY <1>6, <1>7, <1>9, <1>11, <1>12 DEF Inv

LEMMA MailBackKeepsInv ==
  ASSUME Inv, MailBack
  PROVE  Inv'
  <1> DEFINE F == Failing(run.fails)
  <1>1. /\ pc = "mailBack" /\ pc' = "write"
        /\ fails' = fails /\ down' = down /\ alertError' = alertError
        /\ world' = world /\ bound' = bound /\ mailUp' = mailUp /\ streak' = streak
    BY DEF MailBack, kv, found
  <1>2. run \in RunType /\ told \subseteq Checks /\ faults \in 0..MaxFaults
    BY DEF Inv, TypeOK
  <1>3. /\ run.recovered = run.down \ F
        /\ run.sendError = TRUE <=> F \ run.down # {}
    BY <1>1 DEF Inv, RunCompares
  <1>4. /\ run' \in RunType /\ run'.fails = run.fails
        /\ \/ /\ run'.down = run.down \ (run.down \ F) /\ run'.sendError = run.sendError
              /\ told' = told \ (run.down \ F) /\ faults' = faults
           \/ /\ run'.down = run.down /\ run'.sendError = TRUE /\ run.down \ F # {}
              /\ \/ told' = told /\ faults' = faults
                 \/ told' = told \ (run.down \ F) /\ faults < MaxFaults /\ faults' = faults + 1
    <2> HIDE DEF F
    <2>1. CASE run.recovered = {} /\ UNCHANGED <<run, told, faults>>
      BY <1>2, <1>3, <2>1
    <2>2. CASE /\ run.recovered # {} /\ Delivered
               /\ run'  = [run EXCEPT !.down = @ \ run.recovered]
               /\ told' = told \ run.recovered
      BY <1>2, <1>3, <2>2 DEF RunType, Delivered
    <2>3. CASE /\ run.recovered # {}
               /\ \/ Undelivered /\ told' = told
                  \/ Misreported /\ told' = told \ run.recovered
               /\ run' = NotSent(run)
      BY <1>2, <1>3, <2>3 DEF RunType, Undelivered, Misreported, NotSent
    <2> QED BY <2>1, <2>2, <2>3, Zenon DEF MailBack
  <1>5. run.sendError \in BOOLEAN
    BY <1>2 DEF RunType
  <1>6. TypeOK'
    <2>1. told' \subseteq Checks
      BY <1>2, <1>4
    <2>2. faults' \in 0..MaxFaults
      BY <1>2, <1>4, ChecksAssumption, SMT DEF ChecksAssumption
    <2> QED BY <1>1, <1>4, <2>1, <2>2, Zenon DEF Inv, TypeOK
  <1>7. ErrorMeansMailOwed'
    BY <1>1 DEF Inv, ErrorMeansMailOwed, Failing
  <1>8. Failing(run.fails)' = F
    BY <1>4 DEF Failing
  <1>9. RunCompares'
    <2> HIDE DEF F
    <2>1. run'.sendError = TRUE <=> run'.down # F
      BY <1>3, <1>4, <1>5
    <2> QED BY <1>1, <1>8, <2>1 DEF RunCompares
  <1>10. /\ DownNow = run.down /\ DownNow' = run'.down
         /\ CountsNow = run.fails /\ CountsNow' = run.fails
    BY <1>1, <1>4 DEF DownNow, CountsNow
  <1>11. Bounded'
    <2> HIDE DEF F
    <2> QED BY <1>1, <1>4 DEF Inv, Bounded
  <1>12. Truthful'
    <2> HIDE DEF F
    <2> SUFFICES ASSUME faults' = 0
                 PROVE  /\ \A c \in Checks : streak'[c] = IF CountsNow'[c] = NoCount THEN 0 ELSE CountsNow'[c]
                        /\ DownNow' \subseteq told' /\ told' \ DownNow' \subseteq Optional
      BY DEF Truthful
    <2>1. faults = 0 /\ faults' = faults
      BY <1>2, <1>4, SMT
    <2>2. /\ \A c \in Checks : streak[c] = IF CountsNow[c] = NoCount THEN 0 ELSE CountsNow[c]
          /\ DownNow \subseteq told /\ told \ DownNow \subseteq Optional
      BY <2>1 DEF Inv, Truthful
    <2>3. \/ run'.down = run.down \ (run.down \ F) /\ told' = told \ (run.down \ F)
          \/ run'.down = run.down /\ told' = told
      <3>1. faults' # faults + 1
        BY <1>2, <2>1, SMT
      <3> QED BY <1>4, <3>1
    <2> QED BY <1>1, <1>10, <2>2, <2>3
  <1> QED BY <1>6, <1>7, <1>9, <1>11, <1>12 DEF Inv

(* The end of a run, with or without its write: KV is written whole or not at
   all, so it never holds one run's list beside another's counts. *)
LEMMA EndKeepsInv ==
  ASSUME Inv, Write \/ Killed
  PROVE  Inv'
  <1>1. /\ pc' = "idle" /\ run' = Resting
        /\ world' = world /\ bound' = bound /\ mailUp' = mailUp /\ streak' = streak
        /\ told' = told
        /\ \/ /\ pc = "write" /\ fails' = run.fails /\ down' = run.down
              /\ alertError' = run.sendError /\ faults' = faults
           \/ /\ fails' = fails /\ down' = down /\ alertError' = alertError
              /\ faults < MaxFaults /\ faults' = faults + 1
    BY DEF Write, Killed, kv, found
  <1>2. run \in RunType /\ faults \in 0..MaxFaults
    BY DEF Inv, TypeOK
  <1>3. /\ Resting \in RunType
        /\ \A c \in Checks : Resting.fails[c] <= Threshold(c)
    <2>1. [c \in Checks |-> NoCount] \in Counts
      BY DEF Counts
    <2>2. \A c \in Checks : Resting.fails[c] = NoCount
      BY DEF Resting
    <2>3. \A c \in Checks : NoCount <= Threshold(c)
      <3> SUFFICES ASSUME NEW c \in Checks PROVE NoCount <= Threshold(c)
        OBVIOUS
      <3>1. Threshold(c) \in Nat \ {0}
        BY ChecksAssumption DEF ChecksAssumption
      <3> QED BY <3>1, SMT DEF NoCount
    <2> QED BY <2>1, <2>2, <2>3 DEF Resting, RunType
  <1>4. TypeOK'
    <2>1. faults' \in 0..MaxFaults
      BY <1>1, <1>2, ChecksAssumption, SMT DEF ChecksAssumption
    <2>2. /\ fails' \in Counts /\ down' \subseteq Checks /\ alertError' \in BOOLEAN
          /\ \A c \in Checks : fails'[c] <= Threshold(c)
      BY <1>1, <1>2 DEF Inv, TypeOK, RunType, Bounded
    <2> QED BY <1>1, <1>3, <2>1, <2>2, Zenon DEF Inv, TypeOK
  <1>5. ErrorMeansMailOwed'
    <2>1. CASE pc = "write" /\ fails' = run.fails /\ down' = run.down /\ alertError' = run.sendError
      <3>1. run.sendError = TRUE <=> run.down # Failing(run.fails)
        BY <2>1 DEF Inv, RunCompares
      <3>2. Failing(fails)' = Failing(run.fails)
        BY <2>1 DEF Failing
      <3>3. run.sendError \in BOOLEAN
        BY <1>2 DEF RunType
      <3> QED BY <2>1, <3>1, <3>2, <3>3 DEF ErrorMeansMailOwed
    <2>2. CASE fails' = fails /\ down' = down /\ alertError' = alertError
      BY <2>2 DEF Inv, ErrorMeansMailOwed, Failing
    <2> QED BY <1>1, <2>1, <2>2
  <1>6. RunCompares'
    BY <1>1 DEF RunCompares
  <1>7. Bounded'
    <2>1. Resting.down = {}
      BY DEF Resting
    <2> QED BY <1>1, <1>3, <2>1 DEF Inv, Bounded
  <1>8. Truthful'
    <2>1. DownNow' = down' /\ CountsNow' = fails'
      BY <1>1 DEF DownNow, CountsNow
    <2>2. CASE pc = "write" /\ fails' = run.fails /\ down' = run.down /\ faults' = faults
      <3>1. DownNow = run.down /\ CountsNow = run.fails
        BY <2>2 DEF DownNow, CountsNow
      <3> QED BY <1>1, <2>1, <2>2, <3>1 DEF Inv, Truthful
    <2>3. CASE faults' = faults + 1
      <3>1. faults' # 0
        BY <1>2, <2>3, SMT
      <3> QED BY <3>1 DEF Truthful
    <2> QED BY <1>1, <2>2, <2>3
  <1> QED BY <1>4, <1>5, <1>6, <1>7, <1>8 DEF Inv

-----------------------------------------------------------------------------
(* Every step keeps the invariant. *)
LEMMA StepKeepsInv == Inv /\ [Next]_vars => Inv'
  <1> SUFFICES ASSUME Inv, [Next]_vars PROVE Inv'
    OBVIOUS
  <1>1. CASE Start
    BY <1>1, StartKeepsInv
  <1>2. CASE MailDown
    BY <1>2, MailDownKeepsInv
  <1>3. CASE MailBack
    BY <1>3, MailBackKeepsInv
  <1>4. CASE Write \/ Killed
    BY <1>4, EndKeepsInv
  <1>5. CASE MailChanges
    <2>1. /\ fails' = fails /\ down' = down /\ alertError' = alertError /\ pc' = pc /\ run' = run
          /\ world' = world /\ bound' = bound /\ told' = told /\ streak' = streak /\ faults' = faults
      BY <1>5 DEF MailChanges, kv, found
    <2>2. mailUp' \in BOOLEAN
      BY <1>5, Zenon DEF MailChanges
    <2>3. TypeOK'
      BY <2>1, <2>2, Zenon DEF Inv, TypeOK
    <2> QED BY <2>1, <2>3, Zenon DEF Inv, ErrorMeansMailOwed, RunCompares, Bounded, Truthful,
                                     Failing, CountsNow, DownNow
  <1>6. CASE UNCHANGED vars
    <2>1. /\ fails' = fails /\ down' = down /\ alertError' = alertError /\ pc' = pc /\ run' = run
          /\ world' = world /\ bound' = bound /\ told' = told /\ streak' = streak /\ faults' = faults
          /\ mailUp' = mailUp
      BY <1>6 DEF vars, kv, found
    <2> QED BY <2>1, Zenon DEF Inv, TypeOK, ErrorMeansMailOwed, RunCompares, Bounded, Truthful,
                               Failing, CountsNow, DownNow
  <1> QED BY <1>1, <1>2, <1>3, <1>4, <1>5, <1>6 DEF Next, Tick

(* The invariant, whatever is lost. *)
THEOREM Invariant == Spec => []Inv
  BY InitInv, StepKeepsInv, PTL DEF Spec

(* Types: a count never passes its threshold (tick, Math.min). *)
THEOREM TypeCorrect == Spec => []TypeOK
  <1>1. Inv => TypeOK
    BY DEF Inv
  <1> QED BY <1>1, Invariant, PTL

(* The DNS canary is red exactly while a mail is owed (tick, alertError). *)
THEOREM ErrorIsOwed == Spec => []ErrorMeansMailOwed
  <1>1. Inv => ErrorMeansMailOwed
    BY DEF Inv
  <1> QED BY <1>1, Invariant, PTL

(* While nothing is lost, a mail says what the last readings said, and says it
   once (tick, newlyDown and recovered). *)
THEOREM TrueMails == Spec => MailsAreTrue
  <1>1. Inv /\ [Next]_vars =>
          [faults' = 0 =>
             /\ \A c \in told' \ told : streak[c] = Threshold(c)
             /\ pc = "mailDown" => run.newlyDown \cap told \subseteq Optional
             /\ pc = "mailBack" => run.recovered \subseteq told]_vars
    <2> SUFFICES ASSUME Inv, Next, faults' = 0
                 PROVE  /\ \A c \in told' \ told : streak[c] = Threshold(c)
                        /\ pc = "mailDown" => run.newlyDown \cap told \subseteq Optional
                        /\ pc = "mailBack" => run.recovered \subseteq told
      OBVIOUS
    <2>1. faults = 0
      <3>1. faults \in Nat
        BY ChecksAssumption, SMT DEF ChecksAssumption, Inv, TypeOK
      <3>2. faults' = faults \/ faults' = faults + 1
        BY DEF Next, Tick, Start, MailDown, MailBack, Write, Killed, MailChanges,
               Delivered, Undelivered, Misreported
      <3> QED BY <3>1, <3>2, SMT
    <2>2. /\ \A c \in Checks : streak[c] = IF CountsNow[c] = NoCount THEN 0 ELSE CountsNow[c]
          /\ DownNow \subseteq told /\ told \ DownNow \subseteq Optional
      BY <2>1 DEF Inv, Truthful
    <2>3. pc = "mailDown" => run.newlyDown \cap told \subseteq Optional
      BY <2>2 DEF Inv, RunCompares, DownNow
    <2>4. pc = "mailBack" => run.recovered \subseteq told
      BY <2>2 DEF Inv, RunCompares, DownNow
    <2>5. told' \subseteq told \/ (pc = "mailDown" /\ told' = told \cup run.newlyDown)
      BY DEF Next, Tick, Start, MailDown, MailBack, Write, Killed, MailChanges
    <2>6. ASSUME pc = "mailDown", NEW c \in run.newlyDown
          PROVE  streak[c] = Threshold(c)
      <3>1. c \in Failing(run.fails) /\ CountsNow = run.fails
        BY <2>6 DEF Inv, RunCompares, CountsNow
      <3>2. c \in Checks /\ run.fails[c] >= Threshold(c) /\ run.fails[c] <= Threshold(c)
        BY <3>1 DEF Failing, Inv, Bounded
      <3>3. Threshold(c) \in Nat \ {0} /\ run.fails[c] \in Nat \cup {-1}
        BY <3>2, ChecksAssumption DEF ChecksAssumption, Inv, TypeOK, RunType, Counts, NoCount
      <3>4. run.fails[c] = Threshold(c) /\ run.fails[c] # NoCount
        BY <3>2, <3>3, SMT DEF NoCount
      <3> QED BY <2>2, <3>1, <3>2, <3>4
    <2> QED BY <2>3, <2>4, <2>5, <2>6
  <1> QED BY <1>1, Invariant, PTL DEF Spec, MailsAreTrue
=============================================================================
