---------------------------- MODULE SiteCheckProofs ----------------------------
(***************************************************************************)
(* For any number of hosts, tabs, link checks and counts, and any offline    *)
(* scorer: danger is blocked, the family hears of nothing unconfirmed, a     *)
(* block counts once, and link checks wait out a pause.                     *)
(***************************************************************************)
EXTENDS SiteCheck, FiniteSetTheorems, TLAPS

(* Whatever is kept as the API's word, in memory or in storage, it has said *)
Sources ==
    /\ \A h \in Hosts : memory[h] = Api("dangerous") => h \in flagged
    /\ \A h \in Hosts : mirror[h] = "dangerous" => h \in flagged

(* A running worker knows the pause, a stopped one will find it in storage *)
Pauses == pauseKept = limited /\ (up => paused = limited)

(* An allowance, wherever it was read to, is a choice the person made *)
Choices(a, ch) == \A t \in Tabs : a[t] # None => <<t, a[t]>> \in ch

(* A block page is about a host *)
Screens == \A t \in Tabs : tab[t].shows = "block" => tab[t].host \in Hosts

(* What a job w in slot j may carry, given the choices ch and the blocks shown sh *)
Fits(j, w, ch, sh) ==
    /\ w.pc # "idle" => w.host \in Hosts
    /\ w.pc = "block" => w.got.level = "dangerous"
    /\ j \in Tabs /\ w.pc = "left" => <<j, w.host>> \in ch
    /\ j \in Tabs /\ w.pc \in {"proceed", "proceed2"} => <<j, w.host>> \in ch
    /\ j \in Blocks /\ w.pc # "idle" => w.host \in sh
    /\ Choices(w.copy, ch)

Works == \A j \in Jobs : Fits(j, jobs[j], chosen, shown)

Inv == /\ TypeOK /\ Sources /\ Pauses /\ Choices(bypass, chosen) /\ Screens /\ Works
       /\ FamilyHearsConfirmed

LEMMA InitInv == Init => Inv
<1> SUFFICES ASSUME Init PROVE Inv
  OBVIOUS
<1>1. TypeOK
  <2>1. Idle \in JobType
    BY DEF Idle, JobType, Steps
  <2>2. jobs \in [Jobs -> JobType]
    BY <2>1 DEF Init
  <2>3. visits \in 0..MaxVisits /\ links \in 0..MaxLinks /\ lapses \in 0..MaxLapses
        /\ faults \in 0..MaxFaults
    BY BoundsAssumption, SMT DEF Init, BoundsAssumption
  <2>4. /\ memory \in [Hosts -> Verdicts \cup {NoVerdict}]
        /\ mirror \in [Hosts -> {"dangerous", "safe", None}]
        /\ bypass \in [Tabs -> Hosts \cup {None}]
    BY DEF Init
  <2>5. tab \in [Tabs -> [host : Hosts \cup {None}, shows : {"nothing", "page", "block"}]]
    BY DEF Init, Blank
  <2>6. blocked \in Nat
    BY SMT DEF Init
  <2> QED
    BY <2>2, <2>3, <2>4, <2>5, <2>6, Zenon DEF Init, TypeOK
<1>2. Works
  BY DEF Init, Works, Fits, Idle, Choices
<1>3. Sources
  BY DEF Init, Sources, NoVerdict, Api, None
<1> QED
  BY <1>1, <1>2, <1>3 DEF Init, Inv, Pauses, Choices, Screens, Blank, FamilyHearsConfirmed

-----------------------------------------------------------------------------
(* What a step may do to the jobs: choices and blocks shown only grow, and a
   job is the one it was or fits what there is now *)
Grows == chosen \subseteq chosen' /\ shown \subseteq shown'

LEMMA WorksOn ==
  ASSUME Works, Grows,
         \A j \in Jobs : jobs'[j] = jobs[j] \/ Fits(j, jobs'[j], chosen', shown')
  PROVE  Works'
<1> SUFFICES ASSUME NEW j \in Jobs PROVE Fits(j, jobs'[j], chosen', shown')
  BY DEF Works
<1>1. Fits(j, jobs[j], chosen', shown')
  BY DEF Works, Fits, Choices, Grows
<1> QED
  BY <1>1

(* The same for one job replaced by w *)
LEMMA OneJob ==
  ASSUME TypeOK, Works, Grows, NEW x \in Jobs, NEW w \in JobType,
         jobs' = [jobs EXCEPT ![x] = w], Fits(x, w, chosen', shown')
  PROVE  jobs' \in [Jobs -> JobType] /\ Works'
<1>1. jobs \in [Jobs -> JobType]
  BY DEF TypeOK
<1>2. jobs' \in [Jobs -> JobType]
  BY <1>1
<1>3. \A j \in Jobs : jobs'[j] = jobs[j] \/ Fits(j, jobs'[j], chosen', shown')
  BY <1>1
<1> QED
  BY <1>2, <1>3, WorksOn

(* The records a step leaves in a slot *)
LEMMA IdleFits == ASSUME NEW j, NEW ch, NEW sh PROVE Idle \in JobType /\ Fits(j, Idle, ch, sh)
  BY DEF Idle, JobType, Steps, Fits, Choices

LEMMA NewJob ==
  ASSUME NEW step \in Steps, NEW h \in Hosts
  PROVE  [Idle EXCEPT !.pc = step, !.host = h] \in JobType
  BY DEF Idle, JobType

LEMMA Moved ==
  ASSUME NEW w \in JobType, NEW step \in Steps
  PROVE  [w EXCEPT !.pc = step] \in JobType
  BY DEF JobType

LEMMA MovedGot ==
  ASSUME NEW w \in JobType, NEW step \in Steps, NEW v \in Verdicts \cup {NoVerdict}
  PROVE  [w EXCEPT !.pc = step, !.got = v] \in JobType
  BY DEF JobType

-----------------------------------------------------------------------------
(* Every step of a job leaves records that fit *)
JobsKept == jobs \in [Jobs -> JobType] /\ Works

LEMMA PersonKeepsJobs == ASSUME Inv, Person PROVE JobsKept'
<1> USE DEF cache, pause, tally, counts, history
<1>0. TypeOK /\ Works
  BY DEF Inv
<1>1. ASSUME NEW t \in Tabs, NEW h \in Hosts, Visit(t, h) PROVE JobsKept'
  <2> DEFINE w == [Idle EXCEPT !.pc = "check", !.host = h]
  <2>1. w \in JobType
    BY NewJob DEF Steps
  <2>2. Fits(t, w, chosen', shown')
    BY SlotsAssumption DEF Fits, Idle, Choices, SlotsAssumption
  <2>3. jobs' = [jobs EXCEPT ![t] = w] /\ Grows
    BY <1>1 DEF Visit, Open, Grows
  <2> QED
    BY <1>0, <2>1, <2>2, <2>3, OneJob DEF JobsKept, Jobs
<1>2. ASSUME NEW t \in Tabs, Leave(t) PROVE JobsKept'
  BY <1>0, <1>2 DEF Leave, JobsKept, TypeOK, Works
<1>3. ASSUME NEW l \in Links, NEW h \in Hosts, CheckLink(l, h) PROVE JobsKept'
  <2> DEFINE w == [Idle EXCEPT !.pc = "check", !.host = h]
  <2>1. w \in JobType
    BY NewJob DEF Steps
  <2>2. Fits(l, w, chosen', shown')
    BY SlotsAssumption DEF Fits, Idle, Choices, SlotsAssumption
  <2>3. jobs' = [jobs EXCEPT ![l] = w] /\ Grows
    BY <1>3 DEF CheckLink, Grows
  <2> QED
    BY <1>0, <2>1, <2>2, <2>3, OneJob DEF JobsKept, Jobs
<1>4. ASSUME NEW t \in Tabs, ChooseOpen(t) PROVE JobsKept'
  <2> DEFINE w == [Idle EXCEPT !.pc = "proceed", !.host = tab[t].host]
  <2>0. tab[t].host \in Hosts
    BY <1>4 DEF Inv, Screens, ChooseOpen
  <2>1. w \in JobType
    BY <2>0, NewJob DEF Steps
  <2>2. <<t, tab[t].host>> \in chosen'
    BY <1>4 DEF ChooseOpen
  <2>3. Fits(t, w, chosen', shown')
    BY <2>0, <2>2, SlotsAssumption DEF Fits, Idle, Choices, SlotsAssumption
  <2>4. jobs' = [jobs EXCEPT ![t] = w] /\ Grows
    BY <1>4 DEF ChooseOpen, Grows
  <2> QED
    BY <1>0, <2>1, <2>3, <2>4, OneJob DEF JobsKept, Jobs
<1> QED
  BY <1>1, <1>2, <1>3, <1>4 DEF Person

(* A check that goes on, and one that has its verdict *)
LEMMA GoneOn ==
  ASSUME TypeOK, Works, Grows, NEW j \in Jobs, jobs[j].pc # "idle",
         NEW step \in {"queued", "number", "answer"}, jobs' = [jobs EXCEPT ![j].pc = step]
  PROVE  JobsKept'
<1> DEFINE w == [jobs[j] EXCEPT !.pc = step]
<1>1. jobs[j] \in JobType /\ Fits(j, jobs[j], chosen, shown) /\ jobs' = [jobs EXCEPT ![j] = w]
  BY DEF TypeOK, Works
<1>2. w \in JobType
  BY <1>1, Moved DEF Steps
<1>3. w.pc = step /\ w.host = jobs[j].host /\ w.copy = jobs[j].copy
  BY <1>1 DEF JobType
<1>4. Fits(j, w, chosen', shown')
  <2> HIDE DEF w
  <2> QED
    BY <1>1, <1>3 DEF Fits, Choices, Grows
<1> QED
  BY <1>1, <1>2, <1>4, OneJob DEF JobsKept

LEMMA VerdictKeepsJobs ==
  ASSUME TypeOK, Works, Grows, NEW j \in Jobs, jobs[j].pc # "idle",
         NEW v \in Verdicts \cup {NoVerdict},
         jobs' = [jobs EXCEPT ![j].pc = "stats", ![j].got = v]
  PROVE  JobsKept'
<1> DEFINE w == [jobs[j] EXCEPT !.pc = "stats", !.got = v]
<1>1. jobs[j] \in JobType /\ Fits(j, jobs[j], chosen, shown) /\ jobs' = [jobs EXCEPT ![j] = w]
  BY DEF TypeOK, Works
<1>2. w \in JobType
  BY <1>1, MovedGot DEF Steps
<1>3. w.pc = "stats" /\ w.host = jobs[j].host /\ w.copy = jobs[j].copy
  BY <1>1 DEF JobType
<1>4. Fits(j, w, chosen', shown')
  <2> HIDE DEF w
  <2> QED
    BY <1>1, <1>3 DEF Fits, Choices, Grows
<1> QED
  BY <1>1, <1>2, <1>4, OneJob DEF JobsKept

LEMMA CheckKeepsJobs == ASSUME Inv, NEW j \in Checks, Check(j) PROVE JobsKept'
<1> USE DEF cache, pause, tally, counts, history
<1> DEFINE h    == jobs[j].host
           kept == Hydrated(h)
<1>0. TypeOK /\ Works /\ j \in Jobs /\ jobs[j] \in JobType /\ Fits(j, jobs[j], chosen, shown)
  BY DEF Inv, TypeOK, Jobs, Checks, Works
<1>1. h \in Hosts
  BY <1>0 DEF Fits, Check, At
<1>2. kept[h] \in Verdicts \cup {NoVerdict}
  BY <1>0, <1>1 DEF TypeOK, Hydrated, Api, Verdicts
<1>3. chosen' = chosen /\ shown' = shown /\ jobs[j].pc = "check" /\ Grows
  BY DEF Check, At, Grows
<1>4. CASE jobs' = [jobs EXCEPT ![j].pc = "stats", ![j].got = kept[h]]
  BY <1>0, <1>2, <1>3, <1>4, VerdictKeepsJobs
<1>5. ASSUME NEW step \in {"queued", "number"}, Goto(j, step) PROVE JobsKept'
  BY <1>0, <1>3, <1>5, GoneOn DEF Goto
<1> QED
  BY <1>4, <1>5 DEF Check

(* A link that waits, or goes on to ask, and a request that is sent *)
LEMMA AskingKeepsJobs ==
  ASSUME Inv, NEW j \in Checks, (j \in Links /\ Lookup(j)) \/ Send(j) PROVE JobsKept'
<1> USE DEF cache, pause, tally, counts, history
<1>0. TypeOK /\ Works /\ j \in Jobs
  BY DEF Inv, Jobs, Checks
<1>1. chosen' = chosen /\ shown' = shown /\ jobs[j].pc \in {"queued", "number"} /\ Grows
  BY DEF Lookup, Send, At, Grows
<1>2. CASE jobs' = [jobs EXCEPT ![j].pc = "stats", ![j].got = Local(jobs[j].host)]
  <2>1. Local(jobs[j].host) \in Verdicts
    BY DEF Local, Level, Verdicts
  <2> QED
    BY <1>0, <1>1, <1>2, <2>1, VerdictKeepsJobs
<1>3. ASSUME NEW step \in {"number", "answer"}, Goto(j, step) PROVE JobsKept'
  BY <1>0, <1>1, <1>3, GoneOn DEF Goto
<1> QED
  BY <1>2, <1>3 DEF Lookup, Send

LEMMA AnswerKeepsJobs ==
  ASSUME Inv, NEW j \in Checks, Unanswered(j) \/ \E l \in {"dangerous", "safe"} : Answered(j, l)
  PROVE  JobsKept'
<1> USE DEF cache, pause, tally, counts, history
<1>0. TypeOK /\ Works /\ j \in Jobs /\ jobs[j] \in JobType
  BY DEF Inv, TypeOK, Jobs, Checks
<1>1. chosen' = chosen /\ shown' = shown /\ faults' = faults /\ jobs[j].pc = "answer" /\ Grows
  BY DEF Answered, Unanswered, At, Grows
<1>2. ASSUME NEW v \in Verdicts, jobs' = [jobs EXCEPT ![j].pc = "stats", ![j].got = v] PROVE JobsKept'
  BY <1>0, <1>1, <1>2, VerdictKeepsJobs
<1>3. Local(jobs[j].host) \in Verdicts /\ \A l \in {"dangerous", "safe"} : Api(l) \in Verdicts
  BY DEF Local, Level, Api, Verdicts
<1> QED
  BY <1>2, <1>3 DEF Answered, Unanswered

(* Steps that move a job and read or write the stats *)
LEMMA TallyKeepsJobs ==
  ASSUME Inv, NEW j \in Jobs, NEW step \in Steps \ {"block", "left", "proceed", "proceed2"},
         NEW n \in Nat, Grows, chosen' = chosen, shown' = shown, faults' = faults,
         jobs[j].pc # "idle", jobs' = [jobs EXCEPT ![j] = [jobs[j] EXCEPT !.pc = step, !.read = n]]
  PROVE  JobsKept'
<1> DEFINE w == [jobs[j] EXCEPT !.pc = step, !.read = n]
<1>0. TypeOK /\ Works /\ jobs[j] \in JobType /\ Fits(j, jobs[j], chosen, shown)
  BY DEF Inv, TypeOK, Works
<1>1. w \in JobType
  BY <1>0 DEF JobType
<1>2. w.pc = step /\ w.host = jobs[j].host /\ w.got = jobs[j].got
      /\ w.copy = jobs[j].copy
  BY <1>0 DEF JobType
<1>3. Fits(j, w, chosen', shown')
  <2> HIDE DEF w
  <2> QED
    BY <1>0, <1>2 DEF Fits, Choices
<1> QED
  BY <1>0, <1>1, <1>3, OneJob DEF JobsKept

(* and those that end one *)
LEMMA EndKeepsJobs ==
  ASSUME Inv, NEW j \in Jobs, Grows, jobs' = [jobs EXCEPT ![j] = Idle]
  PROVE  JobsKept'
  BY IdleFits, OneJob DEF Inv, JobsKept

LEMMA StatsKeepJobs ==
  ASSUME Inv, NEW j \in Checks, StatsRead(j) \/ StatsWritten(j) PROVE JobsKept'
<1> USE DEF cache, pause, tally, counts, history
<1>0. TypeOK /\ Works /\ j \in Jobs /\ jobs[j] \in JobType /\ Fits(j, jobs[j], chosen, shown)
  BY DEF Inv, TypeOK, Jobs, Checks, Works
<1>1. chosen' = chosen /\ shown' = shown /\ faults' = faults /\ Grows
  BY DEF StatsRead, StatsWritten, Grows
<1>2. CASE StatsRead(j)
  <2>1. jobs' = [jobs EXCEPT ![j] = [jobs[j] EXCEPT !.pc = "stats2", !.read = blocked]]
    BY <1>0, <1>2 DEF StatsRead, TypeOK
  <2>2. jobs[j].pc = "stats" /\ blocked \in Nat
    BY <1>0, <1>2 DEF StatsRead, At, TypeOK
  <2> QED
    BY <1>1, <1>0, <2>1, <2>2, TallyKeepsJobs DEF Steps
<1>3. CASE StatsWritten(j)
  <2> DEFINE v == Merged(jobs[j].got, jobs[j].host)
             w == [Idle EXCEPT !.pc = "block", !.host = jobs[j].host, !.got = v]
  <2>0. jobs[j].host \in Hosts
    BY <1>0, <1>3 DEF StatsWritten, At, Fits
  <2>1. v \in Verdicts \cup {NoVerdict}
    BY <1>0 DEF Merged, Local, Level, Verdicts, JobType
  <2>2. CASE jobs' = [jobs EXCEPT ![j] = Idle]
    BY <1>0, <1>1, <2>2, EndKeepsJobs
  <2>3. CASE jobs' = [jobs EXCEPT ![j] = w] /\ j \in Tabs /\ v.level = "dangerous"
    <3>1. w \in JobType
      BY <2>0, <2>1 DEF JobType, Idle, Steps
    <3>2. Fits(j, w, chosen', shown')
      BY <2>0, <2>3, SlotsAssumption DEF Fits, Idle, Choices, SlotsAssumption
    <3> QED
      BY <1>0, <1>1, <2>3, <3>1, <3>2, OneJob DEF JobsKept
  <2> QED
    BY <1>3, <2>2, <2>3 DEF StatsWritten, Judged, Checks
<1> QED
  BY <1>2, <1>3

LEMMA BlockingKeepsJobs == ASSUME Inv, Blocking PROVE JobsKept'
<1> USE DEF cache, pause, tally, counts, history
<1>0. TypeOK /\ Works /\ Tabs \subseteq Jobs
  BY DEF Inv, Jobs
<1>1. ASSUME NEW t \in Tabs
      PROVE  jobs[t] \in JobType /\ Fits(t, jobs[t], chosen, shown) /\ t \notin Blocks
  BY <1>0, SlotsAssumption DEF TypeOK, Works, SlotsAssumption
<1>2. ASSUME NEW t \in Tabs, BlockPage(t) PROVE JobsKept'
  <2>0. jobs[t].pc = "block" /\ chosen' = chosen /\ shown' = shown /\ faults' = faults /\ Grows
    BY <1>2 DEF BlockPage, At, Grows
  <2>1. jobs[t].host \in Hosts /\ jobs[t].got.level = "dangerous"
    BY <1>1, <2>0 DEF Fits
  <2>2. Dangerous(memory[jobs[t].host], jobs[t].got)
    BY <2>1 DEF Dangerous
  <2>3. Allowed(t, jobs[t].host) => <<t, jobs[t].host>> \in chosen
    BY <2>1, SlotsAssumption DEF Allowed, Inv, Choices, None, SlotsAssumption
  <2>4. ASSUME NEW step \in {"navigate", "left"}, jobs' = [jobs EXCEPT ![t].pc = step],
               step = "left" => <<t, jobs[t].host>> \in chosen
        PROVE  JobsKept'
    <3> DEFINE w == [jobs[t] EXCEPT !.pc = step]
    <3>1. w \in JobType
      BY <1>1, Moved DEF Steps
    <3>2. Fits(t, w, chosen', shown')
      BY <1>1, <2>0, <2>1, <2>4 DEF Fits, Choices, JobType
    <3>3. jobs' = [jobs EXCEPT ![t] = w]
      BY <1>0, <2>4 DEF TypeOK
    <3> QED
      BY <1>0, <2>0, <3>1, <3>2, <3>3, OneJob DEF JobsKept
  <2> QED
    BY <1>2, <2>2, <2>3, <2>4 DEF BlockPage, Goto
<1>3. ASSUME NEW t \in Tabs, NEW b \in Blocks, Navigate(t), Show(t, b) PROVE JobsKept'
  <2> DEFINE w == [Idle EXCEPT !.pc = "claim", !.host = jobs[t].host]
  <2>0. jobs[t].host \in Hosts /\ t \in Jobs /\ b \in Jobs /\ t # b
    BY <1>1, <1>3 DEF Navigate, At, Fits, Jobs
  <2>1. shown' = shown \cup {jobs[t].host} /\ chosen' = chosen /\ faults' = faults /\ Grows
    BY <1>3 DEF Navigate, Show, Grows
  <2>2. w \in JobType /\ Idle \in JobType
    BY <2>0, NewJob, IdleFits DEF Steps
  <2>3. jobs' \in [Jobs -> JobType] /\ jobs'[t] = Idle /\ jobs'[b] = w
        /\ \A j \in Jobs \ {t, b} : jobs'[j] = jobs[j]
    <3>1. jobs' = [jobs EXCEPT ![t] = Idle, ![b] = w] /\ jobs \in [Jobs -> JobType]
      BY <1>0, <1>3 DEF Show, TypeOK
    <3> QED
      BY <2>0, <2>2, <3>1
  <2>4. Fits(b, w, chosen', shown')
    BY <2>0, <2>1, SlotsAssumption DEF Fits, Idle, Choices, SlotsAssumption
  <2>5. Fits(t, Idle, chosen', shown')
    BY IdleFits
  <2>6. \A j \in Jobs : jobs'[j] = jobs[j] \/ Fits(j, jobs'[j], chosen', shown')
    BY <2>3, <2>4, <2>5
  <2> QED
    BY <1>0, <2>1, <2>3, <2>6, WorksOn DEF JobsKept
<1>4. ASSUME NEW t \in Tabs, Refused(t) PROVE JobsKept'
  <2> DEFINE w == [jobs[t] EXCEPT !.pc = "lost"]
  <2>0. jobs[t].pc = "navigate" /\ chosen' = chosen /\ shown' = shown /\ Grows
    BY <1>4 DEF Refused, At, Grows
  <2>1. w \in JobType
    BY <1>1, Moved DEF Steps
  <2>2. Fits(t, w, chosen', shown')
    BY <1>1, <2>0 DEF Fits, Choices, JobType
  <2>3. jobs' = [jobs EXCEPT ![t] = w]
    BY <1>0, <1>4 DEF TypeOK, Refused, Goto
  <2> QED
    BY <1>0, <2>0, <2>1, <2>2, <2>3, OneJob DEF JobsKept
<1>5. ASSUME NEW t \in Tabs, ProceedRead(t) PROVE JobsKept'
  <2> DEFINE w == [jobs[t] EXCEPT !.pc = "proceed2", !.copy = bypass]
  <2>0. jobs[t].pc = "proceed" /\ chosen' = chosen /\ shown' = shown /\ faults' = faults /\ Grows
    BY <1>5 DEF ProceedRead, At, Grows
  <2>1. w \in JobType
    BY <1>0, <1>1 DEF JobType, Steps, TypeOK
  <2>2. Fits(t, w, chosen', shown')
    BY <1>1, <2>0 DEF Fits, JobType, Inv
  <2>3. jobs' = [jobs EXCEPT ![t] = w]
    BY <1>0, <1>5 DEF TypeOK, ProceedRead
  <2> QED
    BY <1>0, <2>0, <2>1, <2>2, <2>3, OneJob DEF JobsKept
<1>6. ASSUME NEW t \in Tabs, ProceedWritten(t) PROVE JobsKept'
  <2> DEFINE w == [Idle EXCEPT !.pc = "check", !.host = jobs[t].host]
  <2>0. jobs[t].host \in Hosts /\ chosen' = chosen /\ shown' = shown /\ faults' = faults /\ Grows
    BY <1>1, <1>6 DEF ProceedWritten, At, Grows, Fits
  <2>1. w \in JobType
    BY <2>0, NewJob DEF Steps
  <2>2. Fits(t, w, chosen', shown')
    BY <1>1, <2>0 DEF Fits, Idle, Choices
  <2>3. jobs' = [jobs EXCEPT ![t] = w]
    BY <1>6 DEF ProceedWritten, Open
  <2> QED
    BY <1>0, <2>0, <2>1, <2>2, <2>3, OneJob DEF JobsKept
<1> QED
  BY <1>2, <1>3, <1>4, <1>5, <1>6 DEF Blocking, Navigate

LEMMA CountingKeepsJobs == ASSUME Inv, Counting PROVE JobsKept'
<1> USE DEF cache, pause, tally, counts, history
<1>0. TypeOK /\ Works /\ Blocks \subseteq Jobs /\ blocked \in Nat
  BY DEF Inv, Jobs, TypeOK
<1>1. ASSUME NEW b \in Blocks PROVE jobs[b] \in JobType /\ jobs[b].read \in Nat
  BY <1>0 DEF TypeOK, JobType
<1>2. ASSUME NEW b \in Blocks, NEW step \in {"claim2", "count"}, Claim(b) \/ Claimed(b),
             jobs' = [jobs EXCEPT ![b].pc = step]
      PROVE  JobsKept'
  <2>1. jobs[b].pc # "idle" /\ chosen' = chosen /\ shown' = shown /\ faults' = faults /\ Grows
    BY <1>2 DEF Claim, Claimed, At, Grows
  <2>2. jobs' = [jobs EXCEPT ![b] = [jobs[b] EXCEPT !.pc = step, !.read = jobs[b].read]]
    BY <1>0, <1>1, <1>2 DEF TypeOK, JobType
  <2> QED
    BY <1>0, <1>1, <2>1, <2>2, TallyKeepsJobs DEF Steps
<1>3. ASSUME NEW b \in Blocks, CountRead(b) PROVE JobsKept'
  <2>1. jobs[b].pc # "idle" /\ chosen' = chosen /\ shown' = shown /\ faults' = faults /\ Grows
    BY <1>3 DEF CountRead, At, Grows
  <2>2. jobs' = [jobs EXCEPT ![b] = [jobs[b] EXCEPT !.pc = "count2", !.read = blocked]]
    BY <1>0, <1>3 DEF TypeOK, CountRead
  <2> QED
    BY <1>0, <2>1, <2>2, TallyKeepsJobs DEF Steps
<1>4. ASSUME NEW b \in Blocks, Counted(b) PROVE JobsKept'
  <2>1. jobs[b].pc # "idle" /\ chosen' = chosen /\ shown' = shown /\ faults' = faults /\ Grows
    BY <1>4 DEF Counted, At, Grows
  <2>2. jobs' = [jobs EXCEPT ![b] = [jobs[b] EXCEPT !.pc = "report", !.read = 0]]
    BY <1>0, <1>4 DEF TypeOK, Counted
  <2> QED
    BY <1>0, <2>1, <2>2, TallyKeepsJobs DEF Steps
<1>5. ASSUME NEW b \in Blocks, Claim(b) \/ Report(b), jobs' = [jobs EXCEPT ![b] = Idle]
      PROVE  JobsKept'
  <2>1. Grows
    BY <1>5 DEF Claim, Report, Grows
  <2> QED
    BY <1>0, <1>5, <2>1, EndKeepsJobs
<1> QED
  BY <1>2, <1>3, <1>4, <1>5 DEF Counting, Claim, Claimed, Report, Goto

(* A stopped worker: what each handler's caller falls back to *)
LEMMA StopKeepsJobs == ASSUME Inv, Stop PROVE JobsKept'
<1> USE DEF cache, pause, tally, counts, history
<1>0. TypeOK /\ Works
  BY DEF Inv
<1>1. chosen' = chosen /\ shown' = shown /\ Grows
  BY DEF Stop, Grows
<1>2. ASSUME NEW j \in Jobs PROVE Dropped(j) \in JobType /\ Fits(j, Dropped(j), chosen', shown')
  <2> DEFINE h == jobs[j].host
             w == [Idle EXCEPT !.pc = "block", !.host = h, !.got = Local(h)]
             l == [jobs[j] EXCEPT !.pc = "lost"]
  <2>1. jobs[j] \in JobType /\ Fits(j, jobs[j], chosen, shown)
    BY <1>0 DEF TypeOK, Works
  <2>2. CASE Dropped(j) = Idle
    BY <2>2, IdleFits
  <2>3. CASE Dropped(j) = jobs[j]
    BY <1>1, <2>1, <2>3 DEF Fits, Choices
  <2>4. CASE Dropped(j) = w /\ jobs[j].pc # "idle" /\ Local(h).level = "dangerous" /\ j \in Tabs
    <3>1. h \in Hosts /\ Local(h) \in Verdicts
      BY <2>1, <2>4 DEF Fits, Local, Level, Verdicts
    <3>2. w \in JobType
      BY <3>1 DEF JobType, Idle, Steps
    <3>3. Fits(j, w, chosen', shown')
      BY <2>4, <3>1, SlotsAssumption DEF Fits, Idle, Choices, SlotsAssumption
    <3> QED
      BY <2>4, <3>2, <3>3
  <2>5. CASE Dropped(j) = l /\ jobs[j].pc # "idle"
    <3>1. l \in JobType
      BY <2>1, Moved DEF Steps
    <3>2. l.pc = "lost" /\ l.host = h /\ l.copy = jobs[j].copy
      BY <2>1 DEF JobType
    <3>3. Fits(j, l, chosen', shown')
      <4> HIDE DEF l
      <4> QED
        BY <1>1, <2>1, <2>5, <3>2 DEF Fits, Choices
    <3> QED
      BY <2>5, <3>1, <3>3
  <2> QED
    BY <2>2, <2>3, <2>4, <2>5 DEF Dropped, Judged
<1>3. jobs' = [j \in Jobs |-> Dropped(j)]
  BY DEF Stop
<1> QED
  BY <1>0, <1>1, <1>2, <1>3, WorksOn DEF JobsKept

(* All of them *)
LEMMA StepKeepsJobs == ASSUME Inv, [Next]_vars PROVE JobsKept'
<1>1. CASE UNCHANGED <<jobs, chosen, shown>>
  BY <1>1 DEF Inv, TypeOK, Works, JobsKept
<1>2. ASSUME Start \/ PauseEnds \/ (\E h \in Hosts : Lapse(h)) \/ UNCHANGED vars
      PROVE  UNCHANGED <<jobs, chosen, shown>>
  BY <1>2 DEF Start, PauseEnds, Lapse, vars, history, counts
<1> QED
  BY <1>1, <1>2, PersonKeepsJobs, CheckKeepsJobs, AskingKeepsJobs, AnswerKeepsJobs, StatsKeepJobs, BlockingKeepsJobs,
     CountingKeepsJobs, StopKeepsJobs DEF Next, Checking, Answer

-----------------------------------------------------------------------------
(* What every job has, for the steps below *)
LEMMA JobFacts ==
  ASSUME Inv, NEW j \in Jobs
  PROVE  /\ jobs[j] \in JobType /\ Fits(j, jobs[j], chosen, shown)
         /\ jobs[j].pc # "idle" => jobs[j].host \in Hosts
  BY DEF Inv, TypeOK, Works, Fits

(* The cache holds verdicts, and nothing the API did not say *)
CacheKept == /\ memory \in [Hosts -> Verdicts \cup {NoVerdict}]
             /\ mirror \in [Hosts -> {"dangerous", "safe", None}]
             /\ flagged \subseteq Hosts /\ Sources

LEMMA CacheStep == ASSUME Inv, [Next]_vars PROVE CacheKept' /\ flagged \subseteq flagged'
<1> USE DEF cache, pause, tally, counts, history
<1>0. CacheKept
  BY DEF Inv, TypeOK, CacheKept
<1>1. CASE UNCHANGED <<memory, mirror, flagged>>
  BY <1>0, <1>1 DEF CacheKept, Sources
<1>2. ASSUME NEW j \in Checks, Check(j) PROVE CacheKept' /\ flagged \subseteq flagged'
  <2> DEFINE h == jobs[j].host
             m == Hydrated(h)
  <2>1. h \in Hosts
    BY <1>2, JobFacts DEF Check, At, Jobs, Checks
  <2>2. m \in [Hosts -> Verdicts \cup {NoVerdict}]
    BY <1>0, <2>1 DEF CacheKept, Hydrated, Api, Verdicts
  <2>3. \A g \in Hosts : m[g] = Api("dangerous") => g \in flagged
    <3>1. CASE m = memory
      BY <1>0, <3>1 DEF CacheKept, Sources
    <3>2. CASE m = [memory EXCEPT ![h] = Api(mirror[h])]
      BY <1>0, <2>1, <3>2 DEF CacheKept, Sources, Api
    <3> QED
      BY <3>1, <3>2 DEF Hydrated
  <2>4. mirror' = mirror /\ flagged' = flagged /\ memory' = m
    BY <1>2 DEF Check
  <2> QED
    BY <1>0, <2>2, <2>3, <2>4 DEF CacheKept, Sources
<1>3. ASSUME NEW j \in Checks, NEW l \in {"dangerous", "safe"}, Answered(j, l)
      PROVE  CacheKept' /\ flagged \subseteq flagged'
  <2> DEFINE h == jobs[j].host
  <2>1. h \in Hosts
    BY <1>3, JobFacts DEF Answered, At, Jobs, Checks
  <2>2. memory' = [memory EXCEPT ![h] = Api(l)] /\ mirror' = [mirror EXCEPT ![h] = l]
        /\ flagged' = (IF l = "dangerous" THEN flagged \cup {h} ELSE flagged)
    BY <1>3 DEF Answered, Keep
  <2>3. Api(l) \in Verdicts /\ (Api(l) = Api("dangerous") => l = "dangerous")
    BY DEF Api, Verdicts
  <2> QED
    BY <1>0, <2>1, <2>2, <2>3 DEF CacheKept, Sources
<1>4. ASSUME NEW j \in Checks, Unanswered(j) \/ Lookup(j) PROVE CacheKept' /\ flagged \subseteq flagged'
  <2> DEFINE h == jobs[j].host
  <2>1. h \in Hosts
    BY <1>4, JobFacts DEF Unanswered, Lookup, At, Jobs, Checks
  <2>2. mirror' = mirror /\ flagged' = flagged
        /\ (memory' = memory \/ \E v \in {Local(h), NoVerdict} : memory' = [memory EXCEPT ![h] = v])
    BY <1>4 DEF Unanswered, Lookup, Keep
  <2>3. \A v \in {Local(h), NoVerdict} : v \in Verdicts \cup {NoVerdict} /\ v # Api("dangerous")
    BY DEF Local, Level, Verdicts, NoVerdict, Api
  <2> QED
    BY <1>0, <2>1, <2>2, <2>3 DEF CacheKept, Sources
<1>5. ASSUME NEW h \in Hosts, Lapse(h) PROVE CacheKept' /\ flagged \subseteq flagged'
  BY <1>0, <1>5 DEF Lapse, CacheKept, Sources, NoVerdict, Api, None
<1>6. CASE Stop
  BY <1>0, <1>6 DEF Stop, CacheKept, Sources, NoVerdict, Api
<1>7. CASE Person
  BY <1>1, <1>7 DEF Person, Leave, ChooseOpen, Visit, CheckLink
<1>8. CASE Start \/ PauseEnds
  BY <1>1, <1>8 DEF Start, PauseEnds
<1>9. ASSUME NEW j \in Checks, Send(j) \/ StatsRead(j) \/ StatsWritten(j) PROVE CacheKept' /\ flagged \subseteq flagged'
  BY <1>1, <1>9 DEF Send, StatsRead, StatsWritten
<1>10. CASE Blocking
  BY <1>1, <1>10 DEF Blocking, BlockPage, Navigate, Refused, ProceedRead, ProceedWritten
<1>11. CASE Counting
  BY <1>1, <1>11 DEF Counting, Claim, Claimed, CountRead, Counted, Report
<1>12. CASE UNCHANGED vars
  BY <1>1, <1>12 DEF vars
<1> QED
  BY <1>2, <1>3, <1>4, <1>5, <1>6, <1>7, <1>8, <1>9, <1>10, <1>11, <1>12 DEF Next, Checking, Answer

(* The pause and its copy in storage *)
PauseKept == /\ up \in BOOLEAN /\ paused \in BOOLEAN /\ pauseKept \in BOOLEAN /\ limited \in BOOLEAN
             /\ Pauses

LEMMA PauseStep == ASSUME Inv, [Next]_vars PROVE PauseKept'
<1> USE DEF cache, pause, tally, counts, history
<1>0. PauseKept
  BY DEF Inv, TypeOK, PauseKept
<1>1. CASE UNCHANGED <<up, pause>>
  BY <1>0, <1>1 DEF PauseKept, Pauses
<1>2. CASE Start
  BY <1>0, <1>2, Zenon DEF Start, OnStart, PauseKept, Pauses
<1>3. ASSUME NEW j \in Checks, Unanswered(j) PROVE PauseKept'
  BY <1>0, <1>3, Zenon DEF Unanswered, PauseKept, Pauses
<1>4. CASE PauseEnds \/ Stop
  BY <1>0, <1>4, Zenon DEF PauseEnds, Stop, PauseKept, Pauses
<1>5. CASE Person
  BY <1>1, <1>5 DEF Person, Leave, ChooseOpen, Visit, CheckLink
<1>6. ASSUME NEW j \in Checks, Check(j) \/ Lookup(j) \/ Send(j) \/ StatsRead(j) \/ StatsWritten(j) PROVE PauseKept'
  BY <1>1, <1>6 DEF Check, Lookup, Send, StatsRead, StatsWritten
<1>7. ASSUME NEW j \in Checks, NEW l \in {"dangerous", "safe"}, Answered(j, l) PROVE PauseKept'
  BY <1>1, <1>7 DEF Answered
<1>8. CASE Blocking
  BY <1>1, <1>8 DEF Blocking, BlockPage, Navigate, Refused, ProceedRead, ProceedWritten
<1>9. CASE Counting
  BY <1>1, <1>9 DEF Counting, Claim, Claimed, CountRead, Counted, Report
<1>10. CASE (\E h \in Hosts : Lapse(h)) \/ UNCHANGED vars
  BY <1>1, <1>10 DEF Lapse, vars
<1> QED
  BY <1>2, <1>3, <1>4, <1>5, <1>6, <1>7, <1>8, <1>9, <1>10 DEF Next, Checking, Answer

(* Allowances are choices; tabs show blocks of hosts *)
TabsKept == /\ bypass \in [Tabs -> Hosts \cup {None}] /\ chosen \subseteq Tabs \X Hosts
            /\ tab \in [Tabs -> [host : Hosts \cup {None}, shows : {"nothing", "page", "block"}]]
            /\ shown \subseteq Hosts /\ Choices(bypass, chosen) /\ Screens

LEMMA TabsStep == ASSUME Inv, [Next]_vars PROVE TabsKept'
<1> USE DEF cache, pause, tally, counts, history
<1>0. TabsKept /\ Tabs \subseteq Jobs
  BY DEF Inv, TypeOK, TabsKept, Jobs
<1>1. CASE UNCHANGED <<bypass, chosen, tab, shown>>
  BY <1>0, <1>1 DEF TabsKept, Choices, Screens
<1>2. ASSUME NEW t \in Tabs, NEW h \in Hosts, Visit(t, h) PROVE TabsKept'
  BY <1>0, <1>2 DEF Visit, TabsKept, Choices, Screens
<1>3. ASSUME NEW t \in Tabs, Leave(t) PROVE TabsKept'
  BY <1>0, <1>3 DEF Leave, TabsKept, Choices, Screens, Blank
<1>4. ASSUME NEW t \in Tabs, ChooseOpen(t) PROVE TabsKept'
  <2>1. tab[t].host \in Hosts
    BY <1>0, <1>4 DEF ChooseOpen, TabsKept, Screens
  <2>2. chosen' = chosen \cup {<<t, tab[t].host>>} /\ UNCHANGED <<bypass, tab, shown>>
    BY <1>4 DEF ChooseOpen
  <2> QED
    BY <1>0, <2>1, <2>2 DEF TabsKept, Choices, Screens
<1>5. ASSUME NEW t \in Tabs, NEW b \in Blocks, Navigate(t), Show(t, b) PROVE TabsKept'
  <2>1. jobs[t].host \in Hosts
    BY <1>0, <1>5, JobFacts DEF Navigate, At
  <2>2. /\ tab' = [tab EXCEPT ![t] = [host |-> jobs[t].host, shows |-> "block"]]
        /\ shown' = shown \cup {jobs[t].host} /\ UNCHANGED <<bypass, chosen>>
    BY <1>5 DEF Navigate, Show
  <2> QED
    BY <1>0, <2>1, <2>2 DEF TabsKept, Choices, Screens
<1>6. ASSUME NEW t \in Tabs, ProceedWritten(t) PROVE TabsKept'
  <2> DEFINE c == jobs[t].copy
             h == jobs[t].host
  <2>1. h \in Hosts /\ <<t, h>> \in chosen /\ c \in [Tabs -> Hosts \cup {None}] /\ Choices(c, chosen)
    BY <1>0, <1>6, JobFacts DEF ProceedWritten, At, Fits, JobType
  <2>2. bypass' = [c EXCEPT ![t] = h] /\ tab' = [tab EXCEPT ![t].shows = "page"] /\ UNCHANGED <<chosen, shown>>
    BY <1>6 DEF ProceedWritten
  <2>3. bypass' \in [Tabs -> Hosts \cup {None}] /\ Choices(bypass', chosen')
    <3> HIDE DEF c, h
    <3> QED
      BY <2>1, <2>2 DEF Choices
  <2>4. tab' \in [Tabs -> [host : Hosts \cup {None}, shows : {"nothing", "page", "block"}]] /\ Screens'
    BY <1>0, <2>2 DEF TabsKept, Screens
  <2> QED
    BY <1>0, <2>2, <2>3, <2>4 DEF TabsKept
<1>7. CASE \E l \in Links, h \in Hosts : CheckLink(l, h)
  BY <1>1, <1>7 DEF CheckLink
<1>8. CASE Start \/ PauseEnds \/ Stop
  BY <1>1, <1>8 DEF Start, PauseEnds, Stop
<1>9. ASSUME NEW j \in Checks,
             Check(j) \/ Lookup(j) \/ Send(j) \/ StatsRead(j) \/ StatsWritten(j) \/ Unanswered(j)
      PROVE  TabsKept'
  BY <1>1, <1>9 DEF Check, Lookup, Send, StatsRead, StatsWritten, Unanswered
<1>10. ASSUME NEW j \in Checks, NEW l \in {"dangerous", "safe"}, Answered(j, l) PROVE TabsKept'
  BY <1>1, <1>10 DEF Answered
<1>11. ASSUME NEW t \in Tabs, BlockPage(t) \/ Refused(t) \/ ProceedRead(t) PROVE TabsKept'
  BY <1>1, <1>11 DEF BlockPage, Refused, ProceedRead
<1>12. CASE Counting
  BY <1>1, <1>12 DEF Counting, Claim, Claimed, CountRead, Counted, Report
<1>13. CASE (\E h \in Hosts : Lapse(h)) \/ UNCHANGED vars
  BY <1>1, <1>13 DEF Lapse, vars
<1> QED
  BY <1>2, <1>3, <1>4, <1>5, <1>6, <1>7, <1>8, <1>9, <1>10, <1>11, <1>12, <1>13
     DEF Next, Person, Checking, Answer, Blocking, Navigate

(* What was counted, and who was told of what *)
TallyKept == ledger \subseteq Hosts /\ blocked \in Nat /\ told \subseteq Hosts /\ FamilyHearsConfirmed

LEMMA TallyStep == ASSUME Inv, [Next]_vars PROVE TallyKept'
<1> USE DEF cache, pause, tally, counts, history
<1>0. TallyKept /\ Blocks \subseteq Jobs /\ Checks \subseteq Jobs
  BY DEF Inv, TypeOK, TallyKept, Jobs, Checks
<1>1. flagged \subseteq flagged'
  BY CacheStep
<1>2. shown \subseteq shown'
  BY DEF Next, Person, Visit, Leave, ChooseOpen, CheckLink, Start, Checking, Check, Lookup, Send, StatsRead,
     StatsWritten, Answer, Answered, Unanswered, Blocking, BlockPage, Navigate, Show, Refused, ProceedRead,
     ProceedWritten, Counting, Claim, Claimed, CountRead, Counted, Report, PauseEnds, Stop, Lapse, vars
<1>3. CASE UNCHANGED tally
  BY <1>0, <1>1, <1>2, <1>3 DEF TallyKept, FamilyHearsConfirmed
<1>4. ASSUME NEW j \in Checks, StatsWritten(j) PROVE TallyKept'
  <2>1. jobs[j].read \in Nat
    BY <1>0, JobFacts DEF JobType
  <2>2. blocked' = jobs[j].read /\ UNCHANGED <<ledger, told, flagged, shown>>
    BY <1>4 DEF StatsWritten
  <2> QED
    BY <1>0, <2>1, <2>2 DEF TallyKept, FamilyHearsConfirmed
<1>5. ASSUME NEW b \in Blocks, Claimed(b) PROVE TallyKept'
  <2>1. jobs[b].host \in Hosts
    BY <1>0, <1>5, JobFacts DEF Claimed, At
  <2>2. ledger' = ledger \cup {jobs[b].host} /\ UNCHANGED <<blocked, told, flagged, shown>>
    BY <1>5 DEF Claimed
  <2> QED
    BY <1>0, <2>1, <2>2 DEF TallyKept, FamilyHearsConfirmed
<1>6. ASSUME NEW b \in Blocks, Counted(b) PROVE TallyKept'
  <2>1. jobs[b].read + 1 \in Nat
    BY <1>0, JobFacts DEF JobType
  <2>2. blocked' = jobs[b].read + 1 /\ UNCHANGED <<ledger, told, flagged, shown>>
    BY <1>6 DEF Counted
  <2> QED
    BY <1>0, <2>1, <2>2 DEF TallyKept, FamilyHearsConfirmed
<1>7. ASSUME NEW b \in Blocks, Report(b) PROVE TallyKept'
  <2> DEFINE h == jobs[b].host
  <2>1. h \in Hosts /\ h \in shown
    BY <1>0, <1>7, JobFacts DEF Report, At, Fits
  <2>2. Confirmed(memory[h]) => h \in flagged
    BY <2>1 DEF Confirmed, Inv, TypeOK, Sources, Api, Verdicts, NoVerdict
  <2>3. told' \in {told, told \cup {h}} /\ (told' = told \/ Confirmed(memory[h]))
        /\ UNCHANGED <<ledger, blocked, flagged, shown>>
    BY <1>7 DEF Report
  <2> QED
    BY <1>0, <2>1, <2>2, <2>3 DEF TallyKept, FamilyHearsConfirmed
<1>8. ASSUME NEW b \in Blocks, Claim(b) \/ CountRead(b) PROVE TallyKept'
  BY <1>3, <1>8 DEF Claim, CountRead
<1>9. CASE Person
  BY <1>3, <1>9 DEF Person, Leave, ChooseOpen, Visit, CheckLink
<1>10. CASE Start \/ PauseEnds \/ Stop
  BY <1>3, <1>10 DEF Start, PauseEnds, Stop
<1>11. ASSUME NEW j \in Checks, Check(j) \/ Lookup(j) \/ Send(j) \/ StatsRead(j) \/ Unanswered(j) PROVE TallyKept'
  BY <1>3, <1>11 DEF Check, Lookup, Send, StatsRead, Unanswered
<1>12. ASSUME NEW j \in Checks, NEW l \in {"dangerous", "safe"}, Answered(j, l) PROVE TallyKept'
  BY <1>3, <1>12 DEF Answered
<1>13. CASE Blocking
  BY <1>3, <1>13 DEF Blocking, BlockPage, Navigate, Refused, ProceedRead, ProceedWritten
<1>14. CASE (\E h \in Hosts : Lapse(h)) \/ UNCHANGED vars
  BY <1>3, <1>14 DEF Lapse, vars
<1> QED
  BY <1>4, <1>5, <1>6, <1>7, <1>8, <1>9, <1>10, <1>11, <1>12, <1>13, <1>14 DEF Next, Checking, Answer, Counting

(* The bounds *)
CountsKept == visits \in 0..MaxVisits /\ links \in 0..MaxLinks /\ lapses \in 0..MaxLapses
              /\ faults \in 0..MaxFaults

LEMMA CountsStep == ASSUME Inv, [Next]_vars PROVE CountsKept'
<1> USE BoundsAssumption DEF cache, pause, tally, counts, history, BoundsAssumption
<1>0. CountsKept
  BY DEF Inv, TypeOK, CountsKept
<1>1. CASE UNCHANGED counts
  BY <1>0, <1>1 DEF CountsKept
<1>2. CASE Person
  <2>1. /\ visits' = visits \/ (visits < MaxVisits /\ visits' = visits + 1)
        /\ links' = links \/ (links < MaxLinks /\ links' = links + 1)
        /\ UNCHANGED <<lapses, faults>>
    BY <1>2, Zenon DEF Person, Visit, Leave, CheckLink, ChooseOpen
  <2> QED
    BY <1>0, <2>1 DEF CountsKept
<1>3. ASSUME NEW h \in Hosts, Lapse(h) PROVE CountsKept'
  BY <1>0, <1>3 DEF Lapse, CountsKept
<1>4. CASE Stop
  BY <1>0, <1>4 DEF Stop, CountsKept
<1>5. ASSUME NEW t \in Tabs, Refused(t) PROVE CountsKept'
  BY <1>0, <1>5 DEF Refused, CountsKept
<1>6. CASE Start \/ PauseEnds \/ UNCHANGED vars
  BY <1>1, <1>6 DEF Start, PauseEnds, vars
<1>7. ASSUME NEW j \in Checks,
             Check(j) \/ Lookup(j) \/ Send(j) \/ StatsRead(j) \/ StatsWritten(j) \/ Unanswered(j)
      PROVE  CountsKept'
  BY <1>1, <1>7 DEF Check, Lookup, Send, StatsRead, StatsWritten, Unanswered
<1>8. ASSUME NEW j \in Checks, NEW l \in {"dangerous", "safe"}, Answered(j, l) PROVE CountsKept'
  BY <1>1, <1>8 DEF Answered
<1>9. ASSUME NEW t \in Tabs, BlockPage(t) \/ Navigate(t) \/ ProceedRead(t) \/ ProceedWritten(t) PROVE CountsKept'
  BY <1>1, <1>9 DEF BlockPage, Navigate, ProceedRead, ProceedWritten
<1>10. CASE Counting
  BY <1>1, <1>10 DEF Counting, Claim, Claimed, CountRead, Counted, Report
<1> QED
  BY <1>2, <1>3, <1>4, <1>5, <1>6, <1>7, <1>8, <1>9, <1>10 DEF Next, Checking, Answer, Blocking

LEMMA StepInv == ASSUME Inv, [Next]_vars PROVE Inv'
  BY StepKeepsJobs, CacheStep, PauseStep, TabsStep, TallyStep, CountsStep
     DEF Inv, TypeOK, JobsKept, CacheKept, PauseKept, TabsKept, TallyKept, CountsKept

-----------------------------------------------------------------------------
(* The strengthening all the others rest on *)
THEOREM Invariant == Spec => []Inv
  BY InitInv, StepInv, PTL DEF Spec

(* Every handler's record, the cache and the tabs keep their types, so a host
   is there whenever a handler works on one *)
THEOREM TypeCorrect == Spec => []TypeOK
  BY Invariant, PTL DEF Inv

(* The family hears only of hosts that were shown blocked and that the API
   itself called dangerous (reportBlockToAccount) *)
THEOREM FamilyHears == Spec => []FamilyHearsConfirmed
  BY Invariant, PTL DEF Inv

(* A handler that decides leaves danger open only by choice (onBlockPage) *)
THEOREM Blocked == Spec => []DangerIsBlocked
<1>1. Inv => DangerIsBlocked
  BY DEF Inv, DangerIsBlocked, Works, Fits, Jobs
<1> QED
  BY <1>1, Invariant, PTL

(* A queued link check goes on to ask in Lookup only, past the pause *)
LEMMA OnlyLookupAsks ==
  ASSUME Inv, [Next]_vars, NEW l \in Links, jobs[l].pc = "queued", jobs'[l].pc = "number"
  PROVE  Lookup(l) /\ ~paused
<1> USE SlotsAssumption DEF SlotsAssumption, cache, pause, tally, counts, history
<1>0. jobs \in [Jobs -> JobType] /\ l \in Jobs /\ l \notin Tabs /\ l \notin Blocks /\ Checks \subseteq Jobs
  BY DEF Inv, TypeOK, Jobs, Checks
<1>1. jobs'[l] # jobs[l] /\ jobs'[l] # Idle /\ jobs[l].pc = "queued" /\ jobs'[l].pc = "number"
  BY DEF Idle
<1>2. ASSUME NEW j \in Links, Lookup(j) PROVE Lookup(l) /\ ~paused
  <2>0. j \in Jobs
    BY <1>2 DEF Jobs
  <2>1. j = l
    BY <1>0, <1>1, <1>2, <2>0 DEF Lookup, Goto
  <2> QED
    BY <1>0, <1>1, <1>2, <2>1 DEF Lookup, JobType
<1>14. ASSUME NEW j \in Checks, Check(j) \/ Send(j) PROVE FALSE
  <2>1. j # l /\ j \in Jobs
    BY <1>0, <1>1, <1>14 DEF Check, Send, At
  <2> QED
    BY <1>0, <1>1, <1>14, <2>1 DEF Check, Send, Goto
<1>3. ASSUME NEW j \in Checks, StatsRead(j) PROVE FALSE
  BY <1>0, <1>1, <1>3 DEF StatsRead, JobType
<1>4. ASSUME NEW j \in Checks, StatsWritten(j) PROVE FALSE
  BY <1>0, <1>1, <1>4 DEF StatsWritten
<1>5. ASSUME NEW j \in Checks, Unanswered(j) PROVE FALSE
  BY <1>0, <1>1, <1>5 DEF Unanswered, JobType
<1>6. ASSUME NEW j \in Checks, NEW v \in {"dangerous", "safe"}, Answered(j, v) PROVE FALSE
  BY <1>0, <1>1, <1>6 DEF Answered, JobType
<1>7. ASSUME NEW t \in Tabs, BlockPage(t) \/ Refused(t) \/ ProceedRead(t) \/ ProceedWritten(t) PROVE FALSE
  BY <1>0, <1>1, <1>7 DEF BlockPage, Goto, Refused, ProceedRead, ProceedWritten, Open
<1>8. ASSUME NEW t \in Tabs, NEW b \in Blocks, Navigate(t), Show(t, b) PROVE FALSE
  BY <1>0, <1>1, <1>8 DEF Show
<1>9. ASSUME NEW b \in Blocks, Claim(b) \/ Claimed(b) \/ CountRead(b) \/ Counted(b) \/ Report(b) PROVE FALSE
  BY <1>0, <1>1, <1>9 DEF Claim, Claimed, CountRead, Counted, Report, Goto
<1>10. ASSUME NEW t \in Tabs, Leave(t) \/ ChooseOpen(t) \/ \E h \in Hosts : Visit(t, h) PROVE FALSE
  BY <1>0, <1>1, <1>10 DEF Leave, ChooseOpen, Visit, Open
<1>11. ASSUME NEW k \in Links, NEW h \in Hosts, CheckLink(k, h) PROVE FALSE
  <2>1. jobs'[k] = [Idle EXCEPT !.pc = "check", !.host = h] /\ \A j \in Jobs \ {k} : jobs'[j] = jobs[j]
    BY <1>0, <1>11 DEF CheckLink, Jobs
  <2>2. jobs'[k].pc = "check"
    BY <2>1 DEF Idle
  <2> QED
    BY <1>0, <1>1, <2>1, <2>2
<1>12. CASE Start \/ PauseEnds \/ (\E h \in Hosts : Lapse(h)) \/ UNCHANGED vars
  BY <1>1, <1>12 DEF Start, PauseEnds, Lapse, vars
<1>13. CASE Stop
  <2>1. jobs'[l] = Dropped(l)
    BY <1>0, <1>13 DEF Stop
  <2>2. Dropped(l) = Idle
    BY <1>0, <1>1 DEF Dropped
  <2> QED
    BY <1>1, <2>1, <2>2
<1> QED
  BY <1>2, <1>3, <1>4, <1>5, <1>6, <1>7, <1>8, <1>9, <1>10, <1>11, <1>12, <1>13, <1>14
     DEF Next, Person, Checking, Answer, Blocking, Navigate, Counting

(* No link check goes on to ask while a pause runs, restarts included (lookup) *)
THEOREM LinksWait == Spec => LinksWaitOutThePause
<1>1. ASSUME Inv, [Next]_vars PROVE [\A l \in Links : jobs[l].pc = "queued" /\ jobs'[l].pc = "number" => ~limited]_vars
  <2> SUFFICES ASSUME NEW l \in Links, jobs[l].pc = "queued", jobs'[l].pc = "number" PROVE ~limited
    OBVIOUS
  <2>1. Lookup(l) /\ ~paused
    BY <1>1, OnlyLookupAsks
  <2> QED
    BY <1>1, <2>1 DEF Inv, Pauses, Lookup, At
<1> QED
  BY <1>1, Invariant, PTL DEF Spec, LinksWaitOutThePause

-----------------------------------------------------------------------------
(* Counting: the stats mutex is held by one job, from its read to its write *)

Critical(j) == jobs[j].pc \in {"stats2", "claim2", "count2"}

OneHolds == \A i, j \in Jobs : Critical(i) /\ Critical(j) => i = j

(* What its holder read is still what is stored *)
Fresh == /\ \A j \in Jobs : jobs[j].pc \in {"stats2", "count2"} => jobs[j].read = blocked
         /\ \A j \in Jobs : jobs[j].pc = "claim2" => jobs[j].host \notin ledger

(* Hosts being claimed, and claims that are not counted yet *)
Claiming == {b \in Blocks : jobs[b].pc \in {"claim", "claim2"}}
Uncounted == {b \in Blocks : jobs[b].pc \in {"count", "count2"}}

(* Every claim is counted or will be; one is lost only with a worker that stops *)
Accounts == /\ IsFiniteSet(ledger) /\ IsFiniteSet(Uncounted)
            /\ blocked + Cardinality(Uncounted) <= Cardinality(ledger)
            /\ faults = 0 => blocked + Cardinality(Uncounted) = Cardinality(ledger)

(* Every host that was shown is claimed or about to be, with the same proviso *)
Claims == /\ IsFiniteSet(shown) /\ ledger \subseteq shown
          /\ faults = 0 => \A h \in shown \ ledger : \E b \in Claiming : jobs[b].host = h

CountInv == OneHolds /\ Fresh /\ Accounts /\ Claims

LEMMA CountInit == Init => CountInv
<1> SUFFICES ASSUME Init PROVE CountInv
  OBVIOUS
<1>1. \A j \in Jobs : jobs[j].pc = "idle"
  BY DEF Init, Idle
<1>2. Uncounted = {} /\ ledger = {} /\ shown = {} /\ blocked = 0
  BY <1>1 DEF Init, Uncounted, Jobs
<1> QED
  BY <1>1, <1>2, FS_EmptySet DEF CountInv, OneHolds, Critical, Fresh, Accounts, Claims

(* A step of one job x that counts and claims nothing: it may take the mutex if
   that is free, reads what is stored, and keeps a claim it has *)
LEMMA PlainStep ==
  ASSUME Inv, CountInv, NEW x \in Jobs, \A j \in Jobs \ {x} : jobs'[j] = jobs[j],
         UNCHANGED <<ledger, blocked, shown>>, faults' = 0 => faults = 0,
         Critical(x)' => ~Held,
         jobs'[x].pc \in {"stats2", "count2"} => jobs'[x].read = blocked,
         jobs'[x].pc = "claim2" => jobs'[x].host \notin ledger,
         x \in Blocks => (jobs'[x].pc \in {"count", "count2"} <=> jobs[x].pc \in {"count", "count2"}),
         x \in Claiming /\ jobs[x].host \notin ledger => x \in Claiming' /\ jobs'[x].host = jobs[x].host
  PROVE  CountInv'
<1>1. OneHolds'
  BY DEF CountInv, OneHolds, Critical, Held
<1>2. Fresh'
  BY DEF CountInv, Fresh
<1>3. Uncounted' = Uncounted
  BY DEF Uncounted, Jobs
<1>4. Accounts'
  BY <1>3 DEF CountInv, Accounts
<1>5. ASSUME NEW h \in shown \ ledger, NEW b \in Claiming, jobs[b].host = h
      PROVE  \E c \in Claiming' : jobs'[c].host = h
  BY <1>5 DEF Claiming, Jobs
<1>6. Claims'
  BY <1>5 DEF CountInv, Claims
<1> QED
  BY <1>1, <1>2, <1>4, <1>6 DEF CountInv

(* A check and a page touch neither the ledger nor the mutex but to take it *)
LEMMA CheckStep ==
  ASSUME Inv, CountInv, NEW x \in Checks, NEW w, jobs' = [jobs EXCEPT ![x] = w],
         UNCHANGED <<ledger, blocked, shown>>, faults' = 0 => faults = 0,
         w.pc \notin {"stats2", "claim2", "count2"}
  PROVE  CountInv'
<1>1. x \in Jobs /\ x \notin Blocks
  BY SlotsAssumption DEF Jobs, Checks, SlotsAssumption
<1>2. jobs'[x] = w /\ \A j \in Jobs \ {x} : jobs'[j] = jobs[j]
  BY <1>1 DEF Inv, TypeOK
<1> QED
  BY <1>1, <1>2, PlainStep DEF Critical, Claiming

LEMMA PersonCounts == ASSUME Inv, CountInv, Person PROVE CountInv'
<1> USE DEF cache, pause, tally, counts, history, Checks
<1>1. ASSUME NEW t \in Tabs, NEW h \in Hosts, Visit(t, h) PROVE CountInv'
  BY <1>1, CheckStep DEF Visit, Open, Idle
<1>2. ASSUME NEW t \in Tabs, Leave(t) PROVE CountInv'
  BY <1>2 DEF Leave, CountInv, OneHolds, Critical, Fresh, Accounts, Uncounted, Claims, Claiming
<1>3. ASSUME NEW l \in Links, NEW h \in Hosts, CheckLink(l, h) PROVE CountInv'
  BY <1>3, CheckStep DEF CheckLink, Idle
<1>4. ASSUME NEW t \in Tabs, ChooseOpen(t) PROVE CountInv'
  BY <1>4, CheckStep DEF ChooseOpen, Idle
<1> QED
  BY <1>1, <1>2, <1>3, <1>4 DEF Person

LEMMA VerdictCounts ==
  ASSUME Inv, CountInv, NEW j \in Checks,
         \/ Check(j) \/ Lookup(j) \/ Send(j) \/ Unanswered(j)
         \/ \E l \in {"dangerous", "safe"} : Answered(j, l)
  PROVE  CountInv'
<1> USE DEF cache, pause, tally, counts, history
<1>1. jobs \in [Jobs -> JobType] /\ j \in Jobs
  BY DEF Inv, TypeOK, Jobs, Checks
<1>2. UNCHANGED <<ledger, blocked, shown, faults>>
  BY DEF Check, Lookup, Send, Answered, Unanswered
<1>3. /\ jobs'[j].pc \in {"stats", "queued", "number", "answer"}
      /\ \A i \in Jobs \ {j} : jobs'[i] = jobs[i]
  <2>1. CASE Check(j)
    BY <1>1, <2>1 DEF Check, Goto, JobType
  <2>4. CASE Lookup(j) \/ Send(j)
    BY <1>1, <2>4 DEF Lookup, Send, Goto, JobType
  <2>2. CASE Unanswered(j)
    BY <1>1, <2>2 DEF Unanswered, JobType
  <2>3. ASSUME NEW l \in {"dangerous", "safe"}, Answered(j, l)
        PROVE  jobs'[j].pc = "stats" /\ \A i \in Jobs \ {j} : jobs'[i] = jobs[i]
    BY <1>1, <2>3 DEF Answered, JobType
  <2> QED
    BY <2>1, <2>2, <2>3, <2>4
<1>4. j \notin Blocks
  BY SlotsAssumption DEF Checks, SlotsAssumption
<1> QED
  BY <1>1, <1>2, <1>3, <1>4, PlainStep DEF Critical, Claiming

(* The stats record is rewritten as it was read: nobody wrote it in between *)
LEMMA StatsCount ==
  ASSUME Inv, CountInv, NEW j \in Checks, StatsRead(j) \/ StatsWritten(j)
  PROVE  CountInv'
<1> USE DEF cache, pause, tally, counts, history
<1>1. jobs \in [Jobs -> JobType] /\ j \in Jobs /\ j \notin Blocks
  BY SlotsAssumption DEF Inv, TypeOK, Jobs, Checks, SlotsAssumption
<1>2. CASE StatsRead(j)
  <2>1. /\ jobs'[j].pc = "stats2" /\ jobs'[j].read = blocked
        /\ \A i \in Jobs \ {j} : jobs'[i] = jobs[i]
        /\ ~Held /\ UNCHANGED <<ledger, blocked, shown, faults>>
    BY <1>1, <1>2 DEF StatsRead, JobType
  <2> QED
    BY <1>1, <2>1, PlainStep DEF Claiming
<1>3. CASE StatsWritten(j)
  <2>1. blocked' = jobs[j].read /\ jobs[j].pc = "stats2" /\ UNCHANGED <<ledger, shown, faults>>
    BY <1>3 DEF StatsWritten, At
  <2>2. blocked' = blocked
    BY <1>1, <2>1 DEF CountInv, Fresh
  <2> DEFINE w == IF j \in Links THEN Idle ELSE Judged(j, Merged(jobs[j].got, jobs[j].host))
  <2>3. jobs' = [jobs EXCEPT ![j] = w]
    BY <1>1, <1>3 DEF StatsWritten
  <2>4. w.pc \in {"idle", "block"}
    BY DEF Judged, Idle
  <2> HIDE DEF w
  <2> QED
    BY <2>1, <2>2, <2>3, <2>4, CheckStep
<1> QED
  BY <1>2, <1>3

(* A block comes on screen: the job that will claim its host starts with it *)
LEMMA BlockingCounts == ASSUME Inv, CountInv, Blocking PROVE CountInv'
<1> USE DEF cache, pause, tally, counts, history
<1>0. jobs \in [Jobs -> JobType] /\ Tabs \subseteq Checks /\ Tabs \subseteq Jobs /\ Blocks \subseteq Jobs
  BY DEF Inv, TypeOK, Jobs, Checks
<1>1. ASSUME NEW t \in Tabs, BlockPage(t) \/ Refused(t) \/ ProceedRead(t) \/ ProceedWritten(t)
      PROVE  CountInv'
  <2>1. UNCHANGED <<ledger, blocked, shown>>
    BY <1>1 DEF BlockPage, Refused, ProceedRead, ProceedWritten
  <2>2. faults' = 0 => faults = 0
    BY <1>1, BoundsAssumption DEF BlockPage, Refused, ProceedRead, ProceedWritten, Inv, TypeOK, BoundsAssumption
  <2>3. /\ jobs'[t].pc \in {"navigate", "left", "lost", "proceed2", "check"}
        /\ \A i \in Jobs \ {t} : jobs'[i] = jobs[i]
    <3>1. CASE BlockPage(t) \/ Refused(t)
      BY <1>0, <3>1 DEF BlockPage, Refused, Goto, JobType
    <3>2. CASE ProceedRead(t)
      BY <1>0, <3>2 DEF ProceedRead, JobType
    <3>3. CASE ProceedWritten(t)
      BY <1>0, <3>3 DEF ProceedWritten, Open, Idle
    <3> QED
      BY <1>1, <3>1, <3>2, <3>3
  <2>4. t \in Jobs /\ t \notin Blocks
    BY <1>0, SlotsAssumption DEF SlotsAssumption
  <2> QED
    BY <2>1, <2>2, <2>3, <2>4, PlainStep DEF Critical, Claiming
<1>2. ASSUME NEW t \in Tabs, NEW b \in Blocks, Navigate(t), Show(t, b) PROVE CountInv'
  <2> DEFINE h == jobs[t].host
  <2>1. /\ t # b /\ t \notin Blocks /\ jobs[b].pc = "idle"
        /\ jobs'[t] = Idle
        /\ jobs'[b] = [Idle EXCEPT !.pc = "claim", !.host = h]
        /\ \A i \in Jobs \ {t, b} : jobs'[i] = jobs[i]
        /\ shown' = shown \cup {h}
        /\ UNCHANGED <<ledger, blocked, faults>>
    BY <1>0, <1>2, SlotsAssumption DEF Show, Navigate, SlotsAssumption
  <2>2. jobs'[t].pc = "idle" /\ jobs'[b].pc = "claim" /\ jobs'[b].host = h
    BY <2>1 DEF Idle
  <2> HIDE DEF h
  <2>3. OneHolds' /\ Fresh'
    BY <2>1, <2>2 DEF CountInv, OneHolds, Fresh, Critical
  <2>4. Uncounted' = Uncounted
    BY <1>0, <2>1, <2>2 DEF Uncounted
  <2>5. Accounts'
    BY <2>1, <2>4 DEF CountInv, Accounts
  <2>6. b \in Claiming' /\ \A c \in Claiming : c \in Claiming' /\ jobs'[c].host = jobs[c].host
    BY <1>0, <2>1, <2>2 DEF Claiming
  <2>7. Claims'
    <3>1. IsFiniteSet(shown') /\ ledger' \subseteq shown'
      BY <2>1, FS_AddElement DEF CountInv, Claims
    <3>2. ASSUME faults = 0, NEW g \in shown' \ ledger'
          PROVE  \E c \in Claiming' : jobs'[c].host = g
      <4>1. CASE g = h
        BY <2>2, <2>6, <4>1
      <4>2. CASE g # h
        <5>1. PICK c \in Claiming : jobs[c].host = g
          BY <2>1, <3>2, <4>2 DEF CountInv, Claims
        <5> QED
          BY <2>6, <5>1
      <4> QED
        BY <4>1, <4>2
    <3> QED
      BY <2>1, <3>1, <3>2 DEF Claims
  <2> QED
    BY <2>3, <2>5, <2>7 DEF CountInv
<1> QED
  BY <1>1, <1>2 DEF Blocking, Navigate

(* A claim enters its host, and one count is owed more; a count pays it *)
LEMMA CountingCounts == ASSUME Inv, CountInv, Counting PROVE CountInv'
<1> USE DEF cache, pause, tally, counts, history
<1>0. jobs \in [Jobs -> JobType] /\ Blocks \subseteq Jobs /\ blocked \in Nat
  BY DEF Inv, TypeOK, Jobs
<1>1. ASSUME NEW b \in Blocks, Claim(b) PROVE CountInv'
  <2>1. /\ jobs[b].pc = "claim" /\ ~Held /\ UNCHANGED <<ledger, blocked, shown, faults>>
        /\ \A i \in Jobs \ {b} : jobs'[i] = jobs[i]
    BY <1>0, <1>1 DEF Claim, At, Goto
  <2>2. CASE jobs[b].host \in ledger
    <3>1. jobs'[b].pc = "idle"
      BY <1>0, <1>1, <2>2 DEF Claim, Idle
    <3> QED
      BY <1>0, <2>1, <2>2, <3>1, PlainStep DEF Critical
  <2>3. CASE jobs[b].host \notin ledger
    <3>1. jobs'[b].pc = "claim2" /\ jobs'[b].host = jobs[b].host
      BY <1>0, <1>1, <2>3 DEF Claim, Goto, JobType
    <3> QED
      BY <1>0, <2>1, <2>3, <3>1, PlainStep DEF Critical, Claiming
  <2> QED
    BY <2>2, <2>3
<1>2. ASSUME NEW b \in Blocks, Claimed(b) PROVE CountInv'
  <2> DEFINE h == jobs[b].host
  <2>1. /\ jobs[b].pc = "claim2" /\ ledger' = ledger \cup {h} /\ UNCHANGED <<blocked, shown, faults>>
        /\ jobs'[b].pc = "count"
        /\ \A i \in Jobs \ {b} : jobs'[i] = jobs[i]
    BY <1>0, <1>2 DEF Claimed, At, Goto, JobType
  <2>2. h \notin ledger /\ h \in shown
    BY <1>0, <2>1, JobFacts DEF CountInv, Fresh, Fits
  <2> HIDE DEF h
  <2>3. OneHolds' /\ Fresh'
    BY <1>0, <2>1 DEF CountInv, OneHolds, Fresh, Critical
  <2>4. Uncounted' = Uncounted \cup {b} /\ b \notin Uncounted
    BY <1>0, <2>1 DEF Uncounted
  <2>5. /\ IsFiniteSet(ledger') /\ Cardinality(ledger') = Cardinality(ledger) + 1
        /\ IsFiniteSet(Uncounted') /\ Cardinality(Uncounted') = Cardinality(Uncounted) + 1
        /\ Cardinality(ledger) \in Nat /\ Cardinality(Uncounted) \in Nat
    BY <2>1, <2>2, <2>4, FS_AddElement, FS_CardinalityType DEF CountInv, Accounts
  <2>6. Accounts'
    BY <1>0, <2>1, <2>5 DEF CountInv, Accounts
  <2>7. \A c \in Claiming \ {b} : c \in Claiming' /\ jobs'[c].host = jobs[c].host
    BY <1>0, <2>1 DEF Claiming
  <2>8. Claims'
    BY <2>1, <2>2, <2>7 DEF CountInv, Claims, h
  <2> QED
    BY <2>3, <2>6, <2>8 DEF CountInv
<1>3. ASSUME NEW b \in Blocks, CountRead(b) PROVE CountInv'
  <2>1. /\ jobs[b].pc = "count" /\ ~Held /\ UNCHANGED <<ledger, blocked, shown, faults>>
        /\ jobs'[b].pc = "count2" /\ jobs'[b].read = blocked
        /\ \A i \in Jobs \ {b} : jobs'[i] = jobs[i]
    BY <1>0, <1>3 DEF CountRead, At, JobType
  <2> QED
    BY <1>0, <2>1, PlainStep DEF Claiming
<1>4. ASSUME NEW b \in Blocks, Counted(b) PROVE CountInv'
  <2>1. /\ jobs[b].pc = "count2" /\ blocked' = jobs[b].read + 1 /\ UNCHANGED <<ledger, shown, faults>>
        /\ jobs'[b].pc = "report"
        /\ \A i \in Jobs \ {b} : jobs'[i] = jobs[i]
    BY <1>0, <1>4 DEF Counted, At, JobType
  <2>2. blocked' = blocked + 1
    BY <1>0, <2>1 DEF CountInv, Fresh
  <2>3. \A i \in Jobs : ~Critical(i)'
    BY <1>0, <2>1 DEF CountInv, OneHolds, Critical
  <2>4. OneHolds' /\ Fresh'
    BY <2>3 DEF OneHolds, Fresh, Critical
  <2>5. Uncounted' = Uncounted \ {b} /\ b \in Uncounted
    BY <1>0, <2>1 DEF Uncounted
  <2>6. /\ IsFiniteSet(Uncounted') /\ Cardinality(Uncounted') = Cardinality(Uncounted) - 1
        /\ Cardinality(ledger) \in Nat /\ Cardinality(Uncounted) \in Nat
    BY <2>5, FS_RemoveElement, FS_CardinalityType DEF CountInv, Accounts
  <2>7. Accounts'
    BY <1>0, <2>1, <2>2, <2>6 DEF CountInv, Accounts
  <2>8. \A c \in Claiming : c \in Claiming' /\ jobs'[c].host = jobs[c].host
    BY <1>0, <2>1 DEF Claiming
  <2>9. Claims'
    BY <2>1, <2>8 DEF CountInv, Claims
  <2> QED
    BY <2>4, <2>7, <2>9 DEF CountInv
<1>5. ASSUME NEW b \in Blocks, Report(b) PROVE CountInv'
  <2>1. /\ jobs[b].pc = "report" /\ UNCHANGED <<ledger, blocked, shown, faults>>
        /\ jobs'[b].pc = "idle"
        /\ \A i \in Jobs \ {b} : jobs'[i] = jobs[i]
    BY <1>0, <1>5 DEF Report, At, Idle
  <2> QED
    BY <1>0, <2>1, PlainStep DEF Critical, Claiming
<1> QED
  BY <1>1, <1>2, <1>3, <1>4, <1>5 DEF Counting

(* A stopped worker frees the mutex and loses what it was counting *)
LEMMA StopCounts == ASSUME Inv, CountInv, Stop PROVE CountInv'
<1>1. /\ \A j \in Jobs : jobs'[j] = Dropped(j)
      /\ UNCHANGED <<ledger, blocked, shown>> /\ faults' # 0
  BY BoundsAssumption DEF Stop, tally, history, Inv, TypeOK, BoundsAssumption
<1>2. \A j \in Jobs : Dropped(j).pc \in {"idle", "block", "left", "lost"}
  BY DEF Dropped, Judged, Idle, Inv, TypeOK, JobType
<1>3. OneHolds' /\ Fresh'
  BY <1>1, <1>2 DEF OneHolds, Fresh, Critical
<1>4. Uncounted' = {}
  BY <1>1, <1>2 DEF Uncounted, Jobs
<1>5. Accounts'
  <2>1. IsFiniteSet(Uncounted) /\ Cardinality(Uncounted) \in Nat /\ Cardinality(ledger) \in Nat /\ blocked \in Nat
    BY FS_CardinalityType DEF CountInv, Accounts, Inv, TypeOK
  <2> QED
    BY <1>1, <1>4, <2>1, FS_EmptySet DEF CountInv, Accounts
<1>6. Claims'
  BY <1>1 DEF CountInv, Claims
<1> QED
  BY <1>3, <1>5, <1>6 DEF CountInv

LEMMA CountStep == ASSUME Inv, CountInv, [Next]_vars PROVE CountInv'
<1>1. CASE Start \/ PauseEnds \/ (\E h \in Hosts : Lapse(h)) \/ UNCHANGED vars
  <2>1. UNCHANGED <<jobs, ledger, blocked, shown, faults>>
    BY <1>1 DEF Start, PauseEnds, Lapse, vars, tally, history, counts
  <2> QED
    BY <2>1 DEF CountInv, OneHolds, Critical, Fresh, Accounts, Uncounted, Claims, Claiming
<1> QED
  BY <1>1, PersonCounts, VerdictCounts, StatsCount, BlockingCounts, CountingCounts, StopCounts
     DEF Next, Checking, Answer

(* What the account is kept with: no host counts twice, and when nothing was cut
   short and nobody is at work, every host shown was counted *)
THEOREM CountedOnce == Spec => []BlocksCountedOnce
<1>1. Inv /\ CountInv => BlocksCountedOnce
  <2> SUFFICES ASSUME Inv, CountInv PROVE BlocksCountedOnce
    OBVIOUS
  <2>1. /\ Cardinality(Uncounted) \in Nat /\ Cardinality(ledger) \in Nat /\ Cardinality(shown) \in Nat
        /\ Cardinality(ledger) <= Cardinality(shown) /\ blocked \in Nat
    BY FS_CardinalityType, FS_Subset DEF CountInv, Accounts, Claims, Inv, TypeOK
  <2>2. blocked <= Cardinality(shown)
    BY <2>1 DEF CountInv, Accounts
  <2>3. ASSUME faults = 0, \A j \in Jobs : jobs[j].pc \in AtRest
        PROVE  blocked = Cardinality(shown)
    <3>1. Uncounted = {} /\ Claiming = {}
      BY <2>3 DEF Uncounted, Claiming, Jobs, AtRest
    <3>2. ledger = shown
      BY <2>3, <3>1 DEF CountInv, Claims
    <3> QED
      BY <2>1, <2>3, <3>1, <3>2, FS_EmptySet DEF CountInv, Accounts
  <2> QED
    BY <2>2, <2>3 DEF BlocksCountedOnce
<1>2. Inv /\ CountInv /\ [Next]_vars => Inv' /\ CountInv'
  BY StepInv, CountStep
<1> QED
  BY <1>1, <1>2, InitInv, CountInit, PTL DEF Spec
=============================================================================
