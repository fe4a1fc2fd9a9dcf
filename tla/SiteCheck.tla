------------------------------- MODULE SiteCheck -------------------------------
(***************************************************************************)
(* The browser extension's site check and block page, in                   *)
(* packages/extension-core/src: the content script that has its page checked *)
(* and asks for a block (content/index.js), the background's handler with    *)
(* its verdict cache and its pause after a 429 (background/index.js,         *)
(* verdict-cache.js, public-check.js), the block page with "open anyway"     *)
(* (block-redirect.js), and what a shown block sets off: one count a day     *)
(* under the stats mutex, then the account and the family (page-blocks.js,   *)
(* family-fanout.js).                                                      *)
(*                                                                         *)
(* Every await is a step, so the handlers of several tabs run in any order.  *)
(* The background's memory is lost with its worker; storage.session           *)
(* and storage.local stay.  The API is external and may change its mind.     *)
(*                                                                         *)
(* Left out: scores, reasons and the toolbar badge; hosts judged without the *)
(* API (known safe, user content); allowances and ledger entries growing     *)
(* old; a signed-out person, whose blocks nobody hears about.  A tab opens    *)
(* its next page when the handlers of the last one are done.                 *)
(***************************************************************************)
EXTENDS Naturals, FiniteSets

CONSTANTS
    Hosts, Tabs,
    Guess,          \* hosts the offline scorer calls dangerous
    Links,          \* slots for link checks (CHECK_DOMAINS without page)
    Blocks,         \* slots for shown blocks being counted (countShownBlock)
    MaxVisits,      \* bound: pages opened
    MaxLinks,       \* bound: link checks begun
    MaxLapses,      \* bound: cache entries evicted or past their hour
    MaxFaults       \* bound: workers stopped, tabs that take no block page

ASSUME SlotsAssumption ==
    /\ Tabs \cap Links = {} /\ Tabs \cap Blocks = {} /\ Links \cap Blocks = {}
    /\ "none" \notin Hosts

ASSUME BoundsAssumption ==
    /\ Guess \subseteq Hosts
    /\ {MaxVisits, MaxLinks, MaxLapses, MaxFaults} \subseteq Nat

VARIABLES
    up,             \* the background worker runs
    memory,         \* verdict cache in the worker
    mirror,         \* its API verdicts in storage.session
    paused,         \* pausedUntil lies ahead, in the worker
    pauseKept,      \* and in storage.session
    bypass,         \* storage.session: tab -> host opened anyway
    ledger,         \* storage.local: hosts counted today
    blocked,        \* storage.local: stats.threats_blocked
    tab,            \* what each tab shows
    jobs,           \* the handlers at work
    flagged,        \* hosts the API has called dangerous
    limited,        \* a Retry-After the browser was given has not passed
    shown,          \* hosts a block page was on screen for
    chosen,         \* <<tab, host>> the person opened anyway
    told,           \* hosts the account and the family heard about
    visits, links, lapses, faults

cache   == <<memory, mirror>>
pause   == <<paused, pauseKept, limited>>
tally   == <<ledger, blocked, told>>
counts  == <<visits, links, lapses, faults>>
history == <<flagged, shown, chosen>>
vars    == <<up, cache, pause, bypass, tally, tab, jobs, history, counts>>

-----------------------------------------------------------------------------
(* A verdict: what it says and who says it *)
Verdicts  == [level : {"dangerous", "safe"}, source : {"api", "local"}]
NoVerdict == [level |-> "none", source |-> "none"]
Level(h)  == IF h \in Guess THEN "dangerous" ELSE "safe"
Local(h)  == [level |-> Level(h), source |-> "local"]
Api(l)    == [level |-> l, source |-> "api"]

None == "none"
Jobs == Tabs \cup Links \cup Blocks
Checks == Tabs \cup Links

Steps == {"idle",
          "check", "queued", "number", "answer",              \* handleCheck
          "stats", "stats2",
          "block", "navigate",                                \* onBlockPage
          "left",                                             \* decided: stays open
          "lost",                                             \* undecided or refused
          "proceed", "proceed2",                              \* onProceed
          "claim", "claim2", "count", "count2", "report"}     \* countShownBlock

(* A slot whose last job is over *)
AtRest == {"idle", "left", "lost"}

(* host: whom the job is about; got: the verdict so far; read: stats as read;
   copy: allowances as read *)
Idle == [pc |-> "idle", host |-> None, got |-> NoVerdict,
         read |-> 0, copy |-> [t \in Tabs |-> None]]
JobType == [pc : Steps, host : Hosts \cup {None}, got : Verdicts \cup {NoVerdict},
            read : Nat, copy : [Tabs -> Hosts \cup {None}]]

Blank == [host |-> None, shows |-> "nothing"]

TypeOK ==
    /\ up \in BOOLEAN /\ paused \in BOOLEAN /\ pauseKept \in BOOLEAN /\ limited \in BOOLEAN
    /\ memory \in [Hosts -> Verdicts \cup {NoVerdict}]
    /\ mirror \in [Hosts -> {"dangerous", "safe", None}]
    /\ bypass \in [Tabs -> Hosts \cup {None}]
    /\ ledger \subseteq Hosts /\ shown \subseteq Hosts /\ told \subseteq Hosts
    /\ blocked \in Nat
    /\ tab \in [Tabs -> [host : Hosts \cup {None}, shows : {"nothing", "page", "block"}]]
    /\ jobs \in [Jobs -> JobType]
    /\ flagged \subseteq Hosts /\ chosen \subseteq Tabs \X Hosts
    /\ visits \in 0..MaxVisits /\ links \in 0..MaxLinks
    /\ lapses \in 0..MaxLapses /\ faults \in 0..MaxFaults

Init ==
    /\ up = FALSE
    /\ memory = [h \in Hosts |-> NoVerdict] /\ mirror = [h \in Hosts |-> None]
    /\ paused = FALSE /\ pauseKept = FALSE /\ limited = FALSE
    /\ bypass = [t \in Tabs |-> None]
    /\ ledger = {} /\ blocked = 0 /\ told = {}
    /\ tab = [t \in Tabs |-> Blank]
    /\ jobs = [j \in Jobs |-> Idle]
    /\ flagged = {} /\ shown = {} /\ chosen = {}
    /\ visits = 0 /\ links = 0 /\ lapses = 0 /\ faults = 0

At(j, step)   == up /\ jobs[j].pc = step
Goto(j, step) == jobs' = [jobs EXCEPT ![j].pc = step]

-----------------------------------------------------------------------------
(* The person opens a page; its content script starts checkCurrentPage *)
Open(t, h) == [jobs EXCEPT ![t] = [Idle EXCEPT !.pc = "check", !.host = h]]

Visit(t, h) ==
    /\ visits < MaxVisits /\ jobs[t].pc \in AtRest
    /\ visits' = visits + 1
    /\ tab' = [tab EXCEPT ![t] = [host |-> h, shows |-> "page"]]
    /\ jobs' = Open(t, h)
    /\ UNCHANGED <<up, cache, pause, bypass, tally, history, links, lapses, faults>>

(* or closes it for a page no script runs on; the handlers go on *)
Leave(t) ==
    /\ tab[t].shows = "page"
    /\ tab' = [tab EXCEPT ![t] = Blank]
    /\ UNCHANGED <<up, cache, pause, bypass, tally, jobs, history, counts>>

(* A page with a link to h, the popup or the context menu has h checked *)
CheckLink(l, h) ==
    /\ links < MaxLinks /\ jobs[l].pc = "idle"
    /\ links' = links + 1
    /\ jobs' = [jobs EXCEPT ![l] = [Idle EXCEPT !.pc = "check", !.host = h]]
    /\ UNCHANGED <<up, cache, pause, bypass, tally, tab, history, visits, lapses, faults>>

(* An event starts the worker: createPublicCheck reads the kept pause before
   the first handler's own read of storage.session answers (the area answers
   in order), the verdicts come back host by host (hydrate). *)
OnStart_forgotten(kept) == paused' = FALSE  \* mutant: the pause is not kept
OnStart(kept) == paused' = kept

Start ==
    /\ ~up /\ \E j \in Jobs : jobs[j].pc \notin AtRest
    /\ up' = TRUE
    /\ OnStart(pauseKept)
    /\ UNCHANGED <<cache, pauseKept, limited, bypass, tally, tab, jobs, history, counts>>

-----------------------------------------------------------------------------
(* handleCheck: hydrate, then the cache, of which a page check takes an API
   verdict only.  A link waits for one of the few places (mapLimit). *)
Hydrated(h) == IF memory[h] = NoVerdict /\ mirror[h] # None
               THEN [memory EXCEPT ![h] = Api(mirror[h])] ELSE memory
Usable(v, page) == v # NoVerdict /\ (page => v.source = "api")

Keep(m, h, v) == memory' = [m EXCEPT ![h] = v]

Check(j) ==
    /\ At(j, "check")
    /\ LET v == Hydrated(jobs[j].host)[jobs[j].host]
       IN IF Usable(v, j \in Tabs)
          THEN jobs' = [jobs EXCEPT ![j].pc = "stats", ![j].got = v]
          ELSE Goto(j, IF j \in Tabs THEN "number" ELSE "queued")
    /\ memory' = Hydrated(jobs[j].host)
    /\ UNCHANGED <<up, mirror, pause, bypass, tally, tab, history, counts>>

(* lookup: a link waits out a pause with its offline verdict, a page does not;
   the way to the request leads over the install number (storage.local). *)
Lookup(l) ==
    /\ At(l, "queued")
    /\ IF paused
       THEN /\ Keep(memory, jobs[l].host, Local(jobs[l].host))
            /\ jobs' = [jobs EXCEPT ![l].pc = "stats", ![l].got = Local(jobs[l].host)]
       ELSE Goto(l, "number") /\ UNCHANGED memory
    /\ UNCHANGED <<up, mirror, pause, bypass, tally, tab, history, counts>>

(* The request; the pause is not looked at again *)
Send(j) ==
    /\ At(j, "number")
    /\ Goto(j, "answer")
    /\ UNCHANGED <<up, cache, pause, bypass, tally, tab, history, counts>>

(* The API's verdict: an hour, in memory and in storage.session *)
Answered(j, l) ==
    /\ At(j, "answer")
    /\ LET h == jobs[j].host
       IN /\ Keep(memory, h, Api(l))
          /\ mirror' = [mirror EXCEPT ![h] = l]
          /\ flagged' = IF l = "dangerous" THEN flagged \cup {h} ELSE flagged
          /\ jobs' = [jobs EXCEPT ![j].pc = "stats", ![j].got = Api(l)]
    /\ UNCHANGED <<up, pause, bypass, tally, tab, shown, chosen, counts>>

(* No verdict, so the offline one stands in.  It is kept, whatever the cache
   held: after an error, a timeout, no network; through a pause that a 429
   starts; not at all after a 429 that asks for no wait. *)
Unanswered(j) ==
    /\ At(j, "answer")
    /\ LET h == jobs[j].host
       IN \/ Keep(memory, h, Local(h)) /\ UNCHANGED pause
          \/ Keep(memory, h, Local(h)) /\ paused' = TRUE /\ pauseKept' = TRUE /\ limited' = TRUE
          \/ Keep(memory, h, NoVerdict) /\ UNCHANGED pause
    /\ jobs' = [jobs EXCEPT ![j].pc = "stats", ![j].got = Local(jobs[j].host)]
    /\ UNCHANGED <<up, mirror, bypass, tally, tab, history, counts>>

-----------------------------------------------------------------------------
(* The stats mutex: a task holds it from its read to its write *)
Held_never == FALSE                             \* mutant: no mutex
Held == \E j \in Jobs : jobs[j].pc \in {"stats2", "claim2", "count2"}

(* recordCheckStats rewrites the whole stats record *)
StatsRead(j) ==
    /\ At(j, "stats") /\ ~Held
    /\ jobs' = [jobs EXCEPT ![j].pc = "stats2", ![j].read = blocked]
    /\ UNCHANGED <<up, cache, pause, bypass, tally, tab, history, counts>>

(* The reply: the content script merges it with its own offline score, the
   API's word winning both ways, and sends danger back (BLOCK_PAGE). *)
Merged(got, h) == IF got.source = "api" THEN got ELSE Local(h)

Judged(t, got) ==
    IF tab[t].shows # "page" THEN Idle
    ELSE IF got.level = "dangerous"
         THEN [Idle EXCEPT !.pc = "block", !.host = jobs[t].host, !.got = got]
         ELSE Idle

StatsWritten(j) ==
    /\ At(j, "stats2")
    /\ blocked' = jobs[j].read
    /\ jobs' = [jobs EXCEPT ![j] = IF j \in Links THEN Idle
                                   ELSE Judged(j, Merged(@.got, @.host))]
    /\ UNCHANGED <<up, cache, pause, bypass, ledger, told, tab, history, counts>>

-----------------------------------------------------------------------------
(* onBlockPage: what the cache calls dangerous or else what the page reports,
   unless the person opened this host anyway in this tab. *)
Dangerous_cached(cached, reported) == cached.level = "dangerous"  \* mutant: no report
Dangerous(cached, reported) == "dangerous" \in {cached.level, reported.level}
Allowed(t, h) == bypass[t] = h

BlockPage(t) ==
    /\ At(t, "block")
    /\ Goto(t, IF Dangerous(memory[jobs[t].host], jobs[t].got) /\ ~Allowed(t, jobs[t].host)
               THEN "navigate" ELSE "left")
    /\ UNCHANGED <<up, cache, pause, bypass, tally, tab, history, counts>>

(* A block of h is on screen: countShownBlock starts in a free slot *)
Show(t, b) ==
    /\ jobs[b].pc = "idle"
    /\ tab' = [tab EXCEPT ![t] = [host |-> jobs[t].host, shows |-> "block"]]
    /\ shown' = shown \cup {jobs[t].host}
    /\ jobs' = [jobs EXCEPT ![t] = Idle,
                            ![b] = [Idle EXCEPT !.pc = "claim", !.host = jobs[t].host]]

(* tabs.update, wherever the tab is by now; where the browser refuses it, the
   overlay, which reports itself (PAGE_BLOCKED), if the page is still there. *)
Navigate(t) ==
    /\ At(t, "navigate")
    /\ \E b \in Blocks : Show(t, b)
    /\ UNCHANGED <<up, cache, pause, bypass, tally, flagged, chosen, counts>>

(* Neither is possible: nothing is blocked *)
Refused(t) ==
    /\ At(t, "navigate") /\ faults < MaxFaults
    /\ faults' = faults + 1
    /\ Goto(t, "lost")
    /\ UNCHANGED <<up, cache, pause, bypass, tally, tab, history, visits, links, lapses>>

(* "Open anyway" on the block page (BLOCK_PROCEED): the allowances are read,
   changed and written, then the tab goes back to the site. *)
ChooseOpen(t) ==
    /\ tab[t].shows = "block" /\ jobs[t].pc = "idle" /\ visits < MaxVisits
    /\ visits' = visits + 1
    /\ chosen' = chosen \cup {<<t, tab[t].host>>}
    /\ jobs' = [jobs EXCEPT ![t] = [Idle EXCEPT !.pc = "proceed", !.host = tab[t].host]]
    /\ UNCHANGED <<up, cache, pause, bypass, tally, tab, flagged, shown, links, lapses, faults>>

ProceedRead(t) ==
    /\ At(t, "proceed")
    /\ jobs' = [jobs EXCEPT ![t].pc = "proceed2", ![t].copy = bypass]
    /\ UNCHANGED <<up, cache, pause, bypass, tally, tab, history, counts>>

ProceedWritten(t) ==
    /\ At(t, "proceed2")
    /\ bypass' = [jobs[t].copy EXCEPT ![t] = jobs[t].host]
    /\ tab' = [tab EXCEPT ![t].shows = "page"]
    /\ jobs' = Open(t, jobs[t].host)
    /\ UNCHANGED <<up, cache, pause, tally, history, counts>>

-----------------------------------------------------------------------------
(* countShownBlock: claim the host's first block today, count it, report it *)
Claim(b) ==
    /\ At(b, "claim") /\ ~Held
    /\ IF jobs[b].host \in ledger
       THEN jobs' = [jobs EXCEPT ![b] = Idle]
       ELSE Goto(b, "claim2")
    /\ UNCHANGED <<up, cache, pause, bypass, tally, tab, history, counts>>

Claimed(b) ==
    /\ At(b, "claim2")
    /\ ledger' = ledger \cup {jobs[b].host}
    /\ Goto(b, "count")
    /\ UNCHANGED <<up, cache, pause, bypass, blocked, told, tab, history, counts>>

CountRead(b) ==
    /\ At(b, "count") /\ ~Held
    /\ jobs' = [jobs EXCEPT ![b].pc = "count2", ![b].read = blocked]
    /\ UNCHANGED <<up, cache, pause, bypass, tally, tab, history, counts>>

Counted(b) ==
    /\ At(b, "count2")
    /\ blocked' = jobs[b].read + 1
    /\ jobs' = [jobs EXCEPT ![b].pc = "report", ![b].read = 0]
    /\ UNCHANGED <<up, cache, pause, bypass, ledger, told, tab, history, counts>>

(* reportBlockToAccount: only what the API itself called dangerous *)
Confirmed_level(v) == v.level = "dangerous"     \* mutant: whoever says so
Confirmed(v) == v.source = "api" /\ v.level = "dangerous"

Report(b) ==
    /\ At(b, "report")
    /\ told' = IF Confirmed(memory[jobs[b].host]) THEN told \cup {jobs[b].host} ELSE told
    /\ jobs' = [jobs EXCEPT ![b] = Idle]
    /\ UNCHANGED <<up, cache, pause, bypass, ledger, blocked, tab, history, counts>>

-----------------------------------------------------------------------------
(* An entry of the cache is evicted; an API verdict's hour is over *)
Lapse(h) ==
    /\ memory[h] # NoVerdict /\ lapses < MaxLapses
    /\ lapses' = lapses + 1
    /\ memory' = [memory EXCEPT ![h] = NoVerdict]
    /\ mirror' \in {mirror, [mirror EXCEPT ![h] = None]}
    /\ UNCHANGED <<up, pause, bypass, tally, tab, jobs, history, visits, links, faults>>

PauseEnds ==
    /\ limited
    /\ paused' = FALSE /\ pauseKept' = FALSE /\ limited' = FALSE
    /\ UNCHANGED <<up, cache, bypass, tally, tab, jobs, history, counts>>

(* The browser stops the worker.  Handlers end where they are; the content
   script of an unanswered check falls back to its own score, an unanswered
   BLOCK_PAGE leaves the page open, an unanswered BLOCK_PROCEED the block page. *)
Dropped(j) ==
    CASE jobs[j].pc \in {"check", "number", "answer", "stats", "stats2"} /\ j \in Tabs ->
            Judged(j, Local(jobs[j].host))
      [] jobs[j].pc \in {"block", "navigate"} -> [jobs[j] EXCEPT !.pc = "lost"]
      [] jobs[j].pc \in {"left", "lost"}      -> jobs[j]
      [] OTHER                                -> Idle

Stop ==
    /\ up /\ faults < MaxFaults
    /\ faults' = faults + 1
    /\ up' = FALSE
    /\ memory' = [h \in Hosts |-> NoVerdict] /\ paused' = FALSE
    /\ jobs' = [j \in Jobs |-> Dropped(j)]
    /\ UNCHANGED <<mirror, pauseKept, limited, bypass, tally, tab, history,
                   visits, links, lapses>>

-----------------------------------------------------------------------------
Person == \/ \E t \in Tabs : Leave(t) \/ ChooseOpen(t) \/ \E h \in Hosts : Visit(t, h)
          \/ \E l \in Links, h \in Hosts : CheckLink(l, h)

Checking == \E j \in Checks :
    Check(j) \/ (j \in Links /\ Lookup(j)) \/ Send(j) \/ StatsRead(j) \/ StatsWritten(j)
Answer == \E j \in Checks :
    Unanswered(j) \/ \E l \in {"dangerous", "safe"} : Answered(j, l)
Blocking == \E t \in Tabs :
    \/ BlockPage(t) \/ Navigate(t) \/ Refused(t)
    \/ ProceedRead(t) \/ ProceedWritten(t)
Counting == \E b \in Blocks :
    Claim(b) \/ Claimed(b) \/ CountRead(b) \/ Counted(b) \/ Report(b)

Next == \/ Person \/ Start \/ Checking \/ Answer \/ Blocking \/ Counting
        \/ PauseEnds \/ Stop \/ \E h \in Hosts : Lapse(h)

Spec == Init /\ [][Next]_vars

-----------------------------------------------------------------------------
(* A relative and the account hear of a host only after a block page for it
   was on screen and the API itself had called it dangerous: never of an
   offline verdict, a link or a page nobody saw blocked (reportBlockToAccount). *)
FamilyHearsConfirmed ==
    \A h \in told : h \in shown \cap flagged

(* A scam site counts once however often, and in however many tabs at once,
   it is blocked; and none is lost to another handler's write of the stats
   (countShownBlock, updateStats, the mutex). *)
BlocksCountedOnce ==
    /\ blocked <= Cardinality(shown)
    /\ (faults = 0 /\ \A j \in Jobs : jobs[j].pc \in AtRest)
         => blocked = Cardinality(shown)

(* Asked to block a page that was judged dangerous, a handler that lives to
   decide leaves it open only if the person chose to open that host in that
   tab, whatever the cache holds by then and however many workers were stopped
   before.  Excused is the page whose own handler was stopped, or whose tab
   took no block page ("lost") (onBlockPage, verdictFor, bypass). *)
DangerIsBlocked ==
    \A t \in Tabs : jobs[t].pc = "left" => <<t, jobs[t].host>> \in chosen

(* A link check goes on to ask only while no Retry-After runs, not even in a
   worker that has only just started (public-check.js: pause, pauseStore).  One
   that was past this point when the 429 came is sent all the same. *)
LinksWaitOutThePause ==
    [][\A l \in Links : jobs[l].pc = "queued" /\ jobs'[l].pc = "number" => ~limited]_vars

(* "Open anyway" lets the person into that site in that tab: the same tab is not
   taken away from it again (block-redirect.js, allow, isAllowed). *)
OpenedStaysOpen ==
    \A t \in Tabs : jobs[t].pc = "navigate" => <<t, jobs[t].host>> \notin chosen
=============================================================================
