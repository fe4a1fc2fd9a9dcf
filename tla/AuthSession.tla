----------------------------- MODULE AuthSession -----------------------------
(***************************************************************************)
(* The browser extension's own sign-in: packages/extension-core            *)
(* utils/auth-session.js with background/auth.js and the 403 path of        *)
(* utils/api.js.  Tokens live in two storage areas; the background worker   *)
(* that handles them is stopped and restarted by the browser at will; every *)
(* await is a place where another handler of the same worker runs.         *)
(*                                                                         *)
(* A handler is a job with a step (pc) per await that matters.  The Supabase*)
(* server is external: it rotates a refresh token on every use and refuses  *)
(* an old one.  What it did to a token is kept on every copy of it (is):    *)
(* live; spent, replaced by one the worker holds; dead, its session ended   *)
(* or the answer that replaced it never reached storage.                   *)
(*                                                                         *)
(* Left out: the reason text shown after a sign-out, the e-mail, the refresh *)
(* alarm (one of the events that start a refresh, EnsureFresh) and when a    *)
(* heartbeat is due (any time).                                            *)
(***************************************************************************)
EXTENDS Naturals, FiniteSets

CONSTANTS
    Refreshes,      \* slots for runs of refreshAndBeat (one is used at a time)
    Handoffs,       \* slots for AUTH_CONNECT messages being handled
    MaxSessions,    \* bound: sessions handed over
    MaxKills        \* bound: workers killed in the middle of a job

ASSUME BoundsAssumption ==
    /\ {MaxSessions, MaxKills} \subseteq Nat
    /\ Refreshes \cap Handoffs = {} /\ "out" \notin Refreshes \cup Handoffs

ASSUME RefreshAssumption == Refreshes # {}

VARIABLES
    refreshTok,     \* storage.local: refresh token, with anon key, expiry, e-mail
    fresh,          \* its auth_expires_at is further away than the margin
    accessTok,      \* storage.session: whose access token
    connect,        \* storage.local: an auth_connect_state is there
    up,             \* the worker runs
    jobs,           \* what the worker is doing
    handed,         \* sessions handed over so far
    kills           \* workers killed so far

vars == <<refreshTok, fresh, accessTok, connect, up, jobs,
          handed, kills>>

main   == <<refreshTok, fresh>>
counts == <<handed, kills>>

-----------------------------------------------------------------------------
None     == [sid |-> 0, is |-> "none"]
Sessions == 1..MaxSessions
Tokens   == [sid : Sessions, is : {"live", "spent", "dead"}] \cup {None}
Jobs     == Refreshes \cup Handoffs \cup {"out"}

Steps == {"idle",
          "read", "ask", "store", "store2", "beat",      \* refreshAndBeat
          "spend", "save", "save2",                      \* acceptHandoff
          "link",                                        \* linkThisBrowser, in both
          "so", "soSide", "soMain", "soServer",          \* signOut
          "ubSide", "ubMain"}                            \* signOutUnlinkedBrowser

(* tok: the token a job holds; acc: the access token it read; why: sign-out reason *)
Idle    == [pc |-> "idle", tok |-> None, acc |-> 0, why |-> "none"]
JobType == [pc : Steps, tok : Tokens, acc : 0..MaxSessions,
            why : {"none", "expired", "device_limit", "device_revoked"}]

TypeOK ==
    /\ refreshTok \in Tokens /\ fresh \in BOOLEAN
    /\ accessTok \in 0..MaxSessions
    /\ connect \in BOOLEAN /\ up \in BOOLEAN
    /\ jobs \in [Jobs -> JobType]
    /\ ~up => \A j \in Jobs : jobs[j].pc = "idle"
    /\ handed \in 0..MaxSessions /\ kills \in 0..MaxKills

Init ==
    /\ refreshTok = None /\ fresh = FALSE /\ accessTok = 0
    /\ connect = FALSE /\ up = FALSE
    /\ jobs = [j \in Jobs |-> Idle]
    /\ handed = 0 /\ kills = 0

At(j, step)   == up /\ jobs[j].pc = step
Goto(j, step) == jobs' = [jobs EXCEPT ![j].pc = step]
Finish(j)     == jobs' = [jobs EXCEPT ![j] = Idle]
Busy(js)      == \E j \in js : jobs[j].pc # "idle"

(* What the server did to the copies of session s's tokens everywhere *)
Mark(t, s, state) == IF t.sid = s /\ t.is # "dead" THEN [t EXCEPT !.is = state] ELSE t
MarkJobs(js, s, state) == [j \in Jobs |-> [js[j] EXCEPT !.tok = Mark(@, s, state)]]

-----------------------------------------------------------------------------
(* signOut(reason), the common tail of the ways out: read, remove the access
   token, remove the rest, then end the session on the server where that
   makes sense (the person asked, or the account has no free seat). *)
SignOutRead(j) ==
    /\ At(j, "so")
    /\ jobs' = [jobs EXCEPT ![j].pc = "soSide",
                            ![j].acc = IF refreshTok = None THEN 0 ELSE accessTok]
    /\ UNCHANGED <<main, accessTok, connect, up, counts>>

SignOutSide(j) ==
    /\ At(j, "soSide")
    /\ accessTok' = 0
    /\ Goto(j, "soMain")
    /\ UNCHANGED <<main, connect, up, counts>>

SignOutMain(j) ==
    /\ At(j, "soMain")
    /\ refreshTok' = None /\ fresh' = FALSE
    /\ connect' = FALSE
    /\ IF jobs[j].why \in {"none", "device_limit"} /\ jobs[j].acc # 0
       THEN Goto(j, "soServer")
       ELSE Finish(j)
    /\ UNCHANGED <<accessTok, up, counts>>

(* The logout request: the server ends the session, or never hears of it *)
SignOutServer(j) ==
    /\ At(j, "soServer")
    /\ LET s    == jobs[j].acc
           done == [jobs EXCEPT ![j] = Idle]
       IN \/ /\ refreshTok' = Mark(refreshTok, s, "dead")
             /\ jobs' = MarkJobs(done, s, "dead")
          \/ /\ jobs' = done
             /\ UNCHANGED refreshTok
    /\ UNCHANGED <<fresh, accessTok, connect, up, counts>>

SignOutStep(j) == SignOutRead(j) \/ SignOutSide(j) \/ SignOutMain(j) \/ SignOutServer(j)

(* AUTH_SIGN_OUT from the settings page, which offers it while signed in *)
SignOut ==
    /\ up /\ jobs["out"].pc = "idle"
    /\ accessTok # 0
    /\ jobs' = [jobs EXCEPT !["out"] = [Idle EXCEPT !.pc = "so"]]
    /\ UNCHANGED <<main, accessTok, connect, up, counts>>

(* api.js: a signed-in call is answered 403 device_revoked.  This way out
   leaves the connect state alone. *)
UnlinkedAnswer ==
    /\ up /\ jobs["out"].pc = "idle"
    /\ accessTok # 0
    /\ jobs' = [jobs EXCEPT !["out"] = [Idle EXCEPT !.pc = "ubSide"]]
    /\ UNCHANGED <<main, accessTok, connect, up, counts>>

UnlinkedStep ==
    /\ \/ /\ At("out", "ubSide")
          /\ accessTok' = 0
          /\ Goto("out", "ubMain")
          /\ UNCHANGED main
       \/ /\ At("out", "ubMain")
          /\ refreshTok' = None /\ fresh' = FALSE
          /\ Finish("out")
          /\ UNCHANGED accessTok
    /\ UNCHANGED <<connect, up, counts>>

-----------------------------------------------------------------------------
(* startSignIn: a new state is kept and the connect page opens *)
StartSignIn ==
    /\ up
    /\ handed < MaxSessions
    /\ connect' = TRUE
    /\ UNCHANGED <<main, accessTok, up, jobs, counts>>

(* acceptHandoff: the message's state is the stored one ... *)
Handoff(h) ==
    /\ up /\ jobs[h].pc = "idle"
    /\ connect
    /\ jobs' = [jobs EXCEPT ![h] = [Idle EXCEPT !.pc = "spend"]]
    /\ UNCHANGED <<main, accessTok, connect, up, counts>>

(* ... and is removed, whatever happens next: a live session of its own is
   kept; a state older than 30 minutes or an unusable session ends it here *)
SpendState(h) ==
    /\ At(h, "spend")
    /\ connect' = FALSE
    /\ \/ /\ handed < MaxSessions
          /\ handed' = handed + 1
          /\ jobs' = [jobs EXCEPT ![h].pc = "save",
                                  ![h].tok = [sid |-> handed + 1, is |-> "live"]]
       \/ /\ Finish(h)
          /\ UNCHANGED handed
    /\ UNCHANGED <<main, accessTok, up, kills>>

(* splitStorage.set: storage.local first, the access token after it *)
SaveMain(h) ==
    /\ At(h, "save")
    /\ refreshTok' = jobs[h].tok /\ fresh' = TRUE
    /\ Goto(h, "save2")
    /\ UNCHANGED <<accessTok, connect, up, counts>>

SaveSide(h) ==
    /\ At(h, "save2")
    /\ accessTok' = jobs[h].tok.sid
    /\ jobs' = [jobs EXCEPT ![h] = [Idle EXCEPT !.pc = "link"]]
    /\ UNCHANGED <<main, connect, up, counts>>

HandoffStep(h) == SpendState(h) \/ SaveMain(h) \/ SaveSide(h)

(* linkThisBrowser: POST /api/v1/me/devices.  Linked, or no usable answer:
   nothing changes; no free seat or unlinked: signed out. *)
LinkAnswer(j) ==
    /\ At(j, "link")
    /\ \/ Finish(j)
       \/ \E why \in {"device_limit", "device_revoked"} :
             jobs' = [jobs EXCEPT ![j] = [Idle EXCEPT !.pc = "so", !.why = why]]
    /\ UNCHANGED <<main, accessTok, connect, up, counts>>

-----------------------------------------------------------------------------
(* Mutant: a second run starts while one is in flight *)
Begin_again(js) ==
    [js EXCEPT ![CHOOSE r \in Refreshes : js[r].pc = "idle"] = [Idle EXCEPT !.pc = "read"]]

(* ensureFresh: whoever asks joins the run in flight or starts one *)
Begin(js) ==
    IF Busy(Refreshes) THEN js
    ELSE [js EXCEPT ![CHOOSE r \in Refreshes : js[r].pc = "idle"] = [Idle EXCEPT !.pc = "read"]]

(* AUTH_STATUS from the popup or the settings page, or the alarm *)
EnsureFresh ==
    /\ up
    /\ \E r \in Refreshes : jobs[r].pc = "idle"
    /\ jobs' = Begin(jobs)
    /\ UNCHANGED <<main, accessTok, connect, up, counts>>

(* Any event starts the worker: its first act is ensureFresh() *)
WorkerStarts ==
    /\ ~up
    /\ up' = TRUE
    /\ jobs' = Begin(jobs)
    /\ UNCHANGED <<main, accessTok, connect, counts>>

(* doRefresh: nothing to refresh, still fresh, or the token goes to the server *)
ReadSession(r) ==
    /\ At(r, "read")
    /\ IF refreshTok = None
       THEN Finish(r)
       ELSE IF accessTok # 0 /\ fresh
       THEN Goto(r, "beat")
       ELSE jobs' = [jobs EXCEPT ![r].pc = "ask", ![r].tok = refreshTok]
    /\ UNCHANGED <<main, accessTok, connect, up, counts>>

(* The server rotates a live token: every other copy of it is spent *)
Rotated(r) ==
    /\ At(r, "ask") /\ jobs[r].tok.is = "live"
    /\ LET s == jobs[r].tok.sid
       IN /\ refreshTok' = Mark(refreshTok, s, "spent")
          /\ jobs' = [MarkJobs(jobs, s, "spent") EXCEPT
                         ![r].pc = "store", ![r].tok = [sid |-> s, is |-> "live"]]
    /\ UNCHANGED <<fresh, accessTok, connect, up, counts>>

(* Mutant: a refusal is taken for a passing trouble *)
Refused_kept(r) ==
    /\ At(r, "ask") /\ jobs[r].tok.is # "live"
    /\ jobs' = [jobs EXCEPT ![r] = [Idle EXCEPT !.pc = "beat"]]
    /\ UNCHANGED <<main, accessTok, connect, up, counts>>

(* A token that was spent or whose session ended is refused: fatal *)
Refused(r) ==
    /\ At(r, "ask") /\ jobs[r].tok.is # "live"
    /\ jobs' = [jobs EXCEPT ![r].pc = "so", ![r].why = "expired"]
    /\ UNCHANGED <<main, accessTok, connect, up, counts>>

(* No answer, a 5xx, a 429 or an unusable 200: the session is kept and asked
   about again in two minutes.  The server may have rotated all the same. *)
NoAnswer(r) ==
    /\ At(r, "ask")
    /\ LET s  == jobs[r].tok.sid
           on == [jobs EXCEPT ![r] = [Idle EXCEPT !.pc = "beat"]]
       IN \/ /\ jobs' = on
             /\ UNCHANGED refreshTok
          \/ /\ jobs[r].tok.is = "live"
             /\ refreshTok' = Mark(refreshTok, s, "dead")
             /\ jobs' = MarkJobs(on, s, "dead")
    /\ UNCHANGED <<fresh, accessTok, connect, up, counts>>

StoreMain(r) ==
    /\ At(r, "store")
    /\ refreshTok' = jobs[r].tok /\ fresh' = TRUE
    /\ Goto(r, "store2")
    /\ UNCHANGED <<accessTok, connect, up, counts>>

StoreSide(r) ==
    /\ At(r, "store2")
    /\ accessTok' = jobs[r].tok.sid
    /\ jobs' = [jobs EXCEPT ![r] = [Idle EXCEPT !.pc = "beat"]]
    /\ UNCHANGED <<main, connect, up, counts>>

(* heartbeat: every 6 hours while signed in *)
Heartbeat(r) ==
    /\ At(r, "beat")
    /\ \/ accessTok # 0 /\ jobs' = [jobs EXCEPT ![r] = [Idle EXCEPT !.pc = "link"]]
       \/ Finish(r)
    /\ UNCHANGED <<main, accessTok, connect, up, counts>>

RefreshStep(r) ==
    \/ ReadSession(r) \/ Rotated(r) \/ Refused(r) \/ NoAnswer(r)
    \/ StoreMain(r) \/ StoreSide(r) \/ Heartbeat(r)

-----------------------------------------------------------------------------
(* The browser stops an idle worker; a crash or a quit kills a busy one.  A
   rotated token not yet in storage dies with it. *)
Unsaved(s) == \E r \in Refreshes : jobs[r].pc = "store" /\ jobs[r].tok.sid = s

IdleStop ==
    /\ up /\ ~Busy(Jobs)
    /\ up' = FALSE
    /\ UNCHANGED <<main, accessTok, connect, jobs, counts>>

Kill ==
    /\ up /\ Busy(Jobs)
    /\ kills < MaxKills /\ kills' = kills + 1
    /\ up' = FALSE
    /\ jobs' = [j \in Jobs |-> Idle]
    /\ refreshTok' = IF Unsaved(refreshTok.sid) THEN Mark(refreshTok, refreshTok.sid, "dead")
                                               ELSE refreshTok
    /\ UNCHANGED <<fresh, accessTok, connect, handed>>

(* The browser itself is closed: storage.session is emptied *)
BrowserRestarts ==
    /\ ~up /\ accessTok # 0
    /\ accessTok' = 0
    /\ UNCHANGED <<main, connect, up, jobs, counts>>

(* The session is ended elsewhere: signed out everywhere, account deleted *)
ServerEnds ==
    /\ \E s \in 1..handed :
          /\ refreshTok' = Mark(refreshTok, s, "dead")
          /\ jobs' = MarkJobs(jobs, s, "dead")
    /\ UNCHANGED <<fresh, accessTok, connect, up, counts>>

(* Time: the access token nears its end *)
TokenAges ==
    /\ fresh
    /\ fresh' = FALSE
    /\ UNCHANGED <<refreshTok, accessTok, connect, up, jobs, counts>>

JobStep(j) ==
    \/ SignOutStep(j)
    \/ LinkAnswer(j)
    \/ j \in Handoffs /\ HandoffStep(j)
    \/ j \in Refreshes /\ RefreshStep(j)
    \/ j = "out" /\ UnlinkedStep

Next ==
    \/ \E j \in Jobs : JobStep(j)
    \/ \E h \in Handoffs : Handoff(h)
    \/ SignOut \/ UnlinkedAnswer \/ StartSignIn
    \/ EnsureFresh \/ WorkerStarts
    \/ IdleStop \/ Kill \/ BrowserRestarts \/ ServerEnds \/ TokenAges

Spec == Init /\ [][Next]_vars

(* Handlers go on; an idle worker is stopped and any event starts it again
   (a page visit does); the popup or the alarm asks now and then; tokens age;
   a server asked again and again answers. *)
Fairness ==
    /\ \A j \in Jobs : WF_vars(JobStep(j))
    /\ \A r \in Refreshes : SF_vars(Rotated(r)) /\ SF_vars(Refused(r))
    /\ WF_vars(IdleStop) /\ WF_vars(WorkerStarts) /\ WF_vars(EnsureFresh)
    /\ WF_vars(TokenAges)

FairSpec == Spec /\ Fairness

-----------------------------------------------------------------------------
(* Properties *)

(* The extension never spends its own sign-in: the server refuses a refresh
   token only when the session was ended elsewhere or an answer was lost on
   the way or with a killed worker, never because the worker itself had sent
   the token before ("a rotated token must never be sent twice"). *)
NoSelfInflictedSignOut ==
    \A r \in Refreshes : jobs[r].why = "expired" => jobs[r].tok.is = "dead"

(* Whatever sign-outs, handoffs, refreshes, kills and restarts overlapped, a
   stored refresh token ends up usable with an access token of the same
   session beside it, or it goes: no half session stays behind it. *)
Whole == refreshTok.is = "live" /\ accessTok = refreshTok.sid
Heals == []<>(refreshTok = None \/ Whole)
=============================================================================
