--------------------------- MODULE AuthSessionProofs ---------------------------
(***************************************************************************)
(* For any number of sessions, handoffs in progress and killed workers: the *)
(* server never refuses the extension for a token the extension had spent   *)
(* itself.                                                                 *)
(*                                                                         *)
(* The invariant speaks of the stored token t, the jobs js and the number n  *)
(* of sessions handed over, so that a step can be taken in two parts: a job  *)
(* moves, then the server's answer marks every copy of a token.             *)
(***************************************************************************)
EXTENDS AuthSession, TLAPS

(* One run of refreshAndBeat at a time *)
SingleFlight(js) == \A r, q \in Refreshes : js[r].pc # "idle" /\ js[q].pc # "idle" => r = q

(* A token about to be sent or to be stored was not spent before *)
Sendable(js) == \A r \in Refreshes : js[r].pc \in {"ask", "store"} => js[r].tok.is \in {"live", "dead"}

(* The stored token is spent only while its successor waits to be stored *)
StoredIsLast(t, js) == t.is = "spent" => \E r \in Refreshes : js[r].pc = "store" /\ js[r].tok.sid = t.sid

(* A session handed over is nowhere else until it is saved *)
OwnSession(t, js) ==
    \A h \in Handoffs : js[h].pc = "save" =>
        /\ js[h].tok.is \in {"live", "dead"}
        /\ js[h].tok.sid # t.sid
        /\ \A j \in Jobs \ {h} : js[j].tok.sid # js[h].tok.sid

(* Only sessions that were handed over are known *)
Known(t, js, n) == t.sid <= n /\ \A j \in Jobs : js[j].tok.sid <= n

(* A job that signs out because of a refusal holds a token that had ended; one
   that tells the server knows the session *)
Leaves(w) == /\ w.why = "expired" => w.tok.is = "dead" /\ w.pc \in {"so", "soSide", "soMain", "soServer"}
             /\ w.pc = "soServer" => w.acc # 0
Ended(js) == \A j \in Jobs : Leaves(js[j])

Fine(t, js, n) ==
    /\ t \in Tokens /\ js \in [Jobs -> JobType] /\ n \in Nat
    /\ SingleFlight(js) /\ Sendable(js) /\ StoredIsLast(t, js)
    /\ OwnSession(t, js) /\ Known(t, js, n) /\ Ended(js)

Inv == TypeOK /\ Fine(refreshTok, jobs, handed)

-----------------------------------------------------------------------------
(* What tokens and idle slots are *)
LEMMA TokenFacts ==
  /\ None \in Tokens /\ Idle \in JobType
  /\ \A t \in Tokens : t.sid \in Nat /\ (t.is # "none" => t.sid \in Sessions)
  /\ \A t \in Tokens : t.is = "none" <=> t = None
<1> USE BoundsAssumption DEF Tokens, Sessions, None, BoundsAssumption
<1>1. None \in Tokens
  OBVIOUS
<1>2. Idle \in JobType
  BY <1>1 DEF Idle, JobType, Steps
<1>3. \A t \in Tokens : t.sid \in Nat /\ (t.is # "none" => t.sid \in Sessions)
  OBVIOUS
<1>4. \A t \in Tokens : t.is = "none" <=> t = None
  OBVIOUS
<1> QED
  BY <1>1, <1>2, <1>3, <1>4

LEMMA MarkFacts ==
  ASSUME NEW t \in Tokens, NEW s \in Sessions, NEW state \in {"spent", "dead"}
  PROVE  /\ Mark(t, s, state) \in Tokens /\ Mark(t, s, state).sid = t.sid
         /\ t.sid # s => Mark(t, s, state) = t
         /\ t.is = "dead" => Mark(t, s, state).is = "dead"
         /\ t.sid = s => Mark(t, s, state).is \in {state, "dead"}
<1> USE BoundsAssumption DEF Tokens, Sessions, None, Mark, BoundsAssumption
<1>1. CASE t.sid = s /\ t.is # "dead"
  <2>1. Mark(t, s, state) = [sid |-> s, is |-> state]
    BY <1>1
  <2> QED
    BY <1>1, <2>1
<1>2. CASE ~(t.sid = s /\ t.is # "dead")
  BY <1>2
<1> QED
  BY <1>1, <1>2

LEMMA MarkJobsFacts ==
  ASSUME NEW js \in [Jobs -> JobType], NEW s \in Sessions, NEW state \in {"spent", "dead"}
  PROVE  /\ MarkJobs(js, s, state) \in [Jobs -> JobType]
         /\ \A j \in Jobs : /\ MarkJobs(js, s, state)[j].tok = Mark(js[j].tok, s, state)
                            /\ MarkJobs(js, s, state)[j].pc = js[j].pc
                            /\ MarkJobs(js, s, state)[j].acc = js[j].acc
                            /\ MarkJobs(js, s, state)[j].why = js[j].why
<1>1. ASSUME NEW j \in Jobs
      PROVE  /\ MarkJobs(js, s, state)[j] \in JobType
             /\ MarkJobs(js, s, state)[j].tok = Mark(js[j].tok, s, state)
             /\ MarkJobs(js, s, state)[j].pc = js[j].pc
             /\ MarkJobs(js, s, state)[j].acc = js[j].acc
             /\ MarkJobs(js, s, state)[j].why = js[j].why
  <2> DEFINE w == js[j]
  <2>1. MarkJobs(js, s, state)[j] = [w EXCEPT !.tok = Mark(w.tok, s, state)]
    BY DEF MarkJobs
  <2>2. w \in JobType /\ Mark(w.tok, s, state) \in Tokens
    BY MarkFacts DEF JobType
  <2> QED
    BY <2>1, <2>2 DEF JobType
<1>2. MarkJobs(js, s, state) \in [Jobs -> JobType]
  BY <1>1 DEF MarkJobs
<1> QED
  BY <1>1, <1>2

-----------------------------------------------------------------------------
(* The parts a step is made of *)

(* js2 has w in slot j and is js elsewhere *)
Changed(js, j, w, js2) == js2 \in [Jobs -> JobType] /\ js2[j] = w /\ \A i \in Jobs \ {j} : js2[i] = js[i]

(* Job j becomes w; the stored token stays or goes *)
LEMMA JobMoves ==
  ASSUME NEW t, NEW js, NEW n, Fine(t, js, n), NEW j \in Jobs, NEW w \in JobType, NEW t2 \in {t, None},
         NEW js2, Changed(js, j, w, js2),
         j \in Refreshes /\ w.pc # "idle" => js[j].pc # "idle" \/ ~\E r \in Refreshes : js[r].pc # "idle",
         j \in Refreshes => w.pc # "store" /\ (t2 = None \/ js[j].pc # "store"),
         j \in Refreshes /\ w.pc = "ask" => w.tok.is \in {"live", "dead"},
         j \in Handoffs => w.pc # "save",
         w.tok \in {js[j].tok, t, None},
         Leaves(w)
  PROVE  Fine(t2, js2, n)
<1>1. js2 \in [Jobs -> JobType] /\ js2[j] = w /\ \A i \in Jobs \ {j} : js2[i] = js[i]
  BY DEF Changed
<1>2. Refreshes \subseteq Jobs /\ Handoffs \subseteq Jobs
  BY DEF Jobs
<1>3. t2 \in Tokens /\ n \in Nat /\ SingleFlight(js2)
  BY <1>1, <1>2, TokenFacts DEF Fine, SingleFlight
<1>4. Sendable(js2)
  BY <1>1, <1>2 DEF Fine, Sendable
<1>5. StoredIsLast(t2, js2)
  BY <1>1, <1>2 DEF Fine, StoredIsLast, None
<1>6. OwnSession(t2, js2)
  <2> SUFFICES ASSUME NEW h \in Handoffs, js2[h].pc = "save"
               PROVE  /\ js2[h].tok.is \in {"live", "dead"} /\ js2[h].tok.sid # t2.sid
                      /\ \A i \in Jobs \ {h} : js2[i].tok.sid # js2[h].tok.sid
    BY DEF OwnSession
  <2>1. h # j /\ js2[h] = js[h] /\ h \in Jobs
    BY <1>1, <1>2
  <2>2. /\ js[h].tok.is \in {"live", "dead"} /\ js[h].tok.sid # t.sid
        /\ \A i \in Jobs \ {h} : js[i].tok.sid # js[h].tok.sid
    BY <2>1 DEF Fine, OwnSession
  <2>3. js[h].tok.sid # None.sid
    <3>1. js[h].tok \in Tokens
      BY <2>1 DEF Fine, JobType
    <3> QED
      BY <2>2, <3>1, TokenFacts, BoundsAssumption DEF None, Sessions, BoundsAssumption
  <2> QED
    BY <1>1, <2>1, <2>2, <2>3
<1>7. Known(t2, js2, n)
  <2>1. t2.sid <= n /\ w.tok.sid <= n
    BY TokenFacts DEF Fine, Known, None
  <2> QED
    BY <1>1, <2>1 DEF Fine, Known
<1>8. Ended(js2)
  BY <1>1 DEF Fine, Ended
<1> QED
  BY <1>1, <1>3, <1>4, <1>5, <1>6, <1>7, <1>8 DEF Fine

(* A session ends on the server *)
LEMMA SessionEnds ==
  ASSUME NEW t, NEW js, NEW n, Fine(t, js, n), NEW s \in Sessions
  PROVE  Fine(Mark(t, s, "dead"), MarkJobs(js, s, "dead"), n)
<1> DEFINE t2  == Mark(t, s, "dead")
           js2 == MarkJobs(js, s, "dead")
<1>1. t \in Tokens /\ t2 \in Tokens /\ t2.sid = t.sid /\ (t2.is = t.is \/ t2.is = "dead")
  BY MarkFacts DEF Fine
<1>2. js2 \in [Jobs -> JobType] /\ n \in Nat
  BY MarkJobsFacts DEF Fine
<1>3. \A j \in Jobs : /\ js2[j].pc = js[j].pc /\ js2[j].why = js[j].why /\ js2[j].acc = js[j].acc
                      /\ js2[j].tok.sid = js[j].tok.sid
                      /\ js2[j].tok.is \in {js[j].tok.is, "dead"}
                      /\ js[j].tok.is = "dead" => js2[j].tok.is = "dead"
  <2> SUFFICES ASSUME NEW j \in Jobs
               PROVE  /\ js2[j].pc = js[j].pc /\ js2[j].why = js[j].why /\ js2[j].acc = js[j].acc
                      /\ js2[j].tok.sid = js[j].tok.sid
                      /\ js2[j].tok.is \in {js[j].tok.is, "dead"}
                      /\ js[j].tok.is = "dead" => js2[j].tok.is = "dead"
    OBVIOUS
  <2>1. js[j].tok \in Tokens /\ js2[j].tok = Mark(js[j].tok, s, "dead")
        /\ js2[j].pc = js[j].pc /\ js2[j].why = js[j].why /\ js2[j].acc = js[j].acc
    BY MarkJobsFacts DEF Fine, JobType
  <2> QED
    BY <2>1, MarkFacts
<1>4. Refreshes \subseteq Jobs /\ Handoffs \subseteq Jobs
  BY DEF Jobs
<1> HIDE DEF t2, js2
<1>5. SingleFlight(js2) /\ Sendable(js2)
  BY <1>3, <1>4 DEF Fine, SingleFlight, Sendable
<1>6. StoredIsLast(t2, js2)
  BY <1>1, <1>3, <1>4 DEF Fine, StoredIsLast
<1>7. OwnSession(t2, js2)
  BY <1>1, <1>3, <1>4 DEF Fine, OwnSession
<1>8. Known(t2, js2, n) /\ Ended(js2)
  BY <1>1, <1>3 DEF Fine, Known, Ended, Leaves
<1> QED
  BY <1>1, <1>2, <1>5, <1>6, <1>7, <1>8 DEF Fine, t2, js2

(* The server rotates the token refresh r sent *)
LEMMA TokenRotates ==
  ASSUME NEW t, NEW js, NEW n, Fine(t, js, n), NEW r \in Refreshes,
         js[r].pc = "ask", js[r].tok.is = "live", NEW s, s = js[r].tok.sid
  PROVE  /\ s \in Sessions
         /\ Fine(Mark(t, s, "spent"),
                 [MarkJobs(js, s, "spent") EXCEPT ![r].pc = "store", ![r].tok = [sid |-> s, is |-> "live"]], n)
<1> DEFINE t2  == Mark(t, s, "spent")
           mk  == MarkJobs(js, s, "spent")
           w   == [mk[r] EXCEPT !.pc = "store", !.tok = [sid |-> s, is |-> "live"]]
           js2 == [mk EXCEPT ![r].pc = "store", ![r].tok = [sid |-> s, is |-> "live"]]
<1>0. r \in Jobs /\ Refreshes \subseteq Jobs /\ Handoffs \subseteq Jobs
  BY DEF Jobs
<1>1. s \in Sessions /\ [sid |-> s, is |-> "live"] \in Tokens
  <2>1. js[r].tok \in Tokens
    BY <1>0 DEF Fine, JobType
  <2>2. s \in Sessions
    BY <2>1, TokenFacts
  <2> QED
    BY <2>2 DEF Tokens
<1>2. t \in Tokens /\ t2 \in Tokens /\ t2.sid = t.sid /\ (t.sid # s => t2 = t)
  BY <1>1, MarkFacts DEF Fine
<1>3. mk \in [Jobs -> JobType] /\ n \in Nat
  BY <1>1, MarkJobsFacts DEF Fine
<1>4. w \in JobType /\ w.pc = "store" /\ w.tok = [sid |-> s, is |-> "live"] /\ w.why = mk[r].why
  <2> HIDE DEF mk
  <2> QED
    BY <1>0, <1>1, <1>3 DEF JobType, Steps
<1>5. js2 \in [Jobs -> JobType] /\ js2[r] = w /\ \A j \in Jobs \ {r} : js2[j] = mk[j]
  <2> HIDE DEF mk
  <2>1. js2 = [mk EXCEPT ![r] = w]
    BY <1>0, <1>3
  <2> QED
    BY <1>0, <1>3, <1>4, <2>1
<1>6. \A j \in Jobs : /\ mk[j].pc = js[j].pc /\ mk[j].why = js[j].why /\ mk[j].acc = js[j].acc
                      /\ mk[j].tok.sid = js[j].tok.sid
                      /\ js[j].tok.sid # s => mk[j].tok = js[j].tok
                      /\ js[j].tok.is = "dead" => mk[j].tok.is = "dead"
  <2> SUFFICES ASSUME NEW j \in Jobs
               PROVE  /\ mk[j].pc = js[j].pc /\ mk[j].why = js[j].why /\ mk[j].acc = js[j].acc
                      /\ mk[j].tok.sid = js[j].tok.sid
                      /\ js[j].tok.sid # s => mk[j].tok = js[j].tok
                      /\ js[j].tok.is = "dead" => mk[j].tok.is = "dead"
    OBVIOUS
  <2>1. js[j].tok \in Tokens /\ mk[j].tok = Mark(js[j].tok, s, "spent")
        /\ mk[j].pc = js[j].pc /\ mk[j].why = js[j].why /\ mk[j].acc = js[j].acc
    BY <1>1, MarkJobsFacts DEF Fine, JobType
  <2> QED
    BY <1>1, <2>1, MarkFacts
<1> HIDE DEF t2, mk, w, js2
<1>7. \A q \in Refreshes \ {r} : js[q].pc = "idle" /\ js2[q].pc = "idle"
  BY <1>0, <1>5, <1>6 DEF Fine, SingleFlight
<1>8. SingleFlight(js2) /\ Sendable(js2)
  BY <1>4, <1>5, <1>7 DEF SingleFlight, Sendable
<1>9. StoredIsLast(t2, js2)
  <2>1. t.is # "spent"
    BY <1>7 DEF Fine, StoredIsLast
  <2>2. t2.is = "spent" => t.sid = s
    BY <1>2, <2>1
  <2> QED
    BY <1>2, <1>4, <1>5, <2>2 DEF StoredIsLast
<1>10. OwnSession(t2, js2)
  <2> SUFFICES ASSUME NEW h \in Handoffs, js2[h].pc = "save"
               PROVE  /\ js2[h].tok.is \in {"live", "dead"} /\ js2[h].tok.sid # t2.sid
                      /\ \A j \in Jobs \ {h} : js2[j].tok.sid # js2[h].tok.sid
    BY DEF OwnSession
  <2>1. h # r /\ h \in Jobs /\ js2[h] = mk[h] /\ js[h].pc = "save"
    BY <1>0, <1>4, <1>5, <1>6
  <2>2. /\ js[h].tok.is \in {"live", "dead"} /\ js[h].tok.sid # t.sid
        /\ \A j \in Jobs \ {h} : js[j].tok.sid # js[h].tok.sid
    BY <2>1 DEF Fine, OwnSession
  <2>3. js[h].tok.sid # s /\ mk[h].tok = js[h].tok
    BY <1>0, <1>6, <2>1, <2>2
  <2> QED
    BY <1>2, <1>4, <1>5, <1>6, <2>1, <2>2, <2>3
<1>11. Known(t2, js2, n)
  <2>1. \A j \in Jobs : js2[j].tok.sid = js[j].tok.sid
    BY <1>0, <1>4, <1>5, <1>6
  <2> QED
    BY <1>2, <2>1 DEF Fine, Known
<1>12. Ended(js2)
  <2>1. js2[r].why # "expired"
    BY <1>0, <1>4, <1>5, <1>6 DEF Fine, Ended, Leaves
  <2> QED
    BY <1>4, <1>5, <1>6, <2>1 DEF Fine, Ended, Leaves
<1> QED
  BY <1>1, <1>2, <1>3, <1>5, <1>8, <1>9, <1>10, <1>11, <1>12 DEF Fine, t2, mk, js2

(* A handoff takes a session of its own *)
LEMMA SessionHanded ==
  ASSUME NEW t, NEW js, NEW n, Fine(t, js, n), n < MaxSessions, NEW h \in Handoffs, js[h].pc = "spend"
  PROVE  Fine(t, [js EXCEPT ![h].pc = "save", ![h].tok = [sid |-> n + 1, is |-> "live"]], n + 1)
<1> DEFINE w   == [js[h] EXCEPT !.pc = "save", !.tok = [sid |-> n + 1, is |-> "live"]]
           js2 == [js EXCEPT ![h].pc = "save", ![h].tok = [sid |-> n + 1, is |-> "live"]]
<1>0. h \in Jobs /\ h \notin Refreshes /\ Refreshes \subseteq Jobs /\ Handoffs \subseteq Jobs
  BY BoundsAssumption DEF Jobs, BoundsAssumption
<1>1. n \in Nat /\ n + 1 \in Sessions /\ [sid |-> n + 1, is |-> "live"] \in Tokens
  <2>1. n \in Nat /\ n + 1 \in Sessions
    BY BoundsAssumption DEF Fine, Sessions, BoundsAssumption
  <2> QED
    BY <2>1 DEF Tokens
<1>2. w \in JobType /\ w.pc = "save" /\ w.tok = [sid |-> n + 1, is |-> "live"] /\ w.why = js[h].why
  <2>1. js[h] \in JobType
    BY <1>0 DEF Fine
  <2> QED
    BY <1>1, <2>1 DEF JobType, Steps
<1>3. js2 \in [Jobs -> JobType] /\ js2[h] = w /\ \A j \in Jobs \ {h} : js2[j] = js[j]
  <2>1. js2 = [js EXCEPT ![h] = w] /\ js \in [Jobs -> JobType]
    BY <1>0 DEF Fine
  <2> QED
    BY <1>0, <1>2, <2>1
<1>4. t.sid <= n /\ t \in Tokens /\ \A j \in Jobs : js[j].tok \in Tokens /\ js[j].tok.sid <= n
  BY DEF Fine, Known, JobType
<1>5. t.sid \in Nat /\ \A j \in Jobs : js[j].tok.sid \in Nat
  BY <1>4, TokenFacts
<1> HIDE DEF w, js2
<1>6. SingleFlight(js2) /\ Sendable(js2)
  BY <1>0, <1>3 DEF Fine, SingleFlight, Sendable
<1>7. StoredIsLast(t, js2)
  BY <1>0, <1>3 DEF Fine, StoredIsLast
<1>8. n + 1 # t.sid /\ \A j \in Jobs : n + 1 # js[j].tok.sid
  BY <1>1, <1>4, <1>5
<1>9. OwnSession(t, js2)
  BY <1>0, <1>2, <1>3, <1>8 DEF Fine, OwnSession
<1>10. Known(t, js2, n + 1)
  BY <1>1, <1>2, <1>3, <1>4, <1>5 DEF Known
<1>11. Ended(js2)
  <2>1. js[h].why # "expired"
    BY <1>0 DEF Fine, Ended, Leaves
  <2> QED
    BY <1>2, <1>3, <2>1 DEF Fine, Ended, Leaves
<1> QED
  BY <1>1, <1>3, <1>4, <1>6, <1>7, <1>9, <1>10, <1>11 DEF Fine, js2

(* A job's token becomes the stored one *)
LEMMA TokenStored ==
  ASSUME NEW t, NEW js, NEW n, Fine(t, js, n), NEW j \in Refreshes \cup Handoffs,
         js[j].pc = IF j \in Refreshes THEN "store" ELSE "save", NEW step \in {"store2", "save2"}
  PROVE  Fine(js[j].tok, [js EXCEPT ![j].pc = step], n)
<1> DEFINE w   == [js[j] EXCEPT !.pc = step]
           js2 == [js EXCEPT ![j].pc = step]
<1>0. j \in Jobs /\ Refreshes \subseteq Jobs /\ Handoffs \subseteq Jobs /\ (j \in Handoffs <=> j \notin Refreshes)
  BY BoundsAssumption DEF Jobs, BoundsAssumption
<1>1. w \in JobType /\ w.pc = step /\ w.tok = js[j].tok /\ w.why = js[j].why
  <2>1. js[j] \in JobType
    BY <1>0 DEF Fine
  <2> QED
    BY <2>1 DEF JobType, Steps
<1>2. js2 \in [Jobs -> JobType] /\ js2[j] = w /\ \A i \in Jobs \ {j} : js2[i] = js[i]
  <2>1. js2 = [js EXCEPT ![j] = w] /\ js \in [Jobs -> JobType]
    BY <1>0 DEF Fine
  <2> QED
    BY <1>0, <1>1, <2>1
<1>3. js[j].tok \in Tokens /\ js[j].tok.is \in {"live", "dead"}
  BY <1>0 DEF Fine, JobType, Sendable, OwnSession
<1> HIDE DEF w, js2
<1>4. SingleFlight(js2) /\ Sendable(js2)
  BY <1>0, <1>1, <1>2 DEF Fine, SingleFlight, Sendable
<1>5. StoredIsLast(js[j].tok, js2)
  BY <1>3 DEF StoredIsLast
<1>6. OwnSession(js[j].tok, js2)
  BY <1>0, <1>1, <1>2 DEF Fine, OwnSession
<1>7. Known(js[j].tok, js2, n) /\ Ended(js2)
  BY <1>0, <1>1, <1>2 DEF Fine, Known, Ended, Leaves
<1> QED
  BY <1>2, <1>3, <1>4, <1>5, <1>6, <1>7 DEF Fine, js2

(* A worker gone with everything it held: a spent token's successor is lost *)
LEMMA AllIdle ==
  ASSUME NEW t \in Tokens, NEW n \in Nat, t.sid <= n, t.is # "spent"
  PROVE  Fine(t, [j \in Jobs |-> Idle], n)
<1> DEFINE js == [j \in Jobs |-> Idle]
<1>1. js \in [Jobs -> JobType] /\ Refreshes \subseteq Jobs /\ Handoffs \subseteq Jobs
  BY TokenFacts DEF Jobs
<1>2. \A j \in Jobs : js[j].pc = "idle" /\ js[j].why = "none" /\ js[j].tok.sid = 0
  BY DEF Idle, None
<1> HIDE DEF js
<1>3. SingleFlight(js) /\ Sendable(js) /\ OwnSession(t, js) /\ Ended(js)
  BY <1>1, <1>2 DEF SingleFlight, Sendable, OwnSession, Ended, Leaves
<1>4. StoredIsLast(t, js) /\ Known(t, js, n)
  BY <1>1, <1>2 DEF StoredIsLast, Known
<1> QED
  BY <1>1, <1>3, <1>4 DEF Fine, js

-----------------------------------------------------------------------------
(* The steps *)
FineNow == Fine(refreshTok, jobs, handed)

LEMMA SlotFacts ==
  ASSUME Inv, NEW j \in Jobs
  PROVE  /\ jobs[j] \in JobType /\ jobs \in [Jobs -> JobType] /\ jobs[j].tok \in Tokens
         /\ j \in Refreshes => j \notin Handoffs /\ j # "out"
         /\ j \in Handoffs => j # "out"
         /\ FineNow
  BY BoundsAssumption DEF Inv, TypeOK, JobType, FineNow, BoundsAssumption

(* A job that only goes to another step *)
LEMMA Advances ==
  ASSUME Inv, NEW j \in Jobs, jobs[j].pc \notin {"idle", "store"}, NEW step \in Steps \ {"ask", "store", "save"},
         jobs[j].why = "expired" => step \in {"so", "soSide", "soMain", "soServer"},
         NEW a \in 0..MaxSessions, step = "soServer" => a # 0, NEW t2 \in {refreshTok, None},
         refreshTok' = t2, handed' = handed,
         jobs' = [jobs EXCEPT ![j] = [jobs[j] EXCEPT !.pc = step, !.acc = a]]
  PROVE  FineNow'
<1> DEFINE w == [jobs[j] EXCEPT !.pc = step, !.acc = a]
<1>1. w \in JobType /\ w.pc = step /\ w.tok = jobs[j].tok /\ w.why = jobs[j].why /\ w.acc = a
  BY SlotFacts DEF JobType
<1>2. Fine(refreshTok, jobs, handed) /\ (jobs[j].why = "expired" => jobs[j].tok.is = "dead")
  BY DEF Inv, Fine, Ended, Leaves
<1>3. Changed(jobs, j, w, jobs')
  <2> HIDE DEF w
  <2> QED
    BY <1>1, SlotFacts DEF Changed, w
<1> HIDE DEF w
<1>4. Leaves(w) /\ w.tok \in {jobs[j].tok, refreshTok, None}
  BY <1>1, <1>2 DEF Leaves
<1>5. Fine(t2, jobs', handed)
  BY <1>1, <1>2, <1>3, <1>4, JobMoves
<1> QED
  BY <1>5 DEF FineNow

(* A job that starts or ends over from an idle record *)
LEMMA StartsOver ==
  ASSUME Inv, NEW j \in Jobs, NEW step \in Steps \ {"ask", "store", "save", "soServer"},
         NEW why \in {"none", "device_limit", "device_revoked"}, NEW t2 \in {refreshTok, None},
         j \in Refreshes => /\ t2 = None \/ jobs[j].pc # "store"
                            /\ step = "idle" \/ jobs[j].pc # "idle" \/ ~\E r \in Refreshes : jobs[r].pc # "idle",
         refreshTok' = t2, handed' = handed,
         jobs' = [jobs EXCEPT ![j] = [Idle EXCEPT !.pc = step, !.why = why]]
  PROVE  FineNow'
<1> DEFINE w == [Idle EXCEPT !.pc = step, !.why = why]
<1>1. w \in JobType /\ w.pc = step /\ w.tok = None /\ w.why = why
  BY TokenFacts DEF JobType, Idle
<1>2. Fine(refreshTok, jobs, handed)
  BY DEF Inv
<1>3. Changed(jobs, j, w, jobs')
  <2> HIDE DEF w
  <2> QED
    BY <1>1, SlotFacts DEF Changed, w
<1> HIDE DEF w
<1>4. Leaves(w) /\ w.tok \in {jobs[j].tok, refreshTok, None}
  BY <1>1 DEF Leaves
<1>5. j \in Refreshes /\ w.pc # "idle" => jobs[j].pc # "idle" \/ ~\E r \in Refreshes : jobs[r].pc # "idle"
  BY <1>1
<1>6. j \in Refreshes => w.pc # "store" /\ (t2 = None \/ jobs[j].pc # "store")
  BY <1>1
<1>7. w.pc \notin {"ask", "save"}
  BY <1>1
<1>8. Fine(t2, jobs', handed)
  BY <1>1, <1>2, <1>3, <1>4, <1>5, <1>6, <1>7, JobMoves
<1> QED
  BY <1>8 DEF FineNow

LEMMA IdleAt == ASSUME NEW step PROVE [Idle EXCEPT !.pc = step] = [Idle EXCEPT !.pc = step, !.why = "none"]
<1>1. Idle.why = "none" /\ Idle \in JobType
  BY TokenFacts DEF Idle
<1>2. [Idle EXCEPT !.pc = step].why = Idle.why
  BY <1>1 DEF JobType
<1> HIDE DEF Idle
<1> QED
  BY <1>1, <1>2 DEF JobType

LEMMA Ends ==
  ASSUME Inv, NEW j \in Jobs, NEW t2 \in {refreshTok, None}, j \in Refreshes => t2 = None \/ jobs[j].pc # "store",
         refreshTok' = t2, handed' = handed, jobs' = [jobs EXCEPT ![j] = Idle]
  PROVE  FineNow'
<1>1. Idle = [Idle EXCEPT !.pc = "idle", !.why = "none"]
  <2>1. Idle.pc = "idle" /\ Idle.why = "none" /\ Idle \in JobType
    BY TokenFacts DEF Idle
  <2> HIDE DEF Idle
  <2> QED
    BY <2>1 DEF JobType
<1> QED
  BY <1>1, StartsOver DEF Steps

LEMMA SignOutFine == ASSUME Inv, NEW j \in Jobs, SignOutStep(j) PROVE FineNow'
<1> USE DEF main, counts
<1>0. jobs[j] \in JobType /\ jobs \in [Jobs -> JobType] /\ FineNow /\ accessTok \in 0..MaxSessions
  BY SlotFacts DEF Inv, TypeOK
<1>1. CASE SignOutRead(j)
  <2> DEFINE a == IF refreshTok = None THEN 0 ELSE accessTok
  <2>1. jobs' = [jobs EXCEPT ![j] = [jobs[j] EXCEPT !.pc = "soSide", !.acc = a]]
    BY <1>0, <1>1 DEF SignOutRead
  <2>2. a \in 0..MaxSessions
    BY <1>0, BoundsAssumption DEF BoundsAssumption
  <2>3. jobs[j].pc = "so" /\ refreshTok' = refreshTok /\ handed' = handed
    BY <1>1 DEF SignOutRead, At
  <2> HIDE DEF a
  <2> QED
    BY <2>1, <2>2, <2>3, Advances DEF Steps
<1>2. CASE SignOutSide(j)
  <2>1. jobs' = [jobs EXCEPT ![j] = [jobs[j] EXCEPT !.pc = "soMain", !.acc = jobs[j].acc]]
    BY <1>0, <1>2 DEF SignOutSide, Goto, JobType
  <2>2. jobs[j].pc = "soSide" /\ refreshTok' = refreshTok /\ handed' = handed /\ jobs[j].acc \in 0..MaxSessions
    BY <1>0, <1>2 DEF SignOutSide, At, JobType
  <2> QED
    BY <2>1, <2>2, Advances DEF Steps
<1>3. CASE SignOutMain(j)
  <2>1. jobs[j].pc = "soMain" /\ refreshTok' = None /\ handed' = handed /\ jobs[j].acc \in 0..MaxSessions
    BY <1>0, <1>3 DEF SignOutMain, At, JobType
  <2>2. CASE jobs' = [jobs EXCEPT ![j].pc = "soServer"] /\ jobs[j].acc # 0
    <3>1. jobs' = [jobs EXCEPT ![j] = [jobs[j] EXCEPT !.pc = "soServer", !.acc = jobs[j].acc]]
      BY <1>0, <2>2 DEF JobType
    <3>2. jobs[j].acc # 0
      BY <2>2
    <3> QED
      BY <2>1, <3>1, <3>2, Advances DEF Steps
  <2>3. CASE jobs' = [jobs EXCEPT ![j] = Idle]
    BY <2>1, <2>3, Ends
  <2> QED
    BY <1>3, <2>2, <2>3 DEF SignOutMain, Goto, Finish
<1>4. CASE SignOutServer(j)
  <2> DEFINE s    == jobs[j].acc
             done == [jobs EXCEPT ![j] = Idle]
  <2>1. jobs[j].pc = "soServer" /\ handed' = handed
    BY <1>4 DEF SignOutServer, At
  <2>2. Fine(refreshTok, done, handed)
    <3>1. Fine(refreshTok, jobs, handed) /\ Idle \in JobType /\ Idle.pc = "idle" /\ Idle.tok = None /\ Leaves(Idle)
      BY <1>0, TokenFacts DEF FineNow, Idle, Leaves
    <3>2. Changed(jobs, j, Idle, done)
      BY <1>0, <3>1 DEF Changed
    <3> HIDE DEF Idle, done
    <3> QED
      BY <2>1, <3>1, <3>2, JobMoves
  <2>3. CASE jobs' = done /\ refreshTok' = refreshTok
    BY <2>1, <2>2, <2>3 DEF FineNow
  <2>4. CASE jobs' = MarkJobs(done, s, "dead") /\ refreshTok' = Mark(refreshTok, s, "dead")
    <3>1. CASE s \in Sessions
      <4> HIDE DEF done, s
      <4>1. Fine(Mark(refreshTok, s, "dead"), MarkJobs(done, s, "dead"), handed)
        BY <2>2, <3>1, SessionEnds
      <4> QED
        BY <2>1, <2>4, <4>1 DEF FineNow
    <3>2. CASE s = 0
      BY <1>0, <2>1, <3>2 DEF FineNow, Fine, Ended, Leaves
    <3> QED
      BY <1>0, <3>1, <3>2, BoundsAssumption DEF JobType, Sessions, BoundsAssumption
  <2> QED
    BY <1>4, <2>3, <2>4 DEF SignOutServer
<1> QED
  BY <1>1, <1>2, <1>3, <1>4 DEF SignOutStep

LEMMA OtherWaysOutFine ==
  ASSUME Inv, SignOut \/ UnlinkedAnswer \/ UnlinkedStep \/ \E j \in Jobs : LinkAnswer(j) PROVE FineNow'
<1> USE DEF main, counts
<1>0. "out" \in Jobs /\ "out" \notin Refreshes
  BY BoundsAssumption DEF Jobs, BoundsAssumption
<1>1. CASE SignOut \/ UnlinkedAnswer
  <2>1. PICK step \in {"so", "ubSide"} : jobs' = [jobs EXCEPT !["out"] = [Idle EXCEPT !.pc = step]]
    BY <1>1 DEF SignOut, UnlinkedAnswer
  <2>2. [Idle EXCEPT !.pc = step] = [Idle EXCEPT !.pc = step, !.why = "none"]
    BY IdleAt
  <2>3. refreshTok' = refreshTok /\ handed' = handed
    BY <1>1 DEF SignOut, UnlinkedAnswer
  <2> QED
    BY <1>0, <2>1, <2>2, <2>3, StartsOver DEF Steps
<1>2. CASE UnlinkedStep
  <2>0. handed' = handed /\ jobs["out"] \in JobType /\ jobs \in [Jobs -> JobType]
    BY <1>0, <1>2, SlotFacts DEF UnlinkedStep
  <2>1. CASE jobs' = [jobs EXCEPT !["out"].pc = "ubMain"] /\ refreshTok' = refreshTok /\ jobs["out"].pc = "ubSide"
    <3>1. jobs' = [jobs EXCEPT !["out"] = [jobs["out"] EXCEPT !.pc = "ubMain", !.acc = jobs["out"].acc]]
      BY <1>0, <2>0, <2>1 DEF JobType
    <3>2. jobs["out"].acc \in 0..MaxSessions /\ jobs["out"].why # "expired" /\ jobs["out"].pc = "ubSide"
      BY <1>0, <2>0, <2>1 DEF Inv, Fine, Ended, Leaves, JobType
    <3>3. refreshTok' = refreshTok
      BY <2>1
    <3> QED
      BY <1>0, <2>0, <3>1, <3>2, <3>3, Advances DEF Steps
  <2>2. CASE jobs' = [jobs EXCEPT !["out"] = Idle] /\ refreshTok' = None
    BY <1>0, <2>0, <2>2, Ends
  <2> QED
    BY <1>2, <2>1, <2>2 DEF UnlinkedStep, At, Goto, Finish
<1>3. ASSUME NEW j \in Jobs, LinkAnswer(j) PROVE FineNow'
  <2>0. jobs[j].pc = "link" /\ refreshTok' = refreshTok /\ handed' = handed
    BY <1>3 DEF LinkAnswer, At
  <2>1. CASE jobs' = [jobs EXCEPT ![j] = Idle]
    BY <2>0, <2>1, Ends
  <2>2. ASSUME NEW why \in {"device_limit", "device_revoked"},
               jobs' = [jobs EXCEPT ![j] = [Idle EXCEPT !.pc = "so", !.why = why]]
        PROVE  FineNow'
    BY <2>0, <2>2, StartsOver DEF Steps
  <2> QED
    BY <1>3, <2>1, <2>2 DEF LinkAnswer, Finish
<1> QED
  BY <1>1, <1>2, <1>3

LEMMA HandoffFine == ASSUME Inv, NEW h \in Handoffs, Handoff(h) \/ HandoffStep(h) PROVE FineNow'
<1> USE DEF main, counts
<1>0. /\ h \in Jobs /\ h \notin Refreshes /\ jobs \in [Jobs -> JobType] /\ jobs[h] \in JobType
      /\ Fine(refreshTok, jobs, handed)
  BY SlotFacts DEF Jobs, FineNow
<1>1. CASE Handoff(h)
  <2>1. jobs' = [jobs EXCEPT ![h] = [Idle EXCEPT !.pc = "spend"]] /\ refreshTok' = refreshTok /\ handed' = handed
    BY <1>1 DEF Handoff
  <2>2. [Idle EXCEPT !.pc = "spend"] = [Idle EXCEPT !.pc = "spend", !.why = "none"]
    BY IdleAt
  <2> QED
    BY <1>0, <2>1, <2>2, StartsOver DEF Steps
<1>2. CASE SpendState(h)
  <2>0. jobs[h].pc = "spend" /\ refreshTok' = refreshTok
    BY <1>2 DEF SpendState, At
  <2>1. CASE /\ handed < MaxSessions /\ handed' = handed + 1
             /\ jobs' = [jobs EXCEPT ![h].pc = "save", ![h].tok = [sid |-> handed + 1, is |-> "live"]]
    BY <1>0, <2>0, <2>1, SessionHanded DEF FineNow
  <2>2. CASE jobs' = [jobs EXCEPT ![h] = Idle] /\ handed' = handed
    BY <1>0, <2>0, <2>2, Ends
  <2> QED
    BY <1>2, <2>1, <2>2 DEF SpendState, Finish
<1>3. CASE SaveMain(h)
  <2>1. jobs[h].pc = "save" /\ refreshTok' = jobs[h].tok /\ handed' = handed
        /\ jobs' = [jobs EXCEPT ![h].pc = "save2"]
    BY <1>3 DEF SaveMain, At, Goto
  <2>2. Fine(jobs[h].tok, [jobs EXCEPT ![h].pc = "save2"], handed)
    BY <1>0, <2>1, TokenStored
  <2> QED
    BY <2>1, <2>2 DEF FineNow
<1>4. CASE SaveSide(h)
  <2>1. jobs' = [jobs EXCEPT ![h] = [Idle EXCEPT !.pc = "link"]] /\ refreshTok' = refreshTok /\ handed' = handed
    BY <1>4 DEF SaveSide
  <2>2. [Idle EXCEPT !.pc = "link"] = [Idle EXCEPT !.pc = "link", !.why = "none"]
    BY IdleAt
  <2> QED
    BY <1>0, <2>1, <2>2, StartsOver DEF Steps
<1> QED
  BY <1>1, <1>2, <1>3, <1>4 DEF HandoffStep

LEMMA RefreshFine == ASSUME Inv, NEW r \in Refreshes, RefreshStep(r) PROVE FineNow'
<1> USE DEF main, counts
<1>0. /\ r \in Jobs /\ jobs \in [Jobs -> JobType] /\ jobs[r] \in JobType
      /\ Fine(refreshTok, jobs, handed) /\ Leaves(jobs[r])
  BY SlotFacts DEF Jobs, FineNow, Fine, Ended
<1>1. CASE ReadSession(r)
  <2>0. jobs[r].pc = "read" /\ refreshTok' = refreshTok /\ handed' = handed
    BY <1>1 DEF ReadSession, At
  <2>1. CASE jobs' = [jobs EXCEPT ![r] = Idle]
    BY <1>0, <2>0, <2>1, Ends
  <2>2. CASE jobs' = [jobs EXCEPT ![r].pc = "beat"]
    <3>1. jobs' = [jobs EXCEPT ![r] = [jobs[r] EXCEPT !.pc = "beat", !.acc = jobs[r].acc]]
      BY <1>0, <2>2 DEF JobType
    <3>2. jobs[r].acc \in 0..MaxSessions /\ jobs[r].why # "expired"
      BY <1>0, <2>0 DEF Leaves, JobType
    <3> QED
      BY <1>0, <2>0, <3>1, <3>2, Advances DEF Steps
  <2>3. CASE jobs' = [jobs EXCEPT ![r].pc = "ask", ![r].tok = refreshTok] /\ refreshTok # None
    <3> DEFINE w == [jobs[r] EXCEPT !.pc = "ask", !.tok = refreshTok]
    <3>1. refreshTok \in Tokens
      BY <1>0 DEF Fine
    <3>2. w \in JobType /\ w.pc = "ask" /\ w.tok = refreshTok /\ w.why = jobs[r].why
      BY <1>0, <3>1 DEF JobType, Steps
    <3>3. Changed(jobs, r, w, jobs')
      <4>1. jobs' = [jobs EXCEPT ![r] = w]
        BY <1>0, <2>3
      <4> HIDE DEF w
      <4> QED
        BY <1>0, <3>2, <4>1 DEF Changed
    <3>4. refreshTok.is # "spent"
      BY <1>0, <2>0 DEF Fine, StoredIsLast, SingleFlight
    <3>5. refreshTok.is \in {"live", "dead"}
      BY <2>3, <3>1, <3>4, TokenFacts DEF Tokens, None
    <3> HIDE DEF w
    <3>6. Leaves(w) /\ r \notin Handoffs
      BY <1>0, <2>0, <3>2, SlotFacts DEF Leaves
    <3>7. Fine(refreshTok, jobs', handed)
      BY <1>0, <2>0, <3>2, <3>3, <3>5, <3>6, JobMoves
    <3> QED
      BY <2>0, <3>7 DEF FineNow
  <2> QED
    BY <1>1, <2>1, <2>2, <2>3 DEF ReadSession, Finish, Goto
<1>2. CASE Rotated(r)
  <2> DEFINE s == jobs[r].tok.sid
  <2>1. jobs[r].pc = "ask" /\ jobs[r].tok.is = "live" /\ handed' = handed /\ refreshTok' = Mark(refreshTok, s, "spent")
        /\ jobs' = [MarkJobs(jobs, s, "spent") EXCEPT ![r].pc = "store", ![r].tok = [sid |-> s, is |-> "live"]]
    BY <1>2 DEF Rotated, At
  <2> QED
    <3>1. Fine(Mark(refreshTok, s, "spent"),
               [MarkJobs(jobs, s, "spent") EXCEPT ![r].pc = "store", ![r].tok = [sid |-> s, is |-> "live"]], handed)
      <4> HIDE DEF s
      <4> QED
        BY <1>0, <2>1, TokenRotates DEF s
    <3> HIDE DEF s
    <3> QED
      BY <2>1, <3>1 DEF FineNow
<1>3. CASE Refused(r)
  <2> DEFINE w == [jobs[r] EXCEPT !.pc = "so", !.why = "expired"]
  <2>0. jobs[r].pc = "ask" /\ jobs[r].tok.is # "live" /\ refreshTok' = refreshTok /\ handed' = handed
        /\ jobs' = [jobs EXCEPT ![r].pc = "so", ![r].why = "expired"]
    BY <1>3 DEF Refused, At
  <2>1. w \in JobType /\ w.pc = "so" /\ w.tok = jobs[r].tok /\ w.why = "expired"
    BY <1>0 DEF JobType, Steps
  <2>2. Changed(jobs, r, w, jobs')
    <3>1. jobs' = [jobs EXCEPT ![r] = w]
      BY <1>0, <2>0
    <3> HIDE DEF w
    <3> QED
      BY <1>0, <2>1, <3>1 DEF Changed
  <2>3. jobs[r].tok.is = "dead"
    BY <1>0, <2>0 DEF Fine, Sendable
  <2> HIDE DEF w
  <2>4. Leaves(w) /\ r \notin Handoffs
    BY <2>1, <2>3, SlotFacts DEF Leaves, Jobs
  <2>5. Fine(refreshTok, jobs', handed)
    BY <1>0, <2>0, <2>1, <2>2, <2>4, JobMoves
  <2> QED
    BY <2>0, <2>5 DEF FineNow
<1>4. CASE NoAnswer(r)
  <2> DEFINE s  == jobs[r].tok.sid
             w  == [Idle EXCEPT !.pc = "beat"]
             on == [jobs EXCEPT ![r] = w]
  <2>1. jobs[r].pc = "ask" /\ handed' = handed
    BY <1>4 DEF NoAnswer, At
  <2>2. w \in JobType /\ w.pc = "beat" /\ w.tok = None /\ Leaves(w)
    BY TokenFacts DEF JobType, Steps, Idle, Leaves
  <2>3. Changed(jobs, r, w, on)
    <3> HIDE DEF w
    <3> QED
      BY <1>0, <2>2 DEF Changed
  <2>4. r \notin Handoffs
    BY <1>0, SlotFacts
  <2>5. Fine(refreshTok, on, handed)
    <3> HIDE DEF w, on
    <3> QED
      BY <1>0, <2>1, <2>2, <2>3, <2>4, JobMoves
  <2>6. CASE jobs' = on /\ refreshTok' = refreshTok
    BY <2>1, <2>5, <2>6 DEF FineNow
  <2>7. CASE jobs' = MarkJobs(on, s, "dead") /\ refreshTok' = Mark(refreshTok, s, "dead") /\ jobs[r].tok.is = "live"
    <3>1. s \in Sessions
      <4>1. jobs[r].tok \in Tokens
        BY <1>0 DEF JobType
      <4> QED
        BY <2>7, <4>1, TokenFacts
    <3> HIDE DEF on, s
    <3>2. Fine(Mark(refreshTok, s, "dead"), MarkJobs(on, s, "dead"), handed)
      BY <2>5, <3>1, SessionEnds
    <3> QED
      BY <2>1, <2>7, <3>2 DEF FineNow
  <2> QED
    BY <1>4, <2>6, <2>7 DEF NoAnswer
<1>5. CASE StoreMain(r)
  <2>1. jobs[r].pc = "store" /\ refreshTok' = jobs[r].tok /\ handed' = handed
        /\ jobs' = [jobs EXCEPT ![r].pc = "store2"]
    BY <1>5 DEF StoreMain, At, Goto
  <2>2. Fine(jobs[r].tok, [jobs EXCEPT ![r].pc = "store2"], handed)
    BY <1>0, <2>1, TokenStored
  <2> QED
    BY <2>1, <2>2 DEF FineNow
<1>6. CASE StoreSide(r)
  <2>1. jobs' = [jobs EXCEPT ![r] = [Idle EXCEPT !.pc = "beat"]] /\ refreshTok' = refreshTok /\ handed' = handed
        /\ jobs[r].pc = "store2"
    BY <1>6 DEF StoreSide, At
  <2>2. [Idle EXCEPT !.pc = "beat"] = [Idle EXCEPT !.pc = "beat", !.why = "none"]
    BY IdleAt
  <2> QED
    BY <1>0, <2>1, <2>2, StartsOver DEF Steps
<1>7. CASE Heartbeat(r)
  <2>0. jobs[r].pc = "beat" /\ refreshTok' = refreshTok /\ handed' = handed
    BY <1>7 DEF Heartbeat, At
  <2>1. CASE jobs' = [jobs EXCEPT ![r] = Idle]
    BY <1>0, <2>0, <2>1, Ends
  <2>2. CASE jobs' = [jobs EXCEPT ![r] = [Idle EXCEPT !.pc = "link"]]
    <3>1. [Idle EXCEPT !.pc = "link"] = [Idle EXCEPT !.pc = "link", !.why = "none"]
    BY IdleAt
    <3> QED
      BY <1>0, <2>0, <2>2, <3>1, StartsOver DEF Steps
  <2> QED
    BY <1>7, <2>1, <2>2 DEF Heartbeat, Finish
<1> QED
  BY <1>1, <1>2, <1>3, <1>4, <1>5, <1>6, <1>7 DEF RefreshStep

LEMMA WorkerFine ==
  ASSUME Inv, EnsureFresh \/ WorkerStarts \/ StartSignIn \/ IdleStop \/ Kill \/ BrowserRestarts \/ ServerEnds \/ TokenAges
  PROVE  FineNow'
<1> USE DEF main, counts
<1>0. Fine(refreshTok, jobs, handed) /\ Refreshes \subseteq Jobs
  BY DEF Inv, Jobs
<1>1. CASE EnsureFresh \/ WorkerStarts
  <2>0. refreshTok' = refreshTok /\ handed' = handed /\ jobs' = Begin(jobs)
    BY <1>1 DEF EnsureFresh, WorkerStarts
  <2>1. CASE Busy(Refreshes)
    BY <1>0, <2>0, <2>1 DEF Begin, FineNow
  <2>2. CASE ~Busy(Refreshes) /\ Refreshes # {}
    <3> DEFINE r == CHOOSE q \in Refreshes : jobs[q].pc = "idle"
    <3>1. r \in Refreshes /\ ~\E q \in Refreshes : jobs[q].pc # "idle"
      BY <2>2 DEF Busy
    <3>2. jobs' = [jobs EXCEPT ![r] = [Idle EXCEPT !.pc = "read"]]
      BY <2>0, <2>2 DEF Begin
    <3>3. [Idle EXCEPT !.pc = "read"] = [Idle EXCEPT !.pc = "read", !.why = "none"]
    BY IdleAt
    <3> HIDE DEF r
    <3>4. jobs[r].pc = "idle" /\ r \in Jobs
      BY <1>0, <3>1
    <3>5. r \in Refreshes =>
             /\ refreshTok = None \/ jobs[r].pc # "store"
             /\ "read" = "idle" \/ jobs[r].pc # "idle" \/ ~\E q \in Refreshes : jobs[q].pc # "idle"
      BY <3>1, <3>4
    <3>6. jobs' = [jobs EXCEPT ![r] = [Idle EXCEPT !.pc = "read", !.why = "none"]]
      BY <3>2, <3>3
    <3> QED
      BY <2>0, <3>4, <3>5, <3>6, StartsOver DEF Steps
  <2> QED
    BY <1>1, <2>1, <2>2, RefreshAssumption DEF RefreshAssumption
<1>2. CASE StartSignIn \/ IdleStop \/ BrowserRestarts \/ TokenAges
  <2>1. refreshTok' = refreshTok /\ handed' = handed /\ jobs' = jobs
    BY <1>2 DEF StartSignIn, IdleStop, BrowserRestarts, TokenAges
  <2> QED
    BY <1>0, <2>1 DEF FineNow
<1>3. CASE ServerEnds
  <2>1. PICK s \in 1..handed : refreshTok' = Mark(refreshTok, s, "dead") /\ jobs' = MarkJobs(jobs, s, "dead")
    BY <1>3 DEF ServerEnds
  <2>2. s \in Sessions /\ handed' = handed
    BY <1>3, BoundsAssumption DEF ServerEnds, Inv, TypeOK, Sessions, BoundsAssumption
  <2> QED
    BY <1>0, <2>1, <2>2, SessionEnds DEF FineNow
<1>4. CASE Kill
  <2>1. /\ jobs' = [j \in Jobs |-> Idle] /\ handed' = handed
        /\ refreshTok' = IF Unsaved(refreshTok.sid) THEN Mark(refreshTok, refreshTok.sid, "dead") ELSE refreshTok
    BY <1>4 DEF Kill
  <2>2. refreshTok \in Tokens /\ refreshTok.sid <= handed /\ handed \in Nat
    BY <1>0 DEF Fine, Known
  <2>3. refreshTok' \in Tokens /\ refreshTok'.sid <= handed /\ refreshTok'.is # "spent"
    <3>1. CASE Unsaved(refreshTok.sid)
      <4>1. refreshTok.sid \in Sessions
        <5>1. PICK r \in Refreshes : jobs[r].pc = "store" /\ jobs[r].tok.sid = refreshTok.sid
          BY <3>1 DEF Unsaved
        <5>2. jobs[r].tok \in Tokens /\ jobs[r].tok.is \in {"live", "dead"}
          BY <1>0, <5>1 DEF Fine, JobType, Sendable
        <5> QED
          BY <5>1, <5>2, TokenFacts
      <4> QED
        BY <2>1, <2>2, <3>1, <4>1, MarkFacts
    <3>2. CASE ~Unsaved(refreshTok.sid)
      <4>1. refreshTok.is # "spent"
        BY <1>0, <3>2 DEF Fine, StoredIsLast, Unsaved
      <4> QED
        BY <2>1, <2>2, <3>2, <4>1
    <3> QED
      BY <3>1, <3>2
  <2> QED
    BY <2>1, <2>2, <2>3, AllIdle DEF FineNow
<1> QED
  BY <1>1, <1>2, <1>3, <1>4

LEMMA InitInv == Init => Inv
<1> SUFFICES ASSUME Init PROVE Inv
  OBVIOUS
<1>1. None \in Tokens /\ None.sid = 0 /\ None.is # "spent" /\ Idle \in JobType
  BY TokenFacts DEF None
<1>2. Fine(refreshTok, jobs, handed)
  <2>1. refreshTok = None /\ handed = 0 /\ jobs = [j \in Jobs |-> Idle]
    BY DEF Init
  <2> QED
    BY <1>1, <2>1, AllIdle
<1>3. accessTok \in 0..MaxSessions /\ handed \in 0..MaxSessions /\ kills \in 0..MaxKills
  BY BoundsAssumption, SMT DEF Init, BoundsAssumption
<1>4. \A j \in Jobs : jobs[j] = Idle
  BY DEF Init
<1>5. Idle.pc = "idle"
  BY DEF Idle
<1> QED
  BY <1>2, <1>3, <1>4, <1>5, Zenon DEF Inv, Fine, TypeOK, Init

(* What the types say of everything but the tokens and the jobs *)
RestTyped == /\ fresh \in BOOLEAN /\ connect \in BOOLEAN /\ up \in BOOLEAN
             /\ accessTok \in 0..MaxSessions /\ handed \in 0..MaxSessions /\ kills \in 0..MaxKills

LEMMA RestStep == ASSUME Inv, [Next]_vars PROVE RestTyped'
<1> USE DEF main, counts
<1>0. RestTyped
  BY DEF Inv, TypeOK, RestTyped
<1>1. CASE UNCHANGED <<fresh, connect, up, accessTok, handed, kills>>
  BY <1>0, <1>1 DEF RestTyped
<1>2. ASSUME NEW j \in Jobs, SignOutStep(j) \/ LinkAnswer(j) PROVE RestTyped'
  <2>1. /\ fresh' \in {fresh, FALSE} /\ connect' \in {connect, FALSE} /\ up' = up
        /\ accessTok' \in {accessTok, 0} /\ UNCHANGED counts
    BY <1>2 DEF SignOutStep, SignOutRead, SignOutSide, SignOutMain, SignOutServer, LinkAnswer
  <2>2. accessTok' \in 0..MaxSessions /\ handed' \in 0..MaxSessions /\ kills' \in 0..MaxKills
    BY <1>0, <2>1, BoundsAssumption DEF RestTyped, BoundsAssumption
  <2>3. fresh' \in BOOLEAN /\ connect' \in BOOLEAN /\ up' \in BOOLEAN
    BY <1>0, <2>1, Zenon DEF RestTyped
  <2> QED
    BY <2>2, <2>3 DEF RestTyped
<1>3. ASSUME NEW h \in Handoffs, Handoff(h) \/ HandoffStep(h) PROVE RestTyped'
  <2>1. h \in Jobs
    BY <1>3 DEF Jobs
  <2>2. jobs[h].tok.sid \in 0..MaxSessions
    BY <2>1, SlotFacts, TokenFacts, BoundsAssumption DEF Tokens, None, Sessions, BoundsAssumption
  <2>3. /\ fresh' \in {fresh, TRUE} /\ connect' \in {connect, FALSE} /\ up' = up /\ kills' = kills
        /\ accessTok' \in {accessTok, jobs[h].tok.sid}
        /\ handed' = handed \/ (handed < MaxSessions /\ handed' = handed + 1)
    BY <1>3 DEF Handoff, HandoffStep, SpendState, SaveMain, SaveSide
  <2>4. accessTok' \in 0..MaxSessions /\ handed' \in 0..MaxSessions /\ kills' \in 0..MaxKills
    BY <1>0, <2>2, <2>3, BoundsAssumption DEF RestTyped, BoundsAssumption
  <2>5. fresh' \in BOOLEAN /\ connect' \in BOOLEAN /\ up' \in BOOLEAN
    BY <1>0, <2>3, Zenon DEF RestTyped
  <2> QED
    BY <2>4, <2>5 DEF RestTyped
<1>4. ASSUME NEW r \in Refreshes, RefreshStep(r) PROVE RestTyped'
  <2>1. r \in Jobs
    BY <1>4 DEF Jobs
  <2>2. jobs[r].tok.sid \in 0..MaxSessions
    BY <2>1, SlotFacts, TokenFacts, BoundsAssumption DEF Tokens, None, Sessions, BoundsAssumption
  <2>3. /\ fresh' \in {fresh, TRUE} /\ UNCHANGED <<connect, up, counts>>
        /\ accessTok' \in {accessTok, jobs[r].tok.sid}
    BY <1>4 DEF RefreshStep, ReadSession, Rotated, Refused, NoAnswer, StoreMain, StoreSide, Heartbeat
  <2> QED
    BY <1>0, <2>2, <2>3 DEF RestTyped
<1>5. CASE UnlinkedStep \/ SignOut \/ UnlinkedAnswer
  <2>1. fresh' \in {fresh, FALSE} /\ UNCHANGED <<connect, up, counts>> /\ accessTok' \in {accessTok, 0}
    BY <1>5 DEF UnlinkedStep, SignOut, UnlinkedAnswer
  <2>2. accessTok' \in 0..MaxSessions /\ handed' \in 0..MaxSessions /\ kills' \in 0..MaxKills
    BY <1>0, <2>1, BoundsAssumption DEF RestTyped, BoundsAssumption
  <2>3. fresh' \in BOOLEAN /\ connect' \in BOOLEAN /\ up' \in BOOLEAN
    BY <1>0, <2>1, Zenon DEF RestTyped
  <2> QED
    BY <2>2, <2>3 DEF RestTyped
<1>6. CASE StartSignIn \/ EnsureFresh \/ WorkerStarts \/ IdleStop \/ BrowserRestarts \/ ServerEnds \/ TokenAges
  <2>1. /\ fresh' \in {fresh, FALSE} /\ connect' \in {connect, TRUE} /\ up' \in {up, TRUE, FALSE}
        /\ accessTok' \in {accessTok, 0} /\ UNCHANGED counts
    BY <1>6 DEF StartSignIn, EnsureFresh, WorkerStarts, IdleStop, BrowserRestarts, ServerEnds, TokenAges
  <2>2. accessTok' \in 0..MaxSessions /\ handed' \in 0..MaxSessions /\ kills' \in 0..MaxKills
    BY <1>0, <2>1, BoundsAssumption DEF RestTyped, BoundsAssumption
  <2>3. fresh' \in BOOLEAN /\ connect' \in BOOLEAN /\ up' \in BOOLEAN
    BY <1>0, <2>1, Zenon DEF RestTyped
  <2> QED
    BY <2>2, <2>3 DEF RestTyped
<1>7. CASE Kill
  <2>1. UNCHANGED <<fresh, accessTok, connect, handed>> /\ up' = FALSE /\ kills < MaxKills /\ kills' = kills + 1
    BY <1>7 DEF Kill
  <2>2. kills' \in 0..MaxKills
    BY <1>0, <2>1, BoundsAssumption DEF RestTyped, BoundsAssumption
  <2> QED
    BY <1>0, <2>1, <2>2 DEF RestTyped
<1>8. CASE UNCHANGED vars
  BY <1>1, <1>8 DEF vars
<1> QED
  BY <1>2, <1>3, <1>4, <1>5, <1>6, <1>7, <1>8 DEF Next, JobStep

(* A worker that does not run does nothing *)
LEMMA StoppedStep == ASSUME Inv, [Next]_vars PROVE ~up' => \A j \in Jobs : jobs'[j].pc = "idle"
<1>0. (~up => \A j \in Jobs : jobs[j].pc = "idle") /\ jobs \in [Jobs -> JobType]
  BY DEF Inv, TypeOK
<1>1. CASE up' /\ up
  BY <1>1
<1>2. CASE up' = up /\ jobs' = jobs
  BY <1>0, <1>2
<1>3. CASE ServerEnds
  <2>1. PICK s \in 1..handed : jobs' = MarkJobs(jobs, s, "dead")
    BY <1>3 DEF ServerEnds
  <2>2. s \in Sessions /\ up' = up
    BY <1>3, BoundsAssumption DEF ServerEnds, Inv, TypeOK, Sessions, BoundsAssumption
  <2> QED
    BY <1>0, <2>1, <2>2, MarkJobsFacts
<1>4. CASE IdleStop \/ Kill \/ WorkerStarts
  BY <1>4 DEF IdleStop, Kill, WorkerStarts, Busy, Idle
<1>5. CASE StartSignIn \/ BrowserRestarts \/ TokenAges \/ UNCHANGED vars
  BY <1>2, <1>5 DEF StartSignIn, BrowserRestarts, TokenAges, vars
<1>6. CASE EnsureFresh \/ SignOut \/ UnlinkedAnswer \/ \E h \in Handoffs : Handoff(h)
  BY <1>1, <1>6 DEF EnsureFresh, SignOut, UnlinkedAnswer, Handoff
<1>7. ASSUME NEW j \in Jobs, SignOutStep(j) \/ LinkAnswer(j) \/ UnlinkedStep PROVE up' /\ up
  BY <1>7 DEF SignOutStep, SignOutRead, SignOutSide, SignOutMain, SignOutServer, LinkAnswer, UnlinkedStep, At
<1>8. ASSUME NEW h \in Handoffs, HandoffStep(h) PROVE up' /\ up
  BY <1>8 DEF HandoffStep, SpendState, SaveMain, SaveSide, At
<1>9. ASSUME NEW r \in Refreshes, RefreshStep(r) PROVE up' /\ up
  BY <1>9 DEF RefreshStep, ReadSession, Rotated, Refused, NoAnswer, StoreMain, StoreSide, Heartbeat, At
<1> QED
  BY <1>1, <1>3, <1>4, <1>5, <1>6, <1>7, <1>8, <1>9 DEF Next, JobStep

LEMMA StepInv == ASSUME Inv, [Next]_vars PROVE Inv'
<1>1. FineNow'
  <2>1. CASE UNCHANGED vars
    BY <2>1 DEF vars, counts, Inv, FineNow
  <2> QED
    BY <2>1, SignOutFine, OtherWaysOutFine, HandoffFine, RefreshFine, WorkerFine DEF Next, JobStep
<1> QED
  BY <1>1, RestStep, StoppedStep DEF Inv, TypeOK, FineNow, Fine, RestTyped

-----------------------------------------------------------------------------
(* The strengthening both rest on *)
THEOREM Invariant == Spec => []Inv
  BY InitInv, StepInv, PTL DEF Spec

(* Tokens, storage and handlers keep their types; a stopped worker does nothing *)
THEOREM TypeCorrect == Spec => []TypeOK
  BY Invariant, PTL DEF Inv

(* A refused refresh token was ended elsewhere or its answer was lost: the
   worker itself never sends a token it has already spent (doRefresh) *)
THEOREM NeverSpentTwice == Spec => []NoSelfInflictedSignOut
<1>1. Inv => NoSelfInflictedSignOut
  BY DEF Inv, Fine, Ended, Leaves, NoSelfInflictedSignOut, Jobs
<1> QED
  BY <1>1, Invariant, PTL
=============================================================================
