------------------------------ MODULE UptimeChecks ------------------------------
(***************************************************************************)
(* What the uptime monitor's checks say of what they find outside            *)
(* (ops/uptime-worker/worker.js, CHECKS).  Three kinds of check:             *)
(*   api        /health/deep answers and its parts are well: never silent;   *)
(*   blocklist  a warning that same answer carries: silent without one;      *)
(*   dns_latency  the p95 of /health/doh's recent window: silent when too few *)
(*              queries were seen or the answer is not understood.           *)
(* The page and DNS checks are of the api kind (never silent), the other     *)
(* warnings of the blocklist kind.  backup is the one with an enabled test.  *)
(***************************************************************************)
EXTENDS Naturals

(* /health/deep: no answer; an answer that is well, with or without the
   warning; one that is not well and lists no warnings *)
Deep == {"none", "well", "warning", "illNoList"}

(* /health/doh: no answer; an API too old to have `recent`; too few queries;
   a p95 below the line, on it, or past the last bucket (null) *)
Doh == {"none", "old", "few", "fast", "slow", "pastLast"}

ApiCheck(deep)     == IF deep \in {"well", "warning"} THEN "ok" ELSE "bad"
WarningCheck(deep) == CASE deep \in {"none", "illNoList"} -> "skip"
                        [] deep = "warning"               -> "bad"
                        [] OTHER                          -> "ok"
DnsLatency(doh)    == CASE doh \in {"none", "old", "few"} -> "skip"
                        [] doh = "fast"                   -> "ok"
                        [] OTHER                          -> "bad"
BackupCheck(young) == IF young THEN "ok" ELSE "bad"

CheckReading(c, w) ==
    CASE c = "api"         -> ApiCheck(w.deep)
      [] c = "blocklist"   -> WarningCheck(w.deep)
      [] c = "dns_latency" -> DnsLatency(w.doh)
      [] c = "backup"      -> BackupCheck(w.young)

FAIL_THRESHOLD   == 2
DNS_SLOW_MINUTES == 5
CheckThreshold(c) == IF c = "dns_latency" THEN DNS_SLOW_MINUTES ELSE FAIL_THRESHOLD
=============================================================================
