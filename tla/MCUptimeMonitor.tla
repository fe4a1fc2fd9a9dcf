---------------------------- MODULE MCUptimeMonitor ----------------------------
(* Two checks of the monitor: one that is never silent and that a deploy can
   take away (threshold 2), one that is silent at times (threshold 5).  The
   worlds make each of them speak either way; /health/deep plays no part. *)
EXTENDS UptimeMonitor, UptimeChecks

MCChecks   == {"backup", "dns_latency"}
MCOptional == {"backup"}
MCWorlds   == [deep : {"well"}, doh : {"fast", "pastLast", "few"}, young : BOOLEAN]
=============================================================================
