--------------------------- MODULE MCBreakerTime ----------------------------
(***************************************************************************)
(* CircuitBreaker with a time window for TLC: two buckets of one tick and  *)
(* a clock that runs past both, so outcomes age out of a closed breaker;   *)
(* two probes decide, and three calls leave one for the place that an      *)
(* ignored probe gives back.  The threshold is 33.3 percent, which one     *)
(* failure in three reaches.  Not symmetric: liveness is checked here.     *)
(***************************************************************************)
EXTENDS CircuitBreaker

MCCalls == 1 .. 3
MCThreshold == 333
MCScale == 10
MCMinimumCalls == 2
MCBuckets == 2
MCWidth == 1
MCHalfOpenMaxCalls == 2
MCOpenDuration == 1
MCMaxTime == 3
MCMaxCommands == 1
=============================================================================
