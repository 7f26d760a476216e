--------------------------- MODULE MCBreakerCount ---------------------------
(***************************************************************************)
(* CircuitBreaker with a count window for TLC.  The window of two opens at *)
(* one failure in two; two probes are needed to decide, so a decision can  *)
(* be split; two commands let the breaker be tripped and reset while calls *)
(* of earlier generations are inside; the clock allows two outages.        *)
(***************************************************************************)
EXTENDS CircuitBreaker, TLC

(* The calls are interchangeable and no liveness is checked here.          *)
Symmetry == Permutations(Calls)
SafetySpec == Init /\ [][Next]_vars

MCThreshold == 50
MCScale == 1
MCMinimumCalls == 2
MCWindowSize == 2
MCHalfOpenMaxCalls == 2
MCOpenDuration == 1
MCMaxTime == 2
MCMaxCommands == 2
=============================================================================
