--------------------------- MODULE MCObservedCall ---------------------------
(***************************************************************************)
(* ObservedCall for TLC: three attempts, so that a retry follows a retry,  *)
(* and two values, so that they could differ in origin and a committed     *)
(* stream can go on.  Every combination of settings is an initial state.   *)
(***************************************************************************)
EXTENDS ObservedCall

MCAttempts == 3
MCMaxValues == 2
=============================================================================
