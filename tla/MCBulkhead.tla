----------------------------- MODULE MCBulkhead -----------------------------
(***************************************************************************)
(* Bulkhead for TLC: one call more than slots and places together, so that *)
(* every way out of acquire() is taken while all slots and places are in   *)
(* use, and two places, so that the order of the waiters matters.          *)
(***************************************************************************)
EXTENDS Bulkhead

MCMaxConcurrent == 2
MCMaxQueue == 2
MCCalls == 1 .. (MCMaxConcurrent + MCMaxQueue + 1)
=============================================================================
