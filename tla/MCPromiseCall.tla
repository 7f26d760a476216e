--------------------------- MODULE MCPromiseCall ----------------------------
(***************************************************************************)
(* PromiseCall for TLC: two calls compete for two slots and one place in   *)
(* the queue, and the first calls a third through the same bulkhead, which *)
(* can wait for the slot of its own caller: behind the other call, or      *)
(* beside its caller's zombie.  Two of them have a retry.                  *)
(***************************************************************************)
EXTENDS PromiseCall

MCExecs == 1 .. 3
MCParent == <<0, 0, 1>>
MCAttempts == <<2, 1, 2>>
MCTimings == {{1}, {1, 3}}
=============================================================================
