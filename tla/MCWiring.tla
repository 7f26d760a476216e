------------------------------ MODULE MCWiring ------------------------------
(***************************************************************************)
(* Wiring for TLC: one preset and a second name; two handlers, so that the *)
(* order of the bootstrap matters, and one late; two settings, so that     *)
(* they can conflict.  All their specs are initial states.                 *)
(***************************************************************************)
EXTENDS Wiring, TLC

MCNames == {"orders", "payments"}
MCPresets == {"orders"}
Symmetry == Permutations(Settings) \cup Permutations(Handlers)
=============================================================================
