-------------------------- MODULE MCAttemptScopes ---------------------------
(***************************************************************************)
(* AttemptScopes for TLC: four scopes, so that a chain can have an end, a  *)
(* live middle and an ended one between two others, and two signals, so    *)
(* that one can be shared by several scopes and one not.                   *)
(***************************************************************************)
EXTENDS AttemptScopes, TLC

Symmetry == Permutations(Signals)
MCMaxScopes == 4
=============================================================================
