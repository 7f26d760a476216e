---------------------------- MODULE MCRateLimit -----------------------------
(***************************************************************************)
(* OutboundRateLimit for TLC: two tokens every three ticks, so a wait is   *)
(* rounded and the bucket holds fractions; five calls are two that are     *)
(* served at once, two that wait, and one that waits or is rejected        *)
(* depending on who aborted and how late it is.  A timer fires up to two   *)
(* ticks late, so the two that wait can go at once, beside a newcomer.     *)
(***************************************************************************)
EXTENDS OutboundRateLimit, TLC

Symmetry == Permutations(Calls)
MCLimit == 2
MCInterval == 3
MCMaxWait == 4
MCMaxLate == 2
MCMaxTime == 5
=============================================================================
