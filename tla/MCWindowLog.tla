---------------------------- MODULE MCWindowLog -----------------------------
(***************************************************************************)
(* WindowLog for TLC.  Three buckets of two milliseconds and a clock that  *)
(* runs for two laps and more: a slot is reused, skipped and left stale.   *)
(* The count window of two wraps twice within the log's bound.             *)
(***************************************************************************)
EXTENDS WindowLog

MCSize == 2
MCBuckets == 3
MCWidth == 2
MCMaxTime == 2 * MCBuckets * MCWidth + 2
MCMaxRecords == 5
=============================================================================
