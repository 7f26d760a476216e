--------------------------- MODULE SlidingWindows ---------------------------
(***************************************************************************)
(* The two windows of circuit-breaker.policy.ts as operators on their      *)
(* fields: CountWindow, a ring of the last `size` outcomes with a running  *)
(* count of failures, and TimeWindow, `buckets` buckets of `width` ms that *)
(* are recycled as time passes.  An outcome is TRUE when it is a failure.  *)
(***************************************************************************)
EXTENDS Integers, Sequences, Functions

-----------------------------------------------------------------------------
(* CountWindow.  JavaScript's outcomes[next] is outcomes[next + 1] here.   *)

CountReset == [outcomes |-> <<>>, next |-> 0, failures |-> 0]

(* The ring has at most `size` places, and `next` is one of them.          *)
CountWindows(size) ==
    {w \in [outcomes : Seq(BOOLEAN), next : Nat, failures : Int] :
        Len(w.outcomes) <= size /\ w.next < size}

CountStats(w) == [total |-> Len(w.outcomes), failures |-> w.failures]

AsCount(failure) == IF failure THEN 1 ELSE 0

(* DEVIATION of CountRecord: a failure that is overwritten stays counted.  *)
CountRecordKeepsOld(w, size, failure) ==
    IF Len(w.outcomes) < size
    THEN [w EXCEPT !.outcomes = Append(@, failure),
                   !.failures = @ + AsCount(failure)]
    ELSE [w EXCEPT !.outcomes[w.next + 1] = failure,
                   !.next = (@ + 1) % size,
                   !.failures = @ + AsCount(failure)]

CountRecord(w, size, failure) ==
    IF Len(w.outcomes) < size
    THEN [w EXCEPT !.outcomes = Append(@, failure),
                   !.failures = @ + AsCount(failure)]
    ELSE [outcomes |-> [w.outcomes EXCEPT ![w.next + 1] = failure],
          next |-> (w.next + 1) % size,
          failures |-> w.failures - AsCount(w.outcomes[w.next + 1]) + AsCount(failure)]

-----------------------------------------------------------------------------
(* TimeWindow.  A window is a function from slots to buckets; a bucket     *)
(* that was never used has the id Never, the code's -Infinity: time starts *)
(* at 0, so the id is below every id that `stats` could still accept.      *)

Never(buckets) == -buckets - 1

EmptyBucket(id) == [id |-> id, total |-> 0, failures |-> 0]

TimeReset(buckets) == [slot \in 0 .. buckets - 1 |-> EmptyBucket(Never(buckets))]

TimeWindows(buckets) == [0 .. buckets - 1 -> [id : Int, total : Nat, failures : Nat]]

BucketId(width, now) == now \div width

Totals(w) == [slot \in DOMAIN w |-> w[slot].total]
Failures(w) == [slot \in DOMAIN w |-> w[slot].failures]

(* DEVIATION of TimeStats: `<` for `<=`, so one bucket too many is read.    *)
TimeStatsOneMore(w, buckets, width, now) ==
    LET live == {slot \in DOMAIN w : w[slot].id >= BucketId(width, now) - buckets}
    IN  [total |-> SumFunctionOnSet(Totals(w), live),
         failures |-> SumFunctionOnSet(Failures(w), live)]

TimeStats(w, buckets, width, now) ==
    LET live == {slot \in DOMAIN w : w[slot].id > BucketId(width, now) - buckets}
    IN  [total |-> SumFunctionOnSet(Totals(w), live),
         failures |-> SumFunctionOnSet(Failures(w), live)]

(* DEVIATION of TimeRecord: a bucket of an earlier lap is added to.        *)
TimeRecordNoRecycle(w, buckets, width, now, failure) ==
    LET id == BucketId(width, now)
    IN  [w EXCEPT ![id % buckets] =
            [id |-> id, total |-> @.total + 1, failures |-> @.failures + AsCount(failure)]]

TimeRecord(w, buckets, width, now, failure) ==
    LET id == BucketId(width, now)
        slot == id % buckets
        bucket == IF w[slot].id = id THEN w[slot] ELSE EmptyBucket(id)
    IN  [w EXCEPT ![slot] = [id |-> id, total |-> bucket.total + 1,
                             failures |-> bucket.failures + AsCount(failure)]]
=============================================================================
