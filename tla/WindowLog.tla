----------------------------- MODULE WindowLog ------------------------------
(***************************************************************************)
(* The two sliding windows driven by the operations the breaker calls on   *)
(* them (record, reset) as the clock runs, beside a log of everything they *)
(* were told since the last reset.  The log is the reference: the windows  *)
(* must report what a reader of the whole log would.                       *)
(***************************************************************************)
EXTENDS SlidingWindows, FiniteSets

CONSTANTS Size,       \* slidingWindow.size of the count window
          Buckets,    \* TimeWindow.BUCKETS (10 in the code)
          Width,      \* this.width: the milliseconds a bucket spans
          MaxTime,    \* bound on the clock
          MaxRecords  \* bound on the log

ASSUME WindowAssumption ==
    /\ Size \in Nat \ {0}
    /\ Buckets \in Nat \ {0}
    /\ Width \in Nat \ {0}

VARIABLES count,  \* a CountWindow
          time,   \* a TimeWindow
          now,    \* Date.now()
          log     \* every outcome since the last reset, with its time

vars == <<count, time, now, log>>

Init ==
    /\ count = CountReset
    /\ time = TimeReset(Buckets)
    /\ now = 0
    /\ log = <<>>

Record(failure) ==
    /\ Len(log) < MaxRecords
    /\ count' = CountRecord(count, Size, failure)
    /\ time' = TimeRecord(time, Buckets, Width, now, failure)
    /\ log' = Append(log, [at |-> now, failure |-> failure])
    /\ UNCHANGED now

Reset ==
    /\ count' = CountReset
    /\ time' = TimeReset(Buckets)
    /\ log' = <<>>
    /\ UNCHANGED now

Tick ==
    /\ now < MaxTime
    /\ now' = now + 1
    /\ UNCHANGED <<count, time, log>>

Next == (\E failure \in BOOLEAN : Record(failure)) \/ Reset \/ Tick

Spec == Init /\ [][Next]_vars

-----------------------------------------------------------------------------
(* What a reader of the log reports for the entries at positions I.        *)
ReadLog(I) == [total |-> Cardinality(I),
               failures |-> Cardinality({i \in I : log[i].failure})]

(* The count window is the tail of the log, however often the ring has     *)
(* wrapped: read from its oldest entry on it is the last Size outcomes,    *)
(* and the running failure count, kept beside it, never drifts from it.    *)
CountsLastCalls ==
    LET n == Len(count.outcomes)
    IN  /\ CountStats(count) = ReadLog({i \in DOMAIN log : i > Len(log) - Size})
        /\ \A k \in 1 .. n :
               count.outcomes[((count.next + k - 1) % n) + 1]
                   = log[Len(log) - n + k].failure

(* "a bucket drops out once it is `size` ms old": the time window reports  *)
(* the outcomes of the last Buckets buckets of the clock and nothing else, *)
(* although a bucket keeps its content until its slot is reused and the    *)
(* clock may skip any number of them; so what it reports is off by less    *)
(* than a bucket from the outcomes of the last `size` ms.                  *)
CountsRecentBuckets ==
    LET size == Buckets * Width
        reported == TimeStats(time, Buckets, Width, now)
        Younger(age) == {i \in DOMAIN log : now - log[i].at < age}
    IN  /\ reported =
               ReadLog({i \in DOMAIN log :
                           BucketId(Width, log[i].at) > BucketId(Width, now) - Buckets})
        /\ reported.total <= Cardinality(Younger(size))
        /\ reported.total >= Cardinality(Younger(size - Width + 1))
=============================================================================
