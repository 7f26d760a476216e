--------------------------- MODULE WindowLogProofs --------------------------
(***************************************************************************)
(* For any size, any number of buckets of any width, and any sequence of   *)
(* outcomes and pauses: the windows of the breaker report what a reader of *)
(* the complete log would.                                                 *)
(***************************************************************************)
EXTENDS WindowLog, StructureTheorems

-----------------------------------------------------------------------------
(* Division.                                                               *)

LEMMA Division ==
    ASSUME NEW a \in Nat, NEW d \in Nat \ {0}
    PROVE  /\ a \div d \in Nat /\ a % d \in 0 .. d - 1
           /\ a = d * (a \div d) + (a % d)
OBVIOUS

(* Less than d apart, numbers with the same remainder are the same.        *)
LEMMA SameRemainder ==
    ASSUME NEW a \in Nat, NEW b \in Nat, NEW d \in Nat \ {0},
           a % d = b % d, a <= b, b < a + d
    PROVE  a = b
<1> DEFINE p == a \div d
           q == b \div d
           r == a % d
<1>1. p \in Nat /\ q \in Nat /\ r \in Nat /\ a = d * p + r /\ b = d * q + r
  <2>1. p \in Nat /\ r \in 0 .. d - 1 /\ a = d * p + r
    BY Division
  <2>2. q \in Nat /\ b = d * q + (b % d)
    BY Division
  <2> QED
    BY <2>1, <2>2
<1> HIDE DEF p, q, r
<1>2. d * q - d * p = d * (q - p) /\ d * p \in Int /\ d * q \in Int
  BY <1>1
<1>3. ~(q - p >= 1)
  <2> SUFFICES ASSUME q - p >= 1 PROVE FALSE
    OBVIOUS
  <2>1. d * (q - p) >= d
    BY <1>1
  <2> QED
    BY <1>1, <1>2, <2>1
<1>4. ~(p - q >= 1)
  <2> SUFFICES ASSUME p - q >= 1 PROVE FALSE
    OBVIOUS
  <2>1. d * (p - q) >= d /\ d * p - d * q = d * (p - q)
    BY <1>1
  <2> QED
    BY <1>1, <1>2, <2>1
<1>5. p = q
  BY <1>1, <1>3, <1>4
<1> QED
  BY <1>1, <1>5

(* One lap around a ring.                                                  *)
LEMMA Wrap ==
    ASSUME NEW a \in Nat, NEW d \in Nat \ {0}, a < 2 * d
    PROVE  a % d = IF a < d THEN a ELSE a - d
<1>1. a \div d \in Nat /\ a % d \in 0 .. d - 1 /\ a = d * (a \div d) + (a % d)
  BY Division
<1> DEFINE q == a \div d
           r == a % d
<1> HIDE DEF q, r
<1>2. q \in Nat /\ r \in 0 .. d - 1 /\ a = d * q + r
  BY <1>1 DEF q, r
<1>3. q < 2
  <2> SUFFICES ASSUME q >= 2 PROVE FALSE
    BY <1>2
  <2>1. d * q >= 2 * d
    BY <1>2
  <2> QED
    BY <1>2, <2>1
<1>4. CASE q = 0
  BY <1>2, <1>4 DEF r
<1>5. CASE q = 1
  <2>1. d * q = d
    BY <1>5
  <2> QED
    BY <1>2, <2>1 DEF r
<1> QED
  BY <1>2, <1>3, <1>4, <1>5

(* Two times are less than k buckets apart, or at least k - 1 of them.     *)
LEMMA BucketsApart ==
    ASSUME NEW width \in Nat \ {0}, NEW at \in Nat, NEW t \in Nat, NEW k \in Nat \ {0}
    PROVE  /\ BucketId(width, at) > BucketId(width, t) - k => t - at < k * width
           /\ t - at < k * width - width + 1 => BucketId(width, at) > BucketId(width, t) - k
<1> DEFINE p == BucketId(width, at)
           q == BucketId(width, t)
           r == at % width
           s == t % width
<1>1. /\ p \in Nat /\ r \in 0 .. width - 1 /\ at = width * p + r
      /\ q \in Nat /\ s \in 0 .. width - 1 /\ t = width * q + s
  BY Division DEF BucketId
<1> HIDE DEF p, q, r, s
<1>2. ASSUME p > q - k PROVE t - at < k * width
  <2>1. width * (q - p + 1) <= width * k
    BY <1>1, <1>2
  <2>2. width * (q - p + 1) = width * q - width * p + width
    BY <1>1
  <2>3. width * q \in Int /\ width * p \in Int /\ width * k \in Int /\ width * k = k * width
    BY <1>1
  <2> QED
    BY <1>1, <2>1, <2>2, <2>3
<1>3. ASSUME ~(p > q - k) PROVE ~(t - at < k * width - width + 1)
  <2>1. width * k <= width * (q - p)
    BY <1>1, <1>3
  <2>2. width * (q - p) = width * q - width * p
    BY <1>1
  <2>3. width * q \in Int /\ width * p \in Int /\ width * k \in Int /\ width * k = k * width
    BY <1>1
  <2> QED
    BY <1>1, <2>1, <2>2, <2>3
<1> QED
  BY <1>2, <1>3 DEF p, q

(* An earlier time is not in a later bucket.                               *)
LEMMA BucketsNotAhead ==
    ASSUME NEW width \in Nat \ {0}, NEW at \in Nat, NEW t \in Nat, at <= t
    PROVE  BucketId(width, at) \in Nat /\ BucketId(width, at) <= BucketId(width, t)
<1> DEFINE p == BucketId(width, at)
           q == BucketId(width, t)
<1>1. p \in Nat /\ q \in Nat
  BY Division DEF BucketId
<1>2. ASSUME p > q PROVE FALSE
  <2> DEFINE k == p - q
  <2>1. k \in Nat \ {0} /\ q > p - (k + 1) /\ ~(q > p - k)
    BY <1>1, <1>2
  <2> HIDE DEF k, p, q
  <2>2. ~(at - t < k * width - width + 1)
    BY <2>1, BucketsApart DEF p, q
  <2>3. k * width >= width /\ k * width \in Int
    BY <2>1
  <2> QED
    BY <2>2, <2>3
<1> QED
  BY <1>1, <1>2

-----------------------------------------------------------------------------
(* Counting.                                                               *)

(* f gives the sizes of the sets of P, which have nothing in common.       *)
SizesOfParts(L, f, P) ==
    /\ \A s \in L : IsFiniteSet(P[s]) /\ f[s] = Cardinality(P[s])
    /\ \A s, t \in L : s # t => P[s] \cap P[t] = {}

Whole(L, P) == UNION {P[s] : s \in L}

(* The sizes of sets that have nothing in common add up to that of their   *)
(* union.                                                                  *)
LEMMA SumOfSizes ==
    ASSUME NEW L, IsFiniteSet(L), NEW f, NEW P, SizesOfParts(L, f, P)
    PROVE  SumFunctionOnSet(f, L) = Cardinality(Whole(L, P))
<1>0. /\ \A s \in L : IsFiniteSet(P[s]) /\ f[s] = Cardinality(P[s])
      /\ \A s, t \in L : s # t => P[s] \cap P[t] = {}
  BY DEF SizesOfParts
<1> DEFINE U(K) == UNION {P[s] : s \in K}
           Good(K) == IsFiniteSet(U(K)) /\ SumFunctionOnSet(f, K) = Cardinality(U(K))
           Q == {K \in SUBSET L : ~Good(K)}
<1>1. ASSUME Q # {} PROVE FALSE
  <2>1. Q \subseteq SUBSET L
    OBVIOUS
  <2>2. PICK K \in Q : \A y \in Q : y \subseteq K => y = K
    <3> HIDE DEF Q
    <3> QED
      BY <1>1, <2>1, LeastSubset
  <2>3. K \in SUBSET L /\ ~Good(K) /\ IsFiniteSet(K)
    BY FS_Subset
  <2>4. CASE K = {}
    <3>1. U(K) = {}
      BY <2>4
    <3> QED
      BY <2>3, <2>4, <3>1, SumOfNone, FS_EmptySet
  <2>5. CASE K # {}
    <3>1. PICK s \in K : TRUE
      BY <2>5
    <3> DEFINE R == K \ {s}
    <3>2. R \in SUBSET L /\ R \subseteq K /\ R # K
      BY <2>3, <3>1
    <3>3. Good(R)
      <4> HIDE DEF Good, R
      <4> QED
        BY <2>2, <3>2
    <3>4. U(K) = P[s] \cup U(R) /\ P[s] \cap U(R) = {}
      <4>1. \A t \in R : P[s] \cap P[t] = {}
        BY <1>0, <2>3, <3>1
      <4> QED
        BY <4>1
    <3>5. IsFiniteSet(P[s]) /\ f[s] = Cardinality(P[s]) /\ s \in L
      BY <1>0, <2>3, <3>1
    <3>6. SumFunctionOnSet(f, K) = f[s] + SumFunctionOnSet(f, R)
      <4>1. \A x \in K : f[x] \in Int
        BY <1>0, <2>3, FS_CardinalityType
      <4> QED
        BY <2>3, <3>1, <4>1, SumTakeOut
    <3> HIDE DEF U, R
    <3>7. /\ IsFiniteSet(P[s] \cup U(R))
          /\ Cardinality(P[s] \cup U(R)) = Cardinality(P[s]) + Cardinality(U(R)) - Cardinality({})
      BY <3>3, <3>4, <3>5, FS_Union
    <3>8. Cardinality({}) = 0 /\ Cardinality(P[s]) \in Nat /\ Cardinality(U(R)) \in Nat
      BY <3>3, <3>5, FS_EmptySet, FS_CardinalityType
    <3> QED
      BY <2>3, <3>3, <3>4, <3>5, <3>6, <3>7, <3>8
  <2> QED
    BY <2>4, <2>5
<1>2. Good(L)
  BY <1>1
<1> QED
  BY <1>2 DEF Whole

-----------------------------------------------------------------------------
(* The inductive invariant.                                                *)

TypeOK ==
    /\ count \in CountWindows(Size)
    /\ time \in TimeWindows(Buckets)
    /\ now \in Nat
    /\ log \in Seq([at : Nat, failure : BOOLEAN])

(* Nothing in the log is of the future.                                    *)
NoneYetToCome == \A i \in DOMAIN log : log[i].at <= now

(* The positions of the outcomes that the count window is about.           *)
Recent == {i \in DOMAIN log : i > Len(log) - Size}

(* CountsLastCalls, with what it leaves unsaid: how many outcomes the ring *)
(* has, and that it is filled from its first place on.                     *)
RingIsTail ==
    /\ Len(count.outcomes) = IF Len(log) < Size THEN Len(log) ELSE Size
    /\ Len(log) < Size => count.next = 0
    /\ count.failures = Cardinality({i \in Recent : log[i].failure})
    /\ \A k \in 1 .. Len(count.outcomes) :
           count.outcomes[((count.next + k - 1) % Len(count.outcomes)) + 1]
               = log[Len(log) - Len(count.outcomes) + k].failure

(* The positions of the outcomes of one bucket of the clock.               *)
OutcomesOf(id) == {i \in DOMAIN log : BucketId(Width, log[i].at) = id}

(* A bucket holds the outcomes of the bucket of the clock that it was last *)
(* used for, which is not of the future, or was never used.                *)
BucketHoldsItsOwn(slot) ==
    \/ time[slot].id = Never(Buckets)
    \/ /\ time[slot].id \in Nat
       /\ time[slot].id <= BucketId(Width, now)
       /\ time[slot].id % Buckets = slot
       /\ time[slot].total = Cardinality(OutcomesOf(time[slot].id))
       /\ time[slot].failures = Cardinality({i \in OutcomesOf(time[slot].id) : log[i].failure})

(* CountsRecentBuckets is not inductive: it says nothing of the buckets    *)
(* that stats() skips now, which must not be taken for others later, and   *)
(* of an outcome's slot once its bucket is recycled.                       *)
BucketsHoldTheirOwn ==
    /\ \A slot \in 0 .. Buckets - 1 : BucketHoldsItsOwn(slot)
    /\ \A i \in DOMAIN log :
           BucketId(Width, log[i].at) <= time[BucketId(Width, log[i].at) % Buckets].id

Inv == TypeOK /\ NoneYetToCome /\ RingIsTail /\ BucketsHoldTheirOwn

-----------------------------------------------------------------------------
(* What the invariant says of a report.                                    *)

(* A part of the log is finite.                                            *)
LEMMA PartsOfLog ==
    ASSUME TypeOK, NEW I \in SUBSET (DOMAIN log)
    PROVE  /\ DOMAIN log = 1 .. Len(log) /\ Len(log) \in Nat
           /\ IsFiniteSet(I) /\ Cardinality(I) \in Nat
           /\ \A i \in DOMAIN log : log[i].at \in Nat /\ log[i].failure \in BOOLEAN
<1>1. log \in Seq([at : Nat, failure : BOOLEAN])
  BY DEF TypeOK
<1>2. DOMAIN log = 1 .. Len(log) /\ Len(log) \in Nat
  BY <1>1
<1>3. \A i \in DOMAIN log : log[i] \in [at : Nat, failure : BOOLEAN]
  BY <1>1, <1>2, ElementOfSeq
<1>4. IsFiniteSet(I)
  <2>1. IsFiniteSet(1 .. Len(log))
    BY <1>2, FS_Interval
  <2> QED
    BY <1>2, <2>1, FS_Subset
<1> QED
  BY <1>2, <1>3, <1>4, FS_CardinalityType

LEMMA TailIsCounted ==
    ASSUME Inv
    PROVE  CountsLastCalls
<1>1. /\ Len(count.outcomes) = IF Len(log) < Size THEN Len(log) ELSE Size
      /\ count.failures = Cardinality({i \in Recent : log[i].failure})
  BY DEF Inv, RingIsTail
<1>2. Size \in Nat \ {0} /\ Len(log) \in Nat /\ DOMAIN log = 1 .. Len(log)
  BY WindowAssumption, PartsOfLog DEF Inv
<1>3. Cardinality(Recent) = Len(count.outcomes)
  <2>1. CASE Len(log) < Size
    <3>1. Recent = 1 .. Len(log)
      BY <1>2, <2>1 DEF Recent
    <3>2. Cardinality(1 .. Len(log)) = IF 1 > Len(log) THEN 0 ELSE Len(log) - 1 + 1
      BY <1>2, FS_Interval
    <3> QED
      BY <1>1, <1>2, <2>1, <3>1, <3>2
  <2>2. CASE ~(Len(log) < Size)
    <3>1. Recent = Len(log) - Size + 1 .. Len(log)
      BY <1>2, <2>2 DEF Recent
    <3>2. Len(log) - Size + 1 \in Int /\ ~(Len(log) - Size + 1 > Len(log))
      BY <1>2
    <3>3. Cardinality(Recent) = Len(log) - (Len(log) - Size + 1) + 1
      BY <1>2, <3>1, <3>2, FS_Interval
    <3> QED
      BY <1>1, <1>2, <2>2, <3>3
  <2> QED
    BY <2>1, <2>2
<1> QED
  BY <1>1, <1>3 DEF CountsLastCalls, CountStats, ReadLog, Recent, Inv, RingIsTail

LEMMA RecentBucketsAreCounted ==
    ASSUME Inv
    PROVE  CountsRecentBuckets
<1> DEFINE b == BucketId(Width, now)
           Young == {i \in DOMAIN log : BucketId(Width, log[i].at) > b - Buckets}
           live == Live(time, Buckets, Width, now)
<1>1. /\ Buckets \in Nat \ {0} /\ Width \in Nat \ {0} /\ now \in Nat
      /\ time \in TimeWindows(Buckets)
  BY WindowAssumption DEF Inv, TypeOK
<1>2. /\ DOMAIN log = 1 .. Len(log) /\ Len(log) \in Nat
      /\ \A i \in DOMAIN log : log[i].at \in Nat /\ log[i].failure \in BOOLEAN
      /\ \A I \in SUBSET (DOMAIN log) : IsFiniteSet(I) /\ Cardinality(I) \in Nat
  BY PartsOfLog DEF Inv
<1>3. b \in Nat /\ \A i \in DOMAIN log : BucketId(Width, log[i].at) \in Nat
  BY <1>1, <1>2, BucketIds
<1>4. \A slot \in live : /\ slot \in 0 .. Buckets - 1
                         /\ time[slot].id \in Nat /\ time[slot].id <= b
                         /\ time[slot].id > b - Buckets
                         /\ time[slot].id % Buckets = slot
                         /\ time[slot].total = Cardinality(OutcomesOf(time[slot].id))
                         /\ time[slot].failures
                                = Cardinality({i \in OutcomesOf(time[slot].id) : log[i].failure})
  <2> SUFFICES ASSUME NEW slot \in live
               PROVE  /\ slot \in 0 .. Buckets - 1
                      /\ time[slot].id \in Nat /\ time[slot].id <= b
                      /\ time[slot].id > b - Buckets
                      /\ time[slot].id % Buckets = slot
                      /\ time[slot].total = Cardinality(OutcomesOf(time[slot].id))
                      /\ time[slot].failures
                                = Cardinality({i \in OutcomesOf(time[slot].id) : log[i].failure})
    OBVIOUS
  <2>1. slot \in 0 .. Buckets - 1 /\ time[slot].id > b - Buckets
    BY <1>1 DEF Live, TimeWindows
  <2>2. time[slot].id # Never(Buckets)
    BY <1>1, <1>3, <2>1 DEF Never
  <2>3. BucketHoldsItsOwn(slot)
    BY <2>1 DEF Inv, BucketsHoldTheirOwn
  <2> QED
    BY <2>1, <2>2, <2>3 DEF BucketHoldsItsOwn
<1> DEFINE P == [slot \in live |-> OutcomesOf(time[slot].id)]
           F == [slot \in live |-> {i \in OutcomesOf(time[slot].id) : log[i].failure}]
<1>5. \A i \in Young : /\ BucketId(Width, log[i].at) % Buckets \in live
                       /\ time[BucketId(Width, log[i].at) % Buckets].id = BucketId(Width, log[i].at)
  <2> SUFFICES ASSUME NEW i \in Young
               PROVE  /\ BucketId(Width, log[i].at) % Buckets \in live
                      /\ time[BucketId(Width, log[i].at) % Buckets].id = BucketId(Width, log[i].at)
    OBVIOUS
  <2> DEFINE c == BucketId(Width, log[i].at)
             slot == c % Buckets
  <2>1. c \in Nat /\ c > b - Buckets /\ slot \in 0 .. Buckets - 1
    BY <1>1, <1>3, Division
  <2>2. c <= time[slot].id
    BY DEF Inv, BucketsHoldTheirOwn
  <2>3. slot \in live
    <3> HIDE DEF c, slot
    <3>1. slot \in DOMAIN time /\ time[slot].id \in Int
      BY <1>1, <2>1 DEF TimeWindows
    <3> QED
      BY <1>1, <1>3, <2>1, <2>2, <3>1 DEF Live
  <2>4. time[slot].id \in Nat /\ time[slot].id <= b /\ time[slot].id % Buckets = slot
    BY <1>4, <2>3
  <2>5. c = time[slot].id
    <3> DEFINE e == time[slot].id
    <3>1. e \in Nat /\ c \in Nat /\ c % Buckets = e % Buckets /\ c <= e /\ e < c + Buckets
      BY <1>1, <1>3, <2>1, <2>2, <2>4
    <3> HIDE DEF e, c, slot
    <3>2. c = e
      BY <1>1, <3>1, SameRemainder
    <3> QED
      BY <3>2 DEF e
  <2> QED
    BY <2>3, <2>5
<1>6. /\ Whole(live, P) = Young
      /\ Whole(live, F) = {i \in Young : log[i].failure}
  <2>1. \A slot \in live : \A i \in OutcomesOf(time[slot].id) : i \in Young
    BY <1>4 DEF OutcomesOf
  <2>2. \A i \in Young : \E slot \in live : i \in OutcomesOf(time[slot].id)
    BY <1>5 DEF OutcomesOf
  <2> HIDE DEF Young, live
  <2> QED
    BY <2>1, <2>2 DEF Whole
<1>7. IsFiniteSet(live)
  <2>1. live \subseteq 0 .. Buckets - 1
    BY <1>4
  <2>2. IsFiniteSet(0 .. Buckets - 1)
    BY <1>1, FS_Interval
  <2> QED
    BY <2>1, <2>2, FS_Subset
<1>8. \A slot \in live : /\ IsFiniteSet(P[slot]) /\ Totals(time)[slot] = Cardinality(P[slot])
                         /\ IsFiniteSet(F[slot]) /\ Failures(time)[slot] = Cardinality(F[slot])
  <2> SUFFICES ASSUME NEW slot \in live
               PROVE  /\ IsFiniteSet(P[slot]) /\ Totals(time)[slot] = Cardinality(P[slot])
                      /\ IsFiniteSet(F[slot]) /\ Failures(time)[slot] = Cardinality(F[slot])
    OBVIOUS
  <2>1. OutcomesOf(time[slot].id) \subseteq DOMAIN log
    BY DEF OutcomesOf
  <2>2. IsFiniteSet(P[slot]) /\ IsFiniteSet(F[slot])
    BY <1>2, <2>1
  <2>3. slot \in DOMAIN time
    BY DEF Live
  <2>4. Totals(time)[slot] = time[slot].total /\ Failures(time)[slot] = time[slot].failures
    BY <2>3 DEF Totals, Failures
  <2> QED
    BY <1>4, <2>2, <2>4
<1>9. \A s, t \in live : s # t => P[s] \cap P[t] = {} /\ F[s] \cap F[t] = {}
  <2>1. \A s, t \in live : s # t => time[s].id # time[t].id
    BY <1>4
  <2> HIDE DEF live
  <2> QED
    BY <2>1 DEF OutcomesOf
<1>10. /\ SumFunctionOnSet(Totals(time), live) = Cardinality(Young)
       /\ SumFunctionOnSet(Failures(time), live) = Cardinality({i \in Young : log[i].failure})
  <2> HIDE DEF live, P, F, Young
  <2>1. SumFunctionOnSet(Totals(time), live) = Cardinality(Whole(live, P))
    <3>1. SizesOfParts(live, Totals(time), P)
      BY <1>8, <1>9 DEF SizesOfParts
    <3> QED
      BY <1>7, <3>1, SumOfSizes
  <2>2. SumFunctionOnSet(Failures(time), live) = Cardinality(Whole(live, F))
    <3>1. SizesOfParts(live, Failures(time), F)
      BY <1>8, <1>9 DEF SizesOfParts
    <3> QED
      BY <1>7, <3>1, SumOfSizes
  <2> QED
    BY <1>6, <2>1, <2>2
<1> DEFINE reported == TimeStats(time, Buckets, Width, now)
<1>11. reported = ReadLog(Young)
  <2> HIDE DEF Young
  <2> QED
    BY <1>10 DEF TimeStats, Live, ReadLog
<1>12. reported.total = Cardinality(Young)
  BY <1>11 DEF ReadLog
<1> DEFINE size == Buckets * Width
           Younger(age) == {i \in DOMAIN log : now - log[i].at < age}
<1>13. Young \subseteq Younger(size) /\ Younger(size - Width + 1) \subseteq Young
  BY <1>1, <1>2, BucketsApart
<1>14. /\ Cardinality(Young) <= Cardinality(Younger(size))
       /\ Cardinality(Younger(size - Width + 1)) <= Cardinality(Young)
  <2>1. IsFiniteSet(Young) /\ IsFiniteSet(Younger(size))
    BY <1>2
  <2> HIDE DEF Young, Younger
  <2> QED
    BY <1>13, <2>1, FS_Subset
<1>15. Cardinality(Young) \in Nat /\ Cardinality(Younger(size - Width + 1)) \in Nat
  BY <1>2
<1> QED
  <2> HIDE DEF reported
  <2>1. /\ reported = ReadLog(Young)
        /\ reported.total <= Cardinality(Younger(size))
        /\ reported.total >= Cardinality(Younger(size - Width + 1))
    BY <1>11, <1>12, <1>14, <1>15
  <2> QED
    BY <2>1 DEF CountsRecentBuckets, reported

-----------------------------------------------------------------------------
(* Steps.                                                                  *)

LEMMA TypesKept ==
    ASSUME Inv, [Next]_vars
    PROVE  TypeOK' /\ NoneYetToCome'
<1>1. /\ count \in CountWindows(Size) /\ time \in TimeWindows(Buckets) /\ now \in Nat
      /\ log \in Seq([at : Nat, failure : BOOLEAN])
      /\ \A i \in DOMAIN log : log[i].at <= now
      /\ Size \in Nat \ {0} /\ Buckets \in Nat \ {0} /\ Width \in Nat \ {0}
  BY WindowAssumption DEF Inv, TypeOK, NoneYetToCome
<1>2. ASSUME NEW failure \in BOOLEAN, Record(failure)
      PROVE  TypeOK' /\ NoneYetToCome'
  <2>1. count' \in CountWindows(Size)
    BY <1>1, <1>2, CountRecordAdds DEF Record
  <2>2. time' \in TimeWindows(Buckets)
    BY <1>1, <1>2, TimeRecordAdds DEF Record
  <2> DEFINE e == [at |-> now, failure |-> failure]
  <2>3. log' = Append(log, e) /\ now' = now
    BY <1>2 DEF Record
  <2>4. e \in [at : Nat, failure : BOOLEAN] /\ e.at = now
    BY <1>1
  <2> HIDE DEF e
  <2>5. /\ log' \in Seq([at : Nat, failure : BOOLEAN])
        /\ Len(log') = Len(log) + 1 /\ log'[Len(log) + 1] = e
        /\ \A i \in 1 .. Len(log) : log'[i] = log[i]
    BY <1>1, <2>3, <2>4, AppendProperties
  <2>6. NoneYetToCome'
    BY <1>1, <2>3, <2>4, <2>5 DEF NoneYetToCome
  <2> QED
    BY <1>1, <2>1, <2>2, <2>3, <2>5, <2>6 DEF TypeOK
<1>3. CASE Reset
  <2>1. CountReset \in CountWindows(Size) /\ TimeReset(Buckets) \in TimeWindows(Buckets)
    BY <1>1, CountResetEmpties, TimeResetEmpties
  <2>2. count' = CountReset /\ time' = TimeReset(Buckets) /\ log' = <<>> /\ now' = now
    BY <1>3 DEF Reset
  <2>3. TypeOK'
    BY <1>1, <2>1, <2>2 DEF TypeOK
  <2> QED
    BY <2>2, <2>3 DEF NoneYetToCome
<1>4. CASE Tick
  <2>1. count' = count /\ time' = time /\ log' = log /\ now' = now + 1
    BY <1>4 DEF Tick
  <2>2. \A i \in DOMAIN log : log[i].at \in Nat
    BY PartsOfLog DEF Inv
  <2> QED
    BY <1>1, <2>1, <2>2 DEF TypeOK, NoneYetToCome
<1>5. CASE UNCHANGED vars
  BY <1>1, <1>5 DEF TypeOK, NoneYetToCome, vars
<1> QED
  BY <1>2, <1>3, <1>4, <1>5 DEF Next

(* The log of a record() is the old one and the outcome.                   *)
LEMMA LogGrows ==
    ASSUME Inv, NEW failure \in BOOLEAN, Record(failure)
    PROVE  /\ Len(log) \in Nat /\ Len(log') = Len(log) + 1
           /\ DOMAIN log = 1 .. Len(log) /\ DOMAIN log' = 1 .. Len(log) + 1
           /\ \A i \in DOMAIN log : log'[i] = log[i]
           /\ log'[Len(log) + 1].at = now
           /\ log'[Len(log) + 1].failure = failure
<1> DEFINE e == [at |-> now, failure |-> failure]
<1>1. log \in Seq([at : Nat, failure : BOOLEAN]) /\ log' = Append(log, e) /\ now \in Nat
  BY DEF Record, Inv, TypeOK
<1>2. e \in [at : Nat, failure : BOOLEAN] /\ e.at = now /\ e.failure = failure
  BY <1>1
<1> HIDE DEF e
<1>3. /\ log' \in Seq([at : Nat, failure : BOOLEAN]) /\ Len(log') = Len(log) + 1
      /\ log'[Len(log) + 1] = e /\ \A i \in 1 .. Len(log) : log'[i] = log[i]
  BY <1>1, <1>2, AppendProperties
<1> QED
  BY <1>1, <1>2, <1>3

LEMMA RingKeptByRecord ==
    ASSUME Inv, NEW failure \in BOOLEAN, Record(failure)
    PROVE  RingIsTail'
<1> DEFINE n == Len(log)
           o == count.outcomes
           x == count.next
           m == Len(o)
           p == count'.outcomes
           y == count'.next
           l == Len(p)
           F == {i \in Recent : log[i].failure}
           G == {i \in Recent' : log'[i].failure}
(* The ring before the record, and the log before and after it.            *)
<1>1. /\ n \in Nat /\ Len(log') = n + 1
      /\ DOMAIN log = 1 .. n /\ DOMAIN log' = 1 .. n + 1
      /\ \A i \in 1 .. n : log'[i] = log[i]
      /\ log'[n + 1].failure = failure
  BY LogGrows
<1>2. /\ Size \in Nat \ {0} /\ m \in Nat /\ o \in Seq(BOOLEAN)
      /\ x \in Nat /\ x < Size
  BY WindowAssumption DEF Inv, TypeOK, CountWindows
<1>3. /\ m = IF n < Size THEN n ELSE Size
      /\ n < Size => x = 0
      /\ count.failures = Cardinality(F)
      /\ \A k \in 1 .. m : o[((x + k - 1) % m) + 1] = log[n - m + k].failure
  BY DEF Inv, RingIsTail
<1>4. /\ Recent = {i \in 1 .. n : i > n - Size}
      /\ Recent' = {i \in 1 .. n + 1 : i > n + 1 - Size}
  <2>1. Recent' = {i \in DOMAIN log' : i > Len(log') - Size}
    BY DEF Recent
  <2>2. Recent = {i \in DOMAIN log : i > Len(log) - Size}
    BY DEF Recent
  <2>3. DOMAIN log = 1 .. n /\ DOMAIN log' = 1 .. n + 1 /\ Len(log') = n + 1
    BY <1>1
  <2>4. Recent = {i \in 1 .. n : i > n - Size}
    BY <2>2, <2>3
  <2>5. Recent' = {i \in 1 .. n + 1 : i > n + 1 - Size}
    <3> HIDE DEF n
    <3>1. \A i : i \in Recent' <=> i \in DOMAIN log' /\ i > Len(log') - Size
      BY <2>1
    <3>2. \A i : i \in Recent' <=> i \in 1 .. n + 1 /\ i > n + 1 - Size
      BY <1>1, <1>2, <2>3, <3>1
    <3> QED
      BY <3>2
  <2> QED
    BY <2>4, <2>5
<1>5. \A i \in 1 .. n : log[i].failure \in BOOLEAN
  BY <1>1, PartsOfLog DEF Inv
<1>6. IsFiniteSet(F) /\ Cardinality(F) \in Nat /\ F \subseteq 1 .. n
  <2>1. F \in SUBSET (DOMAIN log)
    BY DEF Recent
  <2> QED
    BY <1>1, <2>1, PartsOfLog DEF Inv
<1>7. IF n < Size
      THEN /\ p = Append(o, failure) /\ y = x
           /\ count'.failures = Cardinality(F) + AsCount(failure)
      ELSE /\ p = [o EXCEPT ![x + 1] = failure] /\ y = (x + 1) % Size
           /\ count'.failures = Cardinality(F) - AsCount(o[x + 1]) + AsCount(failure)
  <2>1. count \in [outcomes : Seq(BOOLEAN), next : Nat, failures : Int]
    BY DEF Inv, TypeOK, CountWindows
  <2>2. count' = CountRecord(count, Size, failure)
    BY DEF Record
  <2>3. m < Size <=> n < Size
    BY <1>1, <1>2, <1>3
  <2>4. CASE n < Size
    <3>1. count' = [count EXCEPT !.outcomes = Append(@, failure),
                                 !.failures = @ + AsCount(failure)]
      BY <2>2, <2>3, <2>4 DEF CountRecord
    <3> HIDE DEF F
    <3> QED
      BY <1>3, <2>1, <2>4, <3>1
  <2>5. CASE ~(n < Size)
    <3>1. count' = [outcomes |-> [o EXCEPT ![x + 1] = failure],
                    next |-> (x + 1) % Size,
                    failures |-> count.failures - AsCount(o[x + 1]) + AsCount(failure)]
      BY <2>2, <2>3, <2>5 DEF CountRecord
    <3> HIDE DEF F
    <3> QED
      BY <1>3, <2>5, <3>1
  <2> QED
    BY <2>4, <2>5
(* What has to be shown of the ring after it.                              *)
<1> SUFFICES /\ l = IF Len(log') < Size THEN Len(log') ELSE Size
             /\ Len(log') < Size => y = 0
             /\ count'.failures = Cardinality(G)
             /\ \A k \in 1 .. l : p[((y + k - 1) % l) + 1] = log'[Len(log') - l + k].failure
  BY DEF RingIsTail
<1> HIDE DEF n, o, x, m, p, y, l, F, G
<1>8. CASE n < Size
  <2>1. m = n /\ x = 0 /\ y = 0 /\ p = Append(o, failure)
    BY <1>3, <1>7, <1>8
  <2>2. l = n + 1 /\ p[n + 1] = failure /\ \A j \in 1 .. n : p[j] = o[j]
    BY <1>2, <2>1, AppendProperties DEF m, l
  <2>3. \A k \in 1 .. n : o[k] = log[k].failure
    <3> SUFFICES ASSUME NEW k \in 1 .. n PROVE o[k] = log[k].failure
      OBVIOUS
    <3>1. o[((x + k - 1) % m) + 1] = log[n - m + k].failure
      BY <1>3, <2>1
    <3>2. (k - 1) % n = k - 1
      <4>1. k - 1 \in Nat /\ n \in Nat \ {0} /\ k - 1 < n /\ k - 1 < 2 * n
        BY <1>1
      <4> QED
        BY <4>1, Wrap
    <3>3. ((x + k - 1) % m) + 1 = k /\ n - m + k = k
      BY <1>1, <2>1, <3>2
    <3> QED
      BY <3>1, <3>3
  <2>4. \A k \in 1 .. l : p[((y + k - 1) % l) + 1] = log'[Len(log') - l + k].failure
    <3> SUFFICES ASSUME NEW k \in 1 .. l
                 PROVE  p[((y + k - 1) % l) + 1] = log'[Len(log') - l + k].failure
      OBVIOUS
    <3>1. (k - 1) % l = k - 1
      <4> DEFINE a == k - 1
      <4>1. a \in Nat /\ l \in Nat \ {0} /\ a < l /\ a < 2 * l
        BY <1>1, <2>2
      <4>2. a % l = a
        <5> HIDE DEF a, l
        <5> QED
          BY <4>1, Wrap
      <4> QED
        BY <4>2
    <3>2. ((y + k - 1) % l) + 1 = k /\ Len(log') - l + k = k
      BY <1>1, <2>1, <2>2, <3>1
    <3>3. p[k] = log'[k].failure
      BY <1>1, <2>2, <2>3
    <3> QED
      BY <3>2, <3>3
  <2>5. G = IF failure THEN F \cup {n + 1} ELSE F
    BY <1>1, <1>2, <1>4, <1>8 DEF F, G
  <2>6. count'.failures = Cardinality(G)
    <3>1. n + 1 \notin F
      BY <1>1, <1>6
    <3>2. Cardinality(F \cup {n + 1}) = Cardinality(F) + 1
      BY <1>6, <3>1, FS_AddElement
    <3> QED
      BY <1>6, <1>7, <1>8, <2>5, <3>2 DEF AsCount
  <2>7. l = IF Len(log') < Size THEN Len(log') ELSE Size
    BY <1>1, <1>2, <1>8, <2>2
  <2> QED
    BY <2>1, <2>4, <2>6, <2>7
<1>9. CASE ~(n < Size)
  <2> DEFINE old == n - Size + 1
  <2>1. /\ m = Size /\ x \in 0 .. Size - 1 /\ old \in 1 .. n
        /\ p = [o EXCEPT ![x + 1] = failure] /\ y = (x + 1) % Size
    BY <1>1, <1>2, <1>3, <1>7, <1>9
  <2>2. o[x + 1] = log[old].failure
    <3>1. o[((x + 1 - 1) % m) + 1] = log[n - m + 1].failure
      BY <1>2, <1>3, <2>1
    <3>2. x % m = x
      <4>1. x \in Nat /\ m \in Nat \ {0} /\ x < 2 * m /\ x < m
        BY <1>2, <2>1
      <4> QED
        BY <4>1, Wrap
    <3>3. x + 1 - 1 = x /\ n - m + 1 = old
      BY <1>1, <1>2, <2>1
    <3> QED
      BY <3>1, <3>2, <3>3
  <2>3. l = Size /\ p[x + 1] = failure /\ \A j \in 1 .. Size : j # x + 1 => p[j] = o[j]
    BY <1>2, <2>1 DEF m, l
  <2>4. y = IF x + 1 < Size THEN x + 1 ELSE 0
    <3> DEFINE a == x + 1
               r == a % Size
    <3>1. a \in Nat /\ Size \in Nat \ {0} /\ a < 2 * Size
      BY <1>2, <2>1
    <3>2. r = IF a < Size THEN a ELSE a - Size
      <4> HIDE DEF a
      <4> QED
        BY <3>1, Wrap
    <3>3. y = r /\ x \in 0 .. Size - 1
      BY <2>1
    <3>4. ~(a < Size) => a - Size = 0
      BY <1>2, <3>3
    <3> QED
      BY <3>2, <3>3, <3>4
  <2>5. \A k \in 1 .. l : p[((y + k - 1) % l) + 1] = log'[Len(log') - l + k].failure
    <3> SUFFICES ASSUME NEW k \in 1 .. l
                 PROVE  p[((y + k - 1) % l) + 1] = log'[Len(log') - l + k].failure
      OBVIOUS
    <3> DEFINE a == y + k - 1
               r == a % l
               z == x + (k + 1) - 1
               t == z % l
    <3>1. a \in Nat /\ a < 2 * l /\ l \in Nat \ {0} /\ k \in 1 .. Size
      BY <1>2, <2>1, <2>3, <2>4
    <3>2. r = IF a < l THEN a ELSE a - l
      <4> HIDE DEF a
      <4> QED
        BY <3>1, Wrap
    <3>3. CASE k = Size
      <4>1. r = x
        BY <1>2, <2>1, <2>3, <2>4, <3>2, <3>3
      <4>2. Len(log') - l + k = n + 1
        BY <1>1, <1>2, <2>3, <3>3
      <4> QED
        BY <1>1, <2>3, <4>1, <4>2
    <3>4. CASE k < Size
      <4>1. z \in Nat /\ z < 2 * l
        BY <1>2, <2>1, <2>3, <3>1, <3>4
      <4>2. t = IF z < l THEN z ELSE z - l
        <5> HIDE DEF z
        <5> QED
          BY <3>1, <4>1, Wrap
      <4>3. t = r /\ t # x /\ t \in 0 .. Size - 1
        <5>1. /\ a = y + k - 1 /\ z = x + k /\ x \in 0 .. Size - 1 /\ l = Size
              /\ y = IF x + 1 < Size THEN x + 1 ELSE 0
          BY <1>2, <2>1, <2>3, <2>4, <3>1
        <5> HIDE DEF a, z
        <5>2. /\ r = IF a < l THEN a ELSE a - l
              /\ t = IF z < l THEN z ELSE z - l
          BY <3>2, <4>2
        <5> HIDE DEF r, t
        <5> QED
          BY <1>2, <3>1, <3>4, <5>1, <5>2
      <4>4. o[t + 1] = log[n - m + (k + 1)].failure
        <5>1. k + 1 \in 1 .. m /\ l = m
          BY <1>2, <2>1, <2>3, <3>1, <3>4
        <5> QED
          BY <1>3, <5>1
      <4>5. p[r + 1] = o[t + 1]
        <5> HIDE DEF r, t
        <5>1. r + 1 \in 1 .. Size /\ r + 1 # x + 1
          BY <1>2, <2>1, <4>3
        <5> QED
          BY <2>3, <4>3, <5>1
      <4>6. n - m + (k + 1) \in 1 .. n /\ Len(log') - l + k = n - m + (k + 1)
        BY <1>1, <1>2, <1>9, <2>1, <2>3, <3>1, <3>4
      <4> HIDE DEF t
      <4> QED
        BY <1>1, <4>4, <4>5, <4>6
    <3> QED
      BY <1>2, <3>1, <3>3, <3>4
  <2>6. G = (F \ {old}) \cup (IF failure THEN {n + 1} ELSE {})
    BY <1>1, <1>2, <1>4, <1>9 DEF F, G
  <2> DEFINE R == F \ {old}
  <2>7. Cardinality(R) = Cardinality(F) - AsCount(o[x + 1]) /\ IsFiniteSet(R)
    <3>1. old \in F <=> log[old].failure
      BY <1>1, <1>2, <1>4, <2>1 DEF F
    <3>2. old \notin F => R = F
      OBVIOUS
    <3> HIDE DEF old
    <3> QED
      BY <1>6, <2>2, <3>1, <3>2, FS_RemoveElement DEF AsCount
  <2>8. count'.failures = Cardinality(G)
    <3>1. n + 1 \notin R
      BY <1>1, <1>6
    <3>2. G = IF failure THEN R \cup {n + 1} ELSE R
      BY <2>6
    <3> HIDE DEF R
    <3>3. Cardinality(R \cup {n + 1}) = Cardinality(R) + 1 /\ Cardinality(R) \in Nat
      BY <2>7, <3>1, FS_AddElement, FS_CardinalityType
    <3>4. count'.failures = Cardinality(R) + AsCount(failure)
      BY <1>7, <1>9, <2>7
    <3> QED
      BY <3>2, <3>3, <3>4 DEF AsCount
  <2> QED
    BY <1>1, <1>2, <1>9, <2>3, <2>5, <2>8
<1> QED
  BY <1>8, <1>9

LEMMA BucketsKeptByRecord ==
    ASSUME Inv, NEW failure \in BOOLEAN, Record(failure)
    PROVE  BucketsHoldTheirOwn'
<1> DEFINE n == Len(log)
           id == BucketId(Width, now)
           own == id % Buckets
           old == time[own]
           Of(b) == OutcomesOf(b)
           FailedOf(b) == {i \in OutcomesOf(b) : log[i].failure}
           OfNow(b) == {i \in DOMAIN log' : BucketId(Width, log'[i].at) = b}
           FailedNow(b) == {i \in OfNow(b) : log'[i].failure}
<1>1. /\ n \in Nat /\ DOMAIN log = 1 .. n /\ DOMAIN log' = 1 .. n + 1
      /\ \A i \in 1 .. n : log'[i] = log[i]
      /\ log'[n + 1].at = now /\ log'[n + 1].failure = failure
  BY LogGrows
<1>2. /\ Buckets \in Nat \ {0} /\ Width \in Nat \ {0} /\ now \in Nat /\ now' = now
      /\ time \in [0 .. Buckets - 1 -> [id : Int, total : Nat, failures : Nat]]
      /\ \A i \in 1 .. n : log[i].at \in Nat /\ log[i].failure \in BOOLEAN /\ log[i].at <= now
  BY <1>1, WindowAssumption, PartsOfLog DEF Inv, TypeOK, TimeWindows, NoneYetToCome, Record
<1>3. id \in Nat /\ own \in 0 .. Buckets - 1
  BY <1>2, BucketIds, Division
<1>4. \A i \in 1 .. n : BucketId(Width, log[i].at) \in Nat /\ BucketId(Width, log[i].at) <= id
  BY <1>2, BucketsNotAhead
<1>5. /\ \A slot \in 0 .. Buckets - 1 : BucketHoldsItsOwn(slot)
      /\ \A i \in 1 .. n :
             BucketId(Width, log[i].at) <= time[BucketId(Width, log[i].at) % Buckets].id
  BY <1>1 DEF Inv, BucketsHoldTheirOwn
(* The slot of the present bucket is the one that changes.                 *)
<1>6. /\ \A slot \in 0 .. Buckets - 1 : slot # own => time'[slot] = time[slot]
      /\ time'[own].id = id
      /\ IF old.id = id
            THEN /\ time'[own].total = old.total + 1
                 /\ time'[own].failures = old.failures + AsCount(failure)
            ELSE /\ time'[own].total = 1
                 /\ time'[own].failures = AsCount(failure)
  <2> DEFINE bucket == IF old.id = id THEN old ELSE EmptyBucket(id)
             new == [id |-> id, total |-> bucket.total + 1,
                     failures |-> bucket.failures + AsCount(failure)]
  <2>1. time' = [time EXCEPT ![own] = new]
    BY DEF Record, TimeRecord
  <2>2. EmptyBucket(id).total = 0 /\ EmptyBucket(id).failures = 0 /\ AsCount(failure) \in Int
    BY DEF EmptyBucket, AsCount
  <2>3. /\ new.id = id
        /\ IF old.id = id
              THEN new.total = old.total + 1 /\ new.failures = old.failures + AsCount(failure)
              ELSE new.total = 1 /\ new.failures = AsCount(failure)
    <3> HIDE DEF old
    <3> QED
      BY <2>2
  <2> HIDE DEF new, id, own
  <2> QED
    BY <1>2, <1>3, <2>1, <2>3
<1>7. \A b : OfNow(b) = IF b = id THEN Of(b) \cup {n + 1} ELSE Of(b)
  <2> SUFFICES ASSUME NEW b
               PROVE  OfNow(b) = IF b = id THEN Of(b) \cup {n + 1} ELSE Of(b)
    OBVIOUS
  <2>1. OfNow(b) = {i \in 1 .. n + 1 : BucketId(Width, log'[i].at) = b}
    BY <1>1
  <2>2. Of(b) = {i \in 1 .. n : BucketId(Width, log[i].at) = b}
    BY <1>1 DEF OutcomesOf
  <2> HIDE DEF n, OfNow, Of
  <2> QED
    BY <1>1, <2>1, <2>2
<1>8. \A b : FailedNow(b) = IF b = id /\ failure THEN FailedOf(b) \cup {n + 1} ELSE FailedOf(b)
  <2> SUFFICES ASSUME NEW b
               PROVE  FailedNow(b) = IF b = id /\ failure THEN FailedOf(b) \cup {n + 1} ELSE FailedOf(b)
    OBVIOUS
  <2>1. OfNow(b) = IF b = id THEN Of(b) \cup {n + 1} ELSE Of(b)
    BY <1>7
  <2>2. Of(b) \subseteq 1 .. n
    BY <1>1 DEF OutcomesOf
  <2> HIDE DEF n, OfNow, Of
  <2>3. FailedOf(b) = {i \in Of(b) : log[i].failure}
    BY DEF Of
  <2> HIDE DEF FailedOf
  <2> QED
    BY <1>1, <2>1, <2>2, <2>3
<1>9. \A b : /\ IsFiniteSet(Of(b)) /\ IsFiniteSet(FailedOf(b))
             /\ n + 1 \notin Of(b) /\ n + 1 \notin FailedOf(b)
  <2> SUFFICES ASSUME NEW b
               PROVE  /\ IsFiniteSet(Of(b)) /\ IsFiniteSet(FailedOf(b))
                      /\ n + 1 \notin Of(b) /\ n + 1 \notin FailedOf(b)
    OBVIOUS
  <2>1. Of(b) \in SUBSET (DOMAIN log) /\ FailedOf(b) \in SUBSET (DOMAIN log)
    BY DEF OutcomesOf
  <2> QED
    BY <1>1, <2>1, PartsOfLog DEF Inv
(* A bucket that is recycled had none of the outcomes of the present one.  *)
<1>10. old.id # id => Of(id) = {} /\ FailedOf(id) = {}
  <2> SUFFICES ASSUME old.id # id, NEW i \in Of(id) PROVE FALSE
    BY <1>7
  <2>1. i \in 1 .. n /\ BucketId(Width, log[i].at) = id
    BY <1>1 DEF OutcomesOf
  <2>2. id <= old.id
    BY <1>5, <2>1
  <2>3. BucketHoldsItsOwn(own)
    BY <1>3, <1>5
  <2>4. old.id = Never(Buckets) \/ (old.id \in Nat /\ old.id <= id)
    BY <2>3 DEF BucketHoldsItsOwn
  <2> HIDE DEF id, old
  <2> QED
    BY <1>2, <1>3, <2>2, <2>4 DEF Never
<1> DEFINE HoldsNow(slot) ==
               \/ time'[slot].id = Never(Buckets)
               \/ /\ time'[slot].id \in Nat
                  /\ time'[slot].id <= id
                  /\ time'[slot].id % Buckets = slot
                  /\ time'[slot].total = Cardinality(OfNow(time'[slot].id))
                  /\ time'[slot].failures = Cardinality(FailedNow(time'[slot].id))
<1>11. ASSUME NEW slot \in 0 .. Buckets - 1 PROVE HoldsNow(slot)
  <2>1. CASE slot = own
    <3> HIDE DEF Of, FailedOf, OfNow, FailedNow, n, id, own, old
    <3>1. /\ OfNow(id) = Of(id) \cup {n + 1}
          /\ Cardinality(Of(id) \cup {n + 1}) = Cardinality(Of(id)) + 1
      BY <1>7, <1>9, FS_AddElement
    <3>2. /\ FailedNow(id) = IF failure THEN FailedOf(id) \cup {n + 1} ELSE FailedOf(id)
          /\ Cardinality(FailedOf(id) \cup {n + 1}) = Cardinality(FailedOf(id)) + 1
      BY <1>8, <1>9, FS_AddElement
    <3>3. Cardinality(Of(id)) \in Nat /\ Cardinality(FailedOf(id)) \in Nat
      BY <1>9, FS_CardinalityType
    <3>4. Cardinality(FailedNow(id)) = Cardinality(FailedOf(id)) + AsCount(failure)
      BY <3>2, <3>3 DEF AsCount
    <3>5. /\ time'[own].total = Cardinality(OfNow(id))
          /\ time'[own].failures = Cardinality(FailedNow(id))
      <4>1. CASE old.id = id
        <5>1. BucketHoldsItsOwn(own) /\ old.id # Never(Buckets)
          BY <1>2, <1>3, <1>5, <4>1 DEF Never
        <5>2. old.total = Cardinality(Of(id)) /\ old.failures = Cardinality(FailedOf(id))
          BY <4>1, <5>1 DEF BucketHoldsItsOwn, old, Of, FailedOf
        <5> QED
          BY <1>6, <3>1, <3>4, <4>1, <5>2
      <4>2. CASE old.id # id
        <5>1. Cardinality(Of(id)) = 0 /\ Cardinality(FailedOf(id)) = 0
          BY <1>10, <4>2, FS_EmptySet
        <5>2. AsCount(failure) \in Nat
          BY DEF AsCount
        <5> QED
          BY <1>6, <3>1, <3>4, <4>2, <5>1, <5>2
      <4> QED
        BY <4>1, <4>2
    <3> QED
      BY <1>3, <1>6, <2>1, <3>5 DEF own
  <2>2. CASE slot # own
    <3> DEFINE b == time[slot].id
    <3>1. time'[slot] = time[slot]
      BY <1>6, <2>2
    <3>2. BucketHoldsItsOwn(slot)
      BY <1>5
    <3>3. CASE b = Never(Buckets)
      BY <3>1, <3>3
    <3>4. CASE b # Never(Buckets)
      <4>1. /\ b \in Nat /\ b <= id /\ b % Buckets = slot
            /\ time[slot].total = Cardinality(Of(b))
            /\ time[slot].failures = Cardinality(FailedOf(b))
        BY <3>2, <3>4 DEF BucketHoldsItsOwn
      <4>2. b # id
        BY <2>2, <4>1
      <4>3. OfNow(b) = Of(b) /\ FailedNow(b) = FailedOf(b)
        <5> HIDE DEF Of, FailedOf, OfNow, FailedNow, b, id
        <5> QED
          BY <1>7, <1>8, <4>2
      <4> QED
        <5> HIDE DEF Of, FailedOf, OfNow, FailedNow, id
        <5> QED
          BY <3>1, <4>1, <4>3
    <3> QED
      BY <3>3, <3>4
  <2> QED
    BY <2>1, <2>2
<1>12. ASSUME NEW i \in DOMAIN log'
       PROVE  BucketId(Width, log'[i].at) <= time'[BucketId(Width, log'[i].at) % Buckets].id
  <2> DEFINE b == BucketId(Width, log'[i].at)
  <2>1. b \in Nat /\ b <= id /\ b % Buckets \in 0 .. Buckets - 1
    <3>1. b \in Nat /\ b <= id
      BY <1>1, <1>3, <1>4
    <3> QED
      BY <1>2, <3>1, Division
  <2>2. CASE b % Buckets = own
    BY <1>6, <2>1, <2>2
  <2>3. CASE b % Buckets # own
    <3>1. i \in 1 .. n
      BY <1>1, <2>3
    <3>2. b = BucketId(Width, log[i].at) /\ b <= time[b % Buckets].id
      BY <1>1, <1>5, <3>1
    <3>3. time'[b % Buckets] = time[b % Buckets]
      BY <1>6, <2>1, <2>3
    <3> QED
      BY <3>2, <3>3
  <2> QED
    BY <2>2, <2>3
<1> QED
  <2>1. \A slot \in 0 .. Buckets - 1 : BucketHoldsItsOwn(slot)'
    BY <1>2, <1>11 DEF BucketHoldsItsOwn, OutcomesOf
  <2> QED
    BY <1>12, <2>1 DEF BucketsHoldTheirOwn

(* An empty log and windows that were reset agree.                         *)
LEMMA EmptyIsReported ==
    ASSUME count = CountReset, time = TimeReset(Buckets), log = <<>>
    PROVE  RingIsTail /\ BucketsHoldTheirOwn
<1>1. Size \in Nat \ {0} /\ Buckets \in Nat \ {0}
  BY WindowAssumption
<1>2. /\ count.outcomes = <<>> /\ count.next = 0 /\ count.failures = 0
      /\ Len(<<>>) = 0 /\ Len(log) = 0 /\ DOMAIN log = {}
  BY DEF CountReset
<1>3. RingIsTail
  <2>1. {i \in Recent : log[i].failure} = {}
    BY <1>2 DEF Recent
  <2>2. count.failures = Cardinality({i \in Recent : log[i].failure})
    BY <1>2, <2>1, FS_EmptySet
  <2>3. Len(count.outcomes) = 0 /\ 1 .. 0 = {}
    BY <1>2
  <2> QED
    BY <1>1, <1>2, <2>2, <2>3 DEF RingIsTail
<1>4. \A slot \in 0 .. Buckets - 1 : time[slot].id = Never(Buckets)
  BY DEF TimeReset, EmptyBucket
<1> QED
  BY <1>2, <1>3, <1>4 DEF BucketsHoldTheirOwn, BucketHoldsItsOwn

LEMMA ResetReportsNothing ==
    ASSUME Reset
    PROVE  RingIsTail' /\ BucketsHoldTheirOwn'
<1>1. Size \in Nat \ {0} /\ Buckets \in Nat \ {0}
  BY WindowAssumption
<1>2. /\ count'.outcomes = <<>> /\ count'.next = 0 /\ count'.failures = 0
      /\ Len(<<>>) = 0 /\ Len(log') = 0 /\ DOMAIN log' = {}
      /\ time' = TimeReset(Buckets)
  BY DEF Reset, CountReset
<1>3. RingIsTail'
  <2>1. Recent' = {}
    BY <1>2 DEF Recent
  <2>2. {i \in Recent' : log'[i].failure} = {}
    BY <2>1
  <2>3. count'.failures = Cardinality({i \in Recent' : log'[i].failure})
    BY <1>2, <2>2, FS_EmptySet
  <2>4. Len(count'.outcomes) = 0 /\ 1 .. 0 = {}
    BY <1>2
  <2> QED
    BY <1>1, <1>2, <2>3, <2>4 DEF RingIsTail
<1>4. \A slot \in 0 .. Buckets - 1 : time'[slot].id = Never(Buckets)
  BY <1>2 DEF TimeReset, EmptyBucket
<1> QED
  BY <1>2, <1>3, <1>4 DEF BucketsHoldTheirOwn, BucketHoldsItsOwn

(* Time passes: the present bucket is no earlier.                          *)
LEMMA TickKeeps ==
    ASSUME Inv, Tick
    PROVE  RingIsTail' /\ BucketsHoldTheirOwn'
<1>1. count' = count /\ time' = time /\ log' = log /\ now' = now + 1
  BY DEF Tick
<1>2. RingIsTail'
  BY <1>1 DEF Inv, RingIsTail, Recent
<1>3. BucketId(Width, now) <= BucketId(Width, now + 1) /\ BucketId(Width, now) \in Nat
      /\ BucketId(Width, now + 1) \in Nat
  BY WindowAssumption, BucketIds DEF Inv, TypeOK
<1>4. \A slot \in 0 .. Buckets - 1 : BucketHoldsItsOwn(slot)'
  <2> SUFFICES ASSUME NEW slot \in 0 .. Buckets - 1 PROVE BucketHoldsItsOwn(slot)'
    OBVIOUS
  <2>1. BucketHoldsItsOwn(slot)
    BY DEF Inv, BucketsHoldTheirOwn
  <2>2. OutcomesOf(time[slot].id)' = OutcomesOf(time[slot].id)
    BY <1>1 DEF OutcomesOf
  <2>3. CASE time[slot].id = Never(Buckets)
    BY <1>1, <2>3 DEF BucketHoldsItsOwn
  <2>4. CASE time[slot].id # Never(Buckets)
    <3>1. time[slot].id <= BucketId(Width, now + 1)
      BY <1>3, <2>1, <2>4 DEF BucketHoldsItsOwn
    <3> QED
      BY <1>1, <2>1, <2>4, <3>1 DEF BucketHoldsItsOwn, OutcomesOf
  <2> QED
    BY <2>3, <2>4
<1> QED
  BY <1>1, <1>2, <1>4 DEF Inv, BucketsHoldTheirOwn

-----------------------------------------------------------------------------
(* Every reachable state.                                                  *)

LEMMA InvInit ==
    ASSUME Init
    PROVE  Inv
<1>1. /\ count = CountReset /\ time = TimeReset(Buckets) /\ now = 0 /\ log = <<>>
      /\ Size \in Nat \ {0} /\ Buckets \in Nat \ {0} /\ Width \in Nat \ {0}
  BY WindowAssumption DEF Init
<1>2. TypeOK
  BY <1>1, CountResetEmpties, TimeResetEmpties DEF TypeOK
<1>3. NoneYetToCome
  BY <1>1 DEF NoneYetToCome
<1>4. RingIsTail /\ BucketsHoldTheirOwn
  BY <1>1, EmptyIsReported
<1> QED
  BY <1>2, <1>3, <1>4 DEF Inv

LEMMA InvNext ==
    ASSUME Inv, [Next]_vars
    PROVE  Inv'
<1>1. TypeOK' /\ NoneYetToCome'
  BY TypesKept
<1>2. ASSUME NEW failure \in BOOLEAN, Record(failure)
      PROVE  RingIsTail' /\ BucketsHoldTheirOwn'
  BY <1>2, RingKeptByRecord, BucketsKeptByRecord
<1>3. ASSUME Reset
      PROVE  RingIsTail' /\ BucketsHoldTheirOwn'
  BY <1>3, ResetReportsNothing
<1>4. ASSUME Tick
      PROVE  RingIsTail' /\ BucketsHoldTheirOwn'
  BY <1>4, TickKeeps
<1>5. ASSUME UNCHANGED vars
      PROVE  RingIsTail' /\ BucketsHoldTheirOwn'
  <2>1. count' = count /\ time' = time /\ now' = now /\ log' = log
    BY <1>5 DEF vars
  <2>2. RingIsTail'
    BY <2>1 DEF Inv, RingIsTail, Recent
  <2> QED
    BY <2>1, <2>2 DEF Inv, BucketsHoldTheirOwn, BucketHoldsItsOwn, OutcomesOf
<1> QED
  BY <1>1, <1>2, <1>3, <1>4, <1>5 DEF Next, Inv

THEOREM InvHolds == Spec => []Inv
<1>1. Init => Inv
  BY InvInit
<1>2. Inv /\ [Next]_vars => Inv'
  BY InvNext
<1> QED
  BY <1>1, <1>2, PTL DEF Spec

(* The count window reports the last Size outcomes, and its running count  *)
(* never drifts from the ring, whatever the size and however often the     *)
(* ring has wrapped.                                                       *)
THEOREM CountWindowIsExact == Spec => []CountsLastCalls
<1>1. Inv => CountsLastCalls
  BY TailIsCounted
<1> QED
  BY <1>1, InvHolds, PTL

(* The time window reports the outcomes of the last Buckets buckets of the *)
(* clock, so is off by less than one bucket from those of the last `size`  *)
(* ms, whatever the pauses between calls: no stale bucket is ever read.    *)
THEOREM TimeWindowIsExactToABucket == Spec => []CountsRecentBuckets
<1>1. Inv => CountsRecentBuckets
  BY RecentBucketsAreCounted
<1> QED
  BY <1>1, InvHolds, PTL
=============================================================================
