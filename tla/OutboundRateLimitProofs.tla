---------------------- MODULE OutboundRateLimitProofs -----------------------
(***************************************************************************)
(* For any calls, quota, interval and longest wait, with timers on time or *)
(* late: no token of OutboundRateLimitPolicy is made or lost, the quota is *)
(* kept up to every moment, and until a reservation is given back no more  *)
(* calls go in any period than its burst, that of a period longer by what  *)
(* timers are late, and sleepers are due a token's time apart.             *)
(***************************************************************************)
EXTENDS OutboundRateLimit, StructureTheorems

-----------------------------------------------------------------------------
(* The inductive invariant.                                                *)

Moments == Nat

(* What x ticks refill, and what k tokens are.                             *)
Rate(x) == Limit * x
Worth(k) == Interval * k

(* The calls that may go, now or later, and those that hold a token.       *)
Holding == At("served") \cup At("sleeping")
Held == At("served") \cup At("sleeping") \cup At("refunding")

DueFrom(s) == {c \in Holding : due[c] >= s}

LineOfSleepers == Distinct(line) /\ ToSet(line) = At("sleeping")

(* QuotaKept of every moment: that of the present ones is not inductive,   *)
(* for a clock that ticks looks further ahead.                             *)
Paid ==
    \A t \in Moments : Worth(Cardinality(DueWithin(0, t))) <= Rate(Interval + t)

(* With the calls due from a moment on not counted, the bucket would not   *)
(* be more than full at that moment: they were not early.                  *)
NotEarly ==
    \A s \in Moments :
        DueFrom(s) # {} =>
            Worth(Cardinality(DueFrom(s))) + Refilled + Rate(s) <= Full + Rate(now)

(* And with those due after it not counted, it will not be in debt then:   *)
(* the calls due by then are paid by then.                                 *)
NoDebt ==
    \A t \in Moments :
        t >= now =>
            Refilled + Rate(t) - Rate(now) + Worth(Cardinality(DueFrom(t + 1))) >= 0

NoBurst ==
    \A from, to \in Moments :
        from <= to =>
            Worth(Cardinality(DueWithin(from, to))) <= Rate(Interval + to - from)

(* A sleeper's time and the tokens reserved since it was given, against    *)
(* the level that the next sleeper's time is computed from.                *)
NextApart ==
    \A i \in DOMAIN line :
        Refilled + Rate(due[line[i]]) + Worth(Len(line) - i) <= Rate(now) + Limit - 1

Apart ==
    \A i, j \in DOMAIN line :
        i < j => due[line[j]] - due[line[i]] >= ((j - i) * Interval) \div Limit

Smooth == NotEarly /\ NoDebt /\ NoBurst /\ NextApart /\ Apart

(* A call goes when it is due, or later by what its timer is late.         *)
Punctual ==
    /\ \A c \in At("served") : due[c] <= went[c] /\ went[c] <= due[c] + MaxLate
    /\ \A c \in At("sleeping") : now <= due[c] + MaxLate

Inv ==
    /\ TypeOK
    /\ Punctual
    /\ TokensConserved
    /\ LineOfSleepers
    /\ Paid
    /\ NobodyAborted => Smooth

-----------------------------------------------------------------------------
(* Arithmetic of the bucket.                                               *)

(* Refilling is proportional.                                              *)
LEMMA RateAdds ==
    /\ Rate(0) = 0 /\ Rate(1) = Limit
    /\ \A x, y \in Int :
          /\ Rate(x) \in Int
          /\ Rate(x + y) = Rate(x) + Rate(y) /\ Rate(x - y) = Rate(x) - Rate(y)
          /\ x <= y => Rate(x) <= Rate(y)
<1>1. Limit \in Nat \ {0}
  BY ConstantsAssumption
<1>2. \A x, y \in Int : Limit * (x + y) = Limit * x + Limit * y
  BY <1>1
<1>3. \A x, y \in Int : Limit * (x - y) = Limit * x - Limit * y
  BY <1>1
<1>4. \A x, y \in Int : x <= y => Limit * x <= Limit * y
  BY <1>1
<1> QED
  BY <1>1, <1>2, <1>3, <1>4 DEF Rate

(* The same, without what adds up.                                         *)
LEMMA RateGrows ==
    \A x, y \in Int : Rate(x) \in Int /\ (x <= y => Rate(x) <= Rate(y))
  BY RateAdds

(* What a period of the bucket's own and a longer or shorter one refill.   *)
LEMMA RateOfPeriod ==
    ASSUME NEW x \in Int, NEW y \in Int, NEW z \in Int
    PROVE  Rate(x + y - z) = Rate(x) + Rate(y) - Rate(z)
<1>1. Limit \in Int
  BY ConstantsAssumption
<1>2. Limit * (x + y - z) = Limit * x + Limit * y - Limit * z
  BY <1>1
<1> QED
  BY <1>2 DEF Rate

(* So are tokens.                                                          *)
LEMMA WorthAdds ==
    /\ Worth(0) = 0 /\ Worth(1) = Interval
    /\ \A x, y \in Int :
          /\ Worth(x) \in Int
          /\ Worth(x + y) = Worth(x) + Worth(y) /\ Worth(x - y) = Worth(x) - Worth(y)
          /\ x <= y => Worth(x) <= Worth(y)
<1>1. Interval \in Nat \ {0}
  BY ConstantsAssumption
<1>2. \A x, y \in Int : Interval * (x + y) = Interval * x + Interval * y
  BY <1>1
<1>3. \A x, y \in Int : Interval * (x - y) = Interval * x - Interval * y
  BY <1>1
<1>4. \A x, y \in Int : x <= y => Interval * x <= Interval * y
  BY <1>1
<1> QED
  BY <1>1, <1>2, <1>3, <1>4 DEF Worth

(* The same, without what adds up.                                         *)
LEMMA WorthGrows ==
    \A x, y \in Int : Worth(x) \in Int /\ (x <= y => Worth(x) <= Worth(y))
  BY WorthAdds

(* A full bucket holds the tokens of an interval, and has room for one and *)
(* what rounding up adds.                                                  *)
LEMMA FullBucket ==
    /\ Full \in Nat /\ Full = Rate(Interval)
    /\ Interval + Limit - 1 <= Full
<1>1. Limit \in Nat /\ Limit >= 1 /\ Interval \in Nat /\ Interval >= 1
  BY ConstantsAssumption
<1>2. (Limit - 1) * (Interval - 1) >= 0
  <2> DEFINE x == Limit - 1
             y == Interval - 1
  <2>1. x \in Nat /\ y \in Nat
    BY <1>1
  <2> HIDE DEF x, y
  <2>2. x * y >= 0
    BY <2>1
  <2> QED
    BY <2>2 DEF x, y
<1>3. (Limit - 1) * (Interval - 1) = Limit * Interval - Limit - Interval + 1
  BY <1>1
<1>4. Limit * Interval \in Nat
  BY <1>1
<1> QED
  BY <1>1, <1>2, <1>3, <1>4 DEF Full, Rate

(* The wait is the first tick by which what is missing is refilled.        *)
LEMMA WaitIsLeast ==
    ASSUME NEW t \in Int, t < Interval
    PROVE  /\ WaitFor(t) \in Nat
           /\ Interval - t <= Rate(WaitFor(t))
           /\ Rate(WaitFor(t)) <= Interval - t + Limit - 1
<1> DEFINE n == Interval - t + Limit - 1
           w == n \div Limit
<1>1. Limit \in Nat /\ Limit >= 1 /\ n \in Nat /\ n >= Limit
  BY ConstantsAssumption
<1>2. w \in Nat /\ Limit * w <= n /\ n < Limit * w + Limit
  BY <1>1
<1> QED
  BY <1>1, <1>2, ConstantsAssumption DEF WaitFor, Rate

(* What is below the next multiple is the quotient.                        *)
LEMMA Floor ==
    ASSUME NEW n \in Nat, NEW x \in Int, n < Rate(x + 1)
    PROVE  x >= n \div Limit
<1> DEFINE q == n \div Limit
<1>1. Limit \in Nat /\ Limit >= 1
  BY ConstantsAssumption
<1>2. q \in Nat /\ Limit * q <= n
  BY <1>1
<1>3. ~(x + 1 <= q)
  <2>1. Rate(q) <= n
    BY <1>2 DEF Rate
  <2>2. x + 1 <= q => Rate(x + 1) <= Rate(q)
    BY <1>2, RateAdds
  <2>3. Rate(x + 1) \in Int /\ Rate(q) \in Int
    BY <1>2, RateAdds
  <2> HIDE DEF q
  <2> QED
    BY <2>1, <2>2, <2>3
<1> HIDE DEF q
<1> QED
  BY <1>2, <1>3 DEF q

(* refill() brings the level up to date and no further than full.          *)
LEMMA LevelIs ==
    ASSUME TypeOK
    PROVE  /\ Refilled \in Int /\ Refilled <= Full /\ Uncapped \in Int /\ Refilled <= Uncapped
           /\ Uncapped = tokens + Rate(now) - Rate(refilledAt)
           /\ Uncapped <= Full => Refilled = Uncapped
           /\ Uncapped > Full => Refilled = Full
           /\ Rate(now) \in Int /\ Rate(refilledAt) \in Int
<1>1. tokens \in Int /\ now \in Int /\ refilledAt \in Int
  BY DEF TypeOK
<1>2. Uncapped = tokens + Rate(now - refilledAt)
  <2>1. Limit \in Int
    BY ConstantsAssumption
  <2>2. (now - refilledAt) * Limit = Limit * (now - refilledAt)
    BY <1>1, <2>1
  <2> QED
    BY <2>2 DEF Uncapped, Rate
<1>3. /\ Rate(now - refilledAt) = Rate(now) - Rate(refilledAt)
      /\ Rate(now) \in Int /\ Rate(refilledAt) \in Int
  BY <1>1, RateAdds
<1>4. Uncapped \in Int /\ Uncapped = tokens + Rate(now) - Rate(refilledAt)
  BY <1>1, <1>2, <1>3
<1> HIDE DEF Uncapped
<1>5. Full \in Int
  BY FullBucket
<1> QED
  BY <1>3, <1>4, <1>5 DEF Refilled

(* Afterwards there is nothing to refill.                                  *)
LEMMA LevelAfterRefill ==
    ASSUME TypeOK, TypeOK', Refill, now' = now, tokens' <= Refilled
    PROVE  Refilled' = tokens'
<1>1. tokens' \in Int /\ Refilled \in Int /\ Refilled <= Full /\ Full \in Int /\ tokens' <= Full
  BY LevelIs, FullBucket DEF TypeOK
<1>2. Uncapped' = tokens'
  <2>1. now \in Int /\ refilledAt' = now /\ Limit \in Int
    BY ConstantsAssumption DEF TypeOK, Refill
  <2>2. Uncapped' = tokens' + (now - now) * Limit
    BY <2>1 DEF Uncapped
  <2>3. (now - now) * Limit = 0
    BY <2>1
  <2> QED
    BY <1>1, <2>2, <2>3
<1> QED
  BY <1>1, <1>2 DEF Refilled, Full

(* A tick refills no more than its rate, and exactly that up to full.      *)
LEMMA LevelAfterTick ==
    ASSUME TypeOK, TypeOK', Tick
    PROVE  /\ Refilled' \in Int /\ Refilled' <= Full /\ Refilled' <= Refilled + Limit
           /\ Refilled' = Full \/ Refilled' = Refilled + Limit
           /\ Rate(now') = Rate(now) + Limit
<1>1. /\ now \in Int /\ now' = now + 1 /\ refilledAt \in Int /\ refilledAt' = refilledAt
      /\ tokens \in Int /\ tokens' = tokens
  BY DEF Tick, TypeOK
<1>2. Rate(now') = Rate(now) + Limit /\ Limit \in Nat /\ Limit >= 1
  BY <1>1, RateAdds, ConstantsAssumption
<1>3. /\ Uncapped \in Int /\ Uncapped = tokens + Rate(now) - Rate(refilledAt)
      /\ Refilled = IF Uncapped > Full THEN Full ELSE Uncapped
      /\ Rate(now) \in Int /\ Rate(refilledAt) \in Int
  BY LevelIs DEF Refilled
<1>4. Uncapped' = Uncapped + Limit
  <2>1. Uncapped' = tokens + (now + 1 - refilledAt) * Limit
    BY <1>1, <1>2 DEF Uncapped
  <2>2. (now + 1 - refilledAt) * Limit = Rate(now + 1 - refilledAt)
    BY <1>1, <1>2 DEF Rate
  <2>3. Rate(now + 1 - refilledAt) = Rate(now) + Limit - Rate(refilledAt)
    BY <1>1, <1>2, RateAdds
  <2> HIDE DEF Uncapped
  <2> QED
    BY <1>1, <1>2, <1>3, <2>1, <2>2, <2>3
<1>5. Refilled' = IF Uncapped' > Full THEN Full ELSE Uncapped'
  BY DEF Refilled, Full
<1>6. Full \in Int
  BY FullBucket
<1> HIDE DEF Uncapped, Refilled
<1> QED
  BY <1>2, <1>3, <1>4, <1>5, <1>6

-----------------------------------------------------------------------------
(* Places, the line and the tokens.                                        *)

(* The sets are of calls, and there are as many as there are.              *)
LEMMA Numbers ==
    /\ \A p : At(p) \in SUBSET Calls
    /\ Holding \in SUBSET Calls /\ Held \in SUBSET Calls
    /\ \A s, t : DueFrom(s) \in SUBSET Holding /\ DueWithin(s, t) \in SUBSET Holding
    /\ Cardinality(Held) \in Nat
    /\ \A s, t : Cardinality(DueFrom(s)) \in Nat /\ Cardinality(DueWithin(s, t)) \in Nat
<1>1. \A p : At(p) \in SUBSET Calls
  BY DEF At
<1>2. Holding \in SUBSET Calls /\ Held \in SUBSET Calls
  BY <1>1 DEF Holding, Held
<1>3. \A s, t : DueFrom(s) \in SUBSET Holding /\ DueWithin(s, t) \in SUBSET Holding
  BY DEF DueFrom, DueWithin, Holding
<1>4. \A S \in SUBSET Calls : Cardinality(S) \in Nat
  BY ConstantsAssumption, PartsAreFinite
<1> QED
  BY <1>1, <1>2, <1>3, <1>4

(* Going to sleep is joining the line, and waking or aborting leaves it.   *)
LEMMA LineKept ==
    ASSUME TypeOK, LineOfSleepers, [Next]_vars
    PROVE  line' \in Seq(Calls) /\ LineOfSleepers'
<1>0. line \in Seq(Calls) /\ Distinct(line) /\ ToSet(line) = At("sleeping")
  BY DEF TypeOK, LineOfSleepers
<1>1. ASSUME line' = line, At("sleeping")' = At("sleeping")
      PROVE  line' \in Seq(Calls) /\ LineOfSleepers'
  BY <1>0, <1>1 DEF LineOfSleepers
<1>2. CASE UNCHANGED vars
  BY <1>1, <1>2 DEF vars, At
<1>3. ASSUME NEW c \in Calls, TakeToken(c) \/ RejectWait(c) \/ Refund(c)
      PROVE  line' = line /\ At("sleeping")' = At("sleeping")
  <2>1. PICK to \in {"served", "rejected", "gone"} :
           pc' = [pc EXCEPT ![c] = to] /\ pc[c] \in {"new", "refunding"} /\ line' = line
    BY <1>3 DEF TakeToken, RejectWait, Refund
  <2> QED
    BY <2>1 DEF At, TypeOK
<1>4. ASSUME NEW c \in Calls, Reserve(c), c \in aborted
      PROVE  line' = line /\ At("sleeping")' = At("sleeping")
  BY <1>4 DEF Reserve, At, TypeOK
<1>5. ASSUME NEW c \in Calls, Reserve(c), c \notin aborted
      PROVE  line' \in Seq(Calls) /\ LineOfSleepers'
  <2>1. pc[c] = "new" /\ pc' = [pc EXCEPT ![c] = "sleeping"] /\ line' = Append(line, c)
    BY <1>5 DEF Reserve
  <2>2. At("sleeping")' = At("sleeping") \cup {c} /\ c \notin At("sleeping")
    BY <2>1 DEF At, TypeOK
  <2>3. /\ line' \in Seq(Calls) /\ Distinct(line')
        /\ ToSet(line') = ToSet(line) \cup {c}
    BY <1>0, <2>1, <2>2, QueueWith
  <2> QED
    BY <1>0, <2>2, <2>3 DEF LineOfSleepers
<1>6. ASSUME NEW c \in Calls, WakeUp(c) \/ AbortSleep(c)
      PROVE  line' \in Seq(Calls) /\ LineOfSleepers'
  <2>1. PICK to \in {"served", "refunding"} :
           pc[c] = "sleeping" /\ pc' = [pc EXCEPT ![c] = to] /\ line' = RemoveFirst(line, c)
    BY <1>6 DEF WakeUp, AbortSleep
  <2>2. At("sleeping")' = At("sleeping") \ {c} /\ c \in At("sleeping")
    BY <2>1 DEF At, TypeOK
  <2>3. PICK k \in 1 .. Len(line) : line[k] = c
    BY <1>0, <2>2 DEF ToSet
  <2>4. /\ line' \in Seq(Calls) /\ Distinct(line')
        /\ ToSet(line') = ToSet(line) \ {c}
    BY <1>0, <2>1, <2>3, QueueWithout
  <2> QED
    BY <1>0, <2>2, <2>4 DEF LineOfSleepers
<1>7. ASSUME NEW c \in Calls, AbortEarly(c)
      PROVE  line' = line /\ At("sleeping")' = At("sleeping")
  BY <1>7 DEF AbortEarly, At
<1>8. ASSUME ReadAvailable \/ Tick
      PROVE  line' = line /\ At("sleeping")' = At("sleeping")
  BY <1>8 DEF ReadAvailable, Tick, At
<1> QED
  BY <1>1, <1>2, <1>3, <1>4, <1>5, <1>6, <1>7, <1>8 DEF Next

(* Every variable keeps its type.                                          *)
LEMMA TypesKept ==
    ASSUME TypeOK, LineOfSleepers, [Next]_vars
    PROVE  TypeOK'
<1>0. /\ line' \in Seq(Calls) /\ Interval \in Nat /\ Limit \in Nat
      /\ Refilled \in Int /\ Uncapped \in Int /\ Uncapped - Refilled \in Nat
      /\ \A t \in Int : t < Interval => WaitFor(t) \in Nat
  BY LineKept, LevelIs, WaitIsLeast, ConstantsAssumption
<1> HIDE DEF Refilled, Uncapped, WaitFor
<1>1. CASE UNCHANGED vars
  BY <1>0, <1>1 DEF vars, TypeOK
<1>2. ASSUME NEW c \in Calls, TakeToken(c)
      PROVE  TypeOK'
  BY <1>0, <1>2 DEF TakeToken, TypeOK, Refill, Places
<1>3. ASSUME NEW c \in Calls, RejectWait(c)
      PROVE  TypeOK'
  BY <1>0, <1>3 DEF RejectWait, TypeOK, Refill, Places
<1>4. ASSUME NEW c \in Calls, Reserve(c)
      PROVE  TypeOK'
  <2>1. Refilled < Interval /\ WaitFor(Refilled) \in Nat
    BY <1>0, <1>4 DEF Reserve
  <2>2. PICK to \in Places, d \in Nat :
           pc' = [pc EXCEPT ![c] = to] /\ (due' = due \/ due' = [due EXCEPT ![c] = d])
    <3>1. now + WaitFor(Refilled) \in Nat
      BY <2>1 DEF TypeOK
    <3>2. "refunding" \in Places /\ "sleeping" \in Places
      BY DEF Places
    <3> QED
      BY <1>4, <3>1, <3>2 DEF Reserve
  <2>3. pc' \in [Calls -> Places] /\ due' \in [Calls -> Nat]
    BY <2>2 DEF TypeOK
  <2> QED
    BY <1>0, <1>4, <2>3 DEF Reserve, TypeOK, Refill
<1>5. ASSUME NEW c \in Calls, WakeUp(c)
      PROVE  TypeOK'
  BY <1>0, <1>5 DEF WakeUp, TypeOK, Places
<1>8. ASSUME NEW c \in Calls, AbortSleep(c)
      PROVE  TypeOK'
  BY <1>0, <1>8 DEF AbortSleep, TypeOK, Places
<1>7. ASSUME NEW c \in Calls, AbortEarly(c)
      PROVE  TypeOK'
  BY <1>0, <1>7 DEF AbortEarly, TypeOK
<1>9. ASSUME NEW c \in Calls, Refund(c)
      PROVE  TypeOK'
  BY <1>0, <1>9 DEF Refund, TypeOK, Places
<1>6. CASE ReadAvailable \/ Tick
  BY <1>0, <1>6 DEF ReadAvailable, Tick, Refill, TypeOK
<1> QED
  BY <1>1, <1>2, <1>3, <1>4, <1>5, <1>6, <1>7, <1>8, <1>9 DEF Next

(* Tokens, where they are.                                                 *)
Conserved == tokens + Worth(Cardinality(Held)) + spilt = Full + Rate(refilledAt)

LEMMA ConservedIs == TokensConserved <=> Conserved
  BY DEF TokensConserved, Conserved, Worth, Rate, Held

(* What refill() adds to the level or discards is what the clock refills.  *)
LEMMA RefillAccounts ==
    ASSUME TypeOK, Conserved, Refill
    PROVE  Refilled + Worth(Cardinality(Held)) + spilt' = Full + Rate(now)
<1>1. /\ spilt' = spilt + (Uncapped - Refilled)
      /\ Uncapped = tokens + Rate(now) - Rate(refilledAt)
      /\ Refilled \in Int /\ Uncapped \in Int /\ Rate(now) \in Int /\ Rate(refilledAt) \in Int
      /\ tokens \in Int /\ spilt \in Int
  BY LevelIs DEF Refill, TypeOK
<1>2. Worth(Cardinality(Held)) \in Int /\ Full \in Int
  BY Numbers, WorthAdds, FullBucket
<1> HIDE DEF Refilled, Uncapped
<1> QED
  BY <1>1, <1>2 DEF Conserved

(* No step makes or loses a token.                                         *)
LEMMA ConservedKept ==
    ASSUME TypeOK, LineOfSleepers, Conserved, [Next]_vars
    PROVE  Conserved'
<1>0. /\ TypeOK' /\ Full' = Full /\ \A x : Worth(x)' = Worth(x) /\ Rate(x)' = Rate(x)
      /\ Full \in Int /\ Worth(Cardinality(Held)) \in Int /\ Refilled \in Int
      /\ Cardinality(Held) \in Nat /\ Interval \in Int /\ tokens \in Int /\ spilt \in Int
      /\ spilt' \in Int /\ Rate(now) \in Int /\ Rate(refilledAt) \in Int
  <2>1. TypeOK'
    BY TypesKept
  <2>2. tokens \in Int /\ spilt \in Int /\ spilt' \in Int
    BY <2>1 DEF TypeOK
  <2>3. Full' = Full /\ \A x : Worth(x)' = Worth(x) /\ Rate(x)' = Rate(x)
    BY DEF Full, Worth, Rate
  <2>4. Cardinality(Held) \in Nat /\ Worth(Cardinality(Held)) \in Int
    BY Numbers, WorthAdds
  <2>5. Refilled \in Int /\ Rate(now) \in Int /\ Rate(refilledAt) \in Int
    BY LevelIs
  <2> QED
    BY <2>1, <2>2, <2>3, <2>4, <2>5, FullBucket, ConstantsAssumption
<1>1. ASSUME Held' = Held, UNCHANGED <<tokens, refilledAt, spilt>>
      PROVE  Conserved'
  BY <1>0, <1>1 DEF Conserved
<1>2. ASSUME Held' = Held, Refill, tokens' = Refilled
      PROVE  Conserved'
  BY <1>0, <1>2, RefillAccounts DEF Conserved, Refill
<1>3. ASSUME NEW c \in Calls, c \notin Held, Held' = Held \cup {c}, Refill,
             tokens' = Refilled - Interval
      PROVE  Conserved'
  <2>1. Cardinality(Held') = Cardinality(Held) + 1
    BY <1>3, Numbers, OneMoreOf, ConstantsAssumption
  <2>2. Worth(Cardinality(Held')) = Worth(Cardinality(Held)) + Interval
    BY <1>0, <2>1, WorthAdds
  <2>3. refilledAt' = now
    BY <1>3 DEF Refill
  <2>4. Refilled + Worth(Cardinality(Held)) + spilt' = Full + Rate(now)
    BY <1>3, RefillAccounts
  <2> HIDE DEF Refilled
  <2> QED
    BY <1>0, <1>3, <2>2, <2>3, <2>4 DEF Conserved
<1>4. CASE UNCHANGED vars
  BY <1>1, <1>4 DEF vars, Held, At
<1>5. ASSUME NEW c \in Calls, TakeToken(c) \/ Reserve(c)
      PROVE  Conserved'
  <2>1. PICK to \in {"served", "sleeping", "refunding"} :
           /\ pc[c] = "new" /\ pc' = [pc EXCEPT ![c] = to]
           /\ Refill /\ tokens' = Refilled - Interval
    BY <1>5 DEF TakeToken, Reserve
  <2>2. Held' = Held \cup {c} /\ c \notin Held
    BY <2>1 DEF Held, At, TypeOK
  <2> QED
    BY <1>3, <2>1, <2>2
<1>6. ASSUME NEW c \in Calls, RejectWait(c)
      PROVE  Conserved'
  <2>1. /\ pc[c] = "new" /\ pc' = [pc EXCEPT ![c] = "rejected"]
        /\ Refill /\ tokens' = Refilled
    BY <1>6 DEF RejectWait
  <2>2. Held' = Held
    BY <2>1 DEF Held, At, TypeOK
  <2> QED
    BY <1>2, <2>1, <2>2
<1>7. ASSUME NEW c \in Calls, WakeUp(c) \/ AbortSleep(c)
      PROVE  Conserved'
  <2>1. PICK to \in {"served", "refunding"} :
           /\ pc[c] = "sleeping" /\ pc' = [pc EXCEPT ![c] = to]
           /\ UNCHANGED <<tokens, refilledAt, spilt>>
    BY <1>7 DEF WakeUp, AbortSleep
  <2>2. Held' = Held
    BY <2>1 DEF Held, At, TypeOK
  <2> QED
    BY <1>1, <2>1, <2>2
<1>8. ASSUME NEW c \in Calls, Refund(c)
      PROVE  Conserved'
  <2>1. /\ pc[c] = "refunding" /\ pc' = [pc EXCEPT ![c] = "gone"]
        /\ tokens' = tokens + Interval /\ UNCHANGED <<refilledAt, spilt>>
    BY <1>8 DEF Refund
  <2>2. Held' = Held \ {c} /\ c \in Held
    BY <2>1 DEF Held, At, TypeOK
  <2>3. Cardinality(Held') = Cardinality(Held) - 1
    BY <2>2, Numbers, OneLessOf, ConstantsAssumption
  <2>4. Worth(Cardinality(Held')) = Worth(Cardinality(Held)) - Interval
    BY <1>0, <2>3, WorthAdds
  <2> QED
    BY <1>0, <2>1, <2>4 DEF Conserved
<1>9. ASSUME ReadAvailable
      PROVE  Conserved'
  BY <1>2, <1>9 DEF ReadAvailable, Held, At
<1>10. ASSUME Tick \/ \E c \in Calls : AbortEarly(c)
       PROVE  Conserved'
  BY <1>1, <1>10 DEF Tick, AbortEarly, Held, At
<1> QED
  BY <1>4, <1>5, <1>6, <1>7, <1>8, <1>9, <1>10 DEF Next

-----------------------------------------------------------------------------
(* What a step can do to the calls that hold a token: give one to another  *)
(* call, leave them as they are, let a reservation go, or take time.       *)

Grants(c, d) ==
    /\ pc[c] = "new" /\ Refill /\ tokens' = Refilled - Interval /\ now' = now
    /\ due' = [due EXCEPT ![c] = d]
    /\ \/ /\ Refilled >= Interval /\ d = now
          /\ pc' = [pc EXCEPT ![c] = "served"] /\ line' = line
       \/ /\ Refilled < Interval /\ d = now + WaitFor(Refilled)
          /\ pc' = [pc EXCEPT ![c] = "sleeping"] /\ line' = Append(line, c)

Stays ==
    /\ now' = now /\ Refilled' = Refilled /\ Holding' = Holding /\ due' = due
    /\ line' = line \/ \E k \in 1 .. Len(line) : line' = RemoveFirst(line, line[k])
    /\ NobodyAborted' => NobodyAborted

GivesUp ==
    /\ ~NobodyAborted'
    /\ Holding' \subseteq Holding
    /\ \A c \in Holding' : due'[c] = due[c]

LEMMA StepKinds ==
    ASSUME TypeOK, LineOfSleepers, [Next]_vars
    PROVE  \/ \E c \in Calls : \E d \in Nat : Grants(c, d)
           \/ Stays
           \/ GivesUp
           \/ Tick
<1>0. TypeOK' /\ Refilled \in Int /\ now \in Nat /\ Interval \in Int
  BY SMTT(20), TypesKept, LevelIs, ConstantsAssumption DEF TypeOK
<1>1. CASE UNCHANGED vars
  BY <1>1 DEF vars, Stays, Refilled, Uncapped, Full, Holding, At, NobodyAborted
<1>2. ASSUME NEW c \in Calls, TakeToken(c)
      PROVE  Grants(c, now)
  BY <1>2 DEF TakeToken, Grants
<1>3. ASSUME NEW c \in Calls, RejectWait(c)
      PROVE  Stays
  <2>1. Refilled' = Refilled
    BY <1>0, <1>3, LevelAfterRefill DEF RejectWait
  <2>2. Holding' = Holding /\ (NobodyAborted' => NobodyAborted)
    BY <1>3 DEF RejectWait, Holding, At, NobodyAborted, TypeOK
  <2> QED
    BY <1>3, <2>1, <2>2 DEF RejectWait, Stays
<1>4. ASSUME NEW c \in Calls, Reserve(c), c \notin aborted
      PROVE  \E d \in Nat : Grants(c, d)
  <2>1. now + WaitFor(Refilled) \in Nat
    BY <1>0, <1>4, WaitIsLeast DEF Reserve
  <2>2. Grants(c, now + WaitFor(Refilled))
    BY <1>4 DEF Reserve, Grants
  <2> QED
    BY <2>1, <2>2
<1>5. ASSUME NEW c \in Calls, Reserve(c), c \in aborted
      PROVE  GivesUp
  <2>1. pc[c] = "new" /\ pc' = [pc EXCEPT ![c] = "refunding"] /\ due' = due
    BY <1>5 DEF Reserve
  <2> QED
    BY <2>1 DEF GivesUp, NobodyAborted, Holding, At, TypeOK
<1>6. ASSUME NEW c \in Calls, WakeUp(c)
      PROVE  Stays
  <2>1. /\ pc[c] = "sleeping" /\ pc' = [pc EXCEPT ![c] = "served"]
        /\ line' = RemoveFirst(line, c)
        /\ UNCHANGED <<tokens, refilledAt, now, due>>
    BY <1>6 DEF WakeUp
  <2>2. c \in ToSet(line)
    BY <2>1 DEF LineOfSleepers, At
  <2>3. PICK k \in 1 .. Len(line) : line[k] = c
    <3>1. \E i \in DOMAIN line : line[i] = c
      BY <2>2 DEF ToSet
    <3>2. DOMAIN line = 1 .. Len(line)
      BY DEF TypeOK
    <3> QED
      BY <3>1, <3>2
  <2>4. Refilled' = Refilled
    BY <2>1 DEF Refilled, Uncapped, Full
  <2>5. Holding' = Holding /\ (NobodyAborted' => NobodyAborted)
    BY <2>1 DEF Holding, At, NobodyAborted, TypeOK
  <2> QED
    BY <2>1, <2>3, <2>4, <2>5 DEF Stays
<1>7. ASSUME NEW c \in Calls, AbortEarly(c)
      PROVE  Stays
  BY <1>7 DEF AbortEarly, Stays, Refilled, Uncapped, Full, Holding, At, NobodyAborted
<1>8. ASSUME NEW c \in Calls, AbortSleep(c)
      PROVE  GivesUp
  <2>1. /\ pc[c] = "sleeping" /\ pc' = [pc EXCEPT ![c] = "refunding"]
        /\ due' = [due EXCEPT ![c] = 0]
    BY <1>8 DEF AbortSleep
  <2> QED
    BY <2>1 DEF GivesUp, NobodyAborted, Holding, At, TypeOK
<1>9. ASSUME NEW c \in Calls, Refund(c)
      PROVE  GivesUp
  <2>1. pc[c] = "refunding" /\ pc' = [pc EXCEPT ![c] = "gone"] /\ due' = due
    BY <1>9 DEF Refund
  <2> QED
    BY <2>1 DEF GivesUp, NobodyAborted, Holding, At, TypeOK
<1>10. ASSUME ReadAvailable
       PROVE  Stays
  <2>1. Refilled' = Refilled
    BY <1>0, <1>10, LevelAfterRefill DEF ReadAvailable
  <2> QED
    BY <1>10, <2>1 DEF ReadAvailable, Stays, Holding, At, NobodyAborted
<1> QED
  BY <1>0, <1>1, <1>2, <1>3, <1>4, <1>5, <1>6, <1>7, <1>8, <1>9, <1>10 DEF Next

(* Who is given a token is due when it is paid, and was not before.        *)
LEMMA GrantIs ==
    ASSUME TypeOK, TypeOK', NEW c \in Calls, NEW d \in Nat, Grants(c, d)
    PROVE  /\ c \notin Holding /\ Holding' = Holding \cup {c}
           /\ \A e \in Holding : due'[e] = due[e]
           /\ due'[c] = d /\ d >= now
           /\ Refilled' = Refilled - Interval
           /\ Interval - Refilled <= Rate(d) - Rate(now)
           /\ d = now \/ Rate(d) - Rate(now) <= Interval - Refilled + Limit - 1
<1>1. /\ Refilled \in Int /\ Refilled <= Full /\ now \in Nat /\ Rate(now) \in Int
      /\ Interval \in Nat /\ Limit \in Nat
  BY LevelIs, ConstantsAssumption DEF TypeOK
<1>2. c \notin Holding /\ Holding' = Holding \cup {c}
  <2>1. PICK to \in {"served", "sleeping"} : pc[c] = "new" /\ pc' = [pc EXCEPT ![c] = to]
    BY DEF Grants
  <2> QED
    BY <2>1 DEF Holding, At, TypeOK
<1>3. due' = [due EXCEPT ![c] = d]
  BY DEF Grants
<1>4. due'[c] = d /\ \A e \in Holding : due'[e] = due[e]
  BY <1>2, <1>3 DEF TypeOK, Holding, At
<1>5. Refilled' = Refilled - Interval
  <2>1. tokens' = Refilled - Interval /\ Refill /\ now' = now
    BY DEF Grants
  <2> HIDE DEF Refilled
  <2>2. tokens' <= Refilled
    BY <1>1, <2>1
  <2> QED
    BY <2>1, <2>2, LevelAfterRefill
<1>6. CASE Refilled >= Interval /\ d = now
  <2> HIDE DEF Refilled
  <2> QED
    BY <1>1, <1>2, <1>4, <1>5, <1>6
<1>7. CASE Refilled < Interval /\ d = now + WaitFor(Refilled)
  <2>1. /\ WaitFor(Refilled) \in Nat
        /\ Interval - Refilled <= Rate(WaitFor(Refilled))
        /\ Rate(WaitFor(Refilled)) <= Interval - Refilled + Limit - 1
    BY <1>1, <1>7, WaitIsLeast
  <2> HIDE DEF Refilled, WaitFor
  <2>2. Rate(d) = Rate(now) + Rate(WaitFor(Refilled)) /\ Rate(WaitFor(Refilled)) \in Int
    <3> DEFINE w == WaitFor(Refilled)
    <3>1. w \in Int /\ d = now + w
      BY <1>7, <2>1
    <3> HIDE DEF w
    <3>2. Rate(now + w) = Rate(now) + Rate(w) /\ Rate(w) \in Int
      BY <1>1, <3>1, RateAdds
    <3> QED
      BY <3>1, <3>2 DEF w
  <2> QED
    BY <1>1, <1>2, <1>4, <1>5, <1>7, <2>1, <2>2
<1> QED
  BY <1>6, <1>7 DEF Grants

-----------------------------------------------------------------------------
(* Who is due when.                                                        *)

(* Those due in a period are those due from its beginning on without those *)
(* due after its end.                                                      *)
LEMMA Periods ==
    ASSUME NEW H \in SUBSET Calls, NEW f, \A c \in H : f[c] \in Nat,
           NEW s \in Nat, NEW t \in Nat, s <= t
    PROVE  Cardinality({c \in H : f[c] \in s .. t})
               = Cardinality({c \in H : f[c] >= s}) - Cardinality({c \in H : f[c] >= t + 1})
<1> DEFINE before == {c \in H : f[c] >= s}
           after == {c \in H : f[c] >= t + 1}
           within == {c \in H : f[c] \in s .. t}
<1>1. after \subseteq before /\ within = before \ after /\ before \in SUBSET Calls
  OBVIOUS
<1> HIDE DEF before, after, within
<1>2. Cardinality(within) = Cardinality(before) - Cardinality(after)
  BY <1>1, RestOf, ConstantsAssumption
<1> QED
  BY <1>2 DEF before, after, within

(* Nothing changes as long as the calls that hold a token and their times  *)
(* stay.                                                                   *)
LEMMA SameDues ==
    ASSUME Holding' = Holding, \A c \in Holding : due'[c] = due[c]
    PROVE  \A s, t : DueFrom(s)' = DueFrom(s) /\ DueWithin(s, t)' = DueWithin(s, t)
  BY DEF DueFrom, DueWithin, Holding

(* One call more is due where its time is counted.                         *)
LEMMA GrantedDues ==
    ASSUME TypeOK, TypeOK', NEW c \in Calls, NEW d \in Nat, Grants(c, d)
    PROVE  /\ \A s \in Nat :
                 IF s <= d
                 THEN /\ DueFrom(s)' # {}
                      /\ Cardinality(DueFrom(s)') = Cardinality(DueFrom(s)) + 1
                      /\ Worth(Cardinality(DueFrom(s)')) = Worth(Cardinality(DueFrom(s))) + Interval
                 ELSE DueFrom(s)' = DueFrom(s)
           /\ \A s, t \in Nat : ~(s <= d /\ d <= t) => DueWithin(s, t)' = DueWithin(s, t)
<1>1. /\ c \notin Holding /\ Holding' = Holding \cup {c}
      /\ \A e \in Holding : due'[e] = due[e] /\ due[e] \in Nat
      /\ due'[c] = d
  BY GrantIs, Numbers DEF TypeOK
<1>2. ASSUME NEW s \in Nat, s <= d
      PROVE  /\ DueFrom(s)' # {}
             /\ Cardinality(DueFrom(s)') = Cardinality(DueFrom(s)) + 1
             /\ Worth(Cardinality(DueFrom(s)')) = Worth(Cardinality(DueFrom(s))) + Interval
  <2>1. DueFrom(s)' = DueFrom(s) \cup {c} /\ c \notin DueFrom(s)
    BY <1>1, <1>2 DEF DueFrom
  <2>2. Cardinality(DueFrom(s)') = Cardinality(DueFrom(s)) + 1
    BY <2>1, Numbers, OneMoreOf, ConstantsAssumption
  <2>3. Cardinality(DueFrom(s)) \in Nat
    BY Numbers
  <2> QED
    BY <2>1, <2>2, <2>3, WorthAdds
<1>3. ASSUME NEW s \in Nat, ~(s <= d)
      PROVE  DueFrom(s)' = DueFrom(s)
  BY <1>1, <1>3 DEF DueFrom
<1>4. ASSUME NEW s \in Nat, NEW t \in Nat, ~(s <= d /\ d <= t)
      PROVE  DueWithin(s, t)' = DueWithin(s, t)
  <2>1. \A x : x \in DueWithin(s, t) <=> x \in Holding /\ due[x] \in s .. t
    BY DEF DueWithin, Holding
  <2>2. \A x : x \in DueWithin(s, t)' <=> x \in Holding' /\ due'[x] \in s .. t
    BY DEF DueWithin, Holding
  <2> QED
    BY <1>1, <1>4, <2>1, <2>2
<1> QED
  BY <1>2, <1>3, <1>4

(* The quota up to every moment.                                           *)
LEMMA PaidKept ==
    ASSUME TypeOK, LineOfSleepers, Conserved, Paid, [Next]_vars
    PROVE  Paid'
<1>0. TypeOK' /\ Conserved' /\ \A x : Worth(x)' = Worth(x) /\ Rate(x)' = Rate(x)
  BY TypesKept, ConservedKept DEF Worth, Rate
<1>1. ASSUME NEW c \in Calls, NEW d \in Nat, Grants(c, d)
      PROVE  Paid'
  <2> SUFFICES ASSUME NEW t \in Nat
               PROVE  Worth(Cardinality(DueWithin(0, t)')) <= Rate(Interval + t)
    BY <1>0 DEF Paid, Moments
  <2>1. CASE ~(d <= t)
    <3>1. DueWithin(0, t)' = DueWithin(0, t)
      BY <1>0, <1>1, <2>1, GrantedDues
    <3> QED
      BY <3>1 DEF Paid, Moments
  <2>2. CASE d <= t
    <3>1. DueWithin(0, t)' \subseteq Held' /\ Held' \in SUBSET Calls /\ DueWithin(0, t)' \in SUBSET Calls
      BY DEF DueWithin, Held, At
    <3>2. /\ Cardinality(DueWithin(0, t)') <= Cardinality(Held')
          /\ Cardinality(DueWithin(0, t)') \in Nat /\ Cardinality(Held') \in Nat
      BY <3>1, ConstantsAssumption, PartsAreFinite, FS_Subset
    <3>3. /\ Worth(Cardinality(DueWithin(0, t)')) <= Worth(Cardinality(Held'))
          /\ Worth(Cardinality(DueWithin(0, t)')) \in Int /\ Worth(Cardinality(Held')) \in Int
      BY <3>2, WorthGrows
    <3>4. tokens' + Worth(Cardinality(Held')) + spilt' = Full + Rate(now)
      <4>1. refilledAt' = now /\ Full' = Full
        BY <1>1 DEF Grants, Refill, Full
      <4> QED
        BY <1>0, <4>1 DEF Conserved
    <3>5. /\ tokens' = Refilled - Interval /\ Interval - Refilled <= Rate(d) - Rate(now)
          /\ spilt' \in Nat /\ Refilled \in Int /\ Interval \in Int
      <4>1. tokens' = Refilled - Interval /\ Interval - Refilled <= Rate(d) - Rate(now)
        BY <1>0, <1>1, GrantIs DEF Grants
      <4>2. spilt' \in Nat
        BY <1>0 DEF TypeOK
      <4> QED
        BY <4>1, <4>2, LevelIs, ConstantsAssumption
    <3>6. /\ Rate(d) \in Int /\ Rate(now) \in Int /\ Rate(t) \in Int /\ Rate(d) <= Rate(t)
          /\ Full \in Int /\ Rate(Interval + t) = Full + Rate(t)
      <4>1. now \in Int /\ d \in Int /\ t \in Int
        BY DEF TypeOK
      <4>2. Rate(Interval + t) = Rate(Interval) + Rate(t)
        BY <3>5, <4>1, RateAdds
      <4> QED
        BY <2>2, <4>1, <4>2, RateGrows, FullBucket
    <3> HIDE DEF Refilled
    <3> QED
      BY <3>3, <3>4, <3>5, <3>6
  <2> QED
    BY <2>1, <2>2
<1>2. ASSUME Holding' = Holding, \A c \in Holding : due'[c] = due[c]
      PROVE  Paid'
  BY <1>0, <1>2, SameDues DEF Paid, Moments
<1>3. CASE Stays
  BY <1>2, <1>3 DEF Stays
<1>4. CASE Tick
  BY <1>2, <1>4 DEF Tick, Holding, At
<1>5. CASE GivesUp
  <2> SUFFICES ASSUME NEW t \in Nat
               PROVE  Worth(Cardinality(DueWithin(0, t)')) <= Rate(Interval + t)
    BY <1>0 DEF Paid, Moments
  <2>1. DueWithin(0, t)' \subseteq DueWithin(0, t) /\ DueWithin(0, t) \in SUBSET Calls
    BY <1>5 DEF GivesUp, DueWithin, Holding, At
  <2>2. /\ Cardinality(DueWithin(0, t)') <= Cardinality(DueWithin(0, t))
        /\ Cardinality(DueWithin(0, t)') \in Nat /\ Cardinality(DueWithin(0, t)) \in Nat
    BY <2>1, ConstantsAssumption, PartsAreFinite, FS_Subset
  <2>3. /\ Worth(Cardinality(DueWithin(0, t)')) <= Worth(Cardinality(DueWithin(0, t)))
        /\ Worth(Cardinality(DueWithin(0, t)')) \in Int /\ Worth(Cardinality(DueWithin(0, t))) \in Int
        /\ Rate(Interval + t) \in Int
    BY <2>2, WorthGrows, RateGrows, ConstantsAssumption
  <2>4. Worth(Cardinality(DueWithin(0, t))) <= Rate(Interval + t)
    BY DEF Paid, Moments
  <2> QED
    BY <2>3, <2>4
<1> QED
  BY <1>1, <1>3, <1>4, <1>5, StepKinds

-----------------------------------------------------------------------------
(* Until a reservation is given back.                                      *)

(* The numbers that the conditions compare.                                *)
LEMMA Levels ==
    ASSUME TypeOK
    PROVE  /\ Refilled \in Int /\ Refilled <= Full /\ Full \in Int
           /\ now \in Nat /\ Rate(now) \in Int
           /\ Interval \in Nat /\ Limit \in Nat /\ Limit >= 1 /\ Interval + Limit - 1 <= Full
           /\ \A s : Worth(Cardinality(DueFrom(s))) \in Nat
<1>1. \A s : Worth(Cardinality(DueFrom(s))) \in Nat
  <2> SUFFICES ASSUME NEW s PROVE Worth(Cardinality(DueFrom(s))) \in Nat
    OBVIOUS
  <2>1. Cardinality(DueFrom(s)) \in Nat
    BY Numbers
  <2> QED
    BY <2>1, WorthAdds, WorthGrows
<1> QED
  BY <1>1, LevelIs, FullBucket, ConstantsAssumption DEF TypeOK

(* Taking or reserving a token: not early.                                 *)
LEMMA GrantNotEarly ==
    ASSUME TypeOK, TypeOK', NotEarly, NEW c \in Calls, NEW d \in Nat, Grants(c, d)
    PROVE  NotEarly'
<1> SUFFICES ASSUME NEW s \in Nat, DueFrom(s)' # {}
             PROVE  Worth(Cardinality(DueFrom(s)')) + Refilled' + Rate(s) <= Full + Rate(now)
  BY DEF NotEarly, Moments, Worth, Rate, Full, Grants
<1>1. /\ Refilled' = Refilled - Interval
      /\ d = now \/ Rate(d) - Rate(now) <= Interval - Refilled + Limit - 1
  BY GrantIs
<1>2. /\ Rate(s) \in Int /\ Rate(d) \in Int /\ (s <= d => Rate(s) <= Rate(d))
  BY RateGrows
<1>3. CASE ~(s <= d)
  <2>1. DueFrom(s)' = DueFrom(s)
    BY <1>3, GrantedDues
  <2>2. Worth(Cardinality(DueFrom(s))) + Refilled + Rate(s) <= Full + Rate(now)
    BY <2>1 DEF NotEarly, Moments
  <2> HIDE DEF Refilled, Full
  <2> QED
    BY <1>1, <1>2, <2>1, <2>2, Levels
<1>4. CASE s <= d /\ DueFrom(s) # {}
  <2>1. Worth(Cardinality(DueFrom(s)')) = Worth(Cardinality(DueFrom(s))) + Interval
    BY <1>4, GrantedDues
  <2>2. Worth(Cardinality(DueFrom(s))) + Refilled + Rate(s) <= Full + Rate(now)
    BY <1>4 DEF NotEarly, Moments
  <2> HIDE DEF Refilled, Full
  <2> QED
    BY <1>1, <1>2, <2>1, <2>2, Levels
<1>5. CASE s <= d /\ DueFrom(s) = {}
  <2>1. Worth(Cardinality(DueFrom(s)')) = Worth(Cardinality(DueFrom(s))) + Interval
    BY <1>5, GrantedDues
  <2>2. Worth(Cardinality(DueFrom(s))) = 0
    BY <1>5, FS_EmptySet, WorthAdds
  <2> HIDE DEF Refilled, Full
  <2> QED
    BY <1>1, <1>2, <1>5, <2>1, <2>2, Levels
<1> QED
  BY <1>3, <1>4, <1>5

(* Nor in debt.                                                            *)
LEMMA GrantNoDebt ==
    ASSUME TypeOK, TypeOK', NoDebt, NEW c \in Calls, NEW d \in Nat, Grants(c, d)
    PROVE  NoDebt'
<1> SUFFICES ASSUME NEW t \in Nat, t >= now
             PROVE  Refilled' + Rate(t) - Rate(now) + Worth(Cardinality(DueFrom(t + 1)')) >= 0
  BY DEF NoDebt, Moments, Worth, Rate, Grants
<1>1. Refilled' = Refilled - Interval /\ Interval - Refilled <= Rate(d) - Rate(now)
  BY GrantIs
<1>2. /\ Rate(t) \in Int /\ Rate(d) \in Int /\ (d <= t => Rate(d) <= Rate(t))
      /\ t + 1 \in Nat
  BY RateGrows
<1>3. CASE t + 1 <= d
  <2>1. Worth(Cardinality(DueFrom(t + 1)')) = Worth(Cardinality(DueFrom(t + 1))) + Interval
    BY <1>2, <1>3, GrantedDues
  <2>2. Refilled + Rate(t) - Rate(now) + Worth(Cardinality(DueFrom(t + 1))) >= 0
    BY DEF NoDebt, Moments
  <2> HIDE DEF Refilled
  <2> QED
    BY <1>1, <1>2, <2>1, <2>2, Levels
<1>4. CASE ~(t + 1 <= d)
  <2>1. DueFrom(t + 1)' = DueFrom(t + 1)
    BY <1>2, <1>4, GrantedDues
  <2>2. d <= t
    BY <1>4
  <2> HIDE DEF Refilled
  <2> QED
    BY <1>1, <1>2, <2>1, <2>2, Levels
<1> QED
  BY <1>3, <1>4

(* So in no period are more calls due than it pays for.                    *)
LEMMA GrantNoBurst ==
    ASSUME TypeOK, TypeOK', NoBurst, NotEarly', NoDebt', NEW c \in Calls, NEW d \in Nat, Grants(c, d)
    PROVE  NoBurst'
<1> SUFFICES ASSUME NEW from \in Nat, NEW to \in Nat, from <= to
             PROVE  Worth(Cardinality(DueWithin(from, to)')) <= Rate(Interval + to - from)
  BY DEF NoBurst, Moments, Worth, Rate
<1>1. CASE ~(from <= d /\ d <= to)
  <2>1. DueWithin(from, to)' = DueWithin(from, to)
    BY <1>1, GrantedDues
  <2> QED
    BY <2>1 DEF NoBurst, Moments
<1>2. CASE from <= d /\ d <= to
  <2>1. DueFrom(from)' # {} /\ d >= now /\ to + 1 \in Nat /\ now' = now
    <3>1. now' = now
      BY DEF Grants
    <3> QED
      BY <1>2, <3>1, GrantedDues, GrantIs
  <2>2. Worth(Cardinality(DueFrom(from)')) + Refilled' + Rate(from) <= Full + Rate(now)
    BY <2>1 DEF NotEarly, Moments, Worth, Rate, Full
  <2>3. Refilled' + Rate(to) - Rate(now) + Worth(Cardinality(DueFrom(to + 1)')) >= 0
    <3>1. to >= now
      BY <1>2, <2>1 DEF TypeOK
    <3> QED
      BY <2>1, <3>1 DEF NoDebt, Moments, Worth, Rate
  <2>4. Cardinality(DueWithin(from, to)') = Cardinality(DueFrom(from)') - Cardinality(DueFrom(to + 1)')
    <3>1. Holding' \in SUBSET Calls /\ \A e \in Holding' : due'[e] \in Nat
      BY DEF Holding, At, TypeOK
    <3>2. /\ DueWithin(from, to)' = {e \in Holding' : due'[e] \in from .. to}
          /\ DueFrom(from)' = {e \in Holding' : due'[e] >= from}
          /\ DueFrom(to + 1)' = {e \in Holding' : due'[e] >= to + 1}
      BY DEF DueWithin, DueFrom, Holding
    <3>3. Cardinality({e \in Holding' : due'[e] \in from .. to})
              = Cardinality({e \in Holding' : due'[e] >= from})
                - Cardinality({e \in Holding' : due'[e] >= to + 1})
      BY SMTT(20), <3>1, Periods
    <3> QED
      BY <3>2, <3>3
  <2>5. Cardinality(DueFrom(from)') \in Nat /\ Cardinality(DueFrom(to + 1)') \in Nat
    <3>1. DueFrom(from)' \in SUBSET Calls /\ DueFrom(to + 1)' \in SUBSET Calls
      BY DEF DueFrom, Holding, At
    <3> QED
      BY <3>1, PartsAreFinite, ConstantsAssumption
  <2> DEFINE m == Cardinality(DueFrom(from)')
             n == Cardinality(DueFrom(to + 1)')
  <2> HIDE DEF m, n
  <2>6. m \in Int /\ n \in Int /\ Cardinality(DueWithin(from, to)') = m - n
    BY <2>4, <2>5 DEF m, n
  <2>7. Worth(Cardinality(DueWithin(from, to)')) = Worth(m) - Worth(n)
    BY <2>6, WorthAdds
  <2>8. Rate(Interval + to - from) = Full + Rate(to) - Rate(from)
    BY RateOfPeriod, FullBucket, ConstantsAssumption
  <2>9. /\ Worth(m) \in Int /\ Worth(n) \in Int /\ Rate(from) \in Int /\ Rate(to) \in Int
        /\ Refilled' \in Int /\ Full \in Int /\ Rate(now) \in Int
    <3>1. Refilled' \in Int
      <4>1. Refilled' = Refilled - Interval
        BY GrantIs
      <4> QED
        BY <4>1, Levels
    <3>2. Full \in Int /\ now \in Int
      BY Levels
    <3> QED
      BY SMTT(20), <2>6, <3>1, <3>2, WorthGrows, RateGrows
  <2>10. /\ Worth(m) + Refilled' + Rate(from) <= Full + Rate(now)
         /\ Refilled' + Rate(to) - Rate(now) + Worth(n) >= 0
    BY <2>2, <2>3 DEF m, n
  <2> QED
    BY <2>7, <2>8, <2>9, <2>10
<1> QED
  BY <1>1, <1>2

(* Time passes.                                                            *)
LEMMA TickSmooth ==
    ASSUME TypeOK, TypeOK', LineOfSleepers, Smooth, Tick
    PROVE  Smooth'
<1>1. /\ \A s, t : DueFrom(s)' = DueFrom(s) /\ DueWithin(s, t)' = DueWithin(s, t)
      /\ now' = now + 1 /\ due' = due /\ line' = line /\ Full' = Full
      /\ \A x : Worth(x)' = Worth(x) /\ Rate(x)' = Rate(x)
  BY DEF Tick, DueFrom, DueWithin, Holding, At, Worth, Rate, Full
<1>2. /\ Refilled' \in Int /\ Refilled' <= Full /\ Refilled' <= Refilled + Limit
      /\ Refilled' = Full \/ Refilled' = Refilled + Limit
      /\ Rate(now') = Rate(now) + Limit
  BY LevelAfterTick
<1>3. NotEarly'
  <2> SUFFICES ASSUME NEW s \in Nat, DueFrom(s) # {}
               PROVE  Worth(Cardinality(DueFrom(s))) + Refilled' + Rate(s) <= Full + Rate(now')
    BY <1>1 DEF NotEarly, Moments
  <2>1. Worth(Cardinality(DueFrom(s))) + Refilled + Rate(s) <= Full + Rate(now)
    BY DEF Smooth, NotEarly, Moments
  <2> HIDE DEF Refilled, Full
  <2> QED
    BY <1>2, <2>1, Levels, RateGrows
<1>4. NoDebt'
  <2> SUFFICES ASSUME NEW t \in Nat, t >= now'
               PROVE  Refilled' + Rate(t) - Rate(now') + Worth(Cardinality(DueFrom(t + 1))) >= 0
    BY <1>1 DEF NoDebt, Moments
  <2>1. t >= now /\ now' \in Nat
    BY <1>1, Levels
  <2>2. Refilled + Rate(t) - Rate(now) + Worth(Cardinality(DueFrom(t + 1))) >= 0
    BY <2>1 DEF Smooth, NoDebt, Moments
  <2>3. Rate(t) \in Int /\ Rate(now') \in Int /\ Rate(now') <= Rate(t) /\ Full \in Nat
    BY <2>1, RateGrows, FullBucket
  <2> HIDE DEF Refilled, Full
  <2> QED
    BY <1>2, <2>2, <2>3, Levels
<1>5. NoBurst' /\ Apart'
  BY <1>1 DEF Smooth, NoBurst, Moments, Apart
<1>6. NextApart'
  <2> SUFFICES ASSUME NEW i \in DOMAIN line
               PROVE  Refilled' + Rate(due[line[i]]) + Worth(Len(line) - i) <= Rate(now') + Limit - 1
    BY <1>1 DEF NextApart
  <2>1. Refilled + Rate(due[line[i]]) + Worth(Len(line) - i) <= Rate(now) + Limit - 1
    BY DEF Smooth, NextApart
  <2>2. due[line[i]] \in Int /\ Len(line) - i \in Int
    BY DEF TypeOK
  <2>3. Rate(due[line[i]]) \in Int /\ Worth(Len(line) - i) \in Int
    BY <2>2, RateGrows, WorthGrows
  <2>4. Refilled \in Int /\ Rate(now) \in Int /\ Limit \in Int
    BY Levels
  <2> HIDE DEF Refilled
  <2> QED
    BY SMTT(20), <1>2, <2>1, <2>3, <2>4
<1> QED
  BY <1>3, <1>4, <1>5, <1>6 DEF Smooth

(* The quotient of a smaller number is not larger.                         *)
LEMMA Quotients ==
    ASSUME NEW x \in Nat, NEW y \in Nat, x <= y
    PROVE  (x * Interval) \div Limit <= (y * Interval) \div Limit
<1> DEFINE m == x * Interval
           n == y * Interval
           q == n \div Limit
<1>1. m \in Nat /\ n \in Nat /\ m <= n
  BY WorthGrows, ConstantsAssumption DEF Worth
<1>2. Limit \in Nat /\ Limit >= 1
  BY ConstantsAssumption
<1> HIDE DEF m, n
<1>3. q \in Nat /\ n < Limit * (q + 1)
  <2>1. q \in Nat /\ n < Limit * q + Limit
    BY <1>1, <1>2
  <2> HIDE DEF q
  <2>2. Limit * (q + 1) = Limit * q + Limit
    BY <1>2, <2>1
  <2> QED
    BY <2>1, <2>2
<1> HIDE DEF q
<1>4. m < Rate(q + 1)
  <2>1. Limit * (q + 1) \in Int
    BY <1>2, <1>3
  <2> QED
    BY <1>1, <1>3, <2>1 DEF Rate
<1>5. q >= m \div Limit
  BY <1>1, <1>3, <1>4, Floor
<1> QED
  BY <1>5 DEF m, n, q

(* Waking up: who is behind moves up.                                      *)
LEMMA StaysSmooth ==
    ASSUME TypeOK, TypeOK', LineOfSleepers, Smooth, Stays
    PROVE  Smooth'
<1>1. /\ \A s, t : DueFrom(s)' = DueFrom(s) /\ DueWithin(s, t)' = DueWithin(s, t)
      /\ now' = now /\ due' = due /\ Full' = Full /\ Refilled' = Refilled
      /\ \A x : Worth(x)' = Worth(x) /\ Rate(x)' = Rate(x)
  BY DEF Stays, DueFrom, DueWithin, Holding, Worth, Rate, Full
<1>2. NotEarly' /\ NoDebt' /\ NoBurst'
  BY <1>1 DEF Smooth, NotEarly, NoDebt, NoBurst, Moments
<1>3. CASE line' = line
  BY <1>1, <1>2, <1>3 DEF Smooth, NextApart, Apart
<1>4. ASSUME NEW k \in 1 .. Len(line), line' = RemoveFirst(line, line[k])
      PROVE  NextApart' /\ Apart'
  <2> DEFINE Was(i) == IF i < k THEN i ELSE i + 1
  <2>1. /\ line' \in Seq(Calls) /\ Len(line') = Len(line) - 1
        /\ \A i \in 1 .. Len(line) - 1 : line'[i] = IF i < k THEN line[i] ELSE line[i + 1]
    BY <1>4, RemovePresent DEF LineOfSleepers, TypeOK
  <2>2. /\ DOMAIN line' = 1 .. Len(line) - 1 /\ DOMAIN line = 1 .. Len(line)
        /\ Len(line) \in Nat /\ k \in Int
        /\ \A j \in DOMAIN line : due[line[j]] \in Nat
    <3>1. line \in Seq(Calls) /\ due \in [Calls -> Nat]
      BY DEF TypeOK
    <3> QED
      BY <2>1, <3>1
  <2>3. ASSUME NEW i \in DOMAIN line'
        PROVE  /\ Was(i) \in DOMAIN line /\ line'[i] = line[Was(i)]
               /\ i <= Was(i) /\ Was(i) <= i + 1 /\ i \in Int /\ Was(i) \in Int
    BY <2>1, <2>2
  <2>4. \A i, j \in DOMAIN line' : i < j => Was(i) < Was(j) /\ j - i <= Was(j) - Was(i)
    BY <2>2
  <2> HIDE DEF Was
  <2>5. ASSUME NEW i \in DOMAIN line'
        PROVE  Refilled + Rate(due[line'[i]]) + Worth(Len(line') - i) <= Rate(now) + Limit - 1
    <3>1. Refilled + Rate(due[line[Was(i)]]) + Worth(Len(line) - Was(i)) <= Rate(now) + Limit - 1
      BY <2>3 DEF Smooth, NextApart
    <3>2. Len(line') - i <= Len(line) - Was(i) /\ Len(line') - i \in Int /\ Len(line) - Was(i) \in Int
      BY <2>1, <2>2, <2>3
    <3>3. /\ Worth(Len(line') - i) <= Worth(Len(line) - Was(i))
          /\ Worth(Len(line') - i) \in Int /\ Worth(Len(line) - Was(i)) \in Int
      BY <3>2, WorthGrows
    <3>4. Rate(due[line[Was(i)]]) \in Int /\ line'[i] = line[Was(i)]
      <4>1. Was(i) \in DOMAIN line /\ line'[i] = line[Was(i)]
        BY <2>3
      <4>2. due[line[Was(i)]] \in Int
        BY <2>2, <4>1
      <4> QED
        BY <4>1, <4>2, RateGrows
    <3>5. Refilled \in Int /\ Rate(now) \in Int /\ Limit \in Int
      BY Levels
    <3> HIDE DEF Refilled
    <3> QED
      BY <3>1, <3>3, <3>4, <3>5
  <2>6. ASSUME NEW i \in DOMAIN line', NEW j \in DOMAIN line', i < j
        PROVE  due[line'[j]] - due[line'[i]] >= ((j - i) * Interval) \div Limit
    <3>1. /\ Was(i) \in DOMAIN line /\ Was(j) \in DOMAIN line
          /\ line'[i] = line[Was(i)] /\ line'[j] = line[Was(j)]
          /\ Was(i) < Was(j) /\ j - i <= Was(j) - Was(i)
          /\ j - i \in Nat /\ Was(j) - Was(i) \in Nat
      BY <2>2, <2>3, <2>4, <2>6
    <3>2. due[line[Was(j)]] - due[line[Was(i)]] >= ((Was(j) - Was(i)) * Interval) \div Limit
      BY <3>1 DEF Smooth, Apart
    <3> DEFINE p == j - i
               q == Was(j) - Was(i)
               a == (p * Interval) \div Limit
               b == (q * Interval) \div Limit
    <3>3. a <= b
      BY <3>1, Quotients
    <3>4. a \in Int /\ b \in Int
      <4>1. p * Interval \in Int /\ q * Interval \in Int /\ Limit \in Nat /\ Limit >= 1
        BY <3>1, ConstantsAssumption
      <4> QED
        BY <4>1
    <3> HIDE DEF a, b
    <3>5. due[line[Was(j)]] - due[line[Was(i)]] >= a
      <4>1. due[line[Was(j)]] - due[line[Was(i)]] \in Int
        BY SMTT(20), <2>2, <3>1
      <4> QED
        BY <3>2, <3>3, <3>4, <4>1 DEF b
    <3> QED
      BY <3>1, <3>5 DEF a
  <2> QED
    BY <1>1, <2>5, <2>6 DEF NextApart, Apart
<1> QED
  BY <1>2, <1>3, <1>4 DEF Smooth, Stays

(* Taking or reserving a token: whoever sleeps from now on is due later    *)
(* than everybody in the line, by the tokens between them.                 *)
LEMMA GrantApart ==
    ASSUME TypeOK, TypeOK', LineOfSleepers, NextApart, Apart,
           NEW c \in Calls, NEW d \in Nat, Grants(c, d)
    PROVE  NextApart' /\ Apart'
<1>1. /\ Refilled' = Refilled - Interval /\ Interval - Refilled <= Rate(d) - Rate(now)
      /\ d = now \/ Rate(d) - Rate(now) <= Interval - Refilled + Limit - 1
      /\ due'[c] = d /\ now' = now
      /\ \A e \in Holding : due'[e] = due[e]
  <2>1. now' = now
    BY DEF Grants
  <2> QED
    BY <2>1, GrantIs
<1>2. /\ Refilled \in Int /\ Rate(now) \in Int /\ Limit \in Nat /\ Limit >= 1
      /\ Interval \in Nat /\ Rate(d) \in Int
  BY Levels, RateGrows
<1>3. /\ DOMAIN line = 1 .. Len(line) /\ Len(line) \in Nat
      /\ \A i \in DOMAIN line : due[line[i]] \in Nat /\ due'[line[i]] = due[line[i]]
  <2>1. \A i \in DOMAIN line : line[i] \in Holding /\ line[i] \in Calls
    BY DEF TypeOK, LineOfSleepers, ToSet, Holding
  <2> QED
    BY <1>1, <2>1 DEF TypeOK
<1>4. \A x : Worth(x)' = Worth(x) /\ Rate(x)' = Rate(x)
  BY DEF Worth, Rate
<1>5. ASSUME NEW i \in DOMAIN line
      PROVE  /\ Refilled + Rate(due[line[i]]) + Worth(Len(line) - i) <= Rate(now) + Limit - 1
             /\ Rate(due[line[i]]) \in Int /\ Worth(Len(line) - i) \in Int
             /\ Worth(Len(line) + 1 - i) = Worth(Len(line) - i) + Interval
  <2> DEFINE m == Len(line) - i
  <2>1. m \in Int /\ Len(line) + 1 - i = m + 1 /\ due[line[i]] \in Int
    BY <1>3
  <2>2. Refilled + Rate(due[line[i]]) + Worth(m) <= Rate(now) + Limit - 1
    BY DEF NextApart
  <2> HIDE DEF m
  <2>3. Worth(m + 1) = Worth(m) + Interval /\ Worth(m) \in Int
    BY <2>1, WorthAdds
  <2> QED
    BY <2>1, <2>2, <2>3, RateGrows DEF m
<1>6. CASE line' = line
  <2>1. ASSUME NEW i \in DOMAIN line
        PROVE  Refilled' + Rate(due'[line[i]]) + Worth(Len(line) - i) <= Rate(now) + Limit - 1
    <3>1. /\ Refilled + Rate(due[line[i]]) + Worth(Len(line) - i) <= Rate(now) + Limit - 1
          /\ Rate(due[line[i]]) \in Int /\ Worth(Len(line) - i) \in Int
          /\ due'[line[i]] = due[line[i]]
      BY <1>3, <1>5
    <3> HIDE DEF Refilled
    <3> QED
      BY SMTT(20), <1>1, <1>2, <3>1
  <2> QED
    BY <1>1, <1>3, <1>4, <1>6, <2>1 DEF NextApart, Apart
<1>7. CASE Refilled < Interval /\ line' = Append(line, c)
  <2>1. /\ DOMAIN line' = 1 .. Len(line) + 1 /\ Len(line') = Len(line) + 1
        /\ \A i \in DOMAIN line : line'[i] = line[i]
        /\ line'[Len(line) + 1] = c
    BY <1>3, <1>7, AppendProperties DEF TypeOK
  <2>2. /\ Rate(d) - Rate(now) <= Interval - Refilled + Limit - 1
    BY <1>1, <1>2, <1>7
  <2>3. ASSUME NEW i \in DOMAIN line'
        PROVE  Refilled' + Rate(due'[line'[i]]) + Worth(Len(line') - i) <= Rate(now) + Limit - 1
    <3>1. CASE i \in DOMAIN line
      <4>1. /\ Refilled + Rate(due[line[i]]) + Worth(Len(line) - i) <= Rate(now) + Limit - 1
            /\ Rate(due[line[i]]) \in Int /\ Worth(Len(line) - i) \in Int
            /\ Worth(Len(line) + 1 - i) = Worth(Len(line) - i) + Interval
            /\ due'[line'[i]] = due[line[i]]
        BY <1>3, <1>5, <2>1, <3>1
      <4>2. Worth(Len(line') - i) = Worth(Len(line) - i) + Interval
        BY <2>1, <4>1
      <4> HIDE DEF Refilled
      <4> QED
        BY SMTT(20), <1>1, <1>2, <4>1, <4>2
    <3>2. CASE i = Len(line) + 1
      <4>1. Worth(Len(line') - i) = 0
        BY <1>3, <2>1, <3>2, WorthAdds
      <4>2. due'[line'[i]] = d
        BY <1>1, <2>1, <3>2
      <4> HIDE DEF Refilled
      <4> QED
        BY <1>1, <1>2, <2>2, <4>1, <4>2
    <3> QED
      BY <1>3, <2>1, <3>1, <3>2
  <2>4. ASSUME NEW i \in DOMAIN line', NEW j \in DOMAIN line', i < j
        PROVE  due'[line'[j]] - due'[line'[i]] >= ((j - i) * Interval) \div Limit
    <3>0. i \in DOMAIN line
      BY <1>3, <2>1, <2>4
    <3>1. CASE j \in DOMAIN line
      BY <1>3, <2>1, <2>4, <3>0, <3>1 DEF Apart
    <3>2. CASE j = Len(line) + 1
      <4> DEFINE x == d - due[line[i]]
                 n == (j - i) * Interval
                 k == j - i
      <4>1. x \in Int /\ k \in Nat /\ due[line[i]] \in Int /\ d \in Int
        BY <1>3, <2>4, <3>0, <3>2
      <4>2. n = Worth(k) /\ n \in Nat
        <5> HIDE DEF k
        <5>1. k * Interval \in Nat /\ k * Interval = Interval * k
          BY <1>2, <4>1
        <5> QED
          BY <5>1 DEF k, Worth
      <4>3. /\ Refilled + Rate(due[line[i]]) + Worth(Len(line) - i) <= Rate(now) + Limit - 1
            /\ Rate(due[line[i]]) \in Int /\ Worth(Len(line) - i) \in Int
            /\ Worth(k) = Worth(Len(line) - i) + Interval
        BY <1>5, <3>0, <3>2
      <4>4. Rate(x + 1) = Rate(d) - Rate(due[line[i]]) + Limit
        <5> DEFINE e == due[line[i]]
        <5>1. e \in Int /\ x + 1 = d - e + 1
          BY <4>1
        <5> HIDE DEF e, x
        <5>2. Limit * (d - e + 1) = Limit * d - Limit * e + Limit
          BY <1>2, <4>1, <5>1
        <5> QED
          BY <5>1, <5>2 DEF Rate, e
      <4> HIDE DEF x, n, k, Refilled
      <4>5. n < Rate(x + 1)
        <5> DEFINE re == Rate(due[line[i]])
                   w == Worth(Len(line) - i)
                   rd == Rate(d)
                   rn == Rate(now)
        <5>1. /\ re \in Int /\ w \in Int /\ rd \in Int /\ rn \in Int /\ Refilled \in Int
              /\ Interval \in Int /\ Limit \in Int
              /\ n = w + Interval /\ Rate(x + 1) = rd - re + Limit
              /\ Refilled + re + w <= rn + Limit - 1
              /\ Interval - Refilled <= rd - rn
          BY <1>1, <1>2, <4>2, <4>3, <4>4
        <5> HIDE DEF re, w, rd, rn
        <5> QED
          BY <5>1
      <4>6. x >= n \div Limit
        BY <4>1, <4>2, <4>5, Floor
      <4>7. due'[line'[j]] = d /\ due'[line'[i]] = due[line[i]]
        BY <1>1, <1>3, <2>1, <3>0, <3>2
      <4> QED
        BY <4>6, <4>7 DEF x, n
    <3> QED
      BY <1>3, <2>1, <3>1, <3>2
  <2> QED
    BY <1>1, <1>4, <2>3, <2>4 DEF NextApart, Apart
<1> QED
  BY <1>6, <1>7 DEF Grants

-----------------------------------------------------------------------------
(* When the calls really go.                                               *)

(* A sleeper is due from the moment it reserved, and the clock waits for   *)
(* its timer at the latest.                                                *)
LEMMA PunctualKept ==
    ASSUME TypeOK, LineOfSleepers, Punctual, [Next]_vars
    PROVE  Punctual'
<1>0. /\ now \in Nat /\ MaxLate \in Nat /\ pc \in [Calls -> Places]
      /\ due \in [Calls -> Nat] /\ went \in [Calls -> Nat]
  BY ConstantsAssumption DEF TypeOK
<1>1. ASSUME UNCHANGED <<now, due, went>>,
             At("served")' = At("served"), At("sleeping")' \subseteq At("sleeping")
      PROVE  Punctual'
  BY <1>1 DEF Punctual
<1>2. CASE UNCHANGED vars
  BY <1>1, <1>2 DEF vars, At
<1>3. ASSUME NEW c \in Calls, TakeToken(c)
      PROVE  Punctual'
  <2>1. /\ pc[c] = "new" /\ pc' = [pc EXCEPT ![c] = "served"] /\ now' = now
        /\ due' = [due EXCEPT ![c] = now] /\ went' = [went EXCEPT ![c] = now]
    BY <1>3 DEF TakeToken
  <2> QED
    BY <1>0, <2>1 DEF Punctual, At
<1>4. ASSUME NEW c \in Calls, Reserve(c), c \notin aborted
      PROVE  Punctual'
  <2>1. /\ pc[c] = "new" /\ pc' = [pc EXCEPT ![c] = "sleeping"] /\ now' = now
        /\ due' = [due EXCEPT ![c] = now + WaitFor(Refilled)] /\ went' = went
        /\ Refilled < Interval
    BY <1>4 DEF Reserve
  <2>2. WaitFor(Refilled) \in Nat
    BY <2>1, LevelIs, WaitIsLeast
  <2> HIDE DEF Refilled, WaitFor
  <2> QED
    BY <1>0, <2>1, <2>2 DEF Punctual, At
<1>5. ASSUME NEW c \in Calls, WakeUp(c)
      PROVE  Punctual'
  <2>1. /\ pc[c] = "sleeping" /\ pc' = [pc EXCEPT ![c] = "served"] /\ now >= due[c]
        /\ now' = now /\ due' = due /\ went' = [went EXCEPT ![c] = now]
    BY <1>5 DEF WakeUp
  <2> QED
    BY <1>0, <2>1 DEF Punctual, At
<1>6. ASSUME NEW c \in Calls, AbortSleep(c)
      PROVE  Punctual'
  <2>1. /\ pc[c] = "sleeping" /\ pc' = [pc EXCEPT ![c] = "refunding"]
        /\ now' = now /\ due' = [due EXCEPT ![c] = 0] /\ went' = went
    BY <1>6 DEF AbortSleep
  <2> QED
    BY <1>0, <2>1 DEF Punctual, At
<1>7. ASSUME NEW c \in Calls,
             RejectWait(c) \/ Refund(c) \/ AbortEarly(c) \/ (Reserve(c) /\ c \in aborted)
      PROVE  Punctual'
  <2>1. /\ UNCHANGED <<now, due, went>>
        /\ pc' = pc \/ \E to \in {"rejected", "refunding", "gone"} :
              pc[c] \in {"new", "refunding"} /\ pc' = [pc EXCEPT ![c] = to]
    BY <1>7 DEF RejectWait, Refund, AbortEarly, Reserve
  <2>2. At("served")' = At("served") /\ At("sleeping")' = At("sleeping")
    BY <1>0, <2>1 DEF At
  <2> QED
    BY <1>1, <2>1, <2>2
<1>8. CASE ReadAvailable
  BY <1>1, <1>8 DEF ReadAvailable, At
<1>9. CASE Tick
  <2>1. /\ now' = now + 1 /\ UNCHANGED <<pc, due, went>>
        /\ \A c \in At("sleeping") : now < due[c] + MaxLate
    BY <1>9 DEF Tick
  <2> QED
    BY <1>0, <2>1 DEF Punctual, At
<1> QED
  BY <1>2, <1>3, <1>4, <1>5, <1>6, <1>7, <1>8, <1>9 DEF Next

(* The calls that go in a period were due in it, or before it by what      *)
(* timers are late.                                                        *)
LEMMA WentWereDue ==
    ASSUME TypeOK, Punctual, NEW from \in Nat, NEW to \in Nat, NEW since \in Nat,
           since = 0 \/ since = from - MaxLate
    PROVE  Cardinality(WentWithin(from, to)) <= Cardinality(DueWithin(since, to))
<1>1. WentWithin(from, to) \subseteq DueWithin(since, to)
  <2> SUFFICES ASSUME NEW c \in At("served"), went[c] \in from .. to
               PROVE  due[c] \in since .. to
    BY DEF WentWithin, DueWithin
  <2>1. /\ due[c] <= went[c] /\ went[c] <= due[c] + MaxLate
        /\ due[c] \in Nat /\ went[c] \in Nat /\ MaxLate \in Nat
    BY ConstantsAssumption DEF Punctual, TypeOK, At
  <2> QED
    BY <2>1
<1>2. IsFiniteSet(DueWithin(since, to))
  BY Numbers, PartsAreFinite, ConstantsAssumption
<1> QED
  BY <1>1, <1>2, FS_Subset

-----------------------------------------------------------------------------
(* The invariant.                                                          *)

(* A full bucket owes nothing and nobody holds a token.                    *)
LEMMA InitInv == Init => Inv
<1> SUFFICES ASSUME Init PROVE Inv
  OBVIOUS
<1>1. TypeOK
  BY FullBucket DEF Init, TypeOK, Places, Full
<1>2. Holding = {} /\ Held = {} /\ At("sleeping") = {} /\ line = <<>>
  BY DEF Init, Holding, Held, At
<1>3. Cardinality({}) = 0 /\ Worth(0) = 0 /\ Rate(0) = 0
  BY FS_EmptySet, WorthAdds, RateAdds
<1>4. TokensConserved
  <2>1. tokens = Full /\ spilt = 0 /\ refilledAt = 0
    BY DEF Init, Full
  <2>2. Full \in Int
    BY FullBucket
  <2>3. Conserved
    BY <1>2, <1>3, <2>1, <2>2 DEF Conserved
  <2> QED
    BY <2>3, ConservedIs
<1>5. LineOfSleepers
  BY <1>2 DEF LineOfSleepers, Distinct, ToSet
<1>6. \A s, t : DueFrom(s) = {} /\ DueWithin(s, t) = {}
  BY <1>2 DEF DueFrom, DueWithin, Holding
<1>7. \A t \in Nat : Rate(t) \in Nat
  BY <1>3, RateGrows
<1>8. Paid
  <2> SUFFICES ASSUME NEW t \in Nat PROVE 0 <= Rate(Interval + t)
    BY <1>3, <1>6 DEF Paid, Moments
  <2>1. Interval + t \in Nat
    BY ConstantsAssumption
  <2> QED
    BY <1>7, <2>1
<1>9. NotEarly
  BY <1>6 DEF NotEarly
<1>10. NoDebt
  <2> SUFFICES ASSUME NEW t \in Nat PROVE Refilled + Rate(t) - Rate(now) + 0 >= 0
    BY <1>3, <1>6 DEF NoDebt, Moments
  <2>1. now = 0 /\ refilledAt = 0 /\ tokens = Full
    BY DEF Init, Full
  <2>2. Uncapped = tokens + Rate(now) - Rate(refilledAt)
    BY <1>1, LevelIs
  <2>3. Refilled = Full
    BY <1>3, <2>1, <2>2, FullBucket DEF Refilled
  <2> HIDE DEF Refilled, Full
  <2> QED
    BY <1>3, <1>7, <2>1, <2>3, FullBucket
<1>11. NoBurst
  <2> SUFFICES ASSUME NEW from \in Nat, NEW to \in Nat, from <= to
               PROVE  0 <= Rate(Interval + to - from)
    BY <1>3, <1>6 DEF NoBurst, Moments
  <2>1. Interval + to - from \in Nat
    BY ConstantsAssumption
  <2> QED
    BY <1>7, <2>1
<1>12. NextApart /\ Apart
  BY <1>2 DEF NextApart, Apart
<1>13. Punctual
  BY DEF Init, Punctual, At
<1> QED
  BY <1>1, <1>4, <1>5, <1>8, <1>9, <1>10, <1>11, <1>12, <1>13 DEF Inv, Smooth

(* Every step keeps the invariant.                                         *)
LEMMA NextKeepsInv == Inv /\ [Next]_vars => Inv'
<1> SUFFICES ASSUME Inv, [Next]_vars PROVE Inv'
  OBVIOUS
<1>1. /\ TypeOK /\ Punctual /\ LineOfSleepers /\ Conserved /\ Paid
      /\ NobodyAborted => Smooth
  BY ConservedIs DEF Inv
<1>2. TypeOK' /\ Punctual' /\ LineOfSleepers' /\ Conserved' /\ Paid'
  BY <1>1, TypesKept, PunctualKept, LineKept, ConservedKept, PaidKept
<1>3. TokensConserved'
  BY <1>2 DEF TokensConserved, Conserved, Worth, Rate, Held
<1>4. ASSUME NobodyAborted'
      PROVE  Smooth'
  <2>1. CASE \E c \in Calls : \E d \in Nat : Grants(c, d)
    <3>1. PICK c \in Calls, d \in Nat : Grants(c, d)
      BY <2>1
    <3>2. NobodyAborted
      <4>1. pc[c] = "new" /\ \E to : pc' = [pc EXCEPT ![c] = to]
        BY <3>1 DEF Grants
      <4> QED
        BY <1>1, <1>4, <4>1 DEF NobodyAborted, At, TypeOK
    <3>3. NotEarly /\ NoDebt /\ NoBurst /\ NextApart /\ Apart
      BY <1>1, <3>2 DEF Smooth
    <3>4. NotEarly' /\ NoDebt'
      BY <1>1, <1>2, <3>1, <3>3, GrantNotEarly, GrantNoDebt
    <3> QED
      BY <1>1, <1>2, <3>1, <3>3, <3>4, GrantNoBurst, GrantApart DEF Smooth
  <2>2. CASE Stays
    BY <1>1, <1>2, <1>4, <2>2, StaysSmooth DEF Stays
  <2>3. CASE Tick
    <3>1. NobodyAborted
      BY <1>4, <2>3 DEF Tick, NobodyAborted, At
    <3> QED
      BY <1>1, <1>2, <2>3, <3>1, TickSmooth
  <2>4. CASE GivesUp
    BY <1>4, <2>4 DEF GivesUp
  <2> QED
    BY <1>1, <2>1, <2>2, <2>3, <2>4, StepKinds
<1> QED
  BY <1>2, <1>3, <1>4 DEF Inv

(* So the invariant holds for any calls and options.                       *)
THEOREM InvHolds == Spec => []Inv
  BY InitInv, NextKeepsInv, PTL DEF Spec

-----------------------------------------------------------------------------
(* What the invariant says.                                                *)

(* The times are naturals and the bucket is a number of tokens.            *)
THEOREM TypesHold == Spec => []TypeOK
<1>1. Inv => TypeOK
  BY DEF Inv
<1> QED
  BY InvHolds, <1>1, PTL

(* No token is made or lost.                                               *)
THEOREM NoTokenIsLost == Spec => []TokensConserved
<1>1. Inv => TokensConserved
  BY DEF Inv
<1> QED
  BY InvHolds, <1>1, PTL

(* Whatever aborts free and however late timers are, no more calls are     *)
(* served or due up to any moment than the quota allows.                   *)
THEOREM QuotaHolds == Spec => []QuotaKept
<1>1. Inv => QuotaKept
  <2> SUFFICES ASSUME Inv, NEW t \in now .. now + MaxWait
               PROVE  Interval * Cardinality(DueWithin(0, t)) <= Limit * (Interval + t)
    BY DEF QuotaKept
  <2>1. t \in Nat
    BY ConstantsAssumption DEF Inv, TypeOK
  <2> QED
    BY <2>1 DEF Inv, Paid, Moments, Worth, Rate
<1> QED
  BY InvHolds, <1>1, PTL

(* Until a reservation is given back, no more calls really go in a period  *)
(* than its burst allows, the period counted longer by what timers are     *)
(* late; and sleepers are due a token's time apart in their order.         *)
THEOREM SmoothUntilAborted == Spec => []SmoothUnlessAborted
<1>1. Inv => SmoothUnlessAborted
  <2> SUFFICES ASSUME Inv, NobodyAborted
               PROVE  /\ \A from \in 0 .. now : \A to \in from .. now :
                             Interval * Cardinality(WentWithin(from, to))
                                 <= Limit * (Interval + (to - from) + MaxLate)
                      /\ Apart
    BY DEF SmoothUnlessAborted, Apart
  <2>1. TypeOK /\ Punctual /\ NoBurst /\ Apart
    BY DEF Inv, Smooth
  <2>2. ASSUME NEW from \in 0 .. now, NEW to \in from .. now
        PROVE  Interval * Cardinality(WentWithin(from, to))
                   <= Limit * (Interval + (to - from) + MaxLate)
    <3>1. /\ from \in Nat /\ to \in Nat /\ from <= to
          /\ MaxLate \in Nat /\ Interval \in Nat
      BY <2>1, ConstantsAssumption DEF TypeOK
    <3>2. PICK since \in Nat :
             /\ since = 0 \/ since = from - MaxLate
             /\ from - MaxLate <= since /\ since <= from
      <4>1. CASE from <= MaxLate
        BY <3>1, <4>1
      <4>2. CASE from > MaxLate
        <5> DEFINE s == from - MaxLate
        <5>1. s \in Nat /\ s = from - MaxLate /\ s <= from
          BY <3>1, <4>2
        <5> HIDE DEF s
        <5>2. from - MaxLate <= s
          BY <5>1
        <5> QED
          BY <5>1, <5>2
      <4> QED
        BY <3>1, <4>1, <4>2
    <3> DEFINE w == Cardinality(WentWithin(from, to))
               d == Cardinality(DueWithin(since, to))
    <3>3. w <= d
      BY <2>1, <3>1, <3>2, WentWereDue
    <3>4. w \in Nat /\ d \in Nat
      BY ConstantsAssumption, PartsAreFinite, Numbers DEF WentWithin, At
    <3>5. Worth(d) <= Rate(Interval + to - since)
      BY <2>1, <3>1, <3>2 DEF NoBurst, Moments
    <3> HIDE DEF w, d
    <3>6. Worth(w) <= Worth(d) /\ Worth(w) \in Int /\ Worth(d) \in Int
      BY <3>3, <3>4, WorthGrows
    <3>7. /\ Rate(Interval + to - since) <= Rate(Interval + (to - from) + MaxLate)
          /\ Rate(Interval + to - since) \in Int
          /\ Rate(Interval + (to - from) + MaxLate) \in Int
      <4>1. /\ Interval + to - since <= Interval + (to - from) + MaxLate
            /\ Interval + to - since \in Int
            /\ Interval + (to - from) + MaxLate \in Int
        BY <3>1, <3>2
      <4> QED
        BY <4>1, RateGrows
    <3>8. Worth(w) <= Rate(Interval + (to - from) + MaxLate)
      BY <3>5, <3>6, <3>7
    <3> QED
      BY <3>8 DEF Worth, Rate, w
  <2> QED
    BY <2>1, <2>2
<1> QED
  BY InvHolds, <1>1, PTL
=============================================================================
