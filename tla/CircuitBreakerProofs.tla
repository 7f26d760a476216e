------------------------ MODULE CircuitBreakerProofs -------------------------
(***************************************************************************)
(* For any calls, thresholds, durations and window of either kind: the     *)
(* probes of a half-open breaker are accounted for and decide by their     *)
(* failure rate, the window of a closed breaker holds outcomes of its own  *)
(* generation only, and no outcome is recorded that leaves the breaker     *)
(* closed over its threshold.                                              *)
(***************************************************************************)
EXTENDS CircuitBreaker, StructureTheorems

-----------------------------------------------------------------------------
(* The inductive invariant, of the fields b.  acquire() and release() work *)
(* on the fields in several steps, and so do the proofs: what is said of   *)
(* `breaker` in the end is first said of the b on the way.                 *)

(* The calls whose permit is of b's generation, by progress.               *)
Of(b) == {c \in Calls : permit[c].generation = b.generation}
InsideOf(b) == {c \in Of(b) : pc[c] = "inside"}
CountedOf(b) == {c \in Of(b) : pc[c] = "done" /\ outcome[c] \in {"success", "failure"}}
FailedOf(b) == {c \in CountedOf(b) : outcome[c] = "failure"}

Fields == [current : States, generation : Nat, openedAt : Nat, window : Windows,
           probes : [started : Nat, finished : Nat, failures : Nat]]

FieldsOK(b) == b \in Fields /\ b.openedAt <= now

(* No permit is of a generation to come, and one of the present generation *)
(* was given while the breaker was in the state that it is in.             *)
PermitsOK(b) ==
    \A c \in Calls :
        /\ permit[c].generation <= b.generation
        /\ permit[c].generation = b.generation =>
               /\ pc[c] # "new"
               /\ b.current # "open"
               /\ permit[c].halfOpen <=> b.current = "half-open"

ProbesOK(b) ==
    b.current = "half-open" =>
        /\ b.probes.started = b.probes.finished + Cardinality(InsideOf(b))
        /\ b.probes.started <= HalfOpenMaxCalls
        /\ b.probes.finished = Cardinality(CountedOf(b))
        /\ b.probes.failures = Cardinality(FailedOf(b))
        /\ b.probes.finished < HalfOpenMaxCalls

WindowOK(b) ==
    b.current = "closed" =>
        /\ WindowStats(b.window).total <= Cardinality(CountedOf(b))
        /\ WindowStats(b.window).failures <= Cardinality(FailedOf(b))
        /\ WindowType = "count" =>
               /\ WindowStats(b.window).total = IF Cardinality(CountedOf(b)) < WindowSize
                                                THEN Cardinality(CountedOf(b)) ELSE WindowSize
               /\ ~OverThreshold(b.window)

Consistent(b) == FieldsOK(b) /\ PermitsOK(b) /\ ProbesOK(b) /\ WindowOK(b)

CallTypes ==
    /\ now \in Nat
    /\ pc \in [Calls -> {"new", "inside", "done"}]
    /\ permit \in [Calls -> [generation : Nat \cup {-1}, halfOpen : BOOLEAN]]
    /\ signal \in [Calls -> Signals]
    /\ outcome \in [Calls -> {"none", "success", "failure", "ignored", "rejected"}]
    /\ \A c \in Calls : pc[c] # "done" => outcome[c] = "none"

(* None of the properties is inductive alone: what a release does to the   *)
(* probes rests on whom the permits of this generation were given to, and  *)
(* that on no permit being of a later one.                                 *)
Inv == CallTypes /\ commands \in 0 .. MaxCommands /\ Consistent(breaker)

-----------------------------------------------------------------------------
(* Windows of either kind.                                                 *)

(* What a reset window reports.                                            *)
LEMMA ResetEmpties ==
    ASSUME now \in Nat
    PROVE  /\ WindowReset \in Windows
           /\ WindowStats(WindowReset).total = 0
           /\ WindowStats(WindowReset).failures = 0
           /\ ~OverThreshold(WindowReset)
<1>1. /\ WindowReset \in Windows
      /\ WindowStats(WindowReset) = [total |-> 0, failures |-> 0]
  <2>1. CASE WindowType = "time"
    BY <2>1, ConstantsAssumption, TimeResetEmpties DEF WindowReset, WindowStats, Windows
  <2>2. CASE WindowType # "time"
    BY <2>2, ConstantsAssumption, CountResetEmpties DEF WindowReset, WindowStats, Windows
  <2> QED
    BY <2>1, <2>2
<1> QED
  BY <1>1, ConstantsAssumption DEF OverThreshold

(* What a window reports is numbers.                                       *)
LEMMA StatsType ==
    ASSUME now \in Nat, NEW w \in Windows
    PROVE  WindowStats(w).total \in Nat /\ WindowStats(w).failures \in Int
<1>1. CASE WindowType = "time"
  BY <1>1, ConstantsAssumption, TimeStatsType DEF WindowStats, Windows
<1>2. CASE WindowType # "time"
  BY <1>2, ConstantsAssumption DEF WindowStats, Windows, CountWindows, CountStats
<1> QED
  BY <1>1, <1>2

(* One more outcome is at most one more in either count.                   *)
LEMMA RecordAdds ==
    ASSUME now \in Nat, NEW w \in Windows, NEW failure \in BOOLEAN
    PROVE  LET r == WindowRecord(w, failure) IN
           /\ r \in Windows
           /\ WindowStats(r).total <= WindowStats(w).total + 1
           /\ WindowStats(r).failures <= WindowStats(w).failures + AsCount(failure)
           /\ WindowType = "count" =>
                  WindowStats(r).total = IF WindowStats(w).total < WindowSize
                                         THEN WindowStats(w).total + 1 ELSE WindowSize
           /\ WindowType = "count" => WindowStats(w).total <= WindowSize
<1>1. CASE WindowType = "time"
  BY <1>1, ConstantsAssumption, TimeRecordAdds DEF WindowStats, WindowRecord, Windows
<1>2. CASE WindowType = "count"
  <2>1. /\ WindowRecord(w, failure) = CountRecord(w, WindowSize, failure)
        /\ \A x : WindowStats(x) = CountStats(x)
        /\ Windows = CountWindows(WindowSize)
    BY <1>2 DEF WindowStats, WindowRecord, Windows
  <2>2. /\ CountStats(w).total = Len(w.outcomes) /\ Len(w.outcomes) \in Nat
        /\ Len(w.outcomes) <= WindowSize
    BY <2>1 DEF CountStats, CountWindows
  <2> QED
    BY <2>1, <2>2, ConstantsAssumption, CountRecordAdds
<1> QED
  BY <1>1, <1>2, ConstantsAssumption

-----------------------------------------------------------------------------
(* Counting calls.                                                         *)

(* There are finitely many calls, so as many of each kind.                 *)
LEMMA CountsFinite ==
    ASSUME NEW S \in SUBSET Calls
    PROVE  IsFiniteSet(S) /\ Cardinality(S) \in Nat
  BY ConstantsAssumption, FS_Subset, FS_CardinalityType

(* One more.                                                               *)
LEMMA OneMore ==
    ASSUME NEW S \in SUBSET Calls, NEW c, c \notin S
    PROVE  Cardinality(S \cup {c}) = Cardinality(S) + 1
  BY CountsFinite, FS_AddElement

(* One less.                                                               *)
LEMMA OneLess ==
    ASSUME NEW S \in SUBSET Calls, NEW c \in S
    PROVE  Cardinality(S \ {c}) = Cardinality(S) - 1
  BY CountsFinite, FS_RemoveElement

(* Failures are counted.                                                   *)
LEMMA KindsOf ==
    ASSUME NEW b
    PROVE  /\ InsideOf(b) \in SUBSET Calls /\ Cardinality(InsideOf(b)) \in Nat
           /\ CountedOf(b) \in SUBSET Calls /\ Cardinality(CountedOf(b)) \in Nat
           /\ FailedOf(b) \in SUBSET Calls /\ Cardinality(FailedOf(b)) \in Nat
  BY CountsFinite DEF Of, InsideOf, CountedOf, FailedOf

-----------------------------------------------------------------------------
(* A new generation starts with nobody in it.                              *)

(* The fields after a transition are fields.                               *)
LEMMA TransitionFields ==
    ASSUME now \in Nat, NEW b, FieldsOK(b), NEW to \in States
    PROVE  LET n == Transition(b, to) IN
           /\ FieldsOK(n) /\ n.current = to /\ n.generation = b.generation + 1
           /\ to = "half-open" => n.probes = NoProbes
           /\ to = "closed" => n.window = WindowReset
<1>1. WindowReset \in Windows
  BY ResetEmpties
<1>2. /\ b.generation \in Nat /\ b.openedAt \in Nat /\ b.openedAt <= now /\ b.window \in Windows
      /\ b.probes \in [started : Nat, finished : Nat, failures : Nat]
  BY DEF FieldsOK, Fields
<1> QED
  BY <1>1, <1>2 DEF FieldsOK, Fields, Transition, NoProbes

(* So they are consistent.                                                 *)
LEMMA FreshGeneration ==
    ASSUME CallTypes, NEW b, FieldsOK(b), NEW to \in States,
           \A c \in Calls : permit[c].generation <= b.generation
    PROVE  Consistent(Transition(b, to))
<1> DEFINE n == Transition(b, to)
<1>1. /\ FieldsOK(n) /\ n.current = to /\ n.generation = b.generation + 1
      /\ to = "half-open" => n.probes = NoProbes
      /\ to = "closed" => n.window = WindowReset
  BY TransitionFields DEF CallTypes
<1>2. b.generation \in Nat
  BY DEF FieldsOK, Fields
<1> HIDE DEF n
<1>3. /\ \A c \in Calls : permit[c].generation < n.generation
      /\ \A c \in Calls : permit[c].generation # n.generation
  BY <1>1, <1>2 DEF CallTypes
<1>4. InsideOf(n) = {} /\ CountedOf(n) = {} /\ FailedOf(n) = {}
  BY <1>3 DEF Of, InsideOf, CountedOf, FailedOf
<1>5. Cardinality({}) = 0
  BY FS_EmptySet
<1>6. PermitsOK(n)
  BY <1>1, <1>2, <1>3 DEF PermitsOK, CallTypes
<1>7. ProbesOK(n)
  BY <1>1, <1>4, <1>5, ConstantsAssumption DEF ProbesOK, NoProbes
<1>8. WindowOK(n)
  BY <1>1, <1>4, <1>5, ResetEmpties, ConstantsAssumption DEF WindowOK, CallTypes
<1> QED
  BY <1>1, <1>6, <1>7, <1>8 DEF Consistent, n

(* The same of the state after a step that ends in a transition: `next`    *)
(* settles a last probe, say, and closes the breaker.                      *)
LEMMA TransitionStep ==
    ASSUME now \in Nat, CallTypes', UNCHANGED now, NEW b, FieldsOK(b), NEW to \in States,
           \A c \in Calls : permit'[c].generation <= b.generation,
           breaker' = Transition(b, to)
    PROVE  Consistent(breaker)'
<1>1. /\ FieldsOK(breaker') /\ breaker'.current = to /\ breaker'.generation = b.generation + 1
      /\ to = "half-open" => breaker'.probes = NoProbes
      /\ to = "closed" => breaker'.window = WindowReset
  BY TransitionFields
<1>2. b.generation \in Nat
  BY DEF FieldsOK, Fields
<1>3. /\ \A c \in Calls : permit'[c].generation < breaker'.generation
      /\ \A c \in Calls : permit'[c].generation # breaker'.generation
  BY <1>1, <1>2 DEF CallTypes
<1>4. InsideOf(breaker)' = {} /\ CountedOf(breaker)' = {} /\ FailedOf(breaker)' = {}
  BY <1>3 DEF Of, InsideOf, CountedOf, FailedOf
<1>5. Cardinality({}) = 0
  BY FS_EmptySet
<1>6. PermitsOK(breaker)'
  BY <1>1, <1>2, <1>3 DEF PermitsOK, CallTypes
<1>7. ProbesOK(breaker)'
  BY <1>1, <1>4, <1>5, ConstantsAssumption DEF ProbesOK, NoProbes
<1>8. WindowOK(breaker)'
  <2>1. \A w : WindowStats(w)' = WindowStats(w) /\ OverThreshold(w)' = OverThreshold(w)
    BY DEF WindowStats, OverThreshold
  <2> QED
    BY <1>1, <1>4, <1>5, <2>1, ResetEmpties, ConstantsAssumption DEF WindowOK
<1> QED
  BY <1>1, <1>6, <1>7, <1>8 DEF Consistent, FieldsOK

-----------------------------------------------------------------------------
(* acquire().                                                              *)

(* checkOpenDuration leaves the fields alone or starts a generation.       *)
LEMMA CheckKeepsConsistent ==
    ASSUME CallTypes, NEW b, Consistent(b)
    PROVE  Consistent(CheckOpenDuration(b))
  BY FreshGeneration DEF CheckOpenDuration, Consistent, PermitsOK, States

(* A call that is let in is one more inside, and a probe is started for it *)
(* if the breaker is half-open; one that is rejected is no call of b's.    *)
LEMMA AdmitKeepsInv ==
    ASSUME CallTypes, NEW b, Consistent(b), NEW c \in Calls, pc[c] = "new", Admit(c, b),
           UNCHANGED <<now, signal>>
    PROVE  CallTypes' /\ Consistent(breaker)'
<1> DEFINE probing == b.current = "half-open" /\ b.probes.started < HalfOpenMaxCalls
<1>0. /\ FieldsOK(b) /\ PermitsOK(b) /\ ProbesOK(b) /\ WindowOK(b)
      /\ b \in Fields /\ b.generation \in Nat
      /\ b.probes \in [started : Nat, finished : Nat, failures : Nat]
      /\ c \notin Of(b)
  BY DEF Consistent, FieldsOK, Fields, PermitsOK, Of
<1>1. \A w : WindowStats(w)' = WindowStats(w) /\ OverThreshold(w)' = OverThreshold(w)
  BY DEF WindowStats, OverThreshold
<1>2. CASE b.current = "closed" \/ probing
  <2>1. /\ breaker' = IF probing THEN [b EXCEPT !.probes.started = @ + 1] ELSE b
        /\ permit' = [permit EXCEPT ![c] = [generation |-> b.generation, halfOpen |-> probing]]
        /\ pc' = [pc EXCEPT ![c] = "inside"]
        /\ outcome' = outcome
    BY <1>2 DEF Admit
  <2>2. CallTypes'
    BY <1>0, <2>1 DEF CallTypes
  <2>3. /\ breaker' \in Fields
        /\ breaker'.generation = b.generation /\ breaker'.current = b.current
        /\ breaker'.window = b.window /\ breaker'.openedAt = b.openedAt
        /\ breaker'.probes.finished = b.probes.finished
        /\ breaker'.probes.failures = b.probes.failures
        /\ breaker'.probes.started = IF probing THEN b.probes.started + 1 ELSE b.probes.started
    BY <1>0, <2>1 DEF Fields
  <2>4. /\ InsideOf(breaker)' = InsideOf(b) \cup {c}
        /\ CountedOf(breaker)' = CountedOf(b) /\ FailedOf(breaker)' = FailedOf(b)
    BY <1>0, <2>1, <2>3 DEF Of, InsideOf, CountedOf, FailedOf, CallTypes
  <2>5. Cardinality(InsideOf(breaker)') = Cardinality(InsideOf(b)) + 1
    <3>1. c \notin InsideOf(b)
      BY <1>0 DEF InsideOf
    <3> QED
      BY <2>4, <3>1, KindsOf, OneMore
  <2>6. FieldsOK(breaker)'
    BY <1>0, <2>3 DEF FieldsOK
  <2>7. PermitsOK(breaker)'
    <3> HIDE DEF probing
    <3>1. /\ permit'[c].generation = b.generation /\ permit'[c].halfOpen = probing
          /\ pc'[c] = "inside"
          /\ \A d \in Calls \ {c} : permit'[d] = permit[d] /\ pc'[d] = pc[d]
      BY <2>1 DEF CallTypes
    <3>2. b.current # "open" /\ (probing <=> b.current = "half-open")
      BY <1>2 DEF probing
    <3> QED
      BY <1>0, <2>3, <3>1, <3>2 DEF PermitsOK
  <2>8. ProbesOK(breaker)'
    BY <1>0, <1>2, <2>3, <2>4, <2>5, KindsOf, ConstantsAssumption DEF ProbesOK
  <2>9. WindowOK(breaker)'
    BY <1>0, <1>1, <2>3, <2>4 DEF WindowOK
  <2> QED
    BY <2>2, <2>6, <2>7, <2>8, <2>9 DEF Consistent
<1>3. CASE ~(b.current = "closed" \/ probing)
  <2>1. /\ breaker' = b /\ permit' = permit
        /\ pc' = [pc EXCEPT ![c] = "done"]
        /\ outcome' = [outcome EXCEPT ![c] = "rejected"]
    BY <1>3 DEF Admit
  <2>2. CallTypes'
    BY <2>1 DEF CallTypes
  <2>3. /\ InsideOf(breaker)' = InsideOf(b)
        /\ CountedOf(breaker)' = CountedOf(b) /\ FailedOf(breaker)' = FailedOf(b)
    BY <1>0, <2>1 DEF Of, InsideOf, CountedOf, FailedOf, CallTypes
  <2>4. FieldsOK(breaker)'
    BY <1>0, <2>1 DEF FieldsOK
  <2>5. PermitsOK(breaker)'
    BY <1>0, <2>1 DEF PermitsOK, CallTypes
  <2>6. ProbesOK(breaker)'
    BY <1>0, <2>1, <2>3 DEF ProbesOK
  <2>7. WindowOK(breaker)'
    BY <1>0, <1>1, <2>1, <2>3 DEF WindowOK
  <2> QED
    BY <2>2, <2>4, <2>5, <2>6, <2>7 DEF Consistent
<1> QED
  BY <1>2, <1>3

-----------------------------------------------------------------------------
(* release().                                                              *)

(* What settling does to the calls.                                        *)
LEMMA SettleCalls ==
    ASSUME Inv, NEW c \in Calls, Settle(c)
    PROVE  \E result \in {"success", "failure", "ignored"} :
              /\ pc[c] = "inside"
              /\ breaker' = Release(breaker, permit[c], result)
              /\ outcome' = [outcome EXCEPT ![c] = result]
              /\ pc' = [pc EXCEPT ![c] = "done"]
              /\ UNCHANGED <<now, permit, commands>>
              /\ CallTypes'
<1>1. PICK ending \in Endings :
         /\ breaker' = Release(breaker, permit[c], OutcomeOf(c, ending))
         /\ outcome' = [outcome EXCEPT ![c] = OutcomeOf(c, ending)]
  BY DEF Settle
<1>2. OutcomeOf(c, ending) \in {"success", "failure", "ignored"}
  BY DEF OutcomeOf
<1> HIDE DEF OutcomeOf
<1>3. /\ pc[c] = "inside" /\ pc' = [pc EXCEPT ![c] = "done"]
      /\ UNCHANGED <<now, permit, commands>>
      /\ signal' = [signal EXCEPT ![c] = "live"]
  BY DEF Settle
<1>4. CallTypes'
  BY <1>1, <1>2, <1>3 DEF Inv, CallTypes, Signals
<1> QED
  BY <1>1, <1>2, <1>3, <1>4

(* The calls of the present generation after c has settled, unless that    *)
(* made it another generation.                                             *)
LEMMA SettleCounts ==
    ASSUME Inv, NEW c \in Calls, NEW result \in {"success", "failure", "ignored"},
           pc[c] = "inside", breaker'.generation = breaker.generation,
           outcome' = [outcome EXCEPT ![c] = result],
           pc' = [pc EXCEPT ![c] = "done"], permit' = permit
    PROVE  IF c \in Of(breaker)
           THEN /\ Cardinality(InsideOf(breaker)') = Cardinality(InsideOf(breaker)) - 1
                /\ Cardinality(CountedOf(breaker)') = Cardinality(CountedOf(breaker))
                                                         + AsCount(result # "ignored")
                /\ Cardinality(FailedOf(breaker)') = Cardinality(FailedOf(breaker))
                                                        + AsCount(result = "failure")
           ELSE /\ Cardinality(InsideOf(breaker)') = Cardinality(InsideOf(breaker))
                /\ Cardinality(CountedOf(breaker)') = Cardinality(CountedOf(breaker))
                /\ Cardinality(FailedOf(breaker)') = Cardinality(FailedOf(breaker))
<1>1. CallTypes
  BY DEF Inv
<1>2. CASE c \in Of(breaker)
  <2>1. c \in InsideOf(breaker) /\ c \notin CountedOf(breaker) /\ c \notin FailedOf(breaker)
    BY <1>2 DEF InsideOf, CountedOf, FailedOf
  <2>2. /\ InsideOf(breaker)' = InsideOf(breaker) \ {c}
        /\ CountedOf(breaker)' = IF result # "ignored" THEN CountedOf(breaker) \cup {c}
                                                      ELSE CountedOf(breaker)
        /\ FailedOf(breaker)' = IF result = "failure" THEN FailedOf(breaker) \cup {c}
                                                     ELSE FailedOf(breaker)
    BY <1>1, <1>2 DEF CallTypes, Of, InsideOf, CountedOf, FailedOf
  <2>3. Cardinality(InsideOf(breaker)') = Cardinality(InsideOf(breaker)) - 1
    BY <2>1, <2>2, KindsOf, OneLess
  <2>4. Cardinality(CountedOf(breaker)') = Cardinality(CountedOf(breaker))
                                             + AsCount(result # "ignored")
    BY <2>1, <2>2, KindsOf, OneMore DEF AsCount
  <2>5. Cardinality(FailedOf(breaker)') = Cardinality(FailedOf(breaker))
                                            + AsCount(result = "failure")
    BY <2>1, <2>2, KindsOf, OneMore DEF AsCount
  <2> QED
    BY <1>2, <2>3, <2>4, <2>5
<1>3. CASE c \notin Of(breaker)
  <2>1. /\ InsideOf(breaker)' = InsideOf(breaker)
        /\ CountedOf(breaker)' = CountedOf(breaker)
        /\ FailedOf(breaker)' = FailedOf(breaker)
    BY <1>1, <1>3 DEF CallTypes, Of, InsideOf, CountedOf, FailedOf
  <2> QED
    BY <1>3, <2>1
<1> QED
  BY <1>2, <1>3

(* An outcome of an earlier generation is dropped.                         *)
LEMMA StaleKeepsConsistent ==
    ASSUME Inv, NEW c \in Calls, NEW result \in {"success", "failure", "ignored"},
           pc[c] = "inside", c \notin Of(breaker), breaker' = breaker,
           outcome' = [outcome EXCEPT ![c] = result],
           pc' = [pc EXCEPT ![c] = "done"], UNCHANGED <<now, permit>>
    PROVE  Consistent(breaker)'
<1>1. /\ FieldsOK(breaker) /\ PermitsOK(breaker) /\ ProbesOK(breaker) /\ WindowOK(breaker)
      /\ CallTypes
  BY DEF Inv, Consistent
<1>2. \A w : WindowStats(w)' = WindowStats(w) /\ OverThreshold(w)' = OverThreshold(w)
  BY DEF WindowStats, OverThreshold
<1>3. /\ Cardinality(InsideOf(breaker)') = Cardinality(InsideOf(breaker))
      /\ Cardinality(CountedOf(breaker)') = Cardinality(CountedOf(breaker))
      /\ Cardinality(FailedOf(breaker)') = Cardinality(FailedOf(breaker))
  BY SettleCounts
<1>4. FieldsOK(breaker)'
  BY <1>1 DEF FieldsOK
<1>5. PermitsOK(breaker)'
  BY <1>1 DEF PermitsOK, CallTypes
<1>6. ProbesOK(breaker)'
  BY <1>1, <1>3 DEF ProbesOK
<1>7. WindowOK(breaker)'
  BY <1>1, <1>2, <1>3 DEF WindowOK
<1> QED
  BY <1>4, <1>5, <1>6, <1>7 DEF Consistent

(* A call of a closed breaker is recorded, and opens it when that takes it *)
(* over its threshold.                                                     *)
LEMMA ReleaseClosedKeepsConsistent ==
    ASSUME Inv, NEW c \in Calls, NEW result \in {"success", "failure", "ignored"},
           pc[c] = "inside", c \in Of(breaker), breaker.current = "closed",
           breaker' = ReleaseClosed(breaker, result),
           outcome' = [outcome EXCEPT ![c] = result],
           pc' = [pc EXCEPT ![c] = "done"], UNCHANGED <<now, permit>>, CallTypes'
    PROVE  Consistent(breaker)'
<1> DEFINE failure == result = "failure"
           window == WindowRecord(breaker.window, failure)
           recorded == [breaker EXCEPT !.window = window]
<1>1. /\ FieldsOK(breaker) /\ PermitsOK(breaker) /\ ProbesOK(breaker) /\ WindowOK(breaker)
      /\ CallTypes /\ breaker \in Fields /\ breaker.window \in Windows /\ now \in Nat
  BY DEF Inv, Consistent, FieldsOK, Fields, CallTypes
<1>2. \A w : WindowStats(w)' = WindowStats(w) /\ OverThreshold(w)' = OverThreshold(w)
  BY DEF WindowStats, OverThreshold
<1>3. /\ window \in Windows
      /\ WindowStats(window).total \in Nat /\ WindowStats(window).failures \in Int
      /\ WindowStats(window).total <= WindowStats(breaker.window).total + 1
      /\ WindowStats(window).failures <= WindowStats(breaker.window).failures + AsCount(failure)
      /\ WindowType = "count" =>
             WindowStats(window).total = IF WindowStats(breaker.window).total < WindowSize
                                         THEN WindowStats(breaker.window).total + 1 ELSE WindowSize
      /\ WindowStats(breaker.window).total \in Nat /\ WindowStats(breaker.window).failures \in Int
  <2>1. failure \in BOOLEAN
    OBVIOUS
  <2> HIDE DEF failure
  <2> QED
    BY <1>1, <2>1, RecordAdds, StatsType
<1> HIDE DEF window
<1>4. /\ recorded \in Fields /\ FieldsOK(recorded)
      /\ recorded.window = window /\ recorded.current = "closed"
      /\ recorded.generation = breaker.generation
  BY <1>1, <1>3 DEF Fields, FieldsOK
<1>5. breaker' = IF result = "ignored" THEN breaker
                 ELSE IF OverThreshold(window) THEN Transition(recorded, "open") ELSE recorded
  BY <1>4 DEF ReleaseClosed, window
<1> HIDE DEF recorded
<1>6. CASE result # "ignored" /\ OverThreshold(window)
  <2>1. \A d \in Calls : permit'[d].generation <= recorded.generation
    BY <1>1, <1>4 DEF PermitsOK
  <2> QED
    BY <1>1, <1>4, <1>5, <1>6, <2>1, TransitionStep DEF States
<1>7. CASE ~(result # "ignored" /\ OverThreshold(window))
  <2>1. /\ breaker'.generation = breaker.generation /\ breaker'.current = "closed"
        /\ FieldsOK(breaker)'
    BY <1>1, <1>4, <1>5, <1>7 DEF FieldsOK
  <2>2. PermitsOK(breaker)'
    BY <1>1, <2>1 DEF PermitsOK, CallTypes
  <2>3. ProbesOK(breaker)'
    BY <2>1 DEF ProbesOK
  <2>4. /\ Cardinality(CountedOf(breaker)') = Cardinality(CountedOf(breaker))
                                                + AsCount(result # "ignored")
        /\ Cardinality(FailedOf(breaker)') = Cardinality(FailedOf(breaker))
                                               + AsCount(result = "failure")
        /\ Cardinality(CountedOf(breaker)) \in Nat /\ Cardinality(FailedOf(breaker)) \in Nat
    BY <2>1, SettleCounts, KindsOf
  <2>5. WindowOK(breaker)'
    <3>1. CASE result = "ignored"
      BY <1>1, <1>2, <1>5, <2>1, <2>4, <3>1 DEF WindowOK, AsCount
    <3>2. CASE result # "ignored"
      <4>1. /\ breaker'.window = window /\ ~OverThreshold(window)
            /\ Cardinality(CountedOf(breaker)') = Cardinality(CountedOf(breaker)) + 1
            /\ AsCount(failure) \in Nat
        BY <1>4, <1>5, <1>7, <2>4, <3>2 DEF AsCount
      <4>2. WindowStats(window).total <= Cardinality(CountedOf(breaker)')
        BY <1>1, <1>3, <2>4, <4>1 DEF WindowOK
      <4>3. WindowStats(window).failures <= Cardinality(FailedOf(breaker)')
        <5> HIDE DEF failure
        <5>1. Cardinality(FailedOf(breaker)') = Cardinality(FailedOf(breaker)) + AsCount(failure)
          BY <2>4 DEF failure
        <5> QED
          BY <1>1, <1>3, <2>4, <4>1, <5>1 DEF WindowOK
      <4>4. ASSUME WindowType = "count"
            PROVE  WindowStats(window).total = IF Cardinality(CountedOf(breaker)') < WindowSize
                                               THEN Cardinality(CountedOf(breaker)') ELSE WindowSize
        BY <1>1, <1>3, <2>4, <4>1, <4>4, ConstantsAssumption DEF WindowOK
      <4> QED
        BY <1>2, <4>1, <4>2, <4>3, <4>4 DEF WindowOK
    <3> QED
      BY <3>1, <3>2
  <2> QED
    BY <2>1, <2>2, <2>3, <2>5 DEF Consistent
<1> QED
  BY <1>6, <1>7

(* A probe that is ignored gives its place back, one that counts is        *)
(* finished, and the last one decides.                                     *)
LEMMA ReleaseProbeKeepsConsistent ==
    ASSUME Inv, NEW c \in Calls, NEW result \in {"success", "failure", "ignored"},
           pc[c] = "inside", c \in Of(breaker), breaker.current = "half-open",
           breaker' = ReleaseProbe(breaker, result),
           outcome' = [outcome EXCEPT ![c] = result],
           pc' = [pc EXCEPT ![c] = "done"], UNCHANGED <<now, permit>>, CallTypes'
    PROVE  Consistent(breaker)'
<1> DEFINE finished == breaker.probes.finished + 1
           failures == breaker.probes.failures + AsCount(result = "failure")
           new == [started |-> breaker.probes.started, finished |-> finished,
                   failures |-> failures]
           counted == [breaker EXCEPT !.probes = new]
<1>1. /\ FieldsOK(breaker) /\ PermitsOK(breaker) /\ ProbesOK(breaker)
      /\ CallTypes /\ breaker \in Fields /\ now \in Nat /\ HalfOpenMaxCalls \in Nat
      /\ breaker.probes \in [started : Nat, finished : Nat, failures : Nat]
  BY ConstantsAssumption DEF Inv, Consistent, FieldsOK, Fields, CallTypes
<1>2. /\ breaker.probes.started = breaker.probes.finished + Cardinality(InsideOf(breaker))
      /\ breaker.probes.started <= HalfOpenMaxCalls
      /\ breaker.probes.finished = Cardinality(CountedOf(breaker))
      /\ breaker.probes.failures = Cardinality(FailedOf(breaker))
      /\ breaker.probes.finished < HalfOpenMaxCalls
  BY <1>1 DEF ProbesOK
<1>3. /\ Cardinality(InsideOf(breaker)) \in Nat /\ Cardinality(InsideOf(breaker)) > 0
  <2>1. c \in InsideOf(breaker)
    BY DEF InsideOf
  <2> QED
    BY <2>1, KindsOf, CountsFinite, FS_EmptySet
<1>4. AsCount(result = "failure") \in Nat /\ failures \in Nat /\ finished \in Nat
  BY <1>1 DEF AsCount
<1>5. /\ counted \in Fields /\ FieldsOK(counted) /\ counted.current = "half-open"
      /\ counted.generation = breaker.generation /\ counted.probes = new
      /\ new.started = breaker.probes.started /\ new.finished = finished
      /\ new.failures = failures
  <2>1. new \in [started : Nat, finished : Nat, failures : Nat]
    BY <1>1, <1>4
  <2> HIDE DEF new
  <2> QED
    BY <1>1, <2>1 DEF Fields, FieldsOK, new
<1>6. breaker' = IF result = "ignored" THEN [breaker EXCEPT !.probes.started = @ - 1]
                 ELSE IF finished < HalfOpenMaxCalls THEN counted
                 ELSE Transition(counted, IF RateReached(failures, finished)
                                          THEN "open" ELSE "closed")
  BY DEF ReleaseProbe
<1> HIDE DEF counted, new, failures, finished
<1>7. CASE result # "ignored" /\ ~(finished < HalfOpenMaxCalls)
  <2>1. \A d \in Calls : permit'[d].generation <= counted.generation
    BY <1>1, <1>5 DEF PermitsOK
  <2>2. PICK to \in States : breaker' = Transition(counted, to)
    BY <1>6, <1>7 DEF States
  <2> QED
    BY <1>1, <1>5, <2>1, <2>2, TransitionStep
<1>8. CASE result = "ignored" \/ finished < HalfOpenMaxCalls
  <2>1. /\ breaker' \in Fields /\ breaker'.openedAt = breaker.openedAt
        /\ breaker'.generation = breaker.generation /\ breaker'.current = "half-open"
        /\ result = "ignored" =>
               /\ breaker'.probes.started = breaker.probes.started - 1
               /\ breaker'.probes.finished = breaker.probes.finished
               /\ breaker'.probes.failures = breaker.probes.failures
        /\ result # "ignored" =>
               /\ breaker'.probes.started = breaker.probes.started
               /\ breaker'.probes.finished = finished
               /\ breaker'.probes.failures = failures
               /\ finished < HalfOpenMaxCalls
    <3>1. CASE result = "ignored"
      <4>1. breaker' = [breaker EXCEPT !.probes.started = @ - 1]
        BY <1>6, <3>1
      <4>2. breaker.probes.started - 1 \in Nat
        BY <1>1, <1>2, <1>3
      <4> QED
        BY <1>1, <3>1, <4>1, <4>2 DEF Fields
    <3>2. CASE result # "ignored"
      <4>1. breaker' = counted /\ finished < HalfOpenMaxCalls
        BY <1>6, <1>8, <3>2
      <4>2. counted.openedAt = breaker.openedAt
        BY <1>1 DEF counted, Fields
      <4> QED
        BY <1>5, <3>2, <4>1, <4>2
    <3> QED
      BY <3>1, <3>2
  <2>2. FieldsOK(breaker)'
    BY <1>1, <2>1 DEF FieldsOK
  <2>3. PermitsOK(breaker)'
    BY <1>1, <2>1 DEF PermitsOK, CallTypes
  <2>4. WindowOK(breaker)'
    BY <2>1 DEF WindowOK
  <2>5. /\ Cardinality(InsideOf(breaker)') = Cardinality(InsideOf(breaker)) - 1
        /\ Cardinality(CountedOf(breaker)') = Cardinality(CountedOf(breaker))
                                                + AsCount(result # "ignored")
        /\ Cardinality(FailedOf(breaker)') = Cardinality(FailedOf(breaker))
                                               + AsCount(result = "failure")
        /\ Cardinality(CountedOf(breaker)) \in Nat /\ Cardinality(FailedOf(breaker)) \in Nat
    BY <2>1, SettleCounts, KindsOf
  <2>6. ProbesOK(breaker)'
    <3>1. CASE result = "ignored"
      BY <1>1, <1>2, <1>3, <2>1, <2>5, <3>1 DEF ProbesOK, AsCount
    <3>2. CASE result # "ignored"
      <4>1. Cardinality(CountedOf(breaker)') = Cardinality(CountedOf(breaker)) + 1
        BY <2>5, <3>2 DEF AsCount
      <4> QED
        BY <1>1, <1>2, <1>3, <2>1, <2>5, <3>2, <4>1 DEF ProbesOK, finished, failures
    <3> QED
      BY <3>1, <3>2
  <2> QED
    BY <2>2, <2>3, <2>4, <2>6 DEF Consistent
<1> QED
  BY <1>7, <1>8

(* So however a call settles, the invariant is kept.                       *)
LEMMA SettleKeepsInv ==
    ASSUME Inv, NEW c \in Calls, Settle(c)
    PROVE  Inv'
<1>1. PICK result \in {"success", "failure", "ignored"} :
         /\ pc[c] = "inside"
         /\ breaker' = Release(breaker, permit[c], result)
         /\ outcome' = [outcome EXCEPT ![c] = result]
         /\ pc' = [pc EXCEPT ![c] = "done"]
         /\ UNCHANGED <<now, permit, commands>>
         /\ CallTypes'
  BY SettleCalls
<1>2. Consistent(breaker)'
  <2>1. CASE c \notin Of(breaker)
    <3>1. breaker' = breaker
      BY <1>1, <2>1 DEF Release, Of
    <3> QED
      BY <1>1, <2>1, <3>1, StaleKeepsConsistent
  <2>2. CASE c \in Of(breaker)
    <3>1. /\ permit[c].generation = breaker.generation /\ breaker.current \in States
          /\ breaker.current # "open"
          /\ permit[c].halfOpen <=> breaker.current = "half-open"
      BY <2>2 DEF Of, Inv, Consistent, PermitsOK, FieldsOK, Fields
    <3>2. CASE breaker.current = "closed"
      <4>1. breaker' = ReleaseClosed(breaker, result)
        BY <1>1, <3>1, <3>2 DEF Release
      <4> QED
        BY <1>1, <2>2, <3>2, <4>1, ReleaseClosedKeepsConsistent
    <3>3. CASE breaker.current = "half-open"
      <4>1. breaker' = ReleaseProbe(breaker, result)
        BY <1>1, <3>1, <3>3 DEF Release
      <4> QED
        BY <1>1, <2>2, <3>3, <4>1, ReleaseProbeKeepsConsistent
    <3> QED
      BY <3>1, <3>2, <3>3 DEF States
  <2> QED
    BY <2>1, <2>2
<1> QED
  BY <1>1, <1>2 DEF Inv

-----------------------------------------------------------------------------
(* The other steps.                                                        *)

(* A call arrives, with or without a listener that gives a command.        *)
LEMMA ArriveKeepsInv ==
    ASSUME Inv, NEW c \in Calls, Arrive(c) \/ ArriveWithListener(c)
    PROVE  Inv'
<1>1. CallTypes /\ Consistent(breaker) /\ Consistent(CheckOpenDuration(breaker))
  BY CheckKeepsConsistent DEF Inv
<1>2. PICK b : Consistent(b) /\ Admit(c, b)
  <2>1. CASE Arrive(c)
    BY <1>1, <2>1 DEF Arrive
  <2>2. CASE ArriveWithListener(c)
    <3>1. PICK to \in {"open", "closed"} : Admit(c, Transition(CheckOpenDuration(breaker), to))
      BY <2>2 DEF ArriveWithListener
    <3>2. Consistent(Transition(CheckOpenDuration(breaker), to))
      BY <1>1, FreshGeneration DEF Consistent, PermitsOK, States
    <3> QED
      BY <3>1, <3>2
  <2> QED
    BY <2>1, <2>2
<1>3. pc[c] = "new" /\ UNCHANGED <<now, signal>>
  BY DEF Arrive, ArriveWithListener
<1>4. commands' \in 0 .. MaxCommands
  BY ConstantsAssumption DEF Inv, Arrive, ArriveWithListener
<1> QED
  BY <1>1, <1>2, <1>3, <1>4, AdmitKeepsInv DEF Inv

(* What WindowStats and the counts say of unchanged fields.                *)
LEMMA SameKeepsInv ==
    ASSUME Inv, UNCHANGED <<breaker, now, pc, permit, outcome, commands>>,
           signal' \in [Calls -> Signals]
    PROVE  Inv'
<1>1. \A w : WindowStats(w)' = WindowStats(w) /\ OverThreshold(w)' = OverThreshold(w)
  BY DEF WindowStats, OverThreshold
<1>2. /\ InsideOf(breaker)' = InsideOf(breaker)
      /\ CountedOf(breaker)' = CountedOf(breaker) /\ FailedOf(breaker)' = FailedOf(breaker)
  BY DEF Of, InsideOf, CountedOf, FailedOf
<1>3. CallTypes'
  BY DEF Inv, CallTypes
<1>4. FieldsOK(breaker)' /\ PermitsOK(breaker)'
  BY DEF Inv, Consistent, FieldsOK, PermitsOK
<1>5. ProbesOK(breaker)'
  BY <1>2 DEF Inv, Consistent, ProbesOK
<1>6. WindowOK(breaker)'
  BY <1>1, <1>2 DEF Inv, Consistent, WindowOK
<1> QED
  BY <1>3, <1>4, <1>5, <1>6 DEF Inv, Consistent

(* trip() and reset().                                                     *)
LEMMA CommandKeepsInv ==
    ASSUME Inv, Trip \/ Reset
    PROVE  Inv'
<1>1. PICK to \in {"open", "closed"} : Command(to)
  BY DEF Trip, Reset
<1>2. CallTypes' /\ UNCHANGED now /\ commands' \in 0 .. MaxCommands
  BY <1>1, ConstantsAssumption DEF Command, Inv, CallTypes
<1>3. \A c \in Calls : permit'[c].generation <= breaker.generation
  BY <1>1 DEF Command, Inv, Consistent, PermitsOK
<1>4. Consistent(breaker)'
  BY <1>1, <1>2, <1>3, TransitionStep DEF Command, Inv, Consistent, CallTypes, States
<1> QED
  BY <1>2, <1>4 DEF Inv

(* The `state` getter.                                                     *)
LEMMA ReadKeepsInv ==
    ASSUME Inv, ReadState
    PROVE  Inv'
<1>1. CASE OpenDurationPassed(breaker)
  <2>1. CallTypes' /\ UNCHANGED <<now, commands>>
    BY DEF ReadState, Inv, CallTypes
  <2>2. \A c \in Calls : permit'[c].generation <= breaker.generation
    BY DEF ReadState, Inv, Consistent, PermitsOK
  <2>3. breaker' = Transition(breaker, "half-open")
    BY <1>1 DEF ReadState, CheckOpenDuration
  <2>4. Consistent(breaker)'
    BY <2>1, <2>2, <2>3, TransitionStep DEF Inv, Consistent, CallTypes, States
  <2> QED
    BY <2>1, <2>4 DEF Inv
<1>2. CASE ~OpenDurationPassed(breaker)
  BY <1>2, SameKeepsInv DEF ReadState, CheckOpenDuration, Inv, CallTypes
<1> QED
  BY <1>1, <1>2

(* Time passes: what a time window reports shrinks.                        *)
LEMMA TickKeepsInv ==
    ASSUME Inv, Tick
    PROVE  Inv'
<1>1. now \in Nat /\ now' = now + 1 /\ UNCHANGED <<breaker, pc, permit, signal, outcome, commands>>
  BY DEF Tick, Inv, CallTypes
<1>2. /\ InsideOf(breaker)' = InsideOf(breaker)
      /\ CountedOf(breaker)' = CountedOf(breaker) /\ FailedOf(breaker)' = FailedOf(breaker)
  BY <1>1 DEF Of, InsideOf, CountedOf, FailedOf
<1>3. CallTypes'
  BY <1>1 DEF Inv, CallTypes
<1>4. FieldsOK(breaker)'
  BY <1>1 DEF Inv, Consistent, FieldsOK, Fields
<1>5. PermitsOK(breaker)' /\ ProbesOK(breaker)'
  BY <1>1, <1>2 DEF Inv, Consistent, PermitsOK, ProbesOK
<1>6. WindowOK(breaker)'
  <2>1. CASE WindowType = "count"
    <3>1. \A w : WindowStats(w)' = WindowStats(w) /\ OverThreshold(w)' = OverThreshold(w)
      BY <2>1 DEF WindowStats, OverThreshold
    <3> QED
      BY <1>1, <1>2, <3>1 DEF Inv, Consistent, WindowOK
  <2>2. CASE WindowType = "time"
    <3>0. breaker.window \in TimeWindows(Buckets)
      BY <2>2 DEF Inv, Consistent, FieldsOK, Fields, Windows
    <3>1. /\ TimeStats(breaker.window, Buckets, Width, now + 1).total
                 <= TimeStats(breaker.window, Buckets, Width, now).total
          /\ TimeStats(breaker.window, Buckets, Width, now + 1).failures
                 <= TimeStats(breaker.window, Buckets, Width, now).failures
      BY <1>1, <3>0, ConstantsAssumption, TimeStatsShrink
    <3>2. /\ WindowStats(breaker.window)'
                 = TimeStats(breaker.window, Buckets, Width, now + 1)
          /\ WindowStats(breaker.window) = TimeStats(breaker.window, Buckets, Width, now)
      BY <1>1, <2>2 DEF WindowStats
    <3>3. /\ WindowStats(breaker.window).total \in Int
          /\ WindowStats(breaker.window).failures \in Int
          /\ WindowStats(breaker.window)'.total \in Int
          /\ WindowStats(breaker.window)'.failures \in Int
          /\ Cardinality(CountedOf(breaker)) \in Int /\ Cardinality(FailedOf(breaker)) \in Int
      <4>1. now + 1 \in Nat
        BY <1>1
      <4> QED
        BY <1>1, <3>0, <3>2, <4>1, ConstantsAssumption, TimeStatsType, KindsOf
    <3> QED
      BY <1>1, <1>2, <2>2, <3>1, <3>2, <3>3 DEF Inv, Consistent, WindowOK
  <2> QED
    BY <2>1, <2>2, ConstantsAssumption
<1> QED
  BY <1>1, <1>3, <1>4, <1>5, <1>6 DEF Inv, Consistent

-----------------------------------------------------------------------------
(* The invariant.                                                          *)

(* A new breaker is closed, with an empty window and nobody inside.        *)
LEMMA InitInv == Init => Inv
<1> SUFFICES ASSUME Init PROVE Inv
  OBVIOUS
<1>1. CallTypes /\ commands \in 0 .. MaxCommands
  BY ConstantsAssumption DEF Init, CallTypes, NoPermit, Signals
<1>2. /\ breaker.current = "closed" /\ breaker.generation = 0 /\ breaker.openedAt = 0
      /\ breaker.window = WindowReset /\ breaker.probes = NoProbes
  BY DEF Init
<1>3. WindowReset \in Windows
  BY <1>1, ResetEmpties DEF CallTypes
<1>4. FieldsOK(breaker)
  BY <1>3 DEF Init, FieldsOK, Fields, NoProbes, States
<1>5. /\ \A c \in Calls : permit[c].generation = -1
      /\ CountedOf(breaker) = {} /\ FailedOf(breaker) = {}
  BY <1>2 DEF Init, NoPermit, Of, CountedOf, FailedOf
<1>6. PermitsOK(breaker) /\ ProbesOK(breaker)
  BY <1>2, <1>5 DEF PermitsOK, ProbesOK
<1>7. WindowOK(breaker)
  <2>1. Cardinality({}) = 0
    BY FS_EmptySet
  <2> QED
    BY <1>1, <1>2, <1>5, <2>1, ResetEmpties, ConstantsAssumption DEF WindowOK, CallTypes
<1> QED
  BY <1>1, <1>4, <1>6, <1>7 DEF Inv, Consistent

(* Every step keeps the invariant.                                         *)
LEMMA NextKeepsInv == Inv /\ [Next]_vars => Inv'
<1> SUFFICES ASSUME Inv, [Next]_vars PROVE Inv'
  OBVIOUS
<1>1. CASE UNCHANGED vars
  BY <1>1, SameKeepsInv DEF vars, Inv, CallTypes
<1>2. ASSUME NEW c \in Calls, Arrive(c) \/ ArriveWithListener(c)
      PROVE  Inv'
  BY <1>2, ArriveKeepsInv
<1>3. ASSUME NEW c \in Calls, Abort(c)
      PROVE  Inv'
  <2>1. signal' \in [Calls -> Signals] /\ UNCHANGED <<breaker, now, pc, permit, outcome, commands>>
    BY <1>3 DEF Abort, Inv, CallTypes, Signals
  <2> QED
    BY <2>1, SameKeepsInv
<1>4. ASSUME NEW c \in Calls, Settle(c)
      PROVE  Inv'
  BY <1>4, SettleKeepsInv
<1> QED
  BY <1>1, <1>2, <1>3, <1>4, CommandKeepsInv, ReadKeepsInv, TickKeepsInv DEF Next

(* So the invariant holds for any calls and options.                       *)
THEOREM InvHolds == Spec => []Inv
  BY InitInv, NextKeepsInv, PTL DEF Spec

-----------------------------------------------------------------------------
(* What the invariant says.                                                *)

(* The names of the properties for the present fields.                     *)
LEMMA PresentFields ==
    /\ Current = Of(breaker) /\ Probing = InsideOf(breaker)
    /\ Counted = CountedOf(breaker) /\ Failed = FailedOf(breaker)
  BY DEF Current, Probing, Counted, Failed, Of, InsideOf, CountedOf, FailedOf

(* The fields are of their types, and the breaker opened in the past.      *)
THEOREM TypesHold == Spec => []TypeOK
<1>1. Inv => TypeOK
  <2> SUFFICES ASSUME Inv PROVE TypeOK
    OBVIOUS
  <2>1. breaker \in Fields /\ breaker.openedAt \in 0 .. now
    BY DEF Inv, Consistent, CallTypes, FieldsOK, Fields
  <2>2. breaker \in [current : States, generation : Nat, openedAt : 0 .. now,
                     window : Windows,
                     probes : [started : Nat, finished : Nat, failures : Nat]]
    BY <2>1 DEF Fields
  <2> QED
    BY <2>2 DEF TypeOK, Inv, CallTypes
<1> QED
  BY InvHolds, <1>1, PTL

(* Every place of a half-open breaker is held by a probe that is inside or *)
(* one that counted, and there are halfOpenMaxCalls of them.               *)
THEOREM EveryProbeAccounted == Spec => []ProbesAccounted
<1>1. Inv => ProbesAccounted
  BY PresentFields DEF Inv, Consistent, ProbesOK, ProbesAccounted, HalfOpen
<1> QED
  BY InvHolds, <1>1, PTL

(* A closed breaker's window, of either kind, holds outcomes of calls that *)
(* were admitted since it closed and no others.                            *)
THEOREM WindowIsOfThisGeneration == Spec => []WindowHoldsThisGeneration
<1>1. Inv => WindowHoldsThisGeneration
  BY PresentFields DEF Inv, Consistent, WindowOK, WindowHoldsThisGeneration, Closed
<1> QED
  BY InvHolds, <1>1, PTL

(* No breaker with a count window is closed over its threshold.            *)
THEOREM NeverClosedOverThreshold == Spec => []ClosedBelowThreshold
<1>1. Inv => ClosedBelowThreshold
  BY DEF Inv, Consistent, WindowOK, ClosedBelowThreshold, Closed
<1> QED
  BY InvHolds, <1>1, PTL

-----------------------------------------------------------------------------
(* What steps do.                                                          *)

(* acquire() leaves the window alone and the state too.                    *)
LEMMA AdmitKeepsWindow ==
    ASSUME NEW b \in Fields, NEW c \in Calls, Admit(c, b)
    PROVE  breaker'.window = b.window /\ breaker'.current = b.current
  BY DEF Admit, Fields

(* release() records what it records, or starts a new generation.          *)
LEMMA ReleaseOutcomes ==
    ASSUME Inv, NEW c \in Calls, NEW result \in {"success", "failure", "ignored"},
           breaker' = Release(breaker, permit[c], result),
           breaker'.window # breaker.window, breaker'.current = "closed"
    PROVE  ~OverThreshold(breaker'.window)
<1> DEFINE failure == result = "failure"
           window == WindowRecord(breaker.window, failure)
           recorded == [breaker EXCEPT !.window = window]
<1>1. /\ now \in Nat /\ breaker \in Fields /\ FieldsOK(breaker)
      /\ permit[c].generation = breaker.generation
      /\ breaker.current = "closed" \/ permit[c].halfOpen
      /\ permit[c].halfOpen => breaker.current = "half-open"
  BY DEF Inv, Consistent, CallTypes, FieldsOK, Fields, PermitsOK, Release, States
<1>2. CASE permit[c].halfOpen
  <2> DEFINE finished == breaker.probes.finished + 1
             failures == breaker.probes.failures + AsCount(result = "failure")
             new == [started |-> breaker.probes.started, finished |-> finished,
                     failures |-> failures]
             counted == [breaker EXCEPT !.probes = new]
  <2>1. breaker' = IF result = "ignored" THEN [breaker EXCEPT !.probes.started = @ - 1]
                   ELSE IF finished < HalfOpenMaxCalls THEN counted
                   ELSE Transition(counted, IF RateReached(failures, finished)
                                            THEN "open" ELSE "closed")
    BY <1>1, <1>2 DEF Release, ReleaseProbe
  <2> HIDE DEF new, finished, failures
  <2>2. counted.window = breaker.window /\ counted.current = "half-open"
    BY <1>1, <1>2 DEF Fields
  <2> HIDE DEF counted
  <2>3. breaker' = Transition(counted, "closed")
    BY <1>1, <1>2, <2>1, <2>2 DEF Fields, Transition
  <2>4. breaker'.window = WindowReset
    BY <2>3 DEF Transition
  <2> QED
    BY <1>1, <2>4, ResetEmpties
<1>3. CASE ~permit[c].halfOpen
  <2>1. breaker' = IF result = "ignored" THEN breaker
                   ELSE IF OverThreshold(recorded.window) THEN Transition(recorded, "open")
                   ELSE recorded
    BY <1>1, <1>3 DEF Release, ReleaseClosed
  <2> HIDE DEF recorded
  <2>2. breaker' = recorded /\ ~OverThreshold(recorded.window)
    BY <2>1 DEF Transition
  <2> QED
    BY <2>2
<1> QED
  BY <1>2, <1>3

(* Whatever is recorded, of either window, the breaker is not left closed  *)
(* over its threshold.                                                     *)
THEOREM RecordsStayBelowThreshold == Spec => NeverRecordsPastThreshold
<1> DEFINE Good == breaker'.window # breaker.window /\ breaker'.current = "closed"
                       => ~OverThreshold(breaker'.window)
<1>1. Inv /\ [Next]_vars => [Good]_vars
  <2> SUFFICES ASSUME Inv, Next, breaker'.window # breaker.window, breaker'.current = "closed"
               PROVE  ~OverThreshold(breaker'.window)
    OBVIOUS
  <2>0. /\ now \in Nat /\ breaker \in Fields /\ FieldsOK(breaker)
        /\ CheckOpenDuration(breaker) \in Fields /\ FieldsOK(CheckOpenDuration(breaker))
        /\ CheckOpenDuration(breaker).window = breaker.window
    <3>1. now \in Nat /\ breaker \in Fields /\ FieldsOK(breaker)
      BY DEF Inv, Consistent, CallTypes, FieldsOK
    <3>2. FieldsOK(Transition(breaker, "half-open"))
      BY <3>1, TransitionFields DEF States
    <3> QED
      BY <3>1, <3>2 DEF CheckOpenDuration, FieldsOK, Transition
  <2>1. ASSUME NEW c \in Calls, Arrive(c)
        PROVE  FALSE
    BY <2>0, <2>1, AdmitKeepsWindow DEF Arrive
  <2>2. ASSUME NEW c \in Calls, ArriveWithListener(c)
        PROVE  breaker'.window = WindowReset
    <3>1. PICK to \in {"open", "closed"} : Admit(c, Transition(CheckOpenDuration(breaker), to))
      BY <2>2 DEF ArriveWithListener
    <3> DEFINE b == Transition(CheckOpenDuration(breaker), to)
    <3>2. b \in Fields /\ b.current = to /\ (to = "closed" => b.window = WindowReset)
      BY <2>0, TransitionFields DEF States, FieldsOK
    <3> HIDE DEF b
    <3> QED
      BY <3>1, <3>2, AdmitKeepsWindow DEF b
  <2>3. ASSUME NEW c \in Calls, Settle(c)
        PROVE  ~OverThreshold(breaker'.window)
    <3>1. PICK result \in {"success", "failure", "ignored"} :
             breaker' = Release(breaker, permit[c], result)
      BY <2>3, SettleCalls
    <3> QED
      BY <3>1, ReleaseOutcomes
  <2>4. ASSUME Trip \/ Reset
        PROVE  breaker'.window = WindowReset
    BY <2>4 DEF Trip, Reset, Command, Transition
  <2>5. ~ReadState /\ ~Tick /\ \A c \in Calls : ~Abort(c)
    BY <2>0 DEF ReadState, Tick, Abort
  <2> QED
    BY <2>0, <2>1, <2>2, <2>3, <2>4, <2>5, ResetEmpties DEF Next
<1> QED
  BY InvHolds, <1>1, PTL DEF Spec, NeverRecordsPastThreshold

(* The probe that leaves the half-open state is the last that counts, and  *)
(* the state is the one that the failure rate of all of them asks for.     *)
LEMMA LastProbeDecides ==
    ASSUME Inv, NEW c \in Calls, Settle(c), HalfOpen, breaker'.current # "half-open"
    PROVE  LET counted == {d \in Current : outcome'[d] \in {"success", "failure"}}
               failed == {d \in counted : outcome'[d] = "failure"}
           IN  /\ Cardinality(counted) = HalfOpenMaxCalls
               /\ breaker'.current =
                      IF RateReached(Cardinality(failed), HalfOpenMaxCalls)
                      THEN "open" ELSE "closed"
<1> DEFINE counted == {d \in Current : outcome'[d] \in {"success", "failure"}}
           failed == {d \in counted : outcome'[d] = "failure"}
<1>1. PICK result \in {"success", "failure", "ignored"} :
         /\ pc[c] = "inside"
         /\ breaker' = Release(breaker, permit[c], result)
         /\ outcome' = [outcome EXCEPT ![c] = result]
  BY SettleCalls
<1>2. /\ CallTypes /\ breaker \in Fields /\ ProbesOK(breaker) /\ HalfOpenMaxCalls \in Nat
      /\ breaker.probes \in [started : Nat, finished : Nat, failures : Nat]
      /\ breaker.current = "half-open"
  BY ConstantsAssumption DEF Inv, Consistent, FieldsOK, Fields, HalfOpen
<1>3. c \in Current /\ permit[c].halfOpen /\ breaker' = ReleaseProbe(breaker, result)
  BY <1>1, <1>2 DEF Release, Inv, Consistent, PermitsOK, Current
<1> DEFINE finished == breaker.probes.finished + 1
           failures == breaker.probes.failures + AsCount(result = "failure")
           new == [started |-> breaker.probes.started, finished |-> finished,
                   failures |-> failures]
           after == [breaker EXCEPT !.probes = new]
           to == IF RateReached(failures, finished) THEN "open" ELSE "closed"
<1>4. breaker' = IF result = "ignored" THEN [breaker EXCEPT !.probes.started = @ - 1]
                 ELSE IF finished < HalfOpenMaxCalls THEN after
                 ELSE Transition(after, to)
  BY <1>3 DEF ReleaseProbe
<1>5. /\ result # "ignored" /\ ~(finished < HalfOpenMaxCalls)
      /\ breaker'.current = to
  <2> HIDE DEF new, finished, to
  <2>1. after.current = "half-open"
    BY <1>2 DEF Fields
  <2>2. [breaker EXCEPT !.probes.started = @ - 1].current = "half-open"
    BY <1>2 DEF Fields
  <2> HIDE DEF after
  <2> QED
    BY <1>4, <2>1, <2>2 DEF Transition
<1>6. /\ breaker.probes.finished = Cardinality(CountedOf(breaker))
      /\ breaker.probes.failures = Cardinality(FailedOf(breaker))
      /\ breaker.probes.finished < HalfOpenMaxCalls
  BY <1>2 DEF ProbesOK
<1>7. /\ counted = CountedOf(breaker) \cup {c} /\ c \notin CountedOf(breaker)
      /\ failed = IF result = "failure" THEN FailedOf(breaker) \cup {c} ELSE FailedOf(breaker)
      /\ c \notin FailedOf(breaker)
  <2>1. \A d \in Calls : outcome'[d] = IF d = c THEN result ELSE outcome[d]
    BY <1>1, <1>2 DEF CallTypes
  <2>2. \A d \in Calls : outcome[d] \in {"success", "failure"} => pc[d] = "done"
    BY <1>2 DEF CallTypes
  <2>3. result \in {"success", "failure"}
    BY <1>5
  <2>4. Current \subseteq Calls
    BY DEF Current
  <2>5. c \notin CountedOf(breaker) /\ c \notin FailedOf(breaker)
    BY <1>1 DEF CountedOf, FailedOf
  <2>6. counted = CountedOf(breaker) \cup {c}
    BY <1>3, <2>1, <2>2, <2>3, <2>4 DEF CountedOf, Of, Current
  <2>7. failed = IF result = "failure" THEN FailedOf(breaker) \cup {c} ELSE FailedOf(breaker)
    <3> HIDE DEF counted
    <3>1. CountedOf(breaker) \subseteq Calls
      BY KindsOf
    <3> QED
      BY <2>1, <2>5, <2>6, <3>1 DEF FailedOf
  <2> QED
    BY <2>5, <2>6, <2>7
<1> HIDE DEF counted, failed
<1>8. Cardinality(counted) = finished /\ finished = HalfOpenMaxCalls
  BY <1>2, <1>5, <1>6, <1>7, KindsOf, OneMore
<1>9. Cardinality(failed) = failures
  BY <1>2, <1>6, <1>7, KindsOf, OneMore DEF AsCount
<1> HIDE DEF finished, failures
<1> QED
  BY <1>5, <1>8, <1>9 DEF counted, failed

(* Left to its probes, a half-open breaker is decided by all of them.      *)
THEOREM AllProbesDecide == Spec => ProbesDecide
<1> DEFINE counted == {c \in Current : outcome'[c] \in {"success", "failure"}}
           failed == {c \in counted : outcome'[c] = "failure"}
           Decided == /\ Cardinality(counted) = HalfOpenMaxCalls
                      /\ breaker'.current =
                             IF RateReached(Cardinality(failed), HalfOpenMaxCalls)
                             THEN "open" ELSE "closed"
           Good == HalfOpen /\ breaker'.current # "half-open" /\ commands' = commands => Decided
<1>1. Inv /\ [Next]_vars => [Good]_vars
  <2> SUFFICES ASSUME Inv, Next, HalfOpen, breaker'.current # "half-open", commands' = commands
               PROVE  Decided
    OBVIOUS
  <2>0. /\ breaker \in Fields /\ breaker.current = "half-open" /\ commands \in Int
        /\ CheckOpenDuration(breaker) = breaker
    BY DEF Inv, Consistent, FieldsOK, HalfOpen, CheckOpenDuration, OpenDurationPassed
  <2>1. ASSUME NEW c \in Calls, Settle(c)
        PROVE  Decided
    BY <2>1, LastProbeDecides
  <2> HIDE DEF Decided
  <2>2. \A c \in Calls : ~Arrive(c) /\ ~ArriveWithListener(c) /\ ~Abort(c)
    BY <2>0, AdmitKeepsWindow DEF Arrive, ArriveWithListener, Abort
  <2>3. ~Trip /\ ~Reset /\ ~ReadState /\ ~Tick
    BY <2>0 DEF Trip, Reset, Command, ReadState, Tick
  <2> QED
    BY <2>1, <2>2, <2>3 DEF Next
<1> QED
  BY InvHolds, <1>1, PTL DEF Spec, ProbesDecide
=============================================================================
