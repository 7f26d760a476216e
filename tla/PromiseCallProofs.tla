-------------------------- MODULE PromiseCallProofs -------------------------
(***************************************************************************)
(* PromiseCall for any number of executions, attempts and slots: the       *)
(* bulkhead's counter is its load, nothing that was given up waits, late   *)
(* results change nothing, and the breaker is told once of each attempt.   *)
(***************************************************************************)
EXTENDS PromiseCall, StructureTheorems, NaturalsInduction

-----------------------------------------------------------------------------
(* The inductive invariant.                                                *)

Stages == {"new", "trying", "sleeping", "woken", "settled"}
Signals == {"live", "caller", "timeout"}
Places == {"none", "granted", "running", "queued", "over"}
Verdicts == {"none", "ok", "failed", "client", "full", "refused", "caller", "timeout"}

ExecType == [stage : Stages, attempt : Nat, signal : Signals,
             inside : Calls \cup {NoCall}, linked : BOOLEAN, outcome : Verdicts]
CallType == [place : Places, signal : Signals, verdict : Verdicts]

(* The variables have their types.                                         *)
TypeOK ==
    /\ timed \subseteq Execs
    /\ exec \in [Execs -> ExecType]
    /\ call \in [Calls -> CallType]
    /\ running \in Nat
    /\ queue \in Seq(Calls)
    /\ book \in [Execs -> Seq({"success", "failure"})]

Holders == {c \in Calls : call[c].place \in {"granted", "running"}}
InLine == {c \in Calls : call[c].place = "queued"}

(* The counter and the queue are those of the calls.                       *)
SlotsKept ==
    /\ running = Cardinality(Holders)
    /\ running <= MaxConcurrent
    /\ queue # <<>> => running = MaxConcurrent
    /\ Distinct(queue)
    /\ ToSet(queue) = InLine

(* How far an execution is.                                                *)
ProgressOf(e) ==
    /\ exec[e].attempt <= Attempts[e]
    /\ exec[e].stage = "new" => exec[e].attempt = 0 /\ exec[e].signal = "live" /\ ~exec[e].linked
    /\ exec[e].stage \in {"trying", "sleeping", "woken"} => exec[e].attempt > 0
    /\ exec[e].stage \in {"sleeping", "woken"} => exec[e].attempt < Attempts[e]
    /\ exec[e].stage = "sleeping" => exec[e].signal = "live"
    /\ exec[e].stage = "settled" /\ exec[e].attempt = 0 => exec[e].outcome = exec[e].signal
Progress == \A e \in Execs : ProgressOf(e)

(* Nothing has happened to the attempts still to come.                     *)
Ahead == \A c \in Calls : c[2] > exec[c[1]].attempt =>
    call[c].place = "none" /\ call[c].signal = "live" /\ call[c].verdict = "none"

(* An execution inside shares its parent's abort.                          *)
Nested == \A e \in Execs :
    /\ exec[e].inside # NoCall => exec[e].inside \in Calls /\ exec[e].inside[1] = Parent[e]
    /\ exec[e].linked => exec[e].inside # NoCall
    /\ exec[e].linked /\ exec[e].stage # "settled" /\ exec[e].signal = "live" =>
           call[exec[e].inside].signal = "live"

(* Those in line are present attempts that nobody gave up.                 *)
Waiters == \A c \in InLine :
    /\ exec[c[1]].stage = "trying" /\ exec[c[1]].attempt = c[2] /\ exec[c[1]].signal = "live"
    /\ call[c].verdict = "none" /\ call[c].signal = "live"

(* What was decided about an attempt, and what its execution made of it.   *)
DecidedOn(c) ==
    /\ c[2] < exec[c[1]].attempt => call[c].verdict \in {"failed", "timeout"}
    /\ c[2] = exec[c[1]].attempt /\ exec[c[1]].stage \in {"sleeping", "woken"} =>
           call[c].verdict \in {"failed", "timeout"}
    /\ c[2] = exec[c[1]].attempt /\ exec[c[1]].stage = "settled" =>
           /\ call[c].verdict # "none"
           /\ exec[c[1]].outcome \in {call[c].verdict, exec[c[1]].signal}
    /\ c[2] = exec[c[1]].attempt /\ call[c].verdict = "caller" => exec[c[1]].signal = "caller"
    /\ call[c].place \in {"granted", "running"} /\ call[c].verdict # "none" =>
           call[c].verdict = "timeout" /\ call[c].signal # "live"
Decided == \A c \in Calls : DecidedOn(c)

(* What the breaker was told of an execution: a failure for each attempt   *)
(* before the present one, and at most one record of this.                 *)
ToldOf(e) ==
    /\ exec[e].attempt = 0 => book[e] = <<>>
    /\ \A i \in 1 .. Len(book[e]) : i < exec[e].attempt => book[e][i] = "failure"
    /\ exec[e].stage = "trying" => Len(book[e]) = exec[e].attempt - 1
    /\ exec[e].stage \in {"sleeping", "woken"} =>
           Len(book[e]) = exec[e].attempt /\ book[e][exec[e].attempt] = "failure"
    /\ exec[e].stage = "settled" /\ exec[e].attempt > 0 =>
           \/ Len(book[e]) = exec[e].attempt - 1
           \/ /\ Len(book[e]) = exec[e].attempt
              /\ call[Current(e)].verdict \in {"ok", "failed", "timeout"}
              /\ book[e][exec[e].attempt] = "success" <=> call[Current(e)].verdict = "ok"
Told == \A e \in Execs : ToldOf(e)

Inv == TypeOK /\ SlotsKept /\ Progress /\ Ahead /\ Nested /\ Waiters /\ Decided /\ Told

-----------------------------------------------------------------------------
(* The attempts, and the queue that some leave.                            *)

LEMMA CallsAre ==
    /\ \A c \in Calls : c[1] \in Execs /\ c[2] \in 1 .. Attempts[c[1]] /\ c = <<c[1], c[2]>>
    /\ \A e \in Execs : \A k \in 1 .. Attempts[e] : <<e, k>> \in Calls
    /\ NoCall \notin Calls
<1>1. Execs \subseteq Nat \ {0} /\ Attempts \in [Execs -> Nat \ {0}]
  BY ConstantsAssumption
<1>2. \A c \in Calls : c[1] \in Execs /\ c[2] \in 1 .. Attempts[c[1]] /\ c = <<c[1], c[2]>>
  BY DEF Calls
<1>3. \A e \in Execs : \A k \in 1 .. Attempts[e] : <<e, k>> \in Calls
  BY DEF Calls
<1> QED
  BY <1>1, <1>2, <1>3 DEF NoCall

(* There are finitely many: one set of them for each execution.            *)
LEMMA CallsFinite == IsFiniteSet(Calls)
<1> DEFINE of == [e \in Execs |-> {e} \X (1 .. Attempts[e])]
           parts == {of[e] : e \in Execs}
<1>1. IsFiniteSet(parts)
  <2>1. of \in Surjection(Execs, parts)
    BY DEF Surjection
  <2>2. IsFiniteSet(Execs)
    BY ConstantsAssumption
  <2> HIDE DEF of, parts
  <2> QED
    BY <2>1, <2>2, FS_Surjection
<1>2. \A T \in parts : IsFiniteSet(T)
  <2> SUFFICES ASSUME NEW e \in Execs PROVE IsFiniteSet({e} \X (1 .. Attempts[e]))
    OBVIOUS
  <2>1. 1 \in Int /\ Attempts[e] \in Int
    BY ConstantsAssumption
  <2>2. IsFiniteSet(1 .. Attempts[e])
    BY <2>1, FS_Interval
  <2>3. IsFiniteSet({e})
    BY FS_Singleton
  <2> QED
    BY <2>2, <2>3, FS_Product
<1>3. Calls = UNION parts
  BY DEF Calls
<1> HIDE DEF parts
<1> QED
  BY <1>1, <1>2, <1>3, FS_UNION

(* A set of naturals has a least one.                                      *)
LEMMA Least ==
    ASSUME NEW T \in SUBSET Nat, T # {}
    PROVE  \E m \in T : \A n \in T : m <= n
<1>1. PICK m \in T : \A n \in T : ~(<<n, m>> \in OpToRel(<, Nat))
  BY NatLessThanWellFounded, WFMin
<1>2. \A n \in T : ~(n < m)
  BY <1>1 DEF OpToRel
<1> QED
  BY <1>2

(* f[i] is what Remaining keeps of the first i in q, up to n.              *)
Keeps(q, S, n, f) ==
    f = [i \in 0 .. n |-> IF i = 0 THEN <<>>
                          ELSE IF q[i] \in S THEN f[i - 1]
                          ELSE Append(f[i - 1], q[i])]

(* The recursion of Remaining defines a function: there is no least n up   *)
(* to which it does not.                                                   *)
LEMMA KeepsExists ==
    ASSUME NEW q, NEW S, NEW n \in Nat
    PROVE  \E f : Keeps(q, S, n, f)
<1> DEFINE T == {m \in Nat : ~\E f : Keeps(q, S, m, f)}
<1> SUFFICES ASSUME T # {} PROVE FALSE
  OBVIOUS
<1>1. T \in SUBSET Nat
  OBVIOUS
<1>2. PICK m \in T : \A k \in T : m <= k
  <2> HIDE DEF T
  <2> QED
    BY <1>1, Least
<1>3. m \in Nat /\ ~\E f : Keeps(q, S, m, f)
  OBVIOUS
<1>4. m # 0
  <2>1. Keeps(q, S, 0, [i \in 0 .. 0 |-> <<>>])
    BY DEF Keeps
  <2> QED
    BY <1>3, <2>1
<1>5. m - 1 \in Nat /\ m - 1 \notin T
  BY <1>2, <1>3, <1>4
<1>6. PICK f : Keeps(q, S, m - 1, f)
  BY <1>5
<1> DEFINE Step(h, i) == IF i = 0 THEN <<>> ELSE IF q[i] \in S THEN h[i - 1] ELSE Append(h[i - 1], q[i])
           g == [i \in 0 .. m |-> IF i = m THEN Step(f, i) ELSE f[i]]
<1>7. \A i \in 0 .. m : g[i] = Step(g, i)
  <2> SUFFICES ASSUME NEW i \in 0 .. m PROVE g[i] = Step(g, i)
    OBVIOUS
  <2>1. i # 0 => i - 1 \in 0 .. m /\ i - 1 # m
    BY <1>3
  <2>2. Step(g, i) = Step(f, i)
    BY <2>1
  <2>3. CASE i = m
    BY <2>2, <2>3
  <2>4. CASE i # m
    <3>1. i \in 0 .. m - 1
      BY <1>3, <2>4
    <3>2. f[i] = Step(f, i)
      BY <1>6, <3>1 DEF Keeps
    <3> QED
      BY <2>2, <2>4, <3>2
  <2> QED
    BY <2>3, <2>4
<1>8. Keeps(q, S, m, g)
  <2> HIDE DEF g
  <2>1. g = [i \in 0 .. m |-> g[i]]
    BY DEF g
  <2> QED
    BY <1>7, <2>1 DEF Keeps
<1> QED
  BY <1>3, <1>8

(* Who remains: those not in S, in a queue without duplicates.             *)
LEMMA QueueRemaining ==
    ASSUME NEW C, NEW q \in Seq(C), Distinct(q), NEW S
    PROVE  /\ Remaining(q, S) \in Seq(C)
           /\ Distinct(Remaining(q, S))
           /\ ToSet(Remaining(q, S)) = ToSet(q) \ S
<1> DEFINE n == Len(q)
           First(i) == {q[j] : j \in 1 .. i}
<1>1. n \in Nat
  OBVIOUS
<1> DEFINE f == CHOOSE f : Keeps(q, S, n, f)
<1>2. Keeps(q, S, n, f)
  BY <1>1, KeepsExists
<1>3. Remaining(q, S) = f[n]
  BY DEF Remaining, Keeps
<1> HIDE DEF f
<1>4. \A i \in 0 .. n : f[i] = IF i = 0 THEN <<>> ELSE IF q[i] \in S THEN f[i - 1] ELSE Append(f[i - 1], q[i])
  BY <1>2 DEF Keeps
<1> DEFINE Good(i) == f[i] \in Seq(C) /\ Distinct(f[i]) /\ ToSet(f[i]) = First(i) \ S
           T == {i \in 0 .. n : ~Good(i)}
<1> HIDE DEF Good
<1>5. T = {}
  <2> SUFFICES ASSUME T # {} PROVE FALSE
    OBVIOUS
  <2>1. T \in SUBSET Nat
    BY <1>1
  <2>2. PICK i \in T : \A k \in T : i <= k
    <3> HIDE DEF T
    <3> QED
      BY <2>1, Least
  <2>3. i \in 0 .. n /\ ~Good(i)
    OBVIOUS
  <2>4. CASE i = 0
    <3>1. f[i] = <<>> /\ First(i) = {}
      BY <1>1, <1>4, <2>4
    <3>2. <<>> \in Seq(C) /\ Distinct(<<>>) /\ ToSet(<<>>) = {}
      BY DEF Distinct, ToSet
    <3> QED
      BY <2>3, <3>1, <3>2 DEF Good
  <2>5. CASE i # 0
    <3>1. i \in 1 .. n /\ i - 1 \in 0 .. n /\ q[i] \in C
      BY <2>3, <2>5
    <3>2. Good(i - 1)
      <4>1. i - 1 \notin T /\ i \in Nat
        BY <2>2, <3>1
      <4> QED
        BY <3>1, <4>1
    <3>3. First(i) = First(i - 1) \cup {q[i]}
      BY <3>1
    <3>4. q[i] \notin First(i - 1)
      BY <3>1 DEF Distinct
    <3> HIDE DEF First
    <3>5. CASE q[i] \in S
      <4>1. f[i] = f[i - 1]
        BY <1>4, <3>1, <3>5
      <4> QED
        BY <2>3, <3>2, <3>3, <3>5, <4>1 DEF Good
    <3>6. CASE q[i] \notin S
      <4>1. f[i] = Append(f[i - 1], q[i])
        <5>1. i \in 0 .. n /\ i # 0
          BY <3>1
        <5> QED
          BY <1>4, <3>6, <5>1, Zenon
      <4>2. q[i] \notin ToSet(f[i - 1])
        BY <3>2, <3>4 DEF Good
      <4>3. f[i] \in Seq(C) /\ Distinct(f[i]) /\ ToSet(f[i]) = ToSet(f[i - 1]) \cup {q[i]}
        BY <3>1, <3>2, <4>1, <4>2, QueueWith DEF Good
      <4> QED
        BY <2>3, <3>2, <3>3, <3>6, <4>3 DEF Good
    <3> QED
      BY <3>5, <3>6
  <2> QED
    BY <2>4, <2>5
<1>6. Good(n)
  BY <1>1, <1>5
<1>7. First(n) = ToSet(q)
  BY DEF ToSet
<1> QED
  BY <1>3, <1>6, <1>7 DEF Good

-----------------------------------------------------------------------------
(* Beginning an attempt.                                                   *)

(* What Begin does: attempt c of e is granted a slot, joins the queue, or  *)
(* is decided at once.                                                     *)
Begun(e, x, c, place, verdict) ==
    /\ exec' \in [Execs -> ExecType]
    /\ exec'[e] = x
    /\ \A d \in Execs \ {e} : exec'[d] = exec[d]
    /\ call' \in [Calls -> CallType]
    /\ call'[c].place = place /\ call'[c].signal = "live" /\ call'[c].verdict = verdict
    /\ \A d \in Calls \ {c} : call'[d] = call[d]
    /\ \/ /\ place = "granted" /\ verdict = "none" /\ x.signal = "live"
          /\ running < MaxConcurrent /\ running' = running + 1 /\ queue' = queue
       \/ /\ place = "queued" /\ verdict = "none" /\ x.signal = "live"
          /\ running >= MaxConcurrent /\ running' = running /\ queue' = Append(queue, c)
       \/ /\ place = "none" /\ verdict \in {"refused", "full", "caller", "timeout"}
          /\ verdict \in {"caller", "timeout"} => verdict = x.signal
          /\ running' = running /\ queue' = queue

LEMMA BeginEffect ==
    ASSUME TypeOK, NEW e \in Execs, NEW x \in ExecType, NEW refused \in BOOLEAN, Begin(e, x, refused),
           NEW c, c = <<e, x.attempt>>, c \in Calls,
           call[c].place = "none", call[c].signal = "live", call[c].verdict = "none"
    PROVE  \E place \in Places, verdict \in Verdicts : Begun(e, x, c, place, verdict)
<1>1. /\ exec \in [Execs -> ExecType] /\ call \in [Calls -> CallType]
      /\ call[c] \in CallType
  BY DEF TypeOK
<1>2. exec' = [exec EXCEPT ![e] = x]
  BY DEF Begin
<1>3. exec' \in [Execs -> ExecType] /\ exec'[e] = x /\ \A d \in Execs \ {e} : exec'[d] = exec[d]
  BY <1>1, <1>2
<1>4. ASSUME NEW v \in Verdicts, call' = [call EXCEPT ![c].verdict = v]
      PROVE  /\ call' \in [Calls -> CallType]
             /\ call'[c].place = "none" /\ call'[c].signal = "live" /\ call'[c].verdict = v
             /\ \A d \in Calls \ {c} : call'[d] = call[d]
  BY <1>1, <1>4 DEF CallType
<1>5. ASSUME NEW p \in Places, call' = [call EXCEPT ![c].place = p]
      PROVE  /\ call' \in [Calls -> CallType]
             /\ call'[c].place = p /\ call'[c].signal = "live" /\ call'[c].verdict = "none"
             /\ \A d \in Calls \ {c} : call'[d] = call[d]
  BY <1>1, <1>5 DEF CallType
<1>6. CASE /\ refused
           /\ call' = [call EXCEPT ![c].verdict = "refused"] /\ UNCHANGED <<running, queue>>
  <2>1. "refused" \in Verdicts
    BY DEF Verdicts
  <2>2. Begun(e, x, c, "none", "refused")
    BY <1>3, <1>4, <1>6, <2>1 DEF Begun
  <2> QED
    BY <2>1, <2>2 DEF Places
<1>7. CASE /\ x.signal # "live"
           /\ call' = [call EXCEPT ![c].verdict = x.signal] /\ UNCHANGED <<running, queue>>
  <2>1. x.signal \in {"caller", "timeout"} /\ x.signal \in Verdicts
    BY <1>7 DEF ExecType, Signals, Verdicts
  <2>2. Begun(e, x, c, "none", x.signal)
    BY <1>3, <1>4, <1>7, <2>1 DEF Begun
  <2> QED
    BY <2>1, <2>2 DEF Places
<1>8. CASE /\ x.signal = "live" /\ running < MaxConcurrent
           /\ call' = [call EXCEPT ![c].place = "granted"]
           /\ running' = running + 1 /\ UNCHANGED queue
  <2>1. "granted" \in Places
    BY DEF Places
  <2>2. Begun(e, x, c, "granted", "none")
    BY <1>3, <1>5, <1>8, <2>1 DEF Begun
  <2> QED
    BY <2>1, <2>2 DEF Verdicts
<1>9. CASE call' = [call EXCEPT ![c].verdict = "full"] /\ UNCHANGED <<running, queue>>
  <2>1. "full" \in Verdicts
    BY DEF Verdicts
  <2>2. Begun(e, x, c, "none", "full")
    BY <1>3, <1>4, <1>9, <2>1 DEF Begun
  <2> QED
    BY <2>1, <2>2 DEF Places
<1>10. CASE /\ x.signal = "live" /\ running >= MaxConcurrent
            /\ call' = [call EXCEPT ![c].place = "queued"]
            /\ queue' = Append(queue, c) /\ UNCHANGED running
  <2>1. "queued" \in Places
    BY DEF Places
  <2>2. Begun(e, x, c, "queued", "none")
    BY <1>3, <1>5, <1>10, <2>1 DEF Begun
  <2> QED
    BY <2>1, <2>2 DEF Verdicts
<1> QED
  BY <1>6, <1>7, <1>8, <1>9, <1>10 DEF Begin

(* A free slot is taken only when nobody waits, and a queue is joined only *)
(* when all are taken.                                                     *)
LEMMA BeginKeepsSlots ==
    ASSUME Inv, NEW e \in Execs, NEW x, NEW c \in Calls, NEW place, NEW verdict,
           Begun(e, x, c, place, verdict), call[c].place = "none"
    PROVE  SlotsKept' /\ running' \in Nat /\ queue' \in Seq(Calls)
<1>1. /\ running \in Nat /\ queue \in Seq(Calls) /\ MaxConcurrent \in Nat
      /\ running = Cardinality(Holders) /\ running <= MaxConcurrent
      /\ queue # <<>> => running = MaxConcurrent
      /\ Distinct(queue) /\ ToSet(queue) = InLine
  BY ConstantsAssumption DEF Inv, TypeOK, SlotsKept
<1>2. c \notin Holders /\ c \notin InLine
  BY DEF Holders, InLine
<1>3. CASE place = "granted"
  <2>1. Holders' = Holders \cup {c} /\ InLine' = InLine
    BY <1>2, <1>3 DEF Begun, Holders, InLine
  <2>2. Cardinality(Holders \cup {c}) = Cardinality(Holders) + 1
    BY <1>2, CallsFinite, OneMoreOf DEF Holders
  <2>3. running < MaxConcurrent /\ running' = running + 1 /\ queue' = queue
    BY <1>3 DEF Begun
  <2>4. running' = Cardinality(Holders') /\ running' <= MaxConcurrent /\ queue' = <<>>
    BY <1>1, <2>1, <2>2, <2>3
  <2> QED
    BY <1>1, <2>1, <2>3, <2>4 DEF SlotsKept
<1>4. CASE place = "queued"
  <2>1. Holders' = Holders /\ InLine' = InLine \cup {c}
    BY <1>2, <1>4 DEF Begun, Holders, InLine
  <2>2. running >= MaxConcurrent /\ running' = running /\ queue' = Append(queue, c)
    BY <1>4 DEF Begun
  <2>3. queue' \in Seq(Calls) /\ Distinct(queue') /\ ToSet(queue') = ToSet(queue) \cup {c}
    BY <1>1, <1>2, <2>2, QueueWith
  <2>4. running' = Cardinality(Holders') /\ running' = MaxConcurrent
    BY <1>1, <2>1, <2>2
  <2> QED
    BY <1>1, <2>1, <2>3, <2>4 DEF SlotsKept
<1>5. CASE place = "none"
  <2>1. Holders' = Holders /\ InLine' = InLine
    BY <1>2, <1>5 DEF Begun, Holders, InLine
  <2>2. running' = running /\ queue' = queue
    BY <1>5 DEF Begun
  <2> QED
    BY <1>1, <2>1, <2>2 DEF SlotsKept
<1> QED
  BY <1>3, <1>4, <1>5 DEF Begun

(* Execution e goes on as x, with its next attempt.                        *)
Goes(e, x) ==
    /\ x \in ExecType /\ exec[e].stage \in {"new", "woken"}
    /\ x.stage = "trying" /\ x.attempt = exec[e].attempt + 1 /\ x.signal = exec[e].signal
    /\ x.inside # NoCall => x.inside \in Calls /\ x.inside[1] = Parent[e]
    /\ x.linked => x.inside # NoCall
    /\ x.linked /\ x.signal = "live" => call[x.inside].signal = "live"

LEMMA BeginKeepsInv ==
    ASSUME Inv, NEW e \in Execs, NEW x, NEW refused \in BOOLEAN, Begin(e, x, refused),
           UNCHANGED <<timed, book>>, Goes(e, x)
    PROVE  Inv'
<1> /\ x \in ExecType /\ exec[e].stage \in {"new", "woken"}
    /\ x.stage = "trying" /\ x.attempt = exec[e].attempt + 1 /\ x.signal = exec[e].signal
    /\ x.inside # NoCall => x.inside \in Calls /\ x.inside[1] = Parent[e]
    /\ x.linked => x.inside # NoCall
    /\ x.linked /\ x.signal = "live" => call[x.inside].signal = "live"
  BY DEF Goes
<1> DEFINE k == x.attempt
           c == <<e, k>>
<1>1. TypeOK /\ Progress /\ Ahead /\ Nested /\ Waiters /\ Decided /\ Told
  BY DEF Inv
<1>2. exec[e].attempt \in Nat /\ Attempts[e] \in Nat \ {0} /\ exec[e].attempt < Attempts[e]
  BY <1>1, ConstantsAssumption DEF TypeOK, ExecType, Progress, ProgressOf
<1>3. k \in 1 .. Attempts[e] /\ c \in Calls /\ c[1] = e /\ c[2] = k /\ k > exec[e].attempt
  BY <1>2, CallsAre
<1>4. call[c].place = "none" /\ call[c].signal = "live" /\ call[c].verdict = "none"
  BY <1>1, <1>3 DEF Ahead
<1>5. PICK place \in Places, verdict \in Verdicts : Begun(e, x, c, place, verdict)
  <2> HIDE DEF c
  <2>1. c = <<e, x.attempt>>
    BY DEF c
  <2> QED
    BY <1>1, <1>3, <1>4, <2>1, BeginEffect
<1>6. /\ exec' \in [Execs -> ExecType] /\ exec'[e] = x
      /\ \A d \in Execs : d # e => exec'[d] = exec[d]
      /\ call' \in [Calls -> CallType]
      /\ call'[c].place = place /\ call'[c].signal = "live" /\ call'[c].verdict = verdict
      /\ \A d \in Calls : d # c => call'[d] = call[d]
      /\ place \in {"granted", "queued"} => verdict = "none" /\ x.signal = "live"
      /\ place \in {"granted", "queued", "none"}
      /\ verdict = "caller" => x.signal = "caller"
  BY <1>5 DEF Begun
<1>7. \A d \in Calls : call'[d].signal = call[d].signal
  BY <1>4, <1>6
<1>8. \A d \in Calls : d[1] \in Execs /\ d[2] \in Nat /\ (d[1] = e /\ d[2] = k => d = c)
  BY <1>3, CallsAre, ConstantsAssumption
<1> HIDE DEF c
<1>9. SlotsKept' /\ running' \in Nat /\ queue' \in Seq(Calls)
  BY <1>3, <1>4, <1>5, BeginKeepsSlots
<1>10. TypeOK'
  BY <1>1, <1>6, <1>9 DEF TypeOK
<1>11. Progress'
  <2> SUFFICES ASSUME NEW d \in Execs PROVE ProgressOf(d)'
    BY DEF Progress
  <2>1. CASE d = e
    BY <1>2, <1>3, <1>6, <2>1 DEF ProgressOf
  <2>2. CASE d # e
    BY <1>1, <1>6, <2>2 DEF Progress, ProgressOf
  <2> QED
    BY <2>1, <2>2
<1>12. Ahead'
  <2> SUFFICES ASSUME NEW d \in Calls, d[2] > exec'[d[1]].attempt
               PROVE  call'[d].place = "none" /\ call'[d].signal = "live" /\ call'[d].verdict = "none"
    BY DEF Ahead
  <2>1. d # c
    BY <1>3, <1>6
  <2>2. d[2] > exec[d[1]].attempt
    BY <1>2, <1>6, <1>8
  <2> QED
    BY <1>1, <1>6, <2>1, <2>2 DEF Ahead
<1>13. Nested'
  <2> SUFFICES ASSUME NEW d \in Execs
               PROVE  /\ exec'[d].inside # NoCall => exec'[d].inside \in Calls /\ exec'[d].inside[1] = Parent[d]
                      /\ exec'[d].linked => exec'[d].inside # NoCall
                      /\ exec'[d].linked /\ exec'[d].stage # "settled" /\ exec'[d].signal = "live" =>
                             call'[exec'[d].inside].signal = "live"
    BY DEF Nested
  <2>1. CASE d = e
    BY <1>6, <1>7, <2>1
  <2>2. CASE d # e
    BY <1>1, <1>6, <1>7, <2>2 DEF Nested
  <2> QED
    BY <2>1, <2>2
<1>14. Waiters'
  <2> SUFFICES ASSUME NEW d \in Calls, call'[d].place = "queued"
               PROVE  /\ exec'[d[1]].stage = "trying" /\ exec'[d[1]].attempt = d[2] /\ exec'[d[1]].signal = "live"
                      /\ call'[d].verdict = "none" /\ call'[d].signal = "live"
    BY DEF Waiters, InLine
  <2>1. CASE d = c
    BY <1>3, <1>6, <2>1
  <2>2. CASE d # c
    <3>1. d \in InLine /\ call'[d] = call[d]
      BY <1>6, <2>2 DEF InLine
    <3>2. exec[d[1]].stage = "trying"
      BY <1>1, <3>1 DEF Waiters
    <3>3. exec'[d[1]] = exec[d[1]]
      BY <1>6, <1>8, <3>2
    <3> QED
      BY <1>1, <3>1, <3>3 DEF Waiters
  <2> QED
    BY <2>1, <2>2
<1>15. Decided'
  <2> SUFFICES ASSUME NEW d \in Calls PROVE DecidedOn(d)'
    BY DEF Decided
  <2>1. DecidedOn(d)
    BY <1>1 DEF Decided
  <2>2. CASE d = c
    BY <1>3, <1>6, <2>2 DEF DecidedOn
  <2>3. CASE d # c /\ d[1] = e
    <3>1. call'[d] = call[d] /\ exec'[d[1]] = x /\ d[2] # k
      BY <1>6, <1>8, <2>3
    <3>2. d[2] < k => call[d].verdict \in {"failed", "timeout"}
      <4>1. d[2] < k => d[2] < exec[e].attempt \/ d[2] = exec[e].attempt
        BY <1>2, <1>8
      <4>2. d[2] = exec[e].attempt => exec[e].stage = "woken"
        <5>1. exec[e].stage = "new" => exec[e].attempt = 0
          BY <1>1 DEF Progress, ProgressOf
        <5>2. d[2] # 0
          BY CallsAre, ConstantsAssumption
        <5> QED
          BY <5>1, <5>2
      <4> QED
        BY <2>1, <2>3, <4>1, <4>2 DEF DecidedOn
    <3> QED
      BY <2>1, <3>1, <3>2 DEF DecidedOn
  <2>4. CASE d # c /\ d[1] # e
    <3>1. call'[d] = call[d] /\ exec'[d[1]] = exec[d[1]]
      BY <1>6, <1>8, <2>4
    <3> QED
      BY <2>1, <3>1 DEF DecidedOn
  <2> QED
    BY <2>2, <2>3, <2>4
<1>16. Told'
  <2> SUFFICES ASSUME NEW d \in Execs PROVE ToldOf(d)'
    BY DEF Told
  <2>1. ToldOf(d)
    BY <1>1 DEF Told
  <2>2. book'[d] = book[d] /\ book[d] \in Seq({"success", "failure"})
    BY <1>1 DEF TypeOK
  <2>3. CASE d = e
    <3>1. exec'[d].stage = "trying" /\ exec'[d].attempt = k /\ k = exec[d].attempt + 1
      BY <1>6, <2>3
    <3>2. Len(book[d]) = exec[d].attempt /\ \A i \in 1 .. Len(book[d]) : book[d][i] = "failure"
      <4>1. CASE exec[d].stage = "new"
        BY <1>1, <2>1, <2>3, <4>1 DEF Progress, ProgressOf, ToldOf
      <4>2. CASE exec[d].stage = "woken"
        BY <1>2, <2>1, <2>2, <2>3, <4>2 DEF ToldOf
      <4> QED
        BY <2>3, <4>1, <4>2
    <3> QED
      BY <1>2, <2>2, <2>3, <3>1, <3>2 DEF ToldOf
  <2>4. CASE d # e
    <3>1. exec'[d] = exec[d]
      BY <1>6, <2>4
    <3>2. exec[d].attempt > 0 => <<d, exec[d].attempt>> \in Calls /\ <<d, exec[d].attempt>> # c
      <4>1. exec[d].attempt \in Nat /\ exec[d].attempt <= Attempts[d]
        BY <1>1 DEF TypeOK, ExecType, Progress, ProgressOf
      <4> QED
        BY <1>3, <2>4, <4>1, CallsAre, ConstantsAssumption
    <3>3. Current(d)' = Current(d) /\ (exec[d].attempt > 0 => call'[Current(d)] = call[Current(d)])
      BY <1>6, <3>1, <3>2 DEF Current
    <3> QED
      BY <2>1, <2>2, <3>1, <3>3 DEF ToldOf
  <2> QED
    BY <2>3, <2>4
<1> QED
  BY <1>9, <1>10, <1>11, <1>12, <1>13, <1>14, <1>15, <1>16 DEF Inv

-----------------------------------------------------------------------------
(* One execution goes on while the attempts stay as they are.              *)

LEMMA OneGoesOn ==
    ASSUME Inv, NEW e \in Execs,
           exec' \in [Execs -> ExecType], \A d \in Execs : d # e => exec'[d] = exec[d],
           book' \in [Execs -> Seq({"success", "failure"})], \A d \in Execs : d # e => book'[d] = book[d],
           UNCHANGED <<timed, call, running, queue>>,
           exec'[e].attempt = exec[e].attempt, exec'[e].inside = exec[e].inside,
           exec'[e].linked = exec[e].linked, exec[e].stage # "settled",
           exec'[e].stage = "settled" \/ exec'[e].signal = exec[e].signal,
           \A c \in InLine : c[1] # e,
           ProgressOf(e)', ToldOf(e)', \A c \in Calls : c[1] = e => DecidedOn(c)'
    PROVE  Inv'
<1>1. TypeOK /\ SlotsKept /\ Progress /\ Ahead /\ Nested /\ Waiters /\ Decided /\ Told
  BY DEF Inv
<1>2. \A c \in Calls : c[1] \in Execs /\ exec'[c[1]].attempt = exec[c[1]].attempt
  BY CallsAre
<1>3. TypeOK'
  BY <1>1 DEF TypeOK
<1>4. SlotsKept'
  BY <1>1 DEF SlotsKept, Holders, InLine
<1>5. Progress'
  BY <1>1 DEF Progress, ProgressOf
<1>6. Ahead'
  BY <1>1, <1>2 DEF Ahead
<1>7. Nested'
  <2> SUFFICES ASSUME NEW d \in Execs
               PROVE  /\ exec'[d].inside # NoCall => exec'[d].inside \in Calls /\ exec'[d].inside[1] = Parent[d]
                      /\ exec'[d].linked => exec'[d].inside # NoCall
                      /\ exec'[d].linked /\ exec'[d].stage # "settled" /\ exec'[d].signal = "live" =>
                             call[exec'[d].inside].signal = "live"
    BY DEF Nested
  <2>1. CASE d = e
    BY <1>1, <2>1 DEF Nested
  <2>2. CASE d # e
    BY <1>1, <2>2 DEF Nested
  <2> QED
    BY <2>1, <2>2
<1>8. Waiters'
  <2> SUFFICES ASSUME NEW c \in InLine
               PROVE  /\ exec'[c[1]].stage = "trying" /\ exec'[c[1]].attempt = c[2] /\ exec'[c[1]].signal = "live"
                      /\ call[c].verdict = "none" /\ call[c].signal = "live"
    BY DEF Waiters, InLine
  <2>1. c[1] \in Execs /\ exec'[c[1]] = exec[c[1]]
    BY <1>2 DEF InLine
  <2> QED
    BY <1>1, <2>1 DEF Waiters
<1>9. Decided'
  <2> SUFFICES ASSUME NEW c \in Calls, c[1] # e PROVE DecidedOn(c)'
    BY DEF Decided
  <2>1. exec'[c[1]] = exec[c[1]] /\ DecidedOn(c)
    BY <1>1, <1>2 DEF Decided
  <2> QED
    BY <2>1 DEF DecidedOn
<1>10. Told'
  <2> SUFFICES ASSUME NEW d \in Execs, d # e PROVE ToldOf(d)'
    BY DEF Told
  <2>1. ToldOf(d) /\ exec'[d] = exec[d] /\ book'[d] = book[d]
    BY <1>1 DEF Told
  <2> QED
    BY <2>1 DEF ToldOf, Current
<1> QED
  BY <1>3, <1>4, <1>5, <1>6, <1>7, <1>8, <1>9, <1>10 DEF Inv

LEMMA ExecuteAbortedKeepsInv ==
    ASSUME Inv, NEW e \in Execs, ExecuteAborted(e)
    PROVE  Inv'
<1>1. /\ exec \in [Execs -> ExecType] /\ exec[e] \in ExecType /\ book \in [Execs -> Seq({"success", "failure"})]
      /\ ProgressOf(e) /\ ToldOf(e) /\ exec[e].stage = "new"
  BY DEF Inv, TypeOK, Progress, Told, ExecuteAborted
<1>2. exec' = [exec EXCEPT ![e] = Settled([exec[e] EXCEPT !.signal = "caller"], "caller")]
  BY DEF ExecuteAborted
<1>3. /\ exec' \in [Execs -> ExecType]
      /\ \A d \in Execs : d # e => exec'[d] = exec[d]
      /\ exec'[e].attempt = exec[e].attempt /\ exec'[e].inside = exec[e].inside
      /\ exec'[e].linked = exec[e].linked
      /\ exec'[e].stage = "settled" /\ exec'[e].outcome = "caller" /\ exec'[e].signal = "caller"
  BY <1>1, <1>2 DEF Settled, ExecType, Stages, Signals, Verdicts
<1>4. exec[e].attempt = 0 /\ book[e] = <<>>
  BY <1>1 DEF ProgressOf, ToldOf
<1>5. \A c \in Calls : c[1] = e => c[2] > exec[e].attempt
  BY <1>4, CallsAre, ConstantsAssumption
<1>6. \A c \in Calls : c[1] = e => DecidedOn(c)'
  <2> SUFFICES ASSUME NEW c \in Calls, c[1] = e PROVE DecidedOn(c)'
    OBVIOUS
  <2>1. c[2] \in Nat /\ call[c].place = "none" /\ c[2] > exec'[c[1]].attempt
    BY <1>3, <1>5, CallsAre, ConstantsAssumption DEF Inv, Ahead
  <2>2. call'[c] = call[c]
    BY DEF ExecuteAborted
  <2> QED
    BY <1>3, <1>4, <2>1, <2>2 DEF DecidedOn
<1>7. \A c \in InLine : c[1] # e
  BY <1>1 DEF Inv, Waiters
<1>8. ProgressOf(e)'
  BY <1>1, <1>3, <1>4 DEF ProgressOf
<1>9. UNCHANGED <<timed, call, running, queue, book>>
  BY DEF ExecuteAborted
<1>10. ToldOf(e)'
  BY <1>3, <1>4, <1>9 DEF ToldOf
<1> QED
  BY <1>1, <1>3, <1>6, <1>7, <1>8, <1>9, <1>10, OneGoesOn

LEMMA WakeKeepsInv ==
    ASSUME Inv, NEW e \in Execs, Wake(e)
    PROVE  Inv'
<1>1. /\ exec \in [Execs -> ExecType] /\ exec[e] \in ExecType /\ book \in [Execs -> Seq({"success", "failure"})]
      /\ ProgressOf(e) /\ ToldOf(e) /\ exec[e].stage = "sleeping"
  BY DEF Inv, TypeOK, Progress, Told, Wake
<1>2. exec' = [exec EXCEPT ![e].stage = "woken"] /\ UNCHANGED <<timed, call, running, queue, book>>
  BY DEF Wake
<1>3. /\ exec' \in [Execs -> ExecType]
      /\ \A d \in Execs : d # e => exec'[d] = exec[d]
      /\ exec'[e].attempt = exec[e].attempt /\ exec'[e].inside = exec[e].inside
      /\ exec'[e].linked = exec[e].linked /\ exec'[e].signal = exec[e].signal
      /\ exec'[e].stage = "woken"
  BY <1>1, <1>2 DEF ExecType, Stages
<1>4. \A c \in Calls : c[1] = e => DecidedOn(c)'
  <2> SUFFICES ASSUME NEW c \in Calls, c[1] = e PROVE DecidedOn(c)'
    OBVIOUS
  <2>1. DecidedOn(c) /\ call'[c] = call[c]
    BY <1>2 DEF Inv, Decided
  <2> QED
    BY <1>1, <1>3, <2>1 DEF DecidedOn
<1>5. \A c \in InLine : c[1] # e
  BY <1>1 DEF Inv, Waiters
<1>6. ProgressOf(e)'
  BY <1>1, <1>3 DEF ProgressOf
<1>7. ToldOf(e)'
  BY <1>1, <1>2, <1>3 DEF ToldOf
<1> QED
  BY <1>1, <1>2, <1>3, <1>4, <1>5, <1>6, <1>7, OneGoesOn

(* What an attempt's verdict may be when breaker and retry see it: a       *)
(* caller's abort only if that aborted the execution.                      *)
LEMMA ConcludeKeepsInv ==
    ASSUME Inv, NEW e \in Execs, Conclude(e)
    PROVE  Inv'
<1> DEFINE k == exec[e].attempt
           c == Current(e)
           v == call[c].verdict
           told == Records(e, v)
<1>1. /\ exec \in [Execs -> ExecType] /\ exec[e] \in ExecType /\ book \in [Execs -> Seq({"success", "failure"})]
      /\ call \in [Calls -> CallType] /\ ProgressOf(e) /\ ToldOf(e) /\ Decided /\ Waiters
      /\ exec[e].stage = "trying" /\ v # "none"
  BY DEF Inv, TypeOK, Progress, Told, Conclude, Concluding
<1>2. k \in Nat /\ k > 0 /\ k <= Attempts[e] /\ Attempts[e] \in Nat
  BY <1>1, ConstantsAssumption DEF ExecType, ProgressOf
<1>3. c \in Calls /\ c[1] = e /\ c[2] = k /\ c = <<e, k>>
  BY <1>2, CallsAre DEF Current
<1>4. v \in Verdicts /\ (v = "caller" => exec[e].signal = "caller")
  BY <1>1, <1>3 DEF CallType, Decided, DecidedOn
<1>5. /\ book' = [book EXCEPT ![e] = book[e] \o told]
      /\ exec' = [exec EXCEPT ![e] = IF Final(e, v) THEN Settled(exec[e], v)
                                     ELSE [exec[e] EXCEPT !.stage = "sleeping"]]
      /\ UNCHANGED <<timed, call, running, queue>>
  BY DEF Conclude
<1>6. Len(book[e]) = k - 1 /\ (\A i \in 1 .. Len(book[e]) : book[e][i] = "failure")
  BY <1>1, <1>2 DEF ToldOf
<1>7. told \in {<<>>, <<"success">>, <<"failure">>}
  BY DEF Records
<1>8. /\ exec[e].signal = "live" /\ v \in {"failed", "timeout"} => told = <<"failure">>
      /\ told # <<>> => v \in {"ok", "failed", "timeout"}
      /\ told # <<>> => (told = <<"success">> <=> v = "ok")
  <2>1. <<"success">> # <<"failure">> /\ <<"success">> # <<>> /\ <<"failure">> # <<>>
    OBVIOUS
  <2> HIDE DEF v
  <2> QED
    BY <1>1, <1>4, <2>1 DEF Records, Verdicts
<1>9. ~Final(e, v) => k < Attempts[e] /\ exec[e].signal = "live" /\ v \in {"failed", "timeout"}
  <2> HIDE DEF v
  <2> QED
    BY <1>1, <1>2, <1>4 DEF Final, Verdicts
<1> HIDE DEF told, v, c
<1>10. /\ exec' \in [Execs -> ExecType]
       /\ \A d \in Execs : d # e => exec'[d] = exec[d]
       /\ exec'[e].attempt = k /\ exec'[e].inside = exec[e].inside
       /\ exec'[e].linked = exec[e].linked /\ exec'[e].signal = exec[e].signal
       /\ exec'[e].stage = IF Final(e, v) THEN "settled" ELSE "sleeping"
       /\ Final(e, v) => exec'[e].outcome = v
  <2>1. CASE Final(e, v)
    <3>1. exec' = [exec EXCEPT ![e] = Settled(exec[e], v)]
      BY <1>5, <2>1
    <3> QED
      BY <1>1, <1>4, <2>1, <3>1 DEF Settled, ExecType, Stages
  <2>2. CASE ~Final(e, v)
    <3>1. exec' = [exec EXCEPT ![e] = [exec[e] EXCEPT !.stage = "sleeping"]]
      BY <1>5, <2>2
    <3> QED
      BY <1>1, <2>2, <3>1 DEF ExecType, Stages
  <2> QED
    BY <2>1, <2>2
<1>11. /\ book' \in [Execs -> Seq({"success", "failure"})]
       /\ \A d \in Execs : d # e => book'[d] = book[d]
       /\ book'[e] = book[e] \o told
  <2>1. told \in Seq({"success", "failure"})
    <3>1. /\ <<>> \in Seq({"success", "failure"}) /\ <<"success">> \in Seq({"success", "failure"})
          /\ <<"failure">> \in Seq({"success", "failure"})
      OBVIOUS
    <3> QED
      BY <1>7, <3>1
  <2> QED
    BY <1>1, <1>5, <2>1
<1>12. \/ told = <<>> /\ Len(book'[e]) = k - 1
       \/ told # <<>> /\ Len(book'[e]) = k /\ book'[e][k] = told[1]
  <2>1. CASE told = <<>>
    <3>1. book[e] \o <<>> = book[e]
      BY <1>1
    <3> QED
      BY <1>6, <1>11, <2>1, <3>1
  <2>2. ASSUME NEW r \in {"success", "failure"}, told = <<r>>
        PROVE  Len(book'[e]) = k /\ book'[e][k] = told[1] /\ told # <<>>
    <3>1. book[e] \o <<r>> = Append(book[e], r) /\ <<r>>[1] = r
      BY <1>1
    <3>2. Len(Append(book[e], r)) = k /\ Append(book[e], r)[k] = r
      BY <1>1, <1>2, <1>6, AppendProperties
    <3> QED
      BY <1>11, <2>2, <3>1, <3>2
  <2> QED
    BY <1>7, <2>1, <2>2
<1>13. \A i \in 1 .. Len(book'[e]) : i < k => book'[e][i] = "failure"
  BY <1>1, <1>2, <1>6, <1>7, <1>11, <1>12
<1>14. \A d \in Calls : d[1] = e => DecidedOn(d)'
  <2> SUFFICES ASSUME NEW d \in Calls, d[1] = e PROVE DecidedOn(d)'
    OBVIOUS
  <2>1. DecidedOn(d) /\ call'[d] = call[d] /\ d[2] \in Nat
    BY <1>1, <1>5, CallsAre, ConstantsAssumption DEF Decided
  <2>2. d[2] = k => d = c
    BY <1>3, CallsAre
  <2>3. d[2] = k => call[d].verdict = v
    BY <2>2 DEF v
  <2> QED
    BY <1>1, <1>9, <1>10, <2>1, <2>3 DEF DecidedOn
<1>15. \A d \in InLine : d[1] # e
  <2> SUFFICES ASSUME NEW d \in InLine, d[1] = e PROVE FALSE
    OBVIOUS
  <2>1. exec[e].attempt = d[2] /\ call[d].verdict = "none" /\ d \in Calls
    BY <1>1 DEF Waiters, InLine
  <2>2. d = c
    BY <1>3, <2>1, CallsAre
  <2> QED
    BY <1>1, <2>1, <2>2 DEF v
<1>16. ProgressOf(e)'
  BY <1>2, <1>9, <1>10 DEF ProgressOf
<1>17. ToldOf(e)'
  <2>1. Current(e)' = c /\ call'[c].verdict = v
    BY <1>5, <1>10 DEF Current, c, v
  <2>2. told # <<>> => (told[1] = "success" <=> v = "ok")
    BY <1>7, <1>8
  <2>3. CASE Final(e, v)
    <3>1. exec'[e].stage = "settled"
      BY <1>10, <2>3
    <3> QED
      BY <1>2, <1>8, <1>10, <1>12, <1>13, <2>1, <2>2, <3>1 DEF ToldOf
  <2>4. CASE ~Final(e, v)
    <3>1. exec'[e].stage = "sleeping" /\ told = <<"failure">>
      BY <1>8, <1>9, <1>10, <2>4
    <3>2. Len(book'[e]) = k /\ book'[e][k] = "failure"
      BY <1>12, <3>1
    <3> QED
      BY <1>2, <1>10, <1>13, <3>1, <3>2 DEF ToldOf
  <2> QED
    BY <2>3, <2>4
<1> QED
  BY <1>1, <1>5, <1>10, <1>11, <1>14, <1>15, <1>16, <1>17, OneGoesOn

-----------------------------------------------------------------------------
(* Attempts go on while the executions stay as they are.                   *)

LEMMA CallsGoOn ==
    ASSUME Inv, UNCHANGED <<timed, exec, book>>, SlotsKept', running' \in Nat, queue' \in Seq(Calls),
           call' \in [Calls -> CallType],
           \A c \in Calls :
               /\ call'[c].signal = call[c].signal
               /\ call[c].verdict # "none" => call'[c].verdict = call[c].verdict
               /\ call[c].verdict = "none" => call'[c].verdict # "caller"
               /\ call'[c].place = "queued" => call[c].place = "queued" /\ call'[c].verdict = call[c].verdict
               /\ call[c].place = "none" => call'[c] = call[c]
               /\ call'[c].place \in {"granted", "running"} =>
                      /\ call'[c].verdict = call[c].verdict
                      /\ call[c].place \in {"granted", "running"} \/ call[c].verdict = "none"
    PROVE  Inv'
<1>1. TypeOK /\ Progress /\ Ahead /\ Nested /\ Waiters /\ Decided /\ Told
  BY DEF Inv
<1>2. TypeOK'
  BY <1>1 DEF TypeOK
<1>3. Progress'
  BY <1>1 DEF Progress, ProgressOf
<1>4. Ahead'
  BY <1>1 DEF Ahead
<1>5. Nested'
  BY <1>1 DEF Nested
<1>6. Waiters'
  BY <1>1 DEF Waiters, InLine
<1>7. Decided'
  <2> SUFFICES ASSUME NEW c \in Calls PROVE DecidedOn(c)'
    BY DEF Decided
  <2>1. DecidedOn(c)
    BY <1>1 DEF Decided
  <2> QED
    BY <2>1 DEF DecidedOn
<1>8. Told'
  <2> SUFFICES ASSUME NEW e \in Execs PROVE ToldOf(e)'
    BY DEF Told
  <2>1. ToldOf(e) /\ Current(e)' = Current(e)
    BY <1>1 DEF Told, Current
  <2>2. exec[e].stage = "settled" /\ exec[e].attempt > 0 =>
            call'[Current(e)].verdict = call[Current(e)].verdict
    <3> SUFFICES ASSUME exec[e].stage = "settled", exec[e].attempt > 0
                 PROVE  call'[Current(e)].verdict = call[Current(e)].verdict
      OBVIOUS
    <3>1. exec[e].attempt \in Nat /\ exec[e].attempt <= Attempts[e] /\ Attempts[e] \in Nat
      BY <1>1, ConstantsAssumption DEF TypeOK, ExecType, Progress, ProgressOf
    <3>2. Current(e) \in Calls /\ Current(e)[1] = e /\ Current(e)[2] = exec[e].attempt
      BY <3>1, CallsAre DEF Current
    <3> QED
      BY <1>1, <3>2 DEF Decided, DecidedOn
  <2> QED
    BY <2>1, <2>2 DEF ToldOf
<1> QED
  BY <1>2, <1>3, <1>4, <1>5, <1>6, <1>7, <1>8 DEF Inv

LEMMA StartKeepsInv ==
    ASSUME Inv, NEW c \in Calls, Start(c)
    PROVE  Inv'
<1>1. call \in [Calls -> CallType] /\ TypeOK /\ SlotsKept
  BY DEF Inv, TypeOK
<1>2. /\ call[c].place = "granted" /\ call' = [call EXCEPT ![c].place = "running"]
      /\ UNCHANGED <<timed, exec, running, queue, book>>
  BY DEF Start
<1>3. /\ call' \in [Calls -> CallType]
      /\ call'[c].place = "running" /\ call'[c].signal = call[c].signal /\ call'[c].verdict = call[c].verdict
      /\ \A d \in Calls : d # c => call'[d] = call[d]
  BY <1>1, <1>2 DEF CallType, Places
<1>4. Holders' = Holders /\ InLine' = InLine
  BY <1>2, <1>3 DEF Holders, InLine
<1>5. SlotsKept' /\ running' \in Nat /\ queue' \in Seq(Calls)
  BY <1>1, <1>2, <1>4 DEF SlotsKept, TypeOK
<1>6. DecidedOn(c)
  BY DEF Inv, Decided
<1> QED
  BY <1>2, <1>3, <1>5, CallsGoOn

(* The slot passes from c to the head of the queue, or is free again.      *)
LEMMA FnSettlesKeepsInv ==
    ASSUME Inv, NEW c \in Calls, NEW result \in Results, FnSettles(c, result)
    PROVE  Inv'
<1> DEFINE granted == IF queue = <<>> THEN {} ELSE {Head(queue)}
           v == VerdictOn(c, result)
<1>1. /\ call \in [Calls -> CallType] /\ running \in Nat /\ queue \in Seq(Calls) /\ MaxConcurrent \in Nat
      /\ running = Cardinality(Holders) /\ running <= MaxConcurrent
      /\ queue # <<>> => running = MaxConcurrent
      /\ Distinct(queue) /\ ToSet(queue) = InLine /\ Waiters
  BY ConstantsAssumption DEF Inv, TypeOK, SlotsKept
<1>2. /\ call[c].place = "running"
      /\ call' = [d \in Calls |->
             IF d = c THEN [call[c] EXCEPT !.place = "over", !.verdict = v]
             ELSE IF d \in granted THEN [call[d] EXCEPT !.place = "granted"]
             ELSE call[d]]
      /\ running' = (running - 1) + Cardinality(granted)
      /\ queue' = IF queue = <<>> THEN queue ELSE Tail(queue)
      /\ UNCHANGED <<timed, exec, book>>
  BY DEF FnSettles
<1>3. v \in Verdicts /\ v # "none" /\ (call[c].verdict # "none" => v = call[c].verdict)
      /\ (call[c].verdict = "none" => v # "caller")
  BY <1>1 DEF VerdictOn, Results, CallType, Verdicts
<1>4. /\ granted \in SUBSET InLine
      /\ queue # <<>> => Head(queue) = queue[1] /\ 1 \in DOMAIN queue
  BY <1>1 DEF ToSet
<1>5. InLine \subseteq Calls /\ c \notin InLine /\ Holders \in SUBSET Calls /\ c \in Holders
      /\ Holders \cap InLine = {}
  BY <1>2 DEF InLine, Holders
<1> HIDE DEF granted, v
<1>6. /\ call' \in [Calls -> CallType]
      /\ call'[c].place = "over" /\ call'[c].signal = call[c].signal /\ call'[c].verdict = v
      /\ \A d \in granted : /\ call'[d].place = "granted" /\ call'[d].signal = call[d].signal
                            /\ call'[d].verdict = call[d].verdict
      /\ \A d \in Calls : d # c /\ d \notin granted => call'[d] = call[d]
  <2>1. \A d \in Calls : call[d] \in CallType
    BY <1>1
  <2>2. call'[c] = [call[c] EXCEPT !.place = "over", !.verdict = v]
    BY <1>2
  <2>3. call'[c] = [place |-> "over", signal |-> call[c].signal, verdict |-> v]
    BY <2>1, <2>2 DEF CallType
  <2>4. \A d \in granted : d # c /\ call'[d] = [call[d] EXCEPT !.place = "granted"]
    BY <1>2, <1>4, <1>5
  <2>5. \A d \in granted : call'[d] = [place |-> "granted", signal |-> call[d].signal, verdict |-> call[d].verdict]
    BY <1>4, <1>5, <2>1, <2>4 DEF CallType
  <2>6. \A d \in Calls : d # c /\ d \notin granted => call'[d] = call[d]
    BY <1>2
  <2>7. ASSUME NEW d \in Calls PROVE call'[d] \in CallType
    <3>1. CASE d = c
      <4>1. call[c].signal \in Signals /\ "over" \in Places
        BY <2>1 DEF CallType, Places
      <4> QED
        BY <1>3, <2>3, <3>1, <4>1 DEF CallType
    <3>2. CASE d \in granted
      <4>1. call[d].signal \in Signals /\ call[d].verdict \in Verdicts /\ "granted" \in Places
        BY <2>1 DEF CallType, Places
      <4>2. call'[d] = [place |-> "granted", signal |-> call[d].signal, verdict |-> call[d].verdict]
        BY <2>5, <3>2, Zenon
      <4> QED
        BY <4>1, <4>2 DEF CallType
    <3>3. CASE d # c /\ d \notin granted
      BY <2>1, <2>6, <3>3
    <3> QED
      BY <3>1, <3>2, <3>3
  <2>8. call' \in [Calls -> CallType]
    <3>1. call' = [d \in Calls |-> call'[d]]
      BY <1>2
    <3> QED
      BY <2>7, <3>1
  <2>9. call'[c].place = "over" /\ call'[c].signal = call[c].signal /\ call'[c].verdict = v
    BY <2>3
  <2>10. \A d \in granted : /\ call'[d].place = "granted" /\ call'[d].signal = call[d].signal
                            /\ call'[d].verdict = call[d].verdict
    <3> SUFFICES ASSUME NEW d \in granted
                 PROVE  call'[d].place = "granted" /\ call'[d].signal = call[d].signal
                        /\ call'[d].verdict = call[d].verdict
      OBVIOUS
    <3>1. call'[d] = [place |-> "granted", signal |-> call[d].signal, verdict |-> call[d].verdict]
      BY <2>5, Zenon
    <3> QED
      BY <3>1
  <2> QED
    BY <2>6, <2>8, <2>9, <2>10
<1>7. Holders' = (Holders \ {c}) \cup granted /\ InLine' = InLine \ granted
  <2>1. \A d \in Calls : d \in Holders' <=> d \in (Holders \ {c}) \cup granted
    BY <1>4, <1>5, <1>6 DEF Holders
  <2>2. \A d \in Calls : d \in InLine' <=> d \in InLine \ granted
    BY <1>4, <1>5, <1>6 DEF InLine
  <2>3. Holders' \subseteq Calls /\ InLine' \subseteq Calls
    BY DEF Holders, InLine
  <2> QED
    BY <1>4, <1>5, <2>1, <2>2, <2>3
<1>8. Cardinality(Holders \ {c}) = Cardinality(Holders) - 1
  BY <1>5, CallsFinite, OneLessOf
<1>9. SlotsKept' /\ running' \in Nat /\ queue' \in Seq(Calls)
  <2>1. CASE queue = <<>>
    <3>1. granted = {} /\ Cardinality(granted) = 0
      BY <2>1, FS_EmptySet DEF granted
    <3>2. Holders' = Holders \ {c} /\ InLine' = InLine /\ queue' = queue /\ running' = running - 1
      BY <1>1, <1>2, <1>7, <2>1, <3>1
    <3>3. Cardinality(Holders') \in Nat
      BY <1>5, <3>2, CallsFinite, PartsAreFinite
    <3> QED
      BY <1>1, <1>8, <2>1, <3>2, <3>3 DEF SlotsKept
  <2>2. CASE queue # <<>>
    <3>1. granted = {Head(queue)} /\ Cardinality(granted) = 1
      BY <2>2, FS_Singleton DEF granted
    <3>2. running' = running /\ queue' = Tail(queue)
      BY <1>1, <1>2, <2>2, <3>1
    <3>3. Head(queue) \notin Holders \ {c}
      BY <1>4, <1>5, <3>1
    <3>4. Cardinality(Holders') = Cardinality(Holders \ {c}) + 1
      <4>1. Holders \ {c} \in SUBSET Calls
        BY <1>5
      <4> QED
        BY <1>7, <3>1, <3>3, <4>1, CallsFinite, OneMoreOf
    <3>5. queue' = RemoveFirst(queue, queue[1])
      BY <1>1, <1>4, <2>2, <3>2, WithoutHead
    <3>6. queue' \in Seq(Calls) /\ Distinct(queue') /\ ToSet(queue') = ToSet(queue) \ {queue[1]}
      <4>1. 1 \in 1 .. Len(queue)
        BY <1>1, <2>2
      <4> QED
        BY <1>1, <3>5, <4>1, QueueWithout
    <3>7. ToSet(queue') = InLine'
      BY <1>1, <1>4, <1>7, <2>2, <3>1, <3>6
    <3> QED
      BY <1>1, <1>8, <2>2, <3>2, <3>4, <3>6, <3>7 DEF SlotsKept
  <2> QED
    BY <2>1, <2>2
<1>10. \A d \in granted : call[d].place = "queued" /\ call[d].verdict = "none"
  BY <1>1, <1>4 DEF Waiters, InLine
<1>11. \A d \in Calls :
           /\ call'[d].signal = call[d].signal
           /\ call[d].verdict # "none" => call'[d].verdict = call[d].verdict
           /\ call[d].verdict = "none" => call'[d].verdict # "caller"
           /\ call'[d].place = "queued" => call[d].place = "queued" /\ call'[d].verdict = call[d].verdict
           /\ call[d].place = "none" => call'[d] = call[d]
           /\ call'[d].place \in {"granted", "running"} =>
                  /\ call'[d].verdict = call[d].verdict
                  /\ call[d].place \in {"granted", "running"} \/ call[d].verdict = "none"
  <2> SUFFICES ASSUME NEW d \in Calls
               PROVE  /\ call'[d].signal = call[d].signal
                      /\ call[d].verdict # "none" => call'[d].verdict = call[d].verdict
                      /\ call[d].verdict = "none" => call'[d].verdict # "caller"
                      /\ call'[d].place = "queued" => call[d].place = "queued" /\ call'[d].verdict = call[d].verdict
                      /\ call[d].place = "none" => call'[d] = call[d]
                      /\ call'[d].place \in {"granted", "running"} =>
                             /\ call'[d].verdict = call[d].verdict
                             /\ call[d].place \in {"granted", "running"} \/ call[d].verdict = "none"
    OBVIOUS
  <2>1. CASE d = c
    BY <1>2, <1>3, <1>6, <2>1
  <2>2. CASE d \in granted
    BY <1>6, <1>10, <2>2
  <2>3. CASE d # c /\ d \notin granted
    BY <1>6, <2>3
  <2> QED
    BY <2>1, <2>2, <2>3
<1> QED
  BY <1>2, <1>6, <1>9, <1>11, CallsGoOn

-----------------------------------------------------------------------------
(* Aborts and timeouts.                                                    *)

(* Those in xs and cs whose signals abort: nothing that has ended or has   *)
(* not begun, and with an attempt the executions linked to it.             *)
Abortable(xs, cs, why, verdicts) ==
    /\ xs \subseteq Execs /\ cs \subseteq Calls /\ verdicts \subseteq cs
    /\ why = "timeout" \/ (why = "caller" /\ cs = {})
    /\ \A x \in xs : exec[x].stage \notin {"new", "settled"}
    /\ \A c \in cs : c = Current(c[1]) /\ Trying(c[1])
    /\ \A x \in Execs :
           /\ exec[x].linked /\ exec[x].stage # "settled"
           /\ exec[x].inside \in cs \/ \E y \in xs : Trying(y) /\ exec[x].inside = Current(y)
           => x \in xs

Hit(xs, cs) == {c \in cs \cup {Current(x) : x \in {y \in xs : Trying(y)}} : call[c].signal = "live"}
Left(xs, cs) == {c \in Hit(xs, cs) : call[c].place = "queued"}

(* What AbortSignals does to each execution and to each attempt.           *)
ExecsAborted(xs, why) ==
    \A x \in Execs :
        /\ exec'[x].attempt = exec[x].attempt /\ exec'[x].inside = exec[x].inside
        /\ exec'[x].linked = exec[x].linked
        /\ ~(x \in xs /\ exec[x].signal = "live") => exec'[x] = exec[x]
        /\ x \in xs /\ exec[x].signal = "live" =>
               /\ exec'[x].signal = why
               /\ exec[x].stage = "sleeping" => exec'[x].stage = "settled" /\ exec'[x].outcome = why
               /\ exec[x].stage # "sleeping" =>
                      exec'[x].stage = exec[x].stage /\ exec'[x].outcome = exec[x].outcome

CallsAborted(hit, left, why, verdicts) ==
    \A c \in Calls :
        /\ call'[c].signal = IF c \in hit THEN why ELSE call[c].signal
        /\ call'[c].place = IF c \in left THEN "over" ELSE call[c].place
        /\ call'[c].verdict = IF c \in left \cup verdicts THEN why ELSE call[c].verdict
        /\ c \notin hit \cup verdicts => call'[c] = call[c]

LEMMA AbortEffect ==
    ASSUME TypeOK, NEW xs, NEW cs, NEW why \in {"caller", "timeout"}, NEW verdicts,
           AbortSignals(xs, cs, why, verdicts)
    PROVE  /\ exec' \in [Execs -> ExecType] /\ ExecsAborted(xs, why)
           /\ call' \in [Calls -> CallType] /\ CallsAborted(Hit(xs, cs), Left(xs, cs), why, verdicts)
           /\ queue' = Remaining(queue, Left(xs, cs))
<1> DEFINE hit == Hit(xs, cs)
           left == Left(xs, cs)
<1>1. /\ exec' = [x \in Execs |->
             IF x \notin xs \/ exec[x].signal # "live" THEN exec[x]
             ELSE IF [exec[x] EXCEPT !.signal = why].stage = "sleeping"
                  THEN Settled([exec[x] EXCEPT !.signal = why], why)
                  ELSE [exec[x] EXCEPT !.signal = why]]
      /\ call' = [c \in Calls |->
             [call[c] EXCEPT !.signal = IF c \in hit THEN why ELSE @,
                             !.place = IF c \in left THEN "over" ELSE @,
                             !.verdict = IF c \in left \cup verdicts THEN why ELSE @]]
      /\ queue' = Remaining(queue, left)
  BY DEF AbortSignals, Hit, Left
<1>2. \A x \in Execs : exec[x] \in ExecType
  BY DEF TypeOK
<1>3. \A c \in Calls : call[c] \in CallType
  BY DEF TypeOK
<1>4. why \in Signals /\ why \in Verdicts /\ "settled" \in Stages /\ "over" \in Places
  BY DEF Signals, Verdicts, Stages, Places
<1> HIDE DEF hit, left
<1>5. ASSUME NEW x \in Execs
      PROVE  /\ exec'[x] \in ExecType
             /\ exec'[x].attempt = exec[x].attempt /\ exec'[x].inside = exec[x].inside
             /\ exec'[x].linked = exec[x].linked
             /\ ~(x \in xs /\ exec[x].signal = "live") => exec'[x] = exec[x]
             /\ x \in xs /\ exec[x].signal = "live" =>
                    /\ exec'[x].signal = why
                    /\ exec[x].stage = "sleeping" => exec'[x].stage = "settled" /\ exec'[x].outcome = why
                    /\ exec[x].stage # "sleeping" =>
                           exec'[x].stage = exec[x].stage /\ exec'[x].outcome = exec[x].outcome
  <2> DEFINE y == [exec[x] EXCEPT !.signal = why]
  <2>1. /\ y \in ExecType /\ y.stage = exec[x].stage /\ y.attempt = exec[x].attempt
        /\ y.inside = exec[x].inside /\ y.linked = exec[x].linked /\ y.outcome = exec[x].outcome
        /\ y.signal = why
    BY <1>2, <1>4 DEF ExecType
  <2>2. exec'[x] = IF x \notin xs \/ exec[x].signal # "live" THEN exec[x]
                   ELSE IF y.stage = "sleeping" THEN Settled(y, why) ELSE y
    BY <1>1
  <2> HIDE DEF y
  <2>3. /\ Settled(y, why) \in ExecType /\ Settled(y, why).stage = "settled"
        /\ Settled(y, why).outcome = why /\ Settled(y, why).attempt = y.attempt
        /\ Settled(y, why).inside = y.inside /\ Settled(y, why).linked = y.linked
        /\ Settled(y, why).signal = y.signal
    BY <1>4, <2>1 DEF Settled, ExecType
  <2> QED
    BY <1>2, <2>1, <2>2, <2>3
<1>6. ASSUME NEW c \in Calls
      PROVE  /\ call'[c] \in CallType
             /\ call'[c].signal = IF c \in hit THEN why ELSE call[c].signal
             /\ call'[c].place = IF c \in left THEN "over" ELSE call[c].place
             /\ call'[c].verdict = IF c \in left \cup verdicts THEN why ELSE call[c].verdict
             /\ c \notin hit \cup verdicts => call'[c] = call[c]
  <2> DEFINE s == IF c \in hit THEN why ELSE call[c].signal
             p == IF c \in left THEN "over" ELSE call[c].place
             v == IF c \in left \cup verdicts THEN why ELSE call[c].verdict
  <2>1. call'[c] = [call[c] EXCEPT !.signal = s, !.place = p, !.verdict = v]
    BY <1>1
  <2>2. s \in Signals /\ p \in Places /\ v \in Verdicts
    BY <1>3, <1>4 DEF CallType
  <2>3. c \notin hit \cup verdicts => s = call[c].signal /\ p = call[c].place /\ v = call[c].verdict
    BY DEF hit, left, Left
  <2> HIDE DEF s, p, v
  <2>4. call'[c] = [place |-> p, signal |-> s, verdict |-> v]
    BY <1>3, <2>1 DEF CallType
  <2>5. call'[c].signal = s /\ call'[c].place = p /\ call'[c].verdict = v /\ call'[c] \in CallType
    BY <2>2, <2>4 DEF CallType
  <2>6. call[c] = [place |-> call[c].place, signal |-> call[c].signal, verdict |-> call[c].verdict]
    BY <1>3 DEF CallType
  <2> QED
    BY <2>3, <2>4, <2>5, <2>6 DEF s, p, v
<1>7. exec' \in [Execs -> ExecType] /\ call' \in [Calls -> CallType]
  <2>1. exec' = [x \in Execs |-> exec'[x]]
    BY <1>1
  <2>2. call' = [c \in Calls |-> call'[c]]
    BY <1>1
  <2> QED
    BY <1>5, <1>6, <2>1, <2>2
<1> QED
  BY <1>1, <1>5, <1>6, <1>7 DEF ExecsAborted, CallsAborted, hit, left

LEMMA AbortKeepsInv ==
    ASSUME Inv, NEW xs, NEW cs, NEW why \in {"caller", "timeout"}, NEW verdicts,
           Abortable(xs, cs, why, verdicts), AbortSignals(xs, cs, why, verdicts),
           UNCHANGED <<timed, running, book>>
    PROVE  Inv'
<1> DEFINE hit == Hit(xs, cs)
           left == Left(xs, cs)
<1>1. TypeOK /\ SlotsKept /\ Progress /\ Ahead /\ Nested /\ Waiters /\ Decided /\ Told
  BY DEF Inv
<1>2. /\ exec' \in [Execs -> ExecType] /\ ExecsAborted(xs, why)
      /\ call' \in [Calls -> CallType] /\ CallsAborted(hit, left, why, verdicts)
      /\ queue' = Remaining(queue, left)
  BY <1>1, AbortEffect
<1>3. \A x \in Execs :
          /\ exec'[x].attempt = exec[x].attempt /\ exec'[x].inside = exec[x].inside
          /\ exec'[x].linked = exec[x].linked
          /\ ~(x \in xs /\ exec[x].signal = "live") => exec'[x] = exec[x]
          /\ x \in xs /\ exec[x].signal = "live" =>
                 /\ exec'[x].signal = why
                 /\ exec[x].stage = "sleeping" => exec'[x].stage = "settled" /\ exec'[x].outcome = why
                 /\ exec[x].stage # "sleeping" =>
                        exec'[x].stage = exec[x].stage /\ exec'[x].outcome = exec[x].outcome
  BY <1>2 DEF ExecsAborted
<1>4. \A c \in Calls :
          /\ call'[c].signal = IF c \in hit THEN why ELSE call[c].signal
          /\ call'[c].place = IF c \in left THEN "over" ELSE call[c].place
          /\ call'[c].verdict = IF c \in left \cup verdicts THEN why ELSE call[c].verdict
          /\ c \notin hit \cup verdicts => call'[c] = call[c]
  BY <1>2 DEF CallsAborted
<1>5. /\ \A x \in xs : x \in Execs /\ exec[x].stage \notin {"new", "settled"}
      /\ \A c \in cs : c \in Calls /\ c = Current(c[1]) /\ Trying(c[1])
      /\ verdicts \subseteq cs /\ (why = "caller" => cs = {})
  BY DEF Abortable
<1>6. \A x \in Execs : exec[x].attempt > 0 =>
          Current(x) \in Calls /\ Current(x)[1] = x /\ Current(x)[2] = exec[x].attempt
  <2> SUFFICES ASSUME NEW x \in Execs, exec[x].attempt > 0
               PROVE  Current(x) \in Calls /\ Current(x)[1] = x /\ Current(x)[2] = exec[x].attempt
    OBVIOUS
  <2>1. exec[x].attempt \in Nat /\ exec[x].attempt <= Attempts[x] /\ Attempts[x] \in Nat
    BY <1>1, ConstantsAssumption DEF TypeOK, ExecType, Progress, ProgressOf
  <2> QED
    BY <2>1, CallsAre DEF Current
<1>7. \A x \in Execs : Trying(x) => exec[x].attempt > 0 /\ exec[x].stage = "trying" /\ call[Current(x)].verdict = "none"
  BY <1>1 DEF Trying, Progress, ProgressOf
<1>8. \A c \in hit \cup cs :
          /\ c \in Calls /\ c[1] \in Execs /\ c[2] = exec[c[1]].attempt /\ exec[c[1]].stage = "trying"
          /\ call[c].verdict = "none"
  <2> SUFFICES ASSUME NEW c \in hit \cup cs
               PROVE  /\ c \in Calls /\ c[1] \in Execs /\ c[2] = exec[c[1]].attempt
                      /\ exec[c[1]].stage = "trying" /\ call[c].verdict = "none"
    OBVIOUS
  <2>1. PICK x \in Execs : Trying(x) /\ c = Current(x)
    <3>1. CASE c \in cs
      BY <1>5, <3>1, CallsAre
    <3>2. CASE c \notin cs
      BY <1>5, <3>2 DEF Hit
    <3> QED
      BY <3>1, <3>2
  <2> QED
    BY <1>6, <1>7, <2>1
<1>9. left \subseteq hit /\ left \subseteq InLine
  BY <1>8 DEF Left, InLine
<1>10. /\ \A x \in xs : Trying(x) /\ call[Current(x)].signal = "live" => Current(x) \in hit
       /\ \A c \in cs : call[c].signal = "live" => c \in hit
       /\ \A c \in hit : call[c].signal = "live" /\ (c \in cs \/ \E y \in xs : Trying(y) /\ c = Current(y))
       /\ \A c \in hit : call[c].place = "queued" => c \in left
  BY DEF Hit, Left
<1>11. \A c \in Calls : c[1] \in Execs /\ c[2] \in Nat /\ c[2] > 0 /\ (c[2] = exec[c[1]].attempt => c = Current(c[1]))
  BY CallsAre, ConstantsAssumption DEF Current
<1> HIDE DEF hit, left
<1>12. \A c \in InLine : c \notin left =>
           /\ c \notin hit \cup verdicts /\ call'[c] = call[c] /\ exec'[c[1]] = exec[c[1]]
  <2> SUFFICES ASSUME NEW c \in InLine, c \notin left
               PROVE  /\ c \notin hit \cup verdicts /\ call'[c] = call[c] /\ exec'[c[1]] = exec[c[1]]
    OBVIOUS
  <2>1. /\ c \in Calls /\ call[c].place = "queued" /\ call[c].verdict = "none" /\ call[c].signal = "live"
        /\ exec[c[1]].stage = "trying" /\ exec[c[1]].attempt = c[2]
    BY <1>1 DEF Waiters, InLine
  <2>2. c \notin hit /\ c \notin verdicts
    BY <1>5, <1>10, <2>1
  <2>3. c = Current(c[1]) /\ Trying(c[1])
    BY <1>11, <2>1 DEF Trying
  <2>4. c[1] \notin xs
    BY <1>10, <2>1, <2>2, <2>3
  <2> QED
    BY <1>3, <1>4, <1>11, <2>1, <2>2, <2>4
<1>13. SlotsKept' /\ queue' \in Seq(Calls)
  <2>1. /\ running \in Nat /\ queue \in Seq(Calls) /\ running = Cardinality(Holders) /\ running <= MaxConcurrent
        /\ queue # <<>> => running = MaxConcurrent
        /\ Distinct(queue) /\ ToSet(queue) = InLine
    BY <1>1 DEF TypeOK, SlotsKept
  <2>2. queue' \in Seq(Calls) /\ Distinct(queue') /\ ToSet(queue') = ToSet(queue) \ left
    BY <1>2, <2>1, QueueRemaining
  <2>3. Holders' = Holders
    <3>1. \A c \in Calls : c \in Holders' <=> c \in Holders
      BY <1>4, <1>9 DEF Holders, InLine
    <3> QED
      BY <3>1 DEF Holders
  <2>4. InLine' = InLine \ left
    <3>1. \A c \in Calls : c \in InLine' <=> c \in InLine \ left
      BY <1>4 DEF InLine
    <3> QED
      BY <3>1 DEF InLine
  <2>5. queue' # <<>> => queue # <<>>
    <3> SUFFICES ASSUME queue' # <<>>, queue = <<>> PROVE FALSE
      OBVIOUS
    <3>1. queue'[1] \in ToSet(queue')
      BY <2>2 DEF ToSet
    <3>2. ToSet(queue) = {}
      BY DEF ToSet
    <3> QED
      BY <2>2, <3>1, <3>2
  <2> QED
    BY <2>1, <2>2, <2>3, <2>4, <2>5 DEF SlotsKept
<1>14. TypeOK'
  BY <1>1, <1>2, <1>13 DEF TypeOK
<1>15. Progress'
  <2> SUFFICES ASSUME NEW x \in Execs PROVE ProgressOf(x)'
    BY DEF Progress
  <2>1. ProgressOf(x)
    BY <1>1 DEF Progress
  <2>2. CASE ~(x \in xs /\ exec[x].signal = "live")
    <3>1. exec'[x] = exec[x]
      BY <1>3, <2>2
    <3> QED
      BY <2>1, <3>1 DEF ProgressOf
  <2>3. CASE x \in xs /\ exec[x].signal = "live"
    <3>1. exec[x].stage \notin {"new", "settled"} /\ exec[x].attempt > 0
      <4>1. exec[x].stage \in Stages
        BY <1>1 DEF TypeOK, ExecType
      <4> QED
        BY <1>5, <2>1, <2>3, <4>1 DEF ProgressOf, Stages
    <3>2. exec[x].attempt \in Nat
      BY <1>1 DEF TypeOK, ExecType
    <3> QED
      BY <1>3, <2>1, <2>3, <3>1, <3>2 DEF ProgressOf
  <2> QED
    BY <2>2, <2>3
<1>16. Ahead'
  <2> SUFFICES ASSUME NEW c \in Calls, c[2] > exec'[c[1]].attempt
               PROVE  call'[c].place = "none" /\ call'[c].signal = "live" /\ call'[c].verdict = "none"
    BY DEF Ahead
  <2>1. c[2] > exec[c[1]].attempt
    BY <1>3, <1>11
  <2>2. c \notin hit \cup verdicts
    BY <1>5, <1>8, <1>11, <2>1
  <2> QED
    BY <1>1, <1>4, <2>1, <2>2 DEF Ahead
<1>17. Nested'
  <2> SUFFICES ASSUME NEW x \in Execs
               PROVE  /\ exec'[x].inside # NoCall => exec'[x].inside \in Calls /\ exec'[x].inside[1] = Parent[x]
                      /\ exec'[x].linked => exec'[x].inside # NoCall
                      /\ exec'[x].linked /\ exec'[x].stage # "settled" /\ exec'[x].signal = "live" =>
                             call'[exec'[x].inside].signal = "live"
    BY DEF Nested
  <2>1. /\ exec[x].inside # NoCall => exec[x].inside \in Calls /\ exec[x].inside[1] = Parent[x]
        /\ exec[x].linked => exec[x].inside # NoCall
        /\ exec[x].linked /\ exec[x].stage # "settled" /\ exec[x].signal = "live" =>
               call[exec[x].inside].signal = "live"
    BY <1>1 DEF Nested
  <2>2. exec'[x].inside = exec[x].inside /\ exec'[x].linked = exec[x].linked
    BY <1>3
  <2>3. ASSUME exec[x].linked, exec'[x].stage # "settled", exec'[x].signal = "live"
        PROVE  call'[exec[x].inside].signal = "live"
    <3>1. exec'[x] = exec[x] /\ x \notin xs
      <4>1. CASE exec[x].signal = "live"
        BY <1>3, <2>3, <4>1
      <4>2. CASE exec[x].signal # "live"
        BY <1>3, <2>3, <4>2
      <4> QED
        BY <4>1, <4>2
    <3>2. exec[x].inside \notin hit
      <4>1. exec[x].inside \notin cs /\ ~\E y \in xs : Trying(y) /\ exec[x].inside = Current(y)
        BY <2>3, <3>1 DEF Abortable
      <4> QED
        BY <1>10, <4>1
    <3> QED
      BY <1>4, <2>1, <2>3, <3>1, <3>2
  <2> QED
    BY <2>1, <2>2, <2>3
<1>18. Waiters'
  <2> SUFFICES ASSUME NEW c \in Calls, call'[c].place = "queued"
               PROVE  /\ exec'[c[1]].stage = "trying" /\ exec'[c[1]].attempt = c[2] /\ exec'[c[1]].signal = "live"
                      /\ call'[c].verdict = "none" /\ call'[c].signal = "live"
    BY DEF Waiters, InLine
  <2>1. c \in InLine /\ c \notin left
    BY <1>4 DEF InLine
  <2> QED
    BY <1>1, <1>12, <2>1 DEF Waiters
<1>19. \A c \in Calls : call[c].verdict # "none" => call'[c] = call[c]
  BY <1>4, <1>5, <1>8
<1>20. Decided'
  <2> SUFFICES ASSUME NEW c \in Calls PROVE DecidedOn(c)'
    BY DEF Decided
  <2>1. DecidedOn(c) /\ c[1] \in Execs /\ exec'[c[1]].attempt = exec[c[1]].attempt
    BY <1>1, <1>3, <1>11 DEF Decided
  <2>2. exec'[c[1]].stage = exec[c[1]].stage \/ (exec[c[1]].stage = "sleeping" /\ exec'[c[1]].stage = "settled")
    BY <1>3, <2>1
  <2>3. c[2] = exec[c[1]].attempt /\ exec'[c[1]].stage = "settled" =>
            call'[c].verdict # "none" /\ exec'[c[1]].outcome \in {call'[c].verdict, exec'[c[1]].signal}
    <3> SUFFICES ASSUME c[2] = exec[c[1]].attempt, exec'[c[1]].stage = "settled"
                 PROVE  call'[c].verdict # "none" /\ exec'[c[1]].outcome \in {call'[c].verdict, exec'[c[1]].signal}
      OBVIOUS
    <3>1. CASE exec[c[1]].stage = "settled"
      <4>1. exec'[c[1]] = exec[c[1]] /\ call[c].verdict # "none"
        BY <1>3, <1>5, <2>1, <3>1 DEF DecidedOn
      <4> QED
        BY <1>19, <2>1, <3>1, <4>1 DEF DecidedOn
    <3>2. CASE exec[c[1]].stage = "sleeping"
      <4>1. call[c].verdict \in {"failed", "timeout"}
        BY <2>1, <3>2 DEF DecidedOn
      <4>2. exec'[c[1]].outcome = why /\ exec'[c[1]].signal = why
        BY <1>3, <2>1, <3>2
      <4> QED
        BY <1>19, <4>1, <4>2
    <3> QED
      BY <2>2, <3>1, <3>2
  <2>4. c[2] = exec[c[1]].attempt /\ call'[c].verdict = "caller" => exec'[c[1]].signal = "caller"
    <3> SUFFICES ASSUME c[2] = exec[c[1]].attempt, call'[c].verdict = "caller"
                 PROVE  exec'[c[1]].signal = "caller"
      OBVIOUS
    <3>1. CASE call[c].verdict = "caller"
      BY <1>3, <2>1, <3>1 DEF DecidedOn
    <3>2. CASE call[c].verdict # "caller"
      <4>1. c \in left \cup verdicts /\ why = "caller"
        BY <1>4, <3>2
      <4>2. c \in left /\ c \in hit /\ c \in InLine /\ cs = {}
        BY <1>5, <1>9, <4>1
      <4>3. PICK y \in xs : Trying(y) /\ c = Current(y)
        BY <1>10, <4>2
      <4>4. c[1] = y
        BY <1>5, <1>6, <1>7, <4>3
      <4>5. exec[y].signal = "live"
        BY <1>1, <4>2, <4>4 DEF Waiters
      <4> QED
        BY <1>3, <2>1, <4>1, <4>4, <4>5
    <3> QED
      BY <3>1, <3>2
  <2>5. call'[c].place \in {"granted", "running"} /\ call'[c].verdict # "none" =>
            call'[c].verdict = "timeout" /\ call'[c].signal # "live"
    <3> SUFFICES ASSUME call'[c].place \in {"granted", "running"}, call'[c].verdict # "none"
                 PROVE  call'[c].verdict = "timeout" /\ call'[c].signal # "live"
      OBVIOUS
    <3>1. c \notin left /\ call[c].place \in {"granted", "running"}
      BY <1>4
    <3>2. CASE call[c].verdict # "none"
      BY <1>19, <2>1, <3>1, <3>2 DEF DecidedOn
    <3>3. CASE call[c].verdict = "none"
      <4>1. c \in verdicts /\ c \in cs /\ why = "timeout"
        BY <1>4, <1>5, <3>1, <3>3
      <4>2. call[c].signal = "live" => c \in hit
        BY <1>10, <4>1
      <4> QED
        BY <1>4, <4>1, <4>2
    <3> QED
      BY <3>2, <3>3
  <2>6. c[2] < exec[c[1]].attempt => call'[c].verdict \in {"failed", "timeout"}
    BY <1>19, <2>1 DEF DecidedOn
  <2>7. c[2] = exec[c[1]].attempt /\ exec'[c[1]].stage \in {"sleeping", "woken"} =>
            call'[c].verdict \in {"failed", "timeout"}
    BY <1>19, <2>1, <2>2 DEF DecidedOn
  <2> QED
    BY <2>1, <2>3, <2>4, <2>5, <2>6, <2>7 DEF DecidedOn
<1>21. Told'
  <2> SUFFICES ASSUME NEW x \in Execs PROVE ToldOf(x)'
    BY DEF Told
  <2>1. /\ ToldOf(x) /\ book'[x] = book[x] /\ exec'[x].attempt = exec[x].attempt
        /\ Current(x)' = Current(x)
        /\ exec'[x].stage = exec[x].stage \/ (exec[x].stage = "sleeping" /\ exec'[x].stage = "settled")
    BY <1>1, <1>3 DEF Told, Current
  <2>2. exec[x].attempt > 0 /\ exec[x].stage = "settled" =>
            call'[Current(x)].verdict = call[Current(x)].verdict
    BY <1>1, <1>6, <1>19 DEF Decided, DecidedOn
  <2>3. exec[x].stage = "sleeping" =>
            /\ exec[x].attempt > 0
            /\ call'[Current(x)].verdict \in {"failed", "timeout"}
    BY <1>1, <1>6, <1>19 DEF Decided, DecidedOn, Progress, ProgressOf
  <2>4. CASE exec'[x].stage = exec[x].stage
    BY <2>1, <2>2, <2>4 DEF ToldOf
  <2>5. CASE exec[x].stage = "sleeping" /\ exec'[x].stage = "settled"
    BY <2>1, <2>3, <2>5 DEF ToldOf
  <2> QED
    BY <2>1, <2>4, <2>5
<1> QED
  BY <1>13, <1>14, <1>15, <1>16, <1>17, <1>18, <1>20, <1>21 DEF Inv

(* The signals of some executions and attempts abort.                      *)
Aborts ==
    \E xs \in SUBSET Execs, cs \in SUBSET Calls, why \in {"caller", "timeout"}, verdicts \in SUBSET Calls :
        /\ Abortable(xs, cs, why, verdicts) /\ AbortSignals(xs, cs, why, verdicts)
        /\ UNCHANGED <<timed, running, book>>

(* An execution inside has none inside of its own attempts.                *)
LEMMA CallerAborts ==
    ASSUME Inv, NEW e \in Execs, Abort(e)
    PROVE  Aborts
<1>1. /\ Parent[e] = 0 /\ exec[e].stage \notin {"new", "settled"} /\ exec[e].signal = "live"
      /\ AbortSignals(Reached(e), {}, "caller", {}) /\ UNCHANGED <<timed, running, book>>
  BY DEF Abort
<1>2. \A x \in Execs : exec[x].linked /\ exec[x].stage # "settled" => exec[x].stage # "new" /\ exec[x].inside \in Calls
                                                                     /\ exec[x].inside[1] = Parent[x]
  BY DEF Inv, Progress, ProgressOf, Nested
<1>3. \A x \in Reached(e) : x \in Execs /\ exec[x].stage \notin {"new", "settled"}
  BY <1>1, <1>2 DEF Reached, Heirs
<1>4. ASSUME NEW x \in Execs, exec[x].linked, exec[x].stage # "settled",
             NEW y \in Reached(e), Trying(y), exec[x].inside = Current(y)
      PROVE  x \in Reached(e)
  <2>1. CASE y = e
    BY <1>4, <2>1 DEF Reached, Heirs
  <2>2. CASE y # e
    <3>1. y \in Execs /\ exec[y].linked /\ exec[y].inside = Current(e) /\ exec[y].stage # "settled"
      BY <2>2 DEF Reached, Heirs
    <3>2. Parent[y] = e /\ Parent[x] = y
      BY <1>2, <1>4, <3>1 DEF Current
    <3> QED
      BY <3>1, <3>2, ConstantsAssumption
  <2> QED
    BY <2>1, <2>2
<1>5. Abortable(Reached(e), {}, "caller", {})
  BY <1>3, <1>4 DEF Abortable
<1>6. Reached(e) \in SUBSET Execs /\ {} \in SUBSET Calls
  BY <1>3
<1> QED
  BY <1>1, <1>5, <1>6, Zenon DEF Aborts

LEMMA TimerAborts ==
    ASSUME Inv, NEW e \in Execs, TimerFires(e)
    PROVE  Aborts
<1> DEFINE c == Current(e)
<1>1. /\ Trying(e) /\ AbortSignals(Heirs(c), {c}, "timeout", {c}) /\ UNCHANGED <<timed, running, book>>
  BY DEF TimerFires
<1>2. c \in Calls /\ c[1] = e
  <2>1. exec[e].attempt \in Nat /\ exec[e].attempt > 0 /\ exec[e].attempt <= Attempts[e] /\ Attempts[e] \in Nat
    BY <1>1, ConstantsAssumption DEF Trying, Inv, TypeOK, ExecType, Progress, ProgressOf
  <2> QED
    BY <2>1, CallsAre DEF Current
<1>3. \A x \in Execs : exec[x].linked /\ exec[x].stage # "settled" => exec[x].stage # "new" /\ exec[x].inside \in Calls
                                                                     /\ exec[x].inside[1] = Parent[x]
  BY DEF Inv, Progress, ProgressOf, Nested
<1>4. \A x \in Heirs(c) : x \in Execs /\ exec[x].stage \notin {"new", "settled"}
  BY <1>3 DEF Heirs
<1>5. ASSUME NEW x \in Execs, exec[x].linked, exec[x].stage # "settled",
             exec[x].inside \in {c} \/ \E y \in Heirs(c) : Trying(y) /\ exec[x].inside = Current(y)
      PROVE  x \in Heirs(c)
  <2>1. CASE exec[x].inside = c
    BY <1>5, <2>1 DEF Heirs
  <2>2. ASSUME NEW y \in Heirs(c), exec[x].inside = Current(y) PROVE FALSE
    <3>1. y \in Execs /\ exec[y].linked /\ exec[y].inside = c /\ exec[y].stage # "settled"
      BY DEF Heirs
    <3>2. Parent[y] = e /\ Parent[x] = y
      BY <1>2, <1>3, <1>5, <2>2, <3>1 DEF Current
    <3> QED
      BY <3>1, <3>2, ConstantsAssumption
  <2> QED
    BY <1>5, <2>1, <2>2
<1>6. Abortable(Heirs(c), {c}, "timeout", {c})
  <2> HIDE DEF c
  <2>1. c = Current(c[1]) /\ Trying(c[1])
    BY <1>1, <1>2 DEF c
  <2> QED
    BY <1>2, <1>4, <1>5, <2>1 DEF Abortable
<1> HIDE DEF c
<1>7. Heirs(c) \in SUBSET Execs /\ {c} \in SUBSET Calls
  BY <1>2, <1>4
<1> QED
  BY <1>1, <1>6, <1>7, Zenon DEF Aborts

LEMMA AbortsKeepInv ==
    ASSUME Inv, Aborts
    PROVE  Inv'
BY AbortKeepsInv DEF Aborts

-----------------------------------------------------------------------------
(* The calls of execute(), and the retries.                                *)

(* Execution e begins an attempt.                                          *)
Begins(e) ==
    \E x \in ExecType, refused \in BOOLEAN :
        Begin(e, x, refused) /\ Goes(e, x) /\ UNCHANGED <<timed, book>>

LEMMA BeginsKeepsInv ==
    ASSUME Inv, NEW e \in Execs, Begins(e)
    PROVE  Inv'
BY BeginKeepsInv DEF Begins

LEMMA ExecuteBegins ==
    ASSUME Inv, NEW e \in Execs, Execute(e)
    PROVE  Begins(e)
<1> DEFINE x == [exec[e] EXCEPT !.stage = "trying", !.attempt = 1]
<1>1. Begin(e, x, FALSE) /\ exec[e].stage = "new" /\ UNCHANGED <<timed, book>>
  BY DEF Execute
<1>2. exec[e] \in ExecType /\ exec[e].attempt = 0 /\ exec[e].signal = "live" /\ ~exec[e].linked
      /\ (exec[e].inside # NoCall => exec[e].inside \in Calls /\ exec[e].inside[1] = Parent[e])
  BY <1>1 DEF Inv, TypeOK, Progress, ProgressOf, Nested
<1>3. /\ x \in ExecType /\ x.stage = "trying" /\ x.attempt = 1 /\ x.signal = "live"
      /\ x.inside = exec[e].inside /\ ~x.linked
  BY <1>2 DEF ExecType, Stages
<1> HIDE DEF x
<1>4. Goes(e, x)
  BY <1>1, <1>2, <1>3 DEF Goes
<1>5. x \in ExecType
  BY <1>4 DEF Goes
<1> QED
  BY <1>1, <1>4, <1>5, Zenon DEF Begins

LEMMA ExecuteInsideBegins ==
    ASSUME Inv, NEW e \in Execs, NEW c \in Calls, ExecuteInside(e, c)
    PROVE  Begins(e)
<1> DEFINE live == call[c].signal = "live"
           x == [exec[e] EXCEPT !.stage = "trying", !.attempt = 1, !.inside = c, !.linked = live]
<1>1. /\ Begin(e, x, FALSE) /\ exec[e].stage = "new" /\ UNCHANGED <<timed, book>>
      /\ c[1] = Parent[e]
  BY DEF ExecuteInside
<1>2. exec[e] \in ExecType /\ exec[e].attempt = 0 /\ exec[e].signal = "live"
  BY <1>1 DEF Inv, TypeOK, Progress, ProgressOf
<1>3. live \in BOOLEAN /\ (live => call[c].signal = "live")
  OBVIOUS
<1> HIDE DEF live
<1>4. /\ x \in ExecType /\ x.stage = "trying" /\ x.attempt = 1 /\ x.signal = "live"
      /\ x.inside = c /\ x.linked = live
  <2> DEFINE y == [exec[e] EXCEPT !.stage = "trying"]
             z == [y EXCEPT !.attempt = 1]
             w == [z EXCEPT !.inside = c]
  <2>1. y \in ExecType /\ y.stage = "trying" /\ y.signal = "live"
    BY <1>2 DEF ExecType, Stages
  <2>2. x = [w EXCEPT !.linked = live]
    OBVIOUS
  <2> HIDE DEF x, y
  <2>3. z \in ExecType /\ z.stage = "trying" /\ z.signal = "live" /\ z.attempt = 1
    BY <2>1 DEF ExecType
  <2> HIDE DEF z
  <2>4. w \in ExecType /\ w.stage = "trying" /\ w.signal = "live" /\ w.attempt = 1 /\ w.inside = c
    BY <2>3 DEF ExecType
  <2> HIDE DEF w
  <2> QED
    BY <1>3, <2>2, <2>4 DEF ExecType
<1>5. c # NoCall
  BY CallsAre
<1> HIDE DEF x
<1>6. Goes(e, x)
  BY <1>1, <1>2, <1>3, <1>4, <1>5 DEF Goes
<1>7. x \in ExecType
  BY <1>6 DEF Goes
<1> QED
  BY <1>1, <1>6, <1>7, Zenon DEF Begins

LEMMA ResumeBegins ==
    ASSUME Inv, NEW e \in Execs, NEW refused \in BOOLEAN, Resume(e, refused)
    PROVE  Begins(e)
<1> DEFINE y == [exec[e] EXCEPT !.stage = "trying"]
           k == exec[e].attempt + 1
           x == [y EXCEPT !.attempt = k]
<1>1. Begin(e, x, refused) /\ exec[e].stage = "woken" /\ UNCHANGED <<timed, book>>
  BY DEF Resume
<1>2. /\ exec[e] \in ExecType /\ exec[e].attempt \in Nat
      /\ exec[e].inside # NoCall => exec[e].inside \in Calls /\ exec[e].inside[1] = Parent[e]
      /\ exec[e].linked => exec[e].inside # NoCall
      /\ exec[e].linked /\ exec[e].signal = "live" => call[exec[e].inside].signal = "live"
  BY <1>1 DEF Inv, TypeOK, ExecType, Nested
<1>3. k \in Nat
  BY <1>2
<1>4. /\ y \in ExecType /\ y.stage = "trying" /\ y.signal = exec[e].signal
      /\ y.inside = exec[e].inside /\ y.linked = exec[e].linked
  BY <1>2 DEF ExecType, Stages
<1> HIDE DEF y
<1>5. /\ x \in ExecType /\ x.stage = "trying" /\ x.attempt = k /\ x.signal = exec[e].signal
      /\ x.inside = exec[e].inside /\ x.linked = exec[e].linked
  <2> HIDE DEF k
  <2> QED
    BY <1>3, <1>4 DEF ExecType
<1> HIDE DEF x
<1>6. Goes(e, x)
  BY <1>1, <1>2, <1>5 DEF Goes
<1>7. x \in ExecType
  BY <1>6 DEF Goes
<1> QED
  BY <1>1, <1>6, <1>7, Zenon DEF Begins

-----------------------------------------------------------------------------
(* The invariant holds.                                                    *)

LEMMA InitInv == Init => Inv
<1> SUFFICES ASSUME Init PROVE Inv
  OBVIOUS
<1>1. \A e \in Execs : exec[e] = [stage |-> "new", attempt |-> 0, signal |-> "live",
                                  inside |-> NoCall, linked |-> FALSE, outcome |-> "none"]
  BY DEF Init
<1>2. \A c \in Calls : call[c] = [place |-> "none", signal |-> "live", verdict |-> "none"]
  BY DEF Init
<1>3. running = 0 /\ queue = <<>> /\ \A e \in Execs : book[e] = <<>>
  BY DEF Init
<1>4. TypeOK
  BY ConstantsAssumption DEF Init, TypeOK, ExecType, CallType, Stages, Signals, Places, Verdicts
<1>5. SlotsKept
  <2>1. Holders = {} /\ InLine = {}
    BY <1>2 DEF Holders, InLine
  <2> QED
    BY <1>3, <2>1, FS_EmptySet, ConstantsAssumption DEF SlotsKept, Distinct, ToSet
<1>6. Progress
  BY <1>1, ConstantsAssumption DEF Progress, ProgressOf
<1>7. Ahead
  BY <1>2 DEF Ahead
<1>8. Nested
  BY <1>1 DEF Nested
<1>9. Waiters
  BY <1>2 DEF Waiters, InLine
<1>10. Decided
  <2> SUFFICES ASSUME NEW c \in Calls PROVE DecidedOn(c)
    BY DEF Decided
  <2>1. exec[c[1]].attempt = 0 /\ c[2] \in Nat /\ c[2] > 0
    BY <1>1, CallsAre, ConstantsAssumption
  <2> QED
    BY <1>2, <2>1 DEF DecidedOn
<1>11. Told
  BY <1>1, <1>3 DEF Told, ToldOf
<1> QED
  BY <1>4, <1>5, <1>6, <1>7, <1>8, <1>9, <1>10, <1>11 DEF Inv

(* All that a step may be.                                                 *)
LEMMA StepsAre ==
    ASSUME Inv, [Next]_vars
    PROVE  \/ Aborts
           \/ \E e \in Execs : Begins(e) \/ ExecuteAborted(e) \/ Wake(e) \/ Conclude(e)
           \/ \E c \in Calls : Start(c)
           \/ \E c \in Calls, r \in Results : FnSettles(c, r)
           \/ UNCHANGED vars
<1>1. ASSUME NEW e \in Execs, TimerFires(e) \/ Abort(e) PROVE Aborts
  BY <1>1, TimerAborts, CallerAborts
<1>2. ASSUME NEW e \in Execs, Execute(e) PROVE Begins(e)
  BY <1>2, ExecuteBegins
<1>3. ASSUME NEW e \in Execs, NEW c \in Calls, ExecuteInside(e, c) PROVE Begins(e)
  BY <1>3, ExecuteInsideBegins
<1>4. ASSUME NEW e \in Execs, NEW refused \in BOOLEAN, Resume(e, refused) PROVE Begins(e)
  BY <1>4, ResumeBegins
<1> QED
  BY <1>1, <1>2, <1>3, <1>4 DEF Next, Microtask, Timer

LEMMA NextKeepsInv == Inv /\ [Next]_vars => Inv'
<1> SUFFICES ASSUME Inv, [Next]_vars PROVE Inv'
  OBVIOUS
<1>1. CASE Aborts
  BY <1>1, AbortsKeepInv
<1>2. ASSUME NEW e \in Execs, Begins(e) PROVE Inv'
  BY <1>2, BeginsKeepsInv
<1>3. ASSUME NEW e \in Execs, ExecuteAborted(e) PROVE Inv'
  BY <1>3, ExecuteAbortedKeepsInv
<1>4. ASSUME NEW e \in Execs, Wake(e) PROVE Inv'
  BY <1>4, WakeKeepsInv
<1>5. ASSUME NEW e \in Execs, Conclude(e) PROVE Inv'
  BY <1>5, ConcludeKeepsInv
<1>6. ASSUME NEW c \in Calls, Start(c) PROVE Inv'
  BY <1>6, StartKeepsInv
<1>7. ASSUME NEW c \in Calls, NEW r \in Results, FnSettles(c, r) PROVE Inv'
  BY <1>7, FnSettlesKeepsInv
<1>8. CASE UNCHANGED vars
  <2>1. UNCHANGED <<timed, exec, call, running, queue, book>>
    BY <1>8 DEF vars
  <2>2. TypeOK' /\ SlotsKept' /\ Progress' /\ Ahead'
    BY <2>1 DEF Inv, TypeOK, SlotsKept, Holders, InLine, Progress, ProgressOf, Ahead
  <2>3. Nested' /\ Waiters'
    BY <2>1 DEF Inv, Nested, Waiters, InLine
  <2>4. Decided' /\ Told'
    BY <2>1 DEF Inv, Decided, DecidedOn, Told, ToldOf, Current
  <2> QED
    BY <2>2, <2>3, <2>4 DEF Inv
<1> QED
  BY <1>1, <1>2, <1>3, <1>4, <1>5, <1>6, <1>7, <1>8, StepsAre

(* The invariant holds in every behaviour of the calls under their         *)
(* policies.                                                               *)
THEOREM InvHolds == Spec => []Inv
<1> QED
  BY InitInv, NextKeepsInv, PTL DEF Spec

-----------------------------------------------------------------------------
(* What the invariant says of the code.                                    *)

(* BulkheadPolicy.running is the number of functions in progress, with the *)
(* zombies of timed-out attempts and those about to start; it keeps to     *)
(* maxConcurrent, and nobody queues beside a free slot.                    *)
THEOREM CounterIsLoad == Spec => []SlotsAreLoad
<1>1. Inv => SlotsAreLoad
  BY DEF Inv, SlotsKept, Holders, SlotsAreLoad
<1> QED
  BY <1>1, InvHolds, PTL

(* Whoever is in BulkheadPolicy.queue is the present attempt of an         *)
(* execution that goes on, and no signal around it has aborted; and no     *)
(* retry sleeps after its execution's signal aborted.                      *)
THEOREM TheLivingWait == Spec => []OnlyTheLivingWait
<1>1. Inv => OnlyTheLivingWait
  <2> SUFFICES ASSUME Inv PROVE OnlyTheLivingWait
    OBVIOUS
  <2>1. ASSUME NEW i \in DOMAIN queue
        PROVE  /\ Trying(queue[i][1]) /\ queue[i] = Current(queue[i][1])
               /\ call[queue[i]].signal = "live" /\ exec[queue[i][1]].signal = "live"
               /\ exec[queue[i][1]].linked => call[exec[queue[i][1]].inside].signal = "live"
    <3>1. queue[i] \in InLine
      BY DEF Inv, SlotsKept, ToSet
    <3> DEFINE c == queue[i]
    <3> HIDE DEF c
    <3>2. c \in InLine /\ c \in Calls
      BY <3>1 DEF InLine, c
    <3>3. /\ exec[c[1]].stage = "trying" /\ exec[c[1]].attempt = c[2] /\ exec[c[1]].signal = "live"
          /\ call[c].verdict = "none" /\ call[c].signal = "live"
      BY <3>2 DEF Inv, Waiters
    <3>4. c[1] \in Execs /\ c = Current(c[1])
      BY <3>2, <3>3, CallsAre DEF Current
    <3>5. Trying(c[1])
      BY <3>3, <3>4 DEF Trying
    <3>6. exec[c[1]].linked => call[exec[c[1]].inside].signal = "live"
      BY <3>3, <3>4 DEF Inv, Nested
    <3> QED
      BY <3>3, <3>4, <3>5, <3>6 DEF c
  <2>2. \A e \in Execs : exec[e].stage = "sleeping" => exec[e].signal = "live"
    BY DEF Inv, Progress, ProgressOf
  <2> QED
    BY <2>1, <2>2 DEF OnlyTheLivingWait
<1> QED
  BY <1>1, InvHolds, PTL

(* What a function returns after its attempt timed out changes nothing: an *)
(* attempt that was left behind had failed or timed out, a function still  *)
(* in progress after that was told by its signal, and what execute()       *)
(* returned is the verdict of its last attempt, or its abort.              *)
THEOREM LateResultsDropped == Spec => []LateResultsAreDropped
<1>1. Inv => LateResultsAreDropped
  <2> SUFFICES ASSUME Inv PROVE LateResultsAreDropped
    OBVIOUS
  <2>1. ASSUME NEW c \in Calls
        PROVE  /\ c[2] < exec[c[1]].attempt \/ (c = Current(c[1]) /\ exec[c[1]].stage \in {"sleeping", "woken"})
                      => call[c].verdict \in {"failed", "timeout"}
               /\ c[2] > exec[c[1]].attempt => call[c].place = "none"
               /\ call[c].place = "running" /\ call[c].verdict # "none"
                      => call[c].verdict = "timeout" /\ call[c].signal # "live"
    <3>1. DecidedOn(c)
      BY DEF Inv, Decided
    <3>2. c = Current(c[1]) => c[2] = exec[c[1]].attempt
      BY DEF Current
    <3>3. c[2] > exec[c[1]].attempt => call[c].place = "none"
      BY DEF Inv, Ahead
    <3> QED
      BY <3>1, <3>2, <3>3 DEF DecidedOn
  <2>2. ASSUME NEW e \in Execs, exec[e].stage = "settled"
        PROVE  \/ exec[e].attempt > 0 /\ exec[e].outcome = call[Current(e)].verdict
               \/ exec[e].outcome = exec[e].signal
    <3>1. exec[e].attempt \in Nat /\ exec[e].attempt <= Attempts[e] /\ Attempts[e] \in Nat /\ ProgressOf(e)
      BY ConstantsAssumption DEF Inv, TypeOK, ExecType, Progress, ProgressOf
    <3>2. CASE exec[e].attempt = 0
      BY <2>2, <3>1, <3>2 DEF ProgressOf
    <3>3. CASE exec[e].attempt > 0
      <4>1. Current(e) \in Calls /\ Current(e)[1] = e /\ Current(e)[2] = exec[e].attempt
        BY <3>1, <3>3, CallsAre DEF Current
      <4>2. DecidedOn(Current(e))
        BY <4>1 DEF Inv, Decided
      <4> QED
        BY <2>2, <3>3, <4>1, <4>2 DEF DecidedOn
    <3> QED
      BY <3>1, <3>2, <3>3
  <2> QED
    BY <2>1, <2>2 DEF LateResultsAreDropped
<1> QED
  BY <1>1, InvHolds, PTL

(* Retry around the breaker: the breaker was told of a failure for each    *)
(* attempt before the present one, and at most once of this, by a value or *)
(* a failure that counts.                                                  *)
THEOREM RecordedOnce == Spec => []EachAttemptRecordedOnce
<1>1. Inv => EachAttemptRecordedOnce
  <2> SUFFICES ASSUME Inv, NEW e \in Execs, exec[e].attempt > 0
               PROVE  /\ Len(book[e]) \in {exec[e].attempt - 1, exec[e].attempt}
                      /\ \A i \in 1 .. exec[e].attempt - 1 : book[e][i] = "failure"
                      /\ Len(book[e]) = exec[e].attempt =>
                             /\ exec[e].stage # "trying"
                             /\ call[Current(e)].verdict \in {"ok", "failed", "timeout"}
                             /\ book[e][exec[e].attempt] = "success" <=> call[Current(e)].verdict = "ok"
    BY DEF EachAttemptRecordedOnce
  <2>1. exec[e].attempt \in Nat /\ exec[e].attempt <= Attempts[e] /\ Attempts[e] \in Nat
        /\ exec[e].stage \in Stages /\ book[e] \in Seq({"success", "failure"}) /\ ProgressOf(e) /\ ToldOf(e)
    BY ConstantsAssumption DEF Inv, TypeOK, ExecType, Progress, ProgressOf, Told
  <2>2. Current(e) \in Calls /\ Current(e)[1] = e /\ Current(e)[2] = exec[e].attempt
    BY <2>1, CallsAre DEF Current
  <2>3. exec[e].stage \in {"sleeping", "woken"} => call[Current(e)].verdict \in {"failed", "timeout"}
    BY <2>2 DEF Inv, Decided, DecidedOn
  <2>4. exec[e].stage \in {"trying", "sleeping", "woken", "settled"}
    BY <2>1 DEF Stages, ProgressOf
  <2>5. Len(book[e]) \in {exec[e].attempt - 1, exec[e].attempt}
    BY <2>1, <2>4 DEF ToldOf
  <2>6. \A i \in 1 .. exec[e].attempt - 1 : book[e][i] = "failure"
    BY <2>1, <2>5 DEF ToldOf
  <2>7. Len(book[e]) = exec[e].attempt =>
            /\ exec[e].stage # "trying"
            /\ call[Current(e)].verdict \in {"ok", "failed", "timeout"}
            /\ book[e][exec[e].attempt] = "success" <=> call[Current(e)].verdict = "ok"
    BY <2>1, <2>3, <2>4 DEF ToldOf
  <2> QED
    BY <2>5, <2>6, <2>7
<1> QED
  BY <1>1, InvHolds, PTL

-----------------------------------------------------------------------------
(* What no step does.                                                      *)

(* A step that leaves the settled alone, and gives slots in line.          *)
Steady ==
    /\ \A c \in Calls : call[c].verdict # "none" => call'[c].verdict = call[c].verdict
    /\ \A e \in Execs : exec[e].stage = "settled" => exec'[e] = exec[e] /\ book'[e] = book[e]
    /\ \A c \in Calls : call[c].place # "granted" /\ call'[c].place = "granted" =>
           IF queue = <<>> THEN call[c].place = "none" ELSE c = Head(queue)

(* Beginning, an attempt finds a free slot only where nobody waits.        *)
LEMMA BeginsIsSteady ==
    ASSUME Inv, NEW e \in Execs, Begins(e)
    PROVE  Steady
<1>1. TypeOK /\ SlotsKept /\ Progress /\ Ahead
  BY DEF Inv
<1>2. PICK x \in ExecType, refused \in BOOLEAN :
          Begin(e, x, refused) /\ Goes(e, x) /\ UNCHANGED <<timed, book>>
  BY DEF Begins
<1>3. /\ x.attempt = exec[e].attempt + 1 /\ exec[e].stage \in {"new", "woken"}
      /\ exec[e].attempt \in Nat /\ Attempts[e] \in Nat \ {0} /\ exec[e].attempt < Attempts[e]
  BY <1>1, <1>2, ConstantsAssumption DEF Goes, TypeOK, ExecType, Progress, ProgressOf
<1> DEFINE c == <<e, x.attempt>>
<1>4. c \in Calls /\ c[1] = e /\ c[2] > exec[e].attempt
  BY <1>3, CallsAre
<1>5. c = <<e, x.attempt>>
  OBVIOUS
<1> HIDE DEF c
<1>6. call[c].place = "none" /\ call[c].signal = "live" /\ call[c].verdict = "none"
  BY <1>1, <1>4 DEF Ahead
<1>7. PICK place \in Places, verdict \in Verdicts : Begun(e, x, c, place, verdict)
  BY <1>1, <1>2, <1>4, <1>5, <1>6, BeginEffect
<1>8. /\ \A d \in Execs : d # e => exec'[d] = exec[d]
      /\ \A d \in Calls : d # c => call'[d] = call[d]
      /\ call'[c].place = "granted" => running < MaxConcurrent
  BY <1>7 DEF Begun
<1>9. call'[c].place = "granted" => queue = <<>>
  BY <1>1, <1>8, ConstantsAssumption DEF SlotsKept, TypeOK
<1> QED
  BY <1>2, <1>3, <1>6, <1>8, <1>9 DEF Steady

(* An abort reaches nothing that is settled, and grants no slot.           *)
LEMMA AbortsAreSteady ==
    ASSUME Inv, Aborts
    PROVE  Steady
<1>1. TypeOK /\ Waiters
  BY DEF Inv
<1>2. PICK xs \in SUBSET Execs, cs \in SUBSET Calls, why \in {"caller", "timeout"}, verdicts \in SUBSET Calls :
          /\ Abortable(xs, cs, why, verdicts) /\ AbortSignals(xs, cs, why, verdicts)
          /\ UNCHANGED <<timed, running, book>>
  BY DEF Aborts
<1>3. ExecsAborted(xs, why) /\ CallsAborted(Hit(xs, cs), Left(xs, cs), why, verdicts)
  BY <1>1, <1>2, AbortEffect
<1>4. \A c \in Calls : c \in Left(xs, cs) \cup verdicts => call[c].verdict = "none"
  <2>1. \A c \in Calls : c \in Left(xs, cs) => c \in InLine
    BY DEF Left, InLine
  <2>2. \A c \in verdicts : call[c].verdict = "none"
    BY <1>2 DEF Abortable, Trying
  <2> QED
    BY <1>1, <2>1, <2>2 DEF Waiters
<1>5. \A c \in Calls : call[c].verdict # "none" => call'[c].verdict = call[c].verdict
  BY <1>3, <1>4 DEF CallsAborted
<1>6. \A e \in Execs : exec[e].stage = "settled" => exec'[e] = exec[e]
  BY <1>2, <1>3 DEF Abortable, ExecsAborted
<1>7. \A c \in Calls : call'[c].place = "granted" => call[c].place = "granted"
  BY <1>3 DEF CallsAborted
<1> QED
  BY <1>2, <1>5, <1>6, <1>7 DEF Steady

(* A slot that comes free goes to the head of the queue; what comes late   *)
(* finds a verdict there.                                                  *)
LEMMA FnSettlesIsSteady ==
    ASSUME Inv, NEW c \in Calls, NEW result \in Results, FnSettles(c, result)
    PROVE  Steady
<1> DEFINE granted == IF queue = <<>> THEN {} ELSE {Head(queue)}
<1>1. /\ call' = [d \in Calls |->
             IF d = c THEN [call[c] EXCEPT !.place = "over", !.verdict = VerdictOn(c, result)]
             ELSE IF d \in granted THEN [call[d] EXCEPT !.place = "granted"]
             ELSE call[d]]
      /\ UNCHANGED <<timed, exec, book>>
  BY DEF FnSettles
<1>2. \A d \in Calls : call[d] \in CallType
  BY DEF Inv, TypeOK
<1>3. call'[c].verdict = VerdictOn(c, result) /\ call'[c].place = "over"
  <2>1. call'[c] = [call[c] EXCEPT !.place = "over", !.verdict = VerdictOn(c, result)]
    BY <1>1
  <2> QED
    BY <1>2, <2>1 DEF CallType
<1>4. \A d \in Calls : d # c =>
          call'[d].verdict = call[d].verdict /\ (d \notin granted => call'[d] = call[d])
  <2> SUFFICES ASSUME NEW d \in Calls, d # c
               PROVE  call'[d].verdict = call[d].verdict /\ (d \notin granted => call'[d] = call[d])
    OBVIOUS
  <2>1. CASE d \in granted
    <3>1. call'[d] = [call[d] EXCEPT !.place = "granted"]
      BY <1>1, <2>1
    <3> QED
      BY <1>2, <2>1, <3>1 DEF CallType
  <2>2. CASE d \notin granted
    BY <1>1, <2>2
  <2> QED
    BY <2>1, <2>2
<1>5. \A d \in granted : queue # <<>> /\ d = Head(queue)
  OBVIOUS
<1> HIDE DEF granted
<1>6. call[c].verdict # "none" => call'[c].verdict = call[c].verdict
  BY <1>3 DEF VerdictOn
<1> QED
  BY <1>1, <1>3, <1>4, <1>5, <1>6 DEF Steady

LEMMA NextIsSteady ==
    ASSUME Inv, [Next]_vars
    PROVE  Steady
<1>1. exec \in [Execs -> ExecType] /\ call \in [Calls -> CallType] /\ book \in [Execs -> Seq({"success", "failure"})]
  BY DEF Inv, TypeOK
<1>2. ASSUME NEW e \in Execs, ExecuteAborted(e) \/ Wake(e) \/ Conclude(e) PROVE Steady
  <2>1. exec[e].stage # "settled" /\ call' = call
    BY <1>2 DEF ExecuteAborted, Wake, Conclude, Concluding
  <2>2. \A d \in Execs : d # e => exec'[d] = exec[d] /\ book'[d] = book[d]
    BY <1>1, <1>2 DEF ExecuteAborted, Wake, Conclude
  <2> QED
    BY <2>1, <2>2 DEF Steady
<1>3. ASSUME NEW c \in Calls, Start(c) PROVE Steady
  <2>1. call'[c].place = "running" /\ call'[c].verdict = call[c].verdict
    BY <1>1, <1>3 DEF Start, CallType
  <2>2. \A d \in Calls : d # c => call'[d] = call[d]
    BY <1>1, <1>3 DEF Start
  <2>3. UNCHANGED <<exec, book>>
    BY <1>3 DEF Start
  <2> QED
    BY <2>1, <2>2, <2>3 DEF Steady
<1>4. CASE UNCHANGED vars
  BY <1>4 DEF Steady, vars
<1> QED
  BY <1>2, <1>3, <1>4, StepsAre, AbortsAreSteady, BeginsIsSteady, FnSettlesIsSteady

(* releaseSlot() hands its slot to the head of the queue, and acquire()    *)
(* finds a free one only when nobody waits: timeouts do not free slots.    *)
THEOREM SlotsGoInLine == Spec => NobodyOvertakes
<1>1. ASSUME Inv, [Next]_vars
      PROVE  [\A c \in Calls : call[c].place # "granted" /\ call'[c].place = "granted" =>
                  IF queue = <<>> THEN call[c].place = "none" ELSE c = Head(queue)]_vars
  BY <1>1, NextIsSteady DEF Steady
<1> QED
  BY <1>1, InvHolds, PTL DEF Spec, NobodyOvertakes

(* A promise settles once: what the policies made of an attempt and of an  *)
(* execution is never made again of a late result, abort or timer.         *)
THEOREM TheSettledStays == Spec => SettledStays
<1>1. ASSUME Inv, [Next]_vars
      PROVE  [/\ \A c \in Calls : call[c].verdict # "none" => call'[c].verdict = call[c].verdict
              /\ \A e \in Execs : exec[e].stage = "settled" =>
                     exec'[e] = exec[e] /\ book'[e] = book[e]]_vars
  BY <1>1, NextIsSteady DEF Steady
<1> QED
  BY <1>1, InvHolds, PTL DEF Spec, SettledStays
=============================================================================
