------------------------- MODULE ObservedCallProofs -------------------------
(***************************************************************************)
(* ObservedCall for any number of attempts and values: what a consumer     *)
(* gets has one origin, and no source, timer or listener is left behind.   *)
(***************************************************************************)
EXTENDS ObservedCall, FiniteSetTheorems, TLAPS

-----------------------------------------------------------------------------
(* The inductive invariant.                                                *)

(* What each variable may hold.                                            *)
TypeOK ==
    /\ settings \subseteq Settings
    /\ consumer \in {"none", "open", "complete", "error", "left"}
    /\ phase \in Phases /\ outcome \in Outcomes
    /\ attempt \in 0 .. Attempts /\ calls \in Nat
    /\ sources \subseteq Origins /\ timers \subseteq 1 .. Attempts /\ links \subseteq 1 .. Attempts
    /\ subscribing \in BOOLEAN /\ linked \in BOOLEAN
    /\ callerAborted \in BOOLEAN /\ aborted \in BOOLEAN
    /\ emitted \in BOOLEAN /\ headers \in BOOLEAN
    /\ delivered \in Seq(Origins)

(* Only the forward() in progress has a source, and keeps it no longer     *)
(* than it is undecided: what is decided while subscribe() is on the stack *)
(* has lost its source, or subscribe()'s return will find the abort.       *)
Subscribed ==
    /\ sources \subseteq {Current}
    /\ ~Forwarding => sources = {} /\ ~subscribing
    /\ outcome # "pending" /\ sources # {} => subscribing /\ aborted

(* Between attempts nothing of an attempt is left, and an attempt whose    *)
(* outcome is open is still linked to the execution.                       *)
Plumbing ==
    /\ timers \subseteq {attempt} /\ links \subseteq {attempt}
    /\ phase # "calling" => timers = {} /\ links = {}
    /\ phase = "calling" /\ outcome = "pending" /\ Has("timeout") => attempt \in links
    /\ phase \in {"idle", "closed"} => ~linked
    /\ phase = "idle" => consumer = "none" /\ ~aborted
    /\ phase \in {"sleeping", "resuming"} => attempt < Attempts

(* An attempt or a fallback begins with nothing delivered; a value commits *)
(* the outcome, so that it is the last.                                    *)
Origin ==
    /\ ~emitted => delivered = <<>>
    /\ phase \in {"idle", "sleeping", "resuming", "handling"} => ~emitted
    /\ \A i, j \in DOMAIN delivered : delivered[i] = delivered[j]
    /\ Forwarding => \A i \in DOMAIN delivered : delivered[i] = Current
    /\ outcome = "timeout" => ~emitted /\ ~subscribing

(* While a source is awaited, the execution has not aborted.               *)
AbortIsHeard == aborted /\ Forwarding => outcome # "pending"

Inv == TypeOK /\ Subscribed /\ Plumbing /\ Origin /\ AbortIsHeard

-----------------------------------------------------------------------------
(* The beginning of an attempt, and of the subscription.                   *)

(* Whatever the attempt begins with, its variables stay in their sets.     *)
LEMMA BeginIsTyped ==
    ASSUME TypeOK, NEW n \in 1 .. Attempts, BeginAttempt(n)
    PROVE  /\ phase' \in Phases /\ outcome' \in Outcomes
           /\ attempt' \in 0 .. Attempts /\ calls' \in Nat /\ subscribing' \in BOOLEAN
           /\ sources' \subseteq Origins /\ timers' \subseteq 1 .. Attempts /\ links' \subseteq 1 .. Attempts
<1>1. phase' \in Phases /\ outcome' \in Outcomes
  BY DEF BeginAttempt, Phases, Outcomes
<1>2. attempt' \in 0 .. Attempts /\ n \in Origins
  BY ConstantsAssumption DEF BeginAttempt, Origins
<1>3. calls' \in Nat /\ subscribing' \in BOOLEAN
  <2>1. calls' \in {calls, calls + 1}
    BY DEF BeginAttempt
  <2>2. subscribing' \in BOOLEAN
    BY Zenon DEF TypeOK, BeginAttempt, plumbing
  <2> QED
    BY <2>1, <2>2 DEF TypeOK
<1>4. sources' \subseteq Origins /\ timers' \subseteq 1 .. Attempts /\ links' \subseteq 1 .. Attempts
  BY <1>2 DEF TypeOK, BeginAttempt, plumbing
<1> QED
  BY <1>1, <1>2, <1>3, <1>4

LEMMA SubscribeKeepsInv ==
    ASSUME Inv, Subscribe
    PROVE  Inv'
<1>1. TypeOK'
  <2>1. CASE callerAborted
    BY <2>1 DEF Inv, TypeOK, Phases, Subscribe, plumbing
  <2>2. CASE ~callerAborted
    <3>1. BeginAttempt(1) /\ 1 \in 1 .. Attempts
      BY <2>2, ConstantsAssumption DEF Subscribe
    <3> QED
      BY <2>2, <3>1, BeginIsTyped DEF Inv, TypeOK, Subscribe
  <2> QED
    BY <2>1, <2>2
<1>2. Subscribed'
  BY ConstantsAssumption DEF Inv, Subscribed, Current, Forwarding, Subscribe, plumbing, BeginAttempt
<1>3. Plumbing'
  BY ConstantsAssumption DEF Inv, Plumbing, Has, Subscribe, plumbing, BeginAttempt
<1>4. Origin'
  BY ConstantsAssumption DEF Inv, Origin, Subscribe, plumbing, BeginAttempt
<1>5. AbortIsHeard'
  BY ConstantsAssumption DEF Inv, AbortIsHeard, Forwarding, Subscribe, BeginAttempt
<1> QED
  BY <1>1, <1>2, <1>3, <1>4, <1>5 DEF Inv

LEMMA ResumeKeepsInv ==
    ASSUME Inv, Resume
    PROVE  Inv'
<1>1. TypeOK'
  <2>1. BeginAttempt(attempt + 1) /\ attempt + 1 \in 1 .. Attempts
    BY ConstantsAssumption DEF Inv, TypeOK, Plumbing, Resume
  <2> QED
    BY <2>1, BeginIsTyped DEF Inv, TypeOK, Resume, signals, output
<1>2. Subscribed'
  BY ConstantsAssumption DEF Inv, Subscribed, Current, Forwarding, Resume, BeginAttempt, plumbing
<1>3. Plumbing'
  BY ConstantsAssumption DEF Inv, Plumbing, Has, Resume, BeginAttempt, plumbing
<1>4. Origin'
  BY ConstantsAssumption DEF Inv, Origin, Resume, BeginAttempt, output
<1>5. AbortIsHeard'
  BY ConstantsAssumption DEF Inv, AbortIsHeard, Resume, BeginAttempt, signals
<1> QED
  BY <1>1, <1>2, <1>3, <1>4, <1>5 DEF Inv

-----------------------------------------------------------------------------
(* Aborts.                                                                 *)

(* Whatever the abort finds, the variables it changes stay in their sets.  *)
LEMMA AbortIsTyped ==
    ASSUME TypeOK, AbortExecution
    PROVE  aborted' \in BOOLEAN /\ phase' \in Phases /\ outcome' \in Outcomes /\ sources' \subseteq Origins
<1>1. aborted' = TRUE /\ outcome' \in {outcome, "aborted"} /\ phase' \in {phase, AfterFailure}
  BY DEF AbortExecution
<1>2. AfterFailure \in Phases
  BY DEF AfterFailure, Phases
<1>3. sources' \subseteq sources
  BY DEF AbortExecution
<1> QED
  BY <1>1, <1>2, <1>3 DEF TypeOK, Outcomes

LEMMA CallerAbortsKeepsInv ==
    ASSUME Inv, CallerAborts
    PROVE  Inv'
<1>1. TypeOK'
  <2>1. aborted' \in BOOLEAN /\ phase' \in Phases /\ outcome' \in Outcomes /\ sources' \subseteq Origins
    BY AbortIsTyped DEF Inv, TypeOK, CallerAborts
  <2> QED
    BY <2>1 DEF Inv, TypeOK, CallerAborts, output
<1>2. Subscribed'
  BY DEF Inv, Subscribed, Current, Forwarding, CallerAborts, AbortExecution
<1>3. Plumbing'
  BY DEF Inv, Plumbing, Has, CallerAborts, AbortExecution, output, AfterFailure
<1>4. Origin'
  BY DEF Inv, Origin, Forwarding, Current, CallerAborts, AbortExecution, output
<1>5. AbortIsHeard'
  BY DEF Inv, AbortIsHeard, Plumbing, Forwarding, CallerAborts, AbortExecution, Hears
<1> QED
  BY <1>1, <1>2, <1>3, <1>4, <1>5 DEF Inv

LEMMA ConsumerLeavesKeepsInv ==
    ASSUME Inv, ConsumerLeaves
    PROVE  Inv'
<1>1. TypeOK'
  <2>1. aborted' \in BOOLEAN /\ phase' \in Phases /\ outcome' \in Outcomes /\ sources' \subseteq Origins
    BY AbortIsTyped DEF Inv, TypeOK, ConsumerLeaves
  <2>2. linked' \in BOOLEAN
    BY DEF Inv, TypeOK, ConsumerLeaves
  <2> QED
    BY <2>1, <2>2 DEF Inv, TypeOK, ConsumerLeaves
<1>2. Subscribed'
  BY DEF Inv, Subscribed, Current, Forwarding, ConsumerLeaves, AbortExecution
<1>3. Plumbing'
  BY DEF Inv, Plumbing, Has, ConsumerLeaves, AbortExecution, AfterFailure
<1>4. Origin'
  BY DEF Inv, Origin, Forwarding, Current, ConsumerLeaves, AbortExecution
<1>5. AbortIsHeard'
  BY DEF Inv, AbortIsHeard, Plumbing, Forwarding, ConsumerLeaves, AbortExecution, Hears
<1> QED
  BY <1>1, <1>2, <1>3, <1>4, <1>5 DEF Inv

-----------------------------------------------------------------------------
(* What the source and the timer do.                                       *)

LEMMA SourceEmitsKeepsInv ==
    ASSUME Inv, NEW origin \in Origins, SourceEmits(origin)
    PROVE  Inv'
<1>1. TypeOK'
  BY DEF Inv, TypeOK, SourceEmits, Deliver, chain, plumbing, signals
<1>2. Subscribed'
  BY DEF Inv, Subscribed, Current, Forwarding, SourceEmits, chain, plumbing, signals
<1>3. Plumbing'
  BY DEF Inv, Plumbing, Has, SourceEmits, chain, plumbing, signals
<1>4. Origin'
  BY DEF Inv, Origin, Subscribed, Forwarding, Current, SourceEmits, Deliver, chain
<1>5. AbortIsHeard'
  BY DEF Inv, AbortIsHeard, Forwarding, SourceEmits, chain, signals
<1> QED
  BY <1>1, <1>2, <1>3, <1>4, <1>5 DEF Inv

LEMMA SourceEndsKeepsInv ==
    ASSUME Inv, NEW origin \in Origins, SourceEnds(origin)
    PROVE  Inv'
<1>1. TypeOK'
  BY DEF Inv, TypeOK, Outcomes, SourceEnds, signals, output
<1>2. Subscribed'
  BY DEF Inv, Subscribed, Forwarding, SourceEnds
<1>3. Plumbing'
  BY DEF Inv, Plumbing, Has, SourceEnds, signals, output
<1>4. Origin'
  BY DEF Inv, Origin, Forwarding, Current, SourceEnds, output
<1>5. AbortIsHeard'
  BY DEF Inv, AbortIsHeard, Forwarding, SourceEnds, signals
<1> QED
  BY <1>1, <1>2, <1>3, <1>4, <1>5 DEF Inv

LEMMA SubscribeReturnsKeepsInv ==
    ASSUME Inv, SubscribeReturns
    PROVE  Inv'
<1>1. TypeOK'
  BY DEF Inv, TypeOK, Outcomes, SubscribeReturns, output
<1>2. Subscribed'
  BY DEF Inv, Subscribed, Current, Forwarding, SubscribeReturns
<1>3. Plumbing'
  BY DEF Inv, Plumbing, Has, SubscribeReturns, output
<1>4. Origin'
  BY DEF Inv, Origin, Forwarding, Current, SubscribeReturns, output
<1>5. AbortIsHeard'
  BY DEF Inv, AbortIsHeard, Forwarding, SubscribeReturns
<1> QED
  BY <1>1, <1>2, <1>3, <1>4, <1>5 DEF Inv

LEMMA TimeoutFiresKeepsInv ==
    ASSUME Inv, NEW n \in Origins, TimeoutFires(n)
    PROVE  Inv'
<1>1. TypeOK'
  <2>1. outcome' \in Outcomes
    BY DEF Inv, TypeOK, Outcomes, TimeoutFires
  <2>2. sources' \subseteq sources /\ timers' \subseteq timers /\ links' \subseteq links
    BY DEF TimeoutFires
  <2> QED
    BY <2>1, <2>2 DEF Inv, TypeOK, TimeoutFires, signals, output
<1>2. Subscribed'
  BY DEF Inv, Subscribed, Plumbing, Current, Forwarding, TimeoutFires, signals
<1>3. Plumbing'
  BY DEF Inv, Plumbing, Has, TimeoutFires
<1>4. Origin'
  BY DEF Inv, Origin, Forwarding, Current, TimeoutFires, Quiet, Committed, output
<1>5. AbortIsHeard'
  BY DEF Inv, AbortIsHeard, Forwarding, TimeoutFires, signals
<1> QED
  BY <1>1, <1>2, <1>3, <1>4, <1>5 DEF Inv

-----------------------------------------------------------------------------
(* After an attempt.                                                       *)

LEMMA GiveUpKeepsInv ==
    ASSUME Inv, GiveUp
    PROVE  Inv'
<1>1. TypeOK'
  BY DEF Inv, TypeOK, Phases, GiveUp, EndAttempt, AfterFailure, signals, output
<1>2. Subscribed'
  BY DEF Inv, Subscribed, GiveUp, Settled
<1>3. Plumbing'
  BY DEF Inv, Plumbing, GiveUp, EndAttempt, AfterFailure
<1>4. Origin'
  BY DEF Inv, Origin, Forwarding, GiveUp, AfterFailure, output
<1>5. AbortIsHeard'
  BY DEF Inv, AbortIsHeard, GiveUp, Settled
<1> QED
  BY <1>1, <1>2, <1>3, <1>4, <1>5 DEF Inv

LEMMA SleepBeforeRetryKeepsInv ==
    ASSUME Inv, SleepBeforeRetry
    PROVE  Inv'
<1>1. TypeOK'
  BY ConstantsAssumption DEF Inv, TypeOK, Phases, Outcomes, SleepBeforeRetry, EndAttempt, AfterFailure,
         signals, output
<1>2. Subscribed'
  BY ConstantsAssumption DEF Inv, Subscribed, SleepBeforeRetry, Settled
<1>3. Plumbing'
  BY ConstantsAssumption DEF Inv, Plumbing, TypeOK, SleepBeforeRetry, MayRetry, EndAttempt, AfterFailure,
         Last
<1>4. Origin'
  BY ConstantsAssumption DEF Inv, Origin, SleepBeforeRetry, MayRetry, output, Committed
<1>5. AbortIsHeard'
  BY ConstantsAssumption DEF Inv, AbortIsHeard, SleepBeforeRetry, signals
<1> QED
  BY <1>1, <1>2, <1>3, <1>4, <1>5 DEF Inv

LEMMA SleepOverKeepsInv ==
    ASSUME Inv, SleepOver
    PROVE  Inv'
<1>1. TypeOK'
  BY DEF Inv, TypeOK, Phases, SleepOver, plumbing, signals, output
<1>2. Subscribed'
  BY DEF Inv, Subscribed, Forwarding, SleepOver, plumbing
<1>3. Plumbing'
  BY DEF Inv, Plumbing, SleepOver, plumbing
<1>4. Origin'
  BY DEF Inv, Origin, SleepOver, plumbing, output
<1>5. AbortIsHeard'
  BY DEF Inv, AbortIsHeard, Forwarding, SleepOver
<1> QED
  BY <1>1, <1>2, <1>3, <1>4, <1>5 DEF Inv

-----------------------------------------------------------------------------
(* The fallback, and the end.                                              *)

LEMMA PassFailureOnKeepsInv ==
    ASSUME Inv, PassFailureOn
    PROVE  Inv'
<1>1. TypeOK'
  BY DEF Inv, TypeOK, Phases, PassFailureOn, plumbing, signals, output
<1>2. Subscribed'
  BY DEF Inv, Subscribed, Forwarding, PassFailureOn, plumbing
<1>3. Plumbing'
  BY DEF Inv, Plumbing, PassFailureOn, plumbing
<1>4. Origin'
  BY DEF Inv, Origin, Forwarding, PassFailureOn, plumbing, output
<1>5. AbortIsHeard'
  BY DEF Inv, AbortIsHeard, Forwarding, PassFailureOn
<1> QED
  BY <1>1, <1>2, <1>3, <1>4, <1>5 DEF Inv

LEMMA AwaitHandlerKeepsInv ==
    ASSUME Inv, AwaitHandler
    PROVE  Inv'
<1>1. TypeOK'
  BY DEF Inv, TypeOK, Phases, Outcomes, AwaitHandler, plumbing, signals, output
<1>2. Subscribed'
  BY DEF Inv, Subscribed, Forwarding, AwaitHandler, plumbing
<1>3. Plumbing'
  BY DEF Inv, Plumbing, AwaitHandler, plumbing
<1>4. Origin'
  BY DEF Inv, Origin, AwaitHandler, MayFallBack, output, Committed
<1>5. AbortIsHeard'
  BY DEF Inv, AbortIsHeard, AwaitHandler, MayFallBack, signals
<1> QED
  BY <1>1, <1>2, <1>3, <1>4, <1>5 DEF Inv

LEMMA ForwardHandlerKeepsInv ==
    ASSUME Inv, ForwardHandler
    PROVE  Inv'
<1>1. TypeOK'
  <2>1. Handler \in Origins
    BY ConstantsAssumption DEF Handler, Origins
  <2> QED
    BY <2>1 DEF Inv, TypeOK, Phases, Outcomes, ForwardHandler, signals, output
<1>2. Subscribed'
  BY DEF Inv, Subscribed, Current, Forwarding, ForwardHandler
<1>3. Plumbing'
  BY DEF Inv, Plumbing, ForwardHandler
<1>4. Origin'
  BY DEF Inv, Origin, ForwardHandler, MayFallBack, output, Committed
<1>5. AbortIsHeard'
  BY DEF Inv, AbortIsHeard, ForwardHandler, MayFallBack, signals
<1> QED
  BY <1>1, <1>2, <1>3, <1>4, <1>5 DEF Inv

LEMMA HandlerSettlesKeepsInv ==
    ASSUME Inv, HandlerSettles
    PROVE  Inv'
<1>1. TypeOK'
  <2>1. Handler \in Origins
    BY ConstantsAssumption DEF Handler, Origins
  <2>2. delivered' \in Seq(Origins) /\ outcome' \in Outcomes
    BY <2>1 DEF Inv, TypeOK, Outcomes, HandlerSettles, Deliver
  <2>3. emitted' \in BOOLEAN
    BY Zenon DEF Inv, TypeOK, HandlerSettles, Deliver
  <2> QED
    BY <2>2, <2>3 DEF Inv, TypeOK, Phases, HandlerSettles, plumbing, signals
<1>2. Subscribed'
  BY DEF Inv, Subscribed, Forwarding, HandlerSettles, plumbing
<1>3. Plumbing'
  BY DEF Inv, Plumbing, HandlerSettles, plumbing
<1>4. Origin'
  BY DEF Inv, Origin, Forwarding, HandlerSettles, Deliver
<1>5. AbortIsHeard'
  BY DEF Inv, AbortIsHeard, HandlerSettles
<1> QED
  BY <1>1, <1>2, <1>3, <1>4, <1>5 DEF Inv

LEMMA HandlerForwardedKeepsInv ==
    ASSUME Inv, HandlerForwarded
    PROVE  Inv'
<1>1. TypeOK'
  BY DEF Inv, TypeOK, Phases, HandlerForwarded, plumbing, signals, output
<1>2. Subscribed'
  BY DEF Inv, Subscribed, HandlerForwarded, plumbing
<1>3. Plumbing'
  BY DEF Inv, Plumbing, HandlerForwarded, plumbing
<1>4. Origin'
  BY DEF Inv, Origin, Forwarding, HandlerForwarded, plumbing, output
<1>5. AbortIsHeard'
  BY DEF Inv, AbortIsHeard, HandlerForwarded
<1> QED
  BY <1>1, <1>2, <1>3, <1>4, <1>5 DEF Inv

LEMMA FinishKeepsInv ==
    ASSUME Inv, Finish
    PROVE  Inv'
<1>1. TypeOK'
  BY DEF Inv, TypeOK, Phases, Finish, plumbing
<1>2. Subscribed'
  BY DEF Inv, Subscribed, Forwarding, Finish, plumbing
<1>3. Plumbing'
  BY DEF Inv, Plumbing, Finish, plumbing
<1>4. Origin'
  BY DEF Inv, Origin, Forwarding, Finish, plumbing
<1>5. AbortIsHeard'
  BY DEF Inv, AbortIsHeard, Forwarding, Finish
<1> QED
  BY <1>1, <1>2, <1>3, <1>4, <1>5 DEF Inv

LEMMA SendHeadersKeepsInv ==
    ASSUME Inv, SendHeaders
    PROVE  Inv'
<1>1. TypeOK'
  BY DEF Inv, TypeOK, SendHeaders, chain, plumbing, signals
<1>2. Subscribed'
  BY DEF Inv, Subscribed, Current, Forwarding, SendHeaders, chain, plumbing, signals
<1>3. Plumbing'
  BY DEF Inv, Plumbing, Has, SendHeaders, chain, plumbing, signals
<1>4. Origin'
  BY DEF Inv, Origin, Forwarding, Current, SendHeaders, chain, plumbing
<1>5. AbortIsHeard'
  BY DEF Inv, AbortIsHeard, Forwarding, SendHeaders, chain, signals
<1> QED
  BY <1>1, <1>2, <1>3, <1>4, <1>5 DEF Inv

-----------------------------------------------------------------------------
(* The invariant holds.                                                    *)

LEMMA InitInv == Init => Inv
<1> SUFFICES ASSUME Init PROVE Inv
  OBVIOUS
<1>1. TypeOK
  <2>1. 0 \in 0 .. Attempts /\ delivered \in Seq(Origins)
    BY ConstantsAssumption DEF Init
  <2> QED
    BY <2>1 DEF Init, TypeOK, Phases, Outcomes
<1>2. Subscribed /\ Plumbing /\ Origin /\ AbortIsHeard
  BY DEF Init, Subscribed, Plumbing, Origin, AbortIsHeard, Forwarding
<1> QED
  BY <1>1, <1>2 DEF Inv

LEMMA StutterKeepsInv ==
    ASSUME Inv, UNCHANGED vars
    PROVE  Inv'
BY DEF Inv, vars, chain, plumbing, signals, output, TypeOK, Subscribed, Plumbing, Origin, AbortIsHeard,
       Forwarding, Current, Has

LEMMA NextKeepsInv == Inv /\ [Next]_vars => Inv'
<1> SUFFICES ASSUME Inv, [Next]_vars PROVE Inv'
  OBVIOUS
<1>1. CASE Subscribe
  BY <1>1, SubscribeKeepsInv
<1>2. CASE CallerAborts
  BY <1>2, CallerAbortsKeepsInv
<1>3. CASE ConsumerLeaves
  BY <1>3, ConsumerLeavesKeepsInv
<1>4. CASE SendHeaders
  BY <1>4, SendHeadersKeepsInv
<1>5. ASSUME NEW origin \in Origins, SourceEmits(origin) PROVE Inv'
  BY <1>5, SourceEmitsKeepsInv
<1>6. ASSUME NEW origin \in Origins, SourceEnds(origin) PROVE Inv'
  BY <1>6, SourceEndsKeepsInv
<1>7. ASSUME NEW origin \in Origins, TimeoutFires(origin) PROVE Inv'
  BY <1>7, TimeoutFiresKeepsInv
<1>8. CASE SubscribeReturns
  BY <1>8, SubscribeReturnsKeepsInv
<1>9. CASE GiveUp
  BY <1>9, GiveUpKeepsInv
<1>10. CASE SleepBeforeRetry
  BY <1>10, SleepBeforeRetryKeepsInv
<1>11. CASE SleepOver
  BY <1>11, SleepOverKeepsInv
<1>12. CASE Resume
  BY <1>12, ResumeKeepsInv
<1>13. CASE PassFailureOn
  BY <1>13, PassFailureOnKeepsInv
<1>14. CASE AwaitHandler
  BY <1>14, AwaitHandlerKeepsInv
<1>15. CASE ForwardHandler
  BY <1>15, ForwardHandlerKeepsInv
<1>16. CASE HandlerSettles
  BY <1>16, HandlerSettlesKeepsInv
<1>17. CASE HandlerForwarded
  BY <1>17, HandlerForwardedKeepsInv
<1>18. CASE Finish
  BY <1>18, FinishKeepsInv
<1>19. CASE UNCHANGED vars
  BY <1>19, StutterKeepsInv
<1> QED
  BY <1>1, <1>2, <1>3, <1>4, <1>5, <1>6, <1>7, <1>8, <1>9, <1>10, <1>11, <1>12, <1>13,
     <1>14, <1>15, <1>16, <1>17, <1>18, <1>19 DEF Next

(* The invariant holds in every behaviour of one subscription to           *)
(* observe(), whatever is configured around the call.                      *)
THEOREM InvHolds == Spec => []Inv
<1> QED
  BY InitInv, NextKeepsInv, PTL DEF Spec

-----------------------------------------------------------------------------
(* What follows from it.                                                   *)

(* observe() delivers the values of one attempt, or of the fallback, and   *)
(* never a timeout after one of them.                                      *)
THEOREM ValuesHaveOneOrigin == Spec => []OneOrigin
<1>1. Inv => OneOrigin
  BY DEF Inv, Origin, OneOrigin
<1> QED
  BY <1>1, InvHolds, PTL

(* forward() has one source at most, and unsubscribes it before it settles *)
(* or, when subscribe() is on the stack, as soon as that returns.          *)
THEOREM NoSourceIsLeft == Spec => []OneSourceAtATime
<1>1. ASSUME Inv PROVE OneSourceAtATime
  <2>1. sources \subseteq {Current}
    BY <1>1 DEF Inv, Subscribed
  <2>2. IsFiniteSet({Current}) /\ Cardinality({Current}) = 1
    BY FS_Singleton
  <2>3. Cardinality(sources) <= 1
    BY <2>1, <2>2, FS_Subset
  <2>4. outcome # "pending" /\ ~subscribing => sources = {}
    BY <1>1 DEF Inv, Subscribed
  <2> QED
    BY <2>3, <2>4 DEF OneSourceAtATime
<1> QED
  BY <1>1, InvHolds, PTL

(* TimeoutPolicy's `finally` and observe()'s teardown leave no timer, and  *)
(* no listener on a signal that outlives them.                             *)
THEOREM NoListenerIsLeft == Spec => []NothingLeftBehind
<1>1. Inv => NothingLeftBehind
  BY DEF Inv, Plumbing, NothingLeftBehind
<1> QED
  BY <1>1, InvHolds, PTL

(* An abort of the execution settles the forward() in progress at once, in *)
(* every attempt and in the fallback: also after its timeout stood down.   *)
THEOREM AbortsAreHeard == Spec => []AbortIsHeard
<1>1. Inv => AbortIsHeard
  BY DEF Inv
<1> QED
  BY <1>1, InvHolds, PTL

-----------------------------------------------------------------------------
(* When the handler is called.                                             *)

(* Only the beginning of an attempt calls the handler.                     *)
LEMMA CallsAreAttempts ==
    ASSUME [Next]_vars, calls' # calls
    PROVE  (Subscribe /\ ~callerAborted) \/ Resume
BY DEF Next, vars, chain, plumbing, signals, output, Subscribe, CallerAborts, ConsumerLeaves, SendHeaders,
       SourceEmits, SourceEnds, TimeoutFires, SubscribeReturns, GiveUp, SleepBeforeRetry, SleepOver,
       PassFailureOn, AwaitHandler, ForwardHandler, HandlerSettles, HandlerForwarded, Finish

(* TimeoutPolicy.run() looks at the signal before it calls the handler.    *)
THEOREM NoCallAfterAbort == Spec => NoCallOnceAborted
<1>1. ASSUME [Next]_vars PROVE [Has("timeout") /\ calls' # calls => ~aborted]_vars
  <2> SUFFICES ASSUME Has("timeout"), calls' # calls PROVE ~aborted
    OBVIOUS
  <2>1. PICK n : BeginAttempt(n)
    BY <1>1, CallsAreAttempts DEF Subscribe, Resume
  <2> QED
    BY <2>1 DEF BeginAttempt, Refused
<1> QED
  BY <1>1, PTL DEF Spec, NoCallOnceAborted

(* A retry never follows a value: what NoCallOnceCommitted claims of every *)
(* committed outcome is true of those that a value committed.              *)
NoCallOnceEmitted == [][calls' # calls => ~emitted]_vars

(* RetryPolicy checks committed() before its backoff; no value can come    *)
(* during it, since the attempt before has no source any more.             *)
THEOREM NoCallAfterValue == Spec => NoCallOnceEmitted
<1>1. ASSUME Inv, [Next]_vars PROVE [calls' # calls => ~emitted]_vars
  <2> SUFFICES ASSUME calls' # calls PROVE ~emitted
    OBVIOUS
  <2>1. phase \in {"idle", "resuming"}
    BY <1>1, CallsAreAttempts DEF Subscribe, Resume
  <2> QED
    BY <1>1, <2>1 DEF Inv, Origin
<1> QED
  BY <1>1, InvHolds, PTL DEF Spec, NoCallOnceEmitted
=============================================================================
