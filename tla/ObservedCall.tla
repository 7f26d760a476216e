---------------------------- MODULE ObservedCall ----------------------------
(***************************************************************************)
(* One subscription to what observe() returns (executeObservable() and the *)
(* entrypoint interceptor), with the stateless policies around the call in *)
(* canonical order: fallback(retry(timeout(call))).  The parts are         *)
(* lib/policies/resilience.policy.ts (observe, forward, adopt, teardown),  *)
(* retry.policy.ts, timeout.policy.ts, fallback.policy.ts and the signals  *)
(* and timers of lib/utils/timers.util.ts.                                 *)
(*                                                                         *)
(* Three kinds of step are told apart.  While source.subscribe() is on the *)
(* stack (`subscribing`) only the source and what its values trigger run.  *)
(* After a promise settled, its continuation is a microtask: other         *)
(* microtasks (an abort, an unsubscription, the handler's code) may come   *)
(* first, but no timer does.  Timers fire only when no microtask waits.    *)
(*                                                                         *)
(* A definition marked DEVIATION is not the code: it is a plausible bug,   *)
(* put in place of the definition after it to see which property notices.  *)
(***************************************************************************)
EXTENDS Integers, Sequences, FiniteSets

CONSTANTS Attempts,  \* RetryPolicy.attempts (1: no retry stage)
          MaxValues  \* bound on the values delivered

ASSUME ConstantsAssumption ==
    /\ Attempts \in Nat \ {0}
    /\ MaxValues \in Nat \ {0}

(* What is configured, chosen once: a timeout stage, a fallback stage, a   *)
(* retryOnResult, and options.committed (sent headers commit the outcome;  *)
(* not so on an SSE route).                                                *)
Settings == {"timeout", "fallback", "retryOnResult", "headersCommit"}

(* Where a value may come from: an attempt, or the fallback's result.      *)
Handler == 0
Origins == 0 .. Attempts

VARIABLES settings,       \* the members of Settings that are configured
          consumer,       \* the subscriber: none, open, complete, error, left
          phase,          \* where run() is in the chain of policies
          attempt,        \* the retry loop's counter
          calls,          \* how often `factory` was called
          outcome,        \* of the forward() in progress, or of the last one
          subscribing,    \* source.subscribe() is on the stack
          sources,        \* the origins whose source is subscribed
          timers,         \* the attempts whose timeout is armed
          links,          \* the attempts linked to the execution's signal
          linked,         \* the execution is linked to the caller's signal
          callerAborted,  \* the caller's signal aborted
          aborted,        \* the execution's signal aborted
          emitted,        \* `emitted` of observe()
          headers,        \* the response's headers went out
          delivered       \* the origins of the values delivered, in order

chain == <<phase, attempt, calls, outcome>>
plumbing == <<subscribing, sources, timers, links>>
signals == <<linked, callerAborted, aborted>>
output == <<consumer, emitted, headers, delivered>>
vars == <<settings, chain, plumbing, signals, output>>

(* calling: in call(next) of an attempt.  sleeping: in the backoff.        *)
(* resuming: the sleep resolved.  failing: the retry threw, the fallback's *)
(* catch block comes next.  handling: the fallback's promise is awaited.   *)
(* adopting: the fallback's Observable is forwarded.  finishing: run()     *)
(* settled, its `then` comes next.                                         *)
Phases == {"idle", "calling", "sleeping", "resuming", "failing",
           "handling", "adopting", "finishing", "closed"}

(* rejection: a RejectionError of a policy in the chain.                   *)
Outcomes == {"none", "pending", "value", "error", "rejection", "timeout", "aborted"}

Init ==
    /\ settings \in SUBSET Settings
    /\ consumer = "none" /\ phase = "idle" /\ attempt = 0 /\ calls = 0
    /\ outcome = "none" /\ subscribing = FALSE
    /\ sources = {} /\ timers = {} /\ links = {}
    /\ linked = FALSE /\ callerAborted = FALSE /\ aborted = FALSE
    /\ emitted = FALSE /\ headers = FALSE /\ delivered = <<>>

Has(setting) == setting \in settings

Committed == emitted \/ (Has("headersCommit") /\ headers)

Forwarding == phase \in {"calling", "adopting"}

(* The origin whose source the forward() in progress subscribes to.        *)
Current == IF phase = "adopting" THEN Handler ELSE attempt

(* No continuation waits in the microtask queue: a timer may fire.         *)
Quiet ==
    /\ ~subscribing
    /\ phase \notin {"resuming", "failing", "finishing"}
    /\ Forwarding => outcome = "pending"

(* The executor of the Observable is still on the stack: it calls the      *)
(* first attempt, and its teardown does not exist until it returns.        *)
Executing == subscribing /\ phase = "calling" /\ attempt = 1

(* Where the chain goes on with a failure.                                 *)
AfterFailure == IF Has("fallback") THEN "failing" ELSE "finishing"

Deliver(origin) ==
    /\ emitted' = TRUE
    /\ delivered' = IF consumer = "open" THEN Append(delivered, origin) ELSE delivered

-----------------------------------------------------------------------------
(* Signals.                                                                *)

(* Whether the forward() in progress is told of the execution's abort: it  *)
(* has that signal itself, or one that TimeoutPolicy linked to it.         *)
Hears == Forwarding /\ (phase = "adopting" \/ ~Has("timeout") \/ attempt \in links)

(* controller.abort() of the execution: forward()'s onAbort unsubscribes   *)
(* (unless `sub` is still undefined) and rejects; a sleep rejects.         *)
AbortExecution ==
    /\ aborted' = TRUE
    /\ IF outcome = "pending" /\ Hears
         THEN /\ outcome' = "aborted"
              /\ sources' = IF subscribing THEN sources ELSE sources \ {Current}
              /\ UNCHANGED phase
         ELSE IF phase = "sleeping"
         THEN /\ outcome' = "aborted"
              /\ phase' = AfterFailure
              /\ UNCHANGED sources
         ELSE UNCHANGED <<outcome, sources, phase>>

(* The caller's signal aborts, at any time.                                *)
CallerAborts ==
    /\ ~callerAborted
    /\ callerAborted' = TRUE
    /\ IF linked /\ ~aborted
         THEN AbortExecution
         ELSE UNCHANGED <<aborted, outcome, sources, phase>>
    /\ UNCHANGED <<settings, attempt, calls, subscribing, timers, links, linked, output>>

(* The consumer unsubscribes; the teardown aborts the execution, unlinks.  *)
ConsumerLeaves ==
    /\ consumer = "open"
    /\ consumer' = "left"
    /\ IF Executing
         THEN UNCHANGED <<aborted, outcome, sources, phase, linked>>
         ELSE /\ linked' = FALSE
              /\ IF aborted THEN UNCHANGED <<aborted, outcome, sources, phase>>
                            ELSE AbortExecution
    /\ UNCHANGED <<settings, attempt, calls, subscribing, timers, links, callerAborted,
                   emitted, headers, delivered>>

-----------------------------------------------------------------------------
(* An attempt: timeout(forward(factory())).                                *)

(* DEVIATION of Refused: TimeoutPolicy does not look at the signal.        *)
NeverRefused == FALSE

(* TimeoutPolicy.run() rejects at once when the execution has aborted.     *)
Refused == Has("timeout") /\ aborted

(* TimeoutPolicy.run() and the call of the attempt inside it.              *)
BeginAttempt(n) ==
    /\ phase' = "calling"
    /\ attempt' = n
    /\ IF Refused
         THEN /\ outcome' = "aborted"
              /\ UNCHANGED <<calls, plumbing>>
         ELSE /\ timers' = IF Has("timeout") THEN timers \cup {n} ELSE timers
              /\ links' = IF Has("timeout") THEN links \cup {n} ELSE links
              /\ \/ /\ ~aborted  \* forward() subscribes
                    /\ outcome' = "pending"
                    /\ subscribing' = TRUE
                    /\ sources' = sources \cup {n}
                    /\ calls' = calls + 1
                 \/ /\ outcome' = IF aborted THEN "aborted" ELSE "error"
                    /\ calls' = calls + 1  \* forward() rejects, factory() throws
                    /\ UNCHANGED <<subscribing, sources>>
                 \/ /\ outcome' = "rejection"  \* of a policy inside this one
                    /\ UNCHANGED <<calls, subscribing, sources>>

(* The consumer subscribes: observe()'s executor runs.                     *)
Subscribe ==
    /\ phase = "idle"
    /\ IF callerAborted
         THEN /\ phase' = "closed"
              /\ consumer' = "error"
              /\ aborted' = TRUE
              /\ UNCHANGED <<attempt, calls, outcome, plumbing, linked>>
         ELSE /\ BeginAttempt(1)
              /\ consumer' = "open"
              /\ linked' = TRUE
              /\ UNCHANGED aborted
    /\ UNCHANGED <<settings, callerAborted, emitted, headers, delivered>>

(* A subscribed source emits.                                              *)
SourceEmits(origin) ==
    /\ origin \in sources
    /\ Len(delivered) < MaxValues
    /\ Deliver(origin)
    /\ UNCHANGED <<settings, chain, plumbing, signals, consumer, headers>>

(* A subscribed source completes or fails; unless forward() is settled     *)
(* already, it settles with that and stops listening to the signal.        *)
SourceEnds(origin) ==
    /\ origin \in sources
    /\ sources' = sources \ {origin}
    /\ IF origin = Current /\ outcome = "pending"
         THEN outcome' \in {"value", "error", "rejection"}
         ELSE UNCHANGED outcome
    /\ UNCHANGED <<settings, phase, attempt, calls, subscribing, timers, links, signals, output>>

(* DEVIATION of SubscribeReturns: without the check of the signal.         *)
SubscribeReturnsUnchecked ==
    /\ subscribing
    /\ subscribing' = FALSE
    /\ IF Executing /\ consumer = "left"
         THEN /\ aborted' = TRUE /\ linked' = FALSE
              /\ outcome' = IF outcome = "pending" THEN "aborted" ELSE outcome
              /\ sources' = IF outcome = "pending" THEN sources \ {Current} ELSE sources
         ELSE UNCHANGED <<aborted, linked, outcome, sources>>
    /\ UNCHANGED <<settings, phase, attempt, calls, timers, links, callerAborted, output>>

(* source.subscribe() returns: `sub` exists, and it is unsubscribed if the *)
(* signal aborted meanwhile.  If that was the first attempt, the executor  *)
(* returns too, and RxJS runs its teardown if the consumer has left.       *)
SubscribeReturns ==
    LET teardown == Executing /\ consumer = "left" IN
    /\ subscribing
    /\ subscribing' = FALSE
    /\ aborted' = (aborted \/ teardown)
    /\ linked' = (linked /\ ~teardown)
    /\ outcome' = IF teardown /\ outcome = "pending" THEN "aborted" ELSE outcome
    /\ sources' = IF aborted' THEN sources \ {Current} ELSE sources
    /\ UNCHANGED <<settings, phase, attempt, calls, timers, links, callerAborted, output>>

(* DEVIATION of TimeoutFires: the check of committed() is negated.         *)
TimeoutFiresIfCommitted(n) ==
    /\ Quiet
    /\ n \in timers
    /\ timers' = timers \ {n}
    /\ IF ~Committed
         THEN UNCHANGED <<links, outcome, sources>>
         ELSE /\ links' = links \ {n}
              /\ outcome' = "timeout"
              /\ sources' = sources \ {n}
    /\ UNCHANGED <<settings, phase, attempt, calls, subscribing, signals, output>>

(* DEVIATION of TimeoutFires: standing down, it unlinks.                   *)
TimeoutFiresUnlinks(n) ==
    /\ Quiet
    /\ n \in timers
    /\ timers' = timers \ {n}
    /\ links' = links \ {n}
    /\ IF Committed
         THEN UNCHANGED <<outcome, sources>>
         ELSE outcome' = "timeout" /\ sources' = sources \ {n}
    /\ UNCHANGED <<settings, phase, attempt, calls, subscribing, signals, output>>

(* The timeout's timer: it stands down once the outcome is committed, and  *)
(* otherwise aborts the attempt's signal (so forward() unsubscribes),      *)
(* unlinks and rejects.                                                    *)
TimeoutFires(n) ==
    /\ Quiet
    /\ n \in timers
    /\ timers' = timers \ {n}
    /\ IF Committed
         THEN UNCHANGED <<links, outcome, sources>>
         ELSE /\ links' = links \ {n}
              /\ outcome' = "timeout"
              /\ sources' = sources \ {n}
    /\ UNCHANGED <<settings, phase, attempt, calls, subscribing, signals, output>>

-----------------------------------------------------------------------------
(* RetryPolicy.run() after an attempt.                                     *)

Last == attempt >= Attempts

(* DEVIATION of MayRetry: an emitted value does not commit the outcome.    *)
MayRetryCommitted ==
    /\ ~Last
    /\ IF outcome = "value" THEN Has("retryOnResult")
                            ELSE ~aborted /\ outcome # "rejection"

(* Whether a predicate gets to say if there is another attempt.            *)
MayRetry ==
    /\ ~Last
    /\ ~Committed
    /\ IF outcome = "value" THEN Has("retryOnResult")
                            ELSE ~aborted /\ outcome # "rejection"

Settled(n) == phase = "calling" /\ attempt = n /\ ~subscribing /\ outcome # "pending"

(* DEVIATION of EndAttempt: the timer and the link remain.                 *)
EndAttemptKeeps(n) == UNCHANGED <<timers, links>>

(* The `finally` of TimeoutPolicy.run().                                   *)
EndAttempt(n) ==
    /\ timers' = timers \ {n}
    /\ links' = links \ {n}

(* The loop is left with the attempt's outcome.                            *)
GiveUp ==
    /\ Settled(attempt)
    /\ EndAttempt(attempt)
    /\ phase' = IF outcome = "value" THEN "finishing" ELSE AfterFailure
    /\ UNCHANGED <<settings, attempt, calls, outcome, subscribing, sources, signals, output>>

(* The predicate says yes: sleep(), which rejects on an aborted signal.    *)
SleepBeforeRetry ==
    /\ Settled(attempt)
    /\ MayRetry
    /\ EndAttempt(attempt)
    /\ IF aborted
         THEN /\ outcome' = "aborted"
              /\ phase' = AfterFailure
         ELSE phase' = "sleeping" /\ UNCHANGED outcome
    /\ UNCHANGED <<settings, attempt, calls, subscribing, sources, signals, output>>

SleepOver ==
    /\ phase = "sleeping"
    /\ phase' = "resuming"
    /\ UNCHANGED <<settings, attempt, calls, outcome, plumbing, signals, output>>

Resume ==
    /\ phase = "resuming"
    /\ BeginAttempt(attempt + 1)
    /\ UNCHANGED <<settings, signals, output>>

-----------------------------------------------------------------------------
(* FallbackPolicy.run() after a failure, and what observe() adopts.        *)

MayFallBack == ~aborted /\ ~Committed

(* The failure is passed on: no fallback, or handleIf or the handler said  *)
(* no.                                                                     *)
PassFailureOn ==
    /\ phase = "failing"
    /\ phase' = "finishing"
    /\ UNCHANGED <<settings, attempt, calls, outcome, plumbing, signals, output>>

(* The handler returns a value or a promise: adopt() awaits it.            *)
AwaitHandler ==
    /\ phase = "failing"
    /\ Has("fallback") /\ MayFallBack
    /\ phase' = "handling"
    /\ outcome' = "pending"
    /\ UNCHANGED <<settings, attempt, calls, plumbing, signals, output>>

(* The handler returns an Observable: adopt() forwards it.                 *)
ForwardHandler ==
    /\ phase = "failing"
    /\ Has("fallback") /\ MayFallBack
    /\ phase' = "adopting"
    /\ outcome' = "pending"
    /\ subscribing' = TRUE
    /\ sources' = sources \cup {Handler}
    /\ UNCHANGED <<settings, attempt, calls, timers, links, signals, output>>

(* The awaited promise settles; nobody looks at the signal any more.       *)
HandlerSettles ==
    /\ phase = "handling"
    /\ phase' = "finishing"
    /\ \/ outcome' = "value" /\ Deliver(Handler)
       \/ outcome' = "error" /\ UNCHANGED <<emitted, delivered>>
    /\ UNCHANGED <<settings, attempt, calls, plumbing, signals, consumer, headers>>

HandlerForwarded ==
    /\ phase = "adopting"
    /\ ~subscribing /\ outcome # "pending"
    /\ phase' = "finishing"
    /\ UNCHANGED <<settings, attempt, calls, outcome, plumbing, signals, output>>

-----------------------------------------------------------------------------
(* The `then` of observe(): the subscriber completes or fails.             *)
Finish ==
    /\ phase = "finishing"
    /\ phase' = "closed"
    /\ linked' = FALSE
    /\ consumer' = IF consumer # "open" THEN consumer
                   ELSE IF outcome = "value" THEN "complete" ELSE "error"
    /\ UNCHANGED <<settings, attempt, calls, outcome, plumbing, callerAborted, aborted,
                   emitted, headers, delivered>>

(* Code of a handler that was called, in this attempt or a timed-out one,  *)
(* sends the response's headers.                                           *)
SendHeaders ==
    /\ calls > 0
    /\ ~headers
    /\ headers' = TRUE
    /\ UNCHANGED <<settings, chain, plumbing, signals, consumer, emitted, delivered>>

Next ==
    \/ Subscribe \/ CallerAborts \/ ConsumerLeaves \/ SendHeaders
    \/ \E origin \in Origins :
          SourceEmits(origin) \/ SourceEnds(origin) \/ TimeoutFires(origin)
    \/ SubscribeReturns
    \/ GiveUp \/ SleepBeforeRetry \/ SleepOver \/ Resume
    \/ PassFailureOn \/ AwaitHandler \/ ForwardHandler
    \/ HandlerSettles \/ HandlerForwarded \/ Finish

(* Microtasks run, timers fire and subscribe() returns.  No source has to  *)
(* emit or end, no handler has to settle, nobody has to abort.             *)
Fairness ==
    /\ WF_vars(SubscribeReturns)
    /\ WF_vars(GiveUp \/ SleepBeforeRetry)
    /\ WF_vars(SleepOver) /\ WF_vars(Resume)
    /\ WF_vars(PassFailureOn \/ AwaitHandler \/ ForwardHandler)
    /\ WF_vars(HandlerForwarded) /\ WF_vars(Finish)
    /\ \A n \in 1 .. Attempts : WF_vars(TimeoutFires(n))

Spec == Init /\ [][Next]_vars /\ Fairness

-----------------------------------------------------------------------------
(* Properties.                                                             *)

(* The consumer's values all come from one attempt, or all from the        *)
(* fallback: "once a value has been emitted the outcome is committed",     *)
(* whatever timers, errors and aborts follow, and not followed by a        *)
(* timeout.                                                                *)
OneOrigin ==
    /\ \A i, j \in DOMAIN delivered : delivered[i] = delivered[j]
    /\ consumer = "error" /\ outcome = "timeout" => delivered = <<>>

(* One source at most is subscribed at any time, and none is left behind:  *)
(* not by a timeout, and not by an abort that came while subscribing.      *)
OneSourceAtATime ==
    /\ Cardinality(sources) <= 1
    /\ outcome # "pending" /\ ~subscribing => sources = {}

(* Between attempts, while a fallback runs and after the end nothing of an *)
(* attempt is left: no armed timer, no listener on the execution's signal, *)
(* and after the end no listener on the caller's, which may live on.       *)
NothingLeftBehind ==
    /\ phase # "calling" => timers = {} /\ links = {}
    /\ phase = "closed" => ~linked

(* Once the execution's signal aborted, no attempt is begun with a call of *)
(* the handler.  Without a timeout stage one is, when the abort falls      *)
(* between the end of the backoff and its continuation.                    *)
NoCallOnceAborted ==
    [][Has("timeout") /\ calls' # calls => ~aborted]_vars

(* A committed outcome is not timed out, and a timeout that stood down     *)
(* leaves the call cancellable: an abort ends the execution unless it      *)
(* waits for a fallback's promise, which has the signal.                   *)
AbortEnds == aborted ~> phase \in {"closed", "handling"}

(* With a timeout every execution ends, however its sources hang, except   *)
(* by committing (the stream is the consumer's then) or in the fallback,   *)
(* which is outside the timeout.                                           *)
EndsInTime ==
    phase # "idle" /\ Has("timeout")
        ~> phase \in {"closed", "handling", "adopting"} \/ Committed

(* "True once the outcome can no longer be replaced [...] Retry, Fallback  *)
(* and Timeout stand down from then on."  Retry looks before its backoff   *)
(* only: what an earlier attempt left running, after a timeout or beside   *)
(* an error it already gave, may send the headers during the backoff, and  *)
(* that does not keep the next attempt from being called.                  *)
NoCallOnceCommitted ==
    [][calls' # calls => ~Committed]_vars
=============================================================================
