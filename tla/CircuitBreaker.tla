--------------------------- MODULE CircuitBreaker ---------------------------
(***************************************************************************)
(* CircuitBreakerPolicy (lib/policies/circuit-breaker.policy.ts), with     *)
(* either kind of window, shared by concurrent calls that settle in any    *)
(* order, and driven by hand with trip() and reset().                      *)
(*                                                                         *)
(* acquire() and the call of `next` run in one go, and so does everything  *)
(* from the settlement of `next` to the end of release(): each is one      *)
(* action.  Events are emitted in the middle of such a run, and a listener *)
(* may call trip(), reset() or read `state` there.  That matters only when *)
(* acquire() goes on after an event, so it is modelled there; everywhere   *)
(* else it is the same as a step that follows.                             *)
(*                                                                         *)
(* A definition marked DEVIATION is not the code: it is a plausible bug,   *)
(* put in place of the definition after it to see which property notices.  *)
(***************************************************************************)
EXTENDS Integers, Sequences, FiniteSets, SlidingWindows

CONSTANTS Calls,             \* the executions that reach this breaker
          Threshold, Scale,  \* options.failureRateThreshold is Threshold / Scale percent
          MinimumCalls,      \* options.minimumCalls
          OpenDuration,      \* options.openDuration, in ticks
          HalfOpenMaxCalls,  \* options.halfOpenMaxCalls
          WindowType,        \* options.slidingWindow.type
          WindowSize,        \* options.slidingWindow.size of a count window
          Buckets, Width,    \* the shape of a time window
          MaxTime,           \* bound on the clock
          MaxCommands        \* bound on the calls of trip() and reset()

(* What the constructor accepts: see the numberOption, countOption and     *)
(* durationOption calls, and the check of minimumCalls against the window. *)
(* A threshold is any number above 0 up to 100 and, like every number that *)
(* JavaScript has, a ratio of integers.                                    *)
ASSUME ConstantsAssumption ==
    /\ IsFiniteSet(Calls)
    /\ Scale \in Nat \ {0} /\ Threshold \in 1 .. 100 * Scale
    /\ MinimumCalls \in Nat \ {0}
    /\ OpenDuration \in Nat
    /\ HalfOpenMaxCalls \in Nat \ {0}
    /\ WindowType \in {"count", "time"}
    /\ WindowSize \in Nat \ {0} /\ Buckets \in Nat \ {0} /\ Width \in Nat \ {0}
    /\ WindowType = "count" => MinimumCalls <= WindowSize
    /\ MaxTime \in Nat /\ MaxCommands \in Nat

VARIABLES breaker,  \* the fields of the policy
          now,      \* Date.now()
          pc,       \* "new", "inside" (between acquire and release), "done"
          permit,   \* the permit acquire() gave the call
          signal,   \* what became of the call's abort signal
          outcome,  \* how the call counted, once it is done
          commands  \* how often trip() and reset() were called

vars == <<breaker, now, pc, permit, signal, outcome, commands>>

States == {"closed", "open", "half-open"}

(* caller: aborted by the caller.  timeout: by a timeout around the        *)
(* breaker.  unsent: by such a timeout, while the call still waited for a  *)
(* rate limit token inside the breaker (abortedBeforeCall has it).         *)
Signals == {"live", "caller", "timeout", "unsent"}

(* How `next` settles.  uncounted stands for a RejectionError of an inner  *)
(* policy and for an error recordIf says no to; error also for one on      *)
(* which recordIf throws.                                                  *)
Endings == {"value", "error", "uncounted"}

NoPermit == [generation |-> -1, halfOpen |-> FALSE]

NoProbes == [started |-> 0, finished |-> 0, failures |-> 0]

-----------------------------------------------------------------------------
(* The window the constructor chose.                                       *)

WindowReset ==
    IF WindowType = "time" THEN TimeReset(Buckets) ELSE CountReset

WindowStats(w) ==
    IF WindowType = "time" THEN TimeStats(w, Buckets, Width, now) ELSE CountStats(w)

WindowRecord(w, failure) ==
    IF WindowType = "time"
    THEN TimeRecord(w, Buckets, Width, now, failure)
    ELSE CountRecord(w, WindowSize, failure)

(* failures / total * 100 >= failureRateThreshold, without the rounding of *)
(* floating point.                                                         *)
RateReached(failures, total) == 100 * Scale * failures >= Threshold * total

OverThreshold(w) ==
    LET stats == WindowStats(w)
    IN  stats.total >= MinimumCalls /\ RateReached(stats.failures, stats.total)

-----------------------------------------------------------------------------
(* transition() and what calls it, as functions of the fields b.           *)

(* DEVIATION of Transition: the window survives a reset().                 *)
TransitionKeepsWindow(b, to) ==
    [current |-> to,
     generation |-> b.generation + 1,
     openedAt |-> IF to = "open" THEN now ELSE b.openedAt,
     window |-> b.window,
     probes |-> IF to = "half-open" THEN NoProbes ELSE b.probes]

(* DEVIATION of Transition: probes of the last half-open state remain.     *)
TransitionKeepsProbes(b, to) ==
    [current |-> to,
     generation |-> b.generation + 1,
     openedAt |-> IF to = "open" THEN now ELSE b.openedAt,
     window |-> IF to = "closed" THEN WindowReset ELSE b.window,
     probes |-> b.probes]

Transition(b, to) ==
    [current |-> to,
     generation |-> b.generation + 1,
     openedAt |-> IF to = "open" THEN now ELSE b.openedAt,
     window |-> IF to = "closed" THEN WindowReset ELSE b.window,
     probes |-> IF to = "half-open" THEN NoProbes ELSE b.probes]

OpenDurationPassed(b) == b.current = "open" /\ now - b.openedAt >= OpenDuration

CheckOpenDuration(b) ==
    IF OpenDurationPassed(b) THEN Transition(b, "half-open") ELSE b

(* DEVIATION of ReleaseClosed: only a failure makes it evaluate the rate.  *)
ReleaseClosedOnFailure(b, result) ==
    LET recorded == [b EXCEPT !.window = WindowRecord(@, result = "failure")]
    IN  IF result = "ignored" THEN b
        ELSE IF result = "failure" /\ OverThreshold(recorded.window)
        THEN Transition(recorded, "open")
        ELSE recorded

(* release() of a call admitted while closed.                              *)
ReleaseClosed(b, result) ==
    LET recorded == [b EXCEPT !.window = WindowRecord(@, result = "failure")]
    IN  IF result = "ignored" THEN b
        ELSE IF OverThreshold(recorded.window) THEN Transition(recorded, "open")
        ELSE recorded

(* DEVIATION of ReleaseProbe: an ignored probe does not give its place up. *)
ReleaseProbeLeaks(b, result) ==
    LET finished == b.probes.finished + 1
        failures == b.probes.failures + AsCount(result = "failure")
        counted == [b EXCEPT !.probes = [started |-> b.probes.started,
                                         finished |-> finished, failures |-> failures]]
    IN  IF result = "ignored" THEN b
        ELSE IF finished < HalfOpenMaxCalls THEN counted
        ELSE Transition(counted,
                        IF RateReached(failures, finished) THEN "open" ELSE "closed")

(* DEVIATION of ReleaseProbe: the first success closes the breaker.        *)
ReleaseProbeEarly(b, result) ==
    LET finished == b.probes.finished + 1
        failures == b.probes.failures + AsCount(result = "failure")
        counted == [b EXCEPT !.probes = [started |-> b.probes.started,
                                         finished |-> finished, failures |-> failures]]
    IN  IF result = "ignored" THEN [b EXCEPT !.probes.started = @ - 1]
        ELSE IF result = "success" THEN Transition(counted, "closed")
        ELSE IF finished < HalfOpenMaxCalls THEN counted
        ELSE Transition(counted,
                        IF RateReached(failures, finished) THEN "open" ELSE "closed")

(* release() of a probe.                                                   *)
ReleaseProbe(b, result) ==
    LET finished == b.probes.finished + 1
        failures == b.probes.failures + AsCount(result = "failure")
        counted == [b EXCEPT !.probes = [started |-> b.probes.started,
                                         finished |-> finished, failures |-> failures]]
    IN  IF result = "ignored" THEN [b EXCEPT !.probes.started = @ - 1]
        ELSE IF finished < HalfOpenMaxCalls THEN counted
        ELSE Transition(counted,
                        IF RateReached(failures, finished) THEN "open" ELSE "closed")

(* DEVIATION of Release: outcomes of an earlier generation count.          *)
ReleaseStale(b, p, result) ==
    IF p.halfOpen THEN ReleaseProbe(b, result) ELSE ReleaseClosed(b, result)

(* Outcomes of calls admitted under an earlier state are stale.            *)
Release(b, p, result) ==
    IF p.generation # b.generation THEN b
    ELSE IF p.halfOpen THEN ReleaseProbe(b, result)
    ELSE ReleaseClosed(b, result)

(* isIgnoredAbort(), read when the call settles.                           *)
IgnoredAbort(c) == signal[c] \in {"caller", "unsent"}

(* The outcome run() derives from how `next` settled: an abort is looked   *)
(* at only in the catch block.                                             *)
OutcomeOf(c, ending) ==
    IF ending = "value" THEN "success"
    ELSE IF IgnoredAbort(c) \/ ending = "uncounted" THEN "ignored"
    ELSE "failure"

-----------------------------------------------------------------------------
Init ==
    /\ breaker = [current |-> "closed", generation |-> 0, openedAt |-> 0,
                  window |-> WindowReset, probes |-> NoProbes]
    /\ now = 0
    /\ pc = [c \in Calls |-> "new"]
    /\ permit = [c \in Calls |-> NoPermit]
    /\ signal = [c \in Calls |-> "live"]
    /\ outcome = [c \in Calls |-> "none"]
    /\ commands = 0

(* acquire() after checkOpenDuration and its listeners left the fields at  *)
(* b: the call goes in, or it is rejected with CircuitOpenError.           *)
Admit(c, b) ==
    LET probing == b.current = "half-open" /\ b.probes.started < HalfOpenMaxCalls
    IN  IF b.current = "closed" \/ probing
        THEN /\ breaker' = IF probing THEN [b EXCEPT !.probes.started = @ + 1] ELSE b
             /\ permit' = [permit EXCEPT ![c] = [generation |-> b.generation,
                                                 halfOpen |-> probing]]
             /\ pc' = [pc EXCEPT ![c] = "inside"]
             /\ UNCHANGED outcome
        ELSE /\ breaker' = b
             /\ pc' = [pc EXCEPT ![c] = "done"]
             /\ outcome' = [outcome EXCEPT ![c] = "rejected"]
             /\ UNCHANGED permit

(* A call arrives.                                                         *)
Arrive(c) ==
    /\ pc[c] = "new"
    /\ Admit(c, CheckOpenDuration(breaker))
    /\ UNCHANGED <<now, signal, commands>>

(* A call arrives and turns the breaker half-open, and a listener of that  *)
(* event trips or resets the breaker before acquire() goes on.             *)
ArriveWithListener(c) ==
    /\ pc[c] = "new"
    /\ OpenDurationPassed(breaker)
    /\ commands < MaxCommands
    /\ commands' = commands + 1
    /\ \E to \in {"open", "closed"} :
           Admit(c, Transition(CheckOpenDuration(breaker), to))
    /\ UNCHANGED <<now, signal>>

(* The call's signal aborts; only the first abort counts.  acquire() does  *)
(* not look at it, so one that aborted earlier is as if it did so now.     *)
Abort(c) ==
    /\ pc[c] = "inside"
    /\ signal[c] = "live"
    /\ \E reason \in Signals \ {"live"} : signal' = [signal EXCEPT ![c] = reason]
    /\ UNCHANGED <<breaker, now, pc, permit, outcome, commands>>

(* `next` settles.  A call that never got its token has no value.  The     *)
(* signal of a call that is done is of no further use and is forgotten.    *)
Settle(c) ==
    /\ pc[c] = "inside"
    /\ \E ending \in Endings :
           /\ signal[c] = "unsent" => ending # "value"
           /\ LET result == OutcomeOf(c, ending) IN
              /\ breaker' = Release(breaker, permit[c], result)
              /\ outcome' = [outcome EXCEPT ![c] = result]
    /\ pc' = [pc EXCEPT ![c] = "done"]
    /\ signal' = [signal EXCEPT ![c] = "live"]
    /\ UNCHANGED <<now, permit, commands>>

(* trip() or reset().                                                      *)
Command(to) ==
    /\ commands < MaxCommands
    /\ commands' = commands + 1
    /\ breaker' = Transition(breaker, to)
    /\ UNCHANGED <<now, pc, permit, signal, outcome>>

Trip == Command("open")

Reset == Command("closed")

(* The `state` getter.                                                     *)
ReadState ==
    /\ breaker' = CheckOpenDuration(breaker)
    /\ UNCHANGED <<now, pc, permit, signal, outcome, commands>>

Tick ==
    /\ now < MaxTime
    /\ now' = now + 1
    /\ UNCHANGED <<breaker, pc, permit, signal, outcome, commands>>

Next ==
    \/ \E c \in Calls : Arrive(c) \/ ArriveWithListener(c) \/ Abort(c) \/ Settle(c)
    \/ Trip \/ Reset \/ ReadState \/ Tick

(* "Only calls that settle are recorded: give a breaker a timeout": what   *)
(* is fair is that every call inside settles.  Nobody has to call again.   *)
Fairness == \A c \in Calls : WF_vars(Settle(c))

Spec == Init /\ [][Next]_vars /\ Fairness

-----------------------------------------------------------------------------
(* Properties.                                                             *)

Closed == breaker.current = "closed"
HalfOpen == breaker.current = "half-open"

(* The calls whose outcome is for the present generation, by progress.     *)
Current == {c \in Calls : permit[c].generation = breaker.generation}
Probing == {c \in Current : pc[c] = "inside"}
Counted == {c \in Current : pc[c] = "done" /\ outcome[c] \in {"success", "failure"}}
Failed == {c \in Counted : outcome[c] = "failure"}

(* The contents a window can have.                                         *)
Windows ==
    IF WindowType = "time" THEN TimeWindows(Buckets) ELSE CountWindows(WindowSize)

(* Every variable has its type (no run checks it, proofs rest on it).      *)
TypeOK ==
    /\ breaker \in [current : States, generation : Nat, openedAt : 0 .. now,
                    window : Windows,
                    probes : [started : Nat, finished : Nat, failures : Nat]]
    /\ now \in Nat
    /\ pc \in [Calls -> {"new", "inside", "done"}]
    /\ permit \in [Calls -> [generation : Nat \cup {-1}, halfOpen : BOOLEAN]]
    /\ signal \in [Calls -> Signals]
    /\ outcome \in [Calls -> {"none", "success", "failure", "ignored", "rejected"}]
    /\ commands \in 0 .. MaxCommands

(* While half-open, every probe counted as started is either inside or     *)
(* counted as finished: an ignored probe gives its place back, no probe of *)
(* an earlier half-open state is counted, and so no more than              *)
(* halfOpenMaxCalls are ever let through and none of the places is lost.   *)
ProbesAccounted ==
    HalfOpen =>
        /\ breaker.probes.started = breaker.probes.finished + Cardinality(Probing)
        /\ breaker.probes.started <= HalfOpenMaxCalls
        /\ breaker.probes.finished = Cardinality(Counted)
        /\ breaker.probes.failures = Cardinality(Failed)
        /\ breaker.probes.finished < HalfOpenMaxCalls

(* The window of a closed breaker holds outcomes of calls that were        *)
(* admitted since it closed and nothing else: not those of calls admitted  *)
(* earlier that settle late, not those of before a reset().                *)
WindowHoldsThisGeneration ==
    Closed =>
        LET stats == WindowStats(breaker.window) IN
        /\ stats.total <= Cardinality(Counted)
        /\ stats.failures <= Cardinality(Failed)
        /\ WindowType = "count" =>
               stats.total = IF Cardinality(Counted) < WindowSize
                             THEN Cardinality(Counted) ELSE WindowSize

(* A breaker with a count window is never closed over its threshold.       *)
ClosedBelowThreshold ==
    Closed /\ WindowType = "count" => ~OverThreshold(breaker.window)

(* Of either window: no call is recorded that leaves the breaker closed    *)
(* over its threshold.  (The successes of a time window can age out until  *)
(* the rest is over it; the breaker opens with the next recorded call.)    *)
NeverRecordsPastThreshold ==
    [][breaker'.window # breaker.window /\ breaker'.current = "closed"
           => ~OverThreshold(breaker'.window)]_vars

(* Left alone, a half-open breaker leaves that state when halfOpenMaxCalls *)
(* of its own probes have settled and counted, and the side it takes is    *)
(* that of their failure rate.                                             *)
ProbesDecide ==
    [][HalfOpen /\ breaker'.current # "half-open" /\ commands' = commands
       => LET counted == {c \in Current : outcome'[c] \in {"success", "failure"}}
              failed == {c \in counted : outcome'[c] = "failure"}
          IN  /\ Cardinality(counted) = HalfOpenMaxCalls
              /\ breaker'.current =
                     IF RateReached(Cardinality(failed), HalfOpenMaxCalls)
                     THEN "open" ELSE "closed"]_vars

(* A half-open breaker that has let all its probes through does not stay   *)
(* so: they decide, or one gives its place to the next call.               *)
FullOfProbes == HalfOpen /\ breaker.probes.started = HalfOpenMaxCalls
ProbesAreReleased == FullOfProbes ~> ~FullOfProbes
=============================================================================
