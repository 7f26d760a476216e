---------------------------- MODULE PromiseCall -----------------------------
(***************************************************************************)
(* ResiliencePolicy.execute() under retry > breaker > timeout > bulkhead,  *)
(* the order in which PolicyFactory composes them: several executions      *)
(* share one bulkhead, each retries, times its attempts out or not, and    *)
(* calls a function that need not listen to its signal.  A function that   *)
(* runs on after its timeout (a zombie) keeps its slot, beside the attempt *)
(* that follows; it may also execute through the same bulkhead itself, and *)
(* wait for the slot it holds.                                             *)
(*                                                                         *)
(* A promise settles, and a chain of microtasks carries that up through    *)
(* the policies.  Others run in between where the model has a place for    *)
(* it: "granted", "woken", and a verdict that breaker and retry, one right *)
(* after the other, have yet to see.  Timers fire only when no microtask   *)
(* is left.  Which calls the breaker refuses is CircuitBreaker's matter:   *)
(* here it may refuse any retry (a refusal of the first attempt ends the   *)
(* execution before it touches anything), and its book holds what it is    *)
(* told of each execution.                                                 *)
(*                                                                         *)
(* A definition marked DEVIATION is not the code: it is a plausible bug,   *)
(* put in place of the definition after it to see which property notices.  *)
(***************************************************************************)
EXTENDS Integers, Sequences, SequencesExt, FiniteSets

CONSTANTS Execs,         \* the calls of execute()
          Parent,        \* the execution whose function makes the call; 0: nobody's
          Timings,       \* the choices of which executions have a timeout stage
          Attempts,      \* options.attempts of each one's retry
          MaxConcurrent, \* options.maxConcurrent of the bulkhead
          MaxQueue       \* options.maxQueue of the bulkhead

(* One level of nesting is enough to wait for oneself.                     *)
ASSUME ConstantsAssumption ==
    /\ Execs \subseteq Nat \ {0} /\ IsFiniteSet(Execs)
    /\ Parent \in [Execs -> Execs \cup {0}]
    /\ \A e \in Execs : Parent[e] # 0 => Parent[Parent[e]] = 0
    /\ Timings \subseteq SUBSET Execs
    /\ Attempts \in [Execs -> Nat \ {0}]
    /\ MaxConcurrent \in Nat \ {0} /\ MaxQueue \in Nat

VARIABLES timed,   \* the executions that have a timeout stage
          exec,    \* each execution
          call,    \* each attempt: its place in the bulkhead, its signal, its verdict
          running, \* BulkheadPolicy.running
          queue,   \* BulkheadPolicy.queue, of attempts
          book     \* what the breaker was told of each execution, in order

vars == <<timed, exec, call, running, queue, book>>

Calls == UNION {{e} \X (1 .. Attempts[e]) : e \in Execs}
NoCall == <<0, 0>>

(* signal: "live", or why it aborted: its caller, or a timeout around it.  *)
(* inside: the attempt whose function awaits the execution; linked: that   *)
(* attempt's signal is the execution's.                                    *)
Init ==
    /\ timed \in Timings
    /\ exec = [e \in Execs |-> [stage |-> "new", attempt |-> 0, signal |-> "live",
                                inside |-> NoCall, linked |-> FALSE, outcome |-> "none"]]
    /\ call = [c \in Calls |-> [place |-> "none", signal |-> "live", verdict |-> "none"]]
    /\ running = 0 /\ queue = <<>>
    /\ book = [e \in Execs |-> <<>>]

Current(e) == <<e, exec[e].attempt>>

(* An attempt is in progress, and nothing was decided about it.            *)
Trying(e) == exec[e].stage = "trying" /\ call[Current(e)].verdict = "none"

(* A verdict that breaker and retry have still to see.                     *)
Concluding(e) == exec[e].stage = "trying" /\ call[Current(e)].verdict # "none"

(* No microtask is left to run.                                            *)
Quiet ==
    /\ \A c \in Calls : call[c].place # "granted"
    /\ \A e \in Execs : ~Concluding(e) /\ exec[e].stage # "woken"

(* DEVIATION of Heirs: an execution inside gets a signal of its own.       *)
NoHeirs(c) == {}

(* The executions that a function called as part of its attempt.           *)
Heirs(c) == {x \in Execs : exec[x].inside = c /\ exec[x].linked /\ exec[x].stage # "settled"}

Settled(x, outcome) == [x EXCEPT !.stage = "settled", !.outcome = outcome]

-----------------------------------------------------------------------------
(* Beginning an attempt.                                                   *)

(* The breaker's acquire(), TimeoutPolicy.run() up to its timer, the       *)
(* bulkhead's acquire(): e goes on as x.                                   *)
Begin(e, x, refused) ==
    LET c == <<e, x.attempt>>
        Decided(v) == call' = [call EXCEPT ![c].verdict = v] /\ UNCHANGED <<running, queue>>
    IN
    /\ exec' = [exec EXCEPT ![e] = x]
    /\ \/ refused /\ Decided("refused")
       \/ ~refused /\ x.signal # "live" /\ Decided(x.signal)
       \/ /\ ~refused /\ x.signal = "live" /\ running < MaxConcurrent
          /\ call' = [call EXCEPT ![c].place = "granted"]
          /\ running' = running + 1 /\ UNCHANGED queue
       \/ /\ ~refused /\ x.signal = "live" /\ running >= MaxConcurrent
          /\ Len(queue) >= MaxQueue
          /\ Decided("full")
       \/ /\ ~refused /\ x.signal = "live" /\ running >= MaxConcurrent
          /\ Len(queue) < MaxQueue
          /\ call' = [call EXCEPT ![c].place = "queued"]
          /\ queue' = Append(queue, c) /\ UNCHANGED running

(* execute() with a signal of the caller's.                                *)
Execute(e) ==
    /\ Parent[e] = 0 /\ exec[e].stage = "new"
    /\ Begin(e, [exec[e] EXCEPT !.stage = "trying", !.attempt = 1], FALSE)
    /\ UNCHANGED <<timed, book>>

(* execute() with a signal that has aborted.                               *)
ExecuteAborted(e) ==
    /\ Parent[e] = 0 /\ exec[e].stage = "new"
    /\ exec' = [exec EXCEPT ![e] = Settled([@ EXCEPT !.signal = "caller"], "caller")]
    /\ UNCHANGED <<timed, call, running, queue, book>>

(* execute() in the function of attempt c, without a signal: it gets that  *)
(* of the attempt, unless the scope ended with the signal; then a new one. *)
ExecuteInside(e, c) ==
    /\ exec[e].stage = "new"
    /\ c[1] = Parent[e] /\ call[c].place = "running"
    /\ Begin(e, [exec[e] EXCEPT !.stage = "trying", !.attempt = 1, !.inside = c,
                                !.linked = call[c].signal = "live"], FALSE)
    /\ UNCHANGED <<timed, book>>

(* After acquire(): the function is called, although its signal may have   *)
(* aborted since the slot was granted.                                     *)
Start(c) ==
    /\ call[c].place = "granted"
    /\ call' = [call EXCEPT ![c].place = "running"]
    /\ UNCHANGED <<timed, exec, running, queue, book>>

-----------------------------------------------------------------------------
(* Aborts and timeouts.                                                    *)

(* What is left of queue q when those in S have left it.                   *)
Remaining(q, S) ==
    LET kept[i \in 0 .. Len(q)] ==
            IF i = 0 THEN <<>>
            ELSE IF q[i] \in S THEN kept[i - 1]
            ELSE Append(kept[i - 1], q[i])
    IN  kept[Len(q)]

(* DEVIATION of AbortSignals: a waiter does not listen to its signal.      *)
AbortUnheard(xs, cs, why, verdicts) ==
    LET hit == {c \in cs \cup {Current(x) : x \in {y \in xs : Trying(y)}} : call[c].signal = "live"} IN
    /\ exec' = [x \in Execs |->
           IF x \notin xs \/ exec[x].signal # "live" THEN exec[x]
           ELSE LET y == [exec[x] EXCEPT !.signal = why] IN
                IF y.stage = "sleeping" THEN Settled(y, why) ELSE y]
    /\ call' = [c \in Calls |->
           [call[c] EXCEPT !.signal = IF c \in hit THEN why ELSE @,
                           !.verdict = IF c \in verdicts THEN why ELSE @]]
    /\ UNCHANGED queue

(* The signals of executions xs and attempts cs abort, and with them those *)
(* of the attempts of xs.  Listeners: waiters leave the queue and reject,  *)
(* sleeps reject, scopes end.  `verdicts` are those that reject as well.   *)
AbortSignals(xs, cs, why, verdicts) ==
    LET hit == {c \in cs \cup {Current(x) : x \in {y \in xs : Trying(y)}} : call[c].signal = "live"}
        left == {c \in hit : call[c].place = "queued"}
    IN
    /\ exec' = [x \in Execs |->
           IF x \notin xs \/ exec[x].signal # "live" THEN exec[x]
           ELSE LET y == [exec[x] EXCEPT !.signal = why] IN
                IF y.stage = "sleeping" THEN Settled(y, why) ELSE y]
    /\ call' = [c \in Calls |->
           [call[c] EXCEPT !.signal = IF c \in hit THEN why ELSE @,
                           !.place = IF c \in left THEN "over" ELSE @,
                           !.verdict = IF c \in left \cup verdicts THEN why ELSE @]]
    /\ queue' = Remaining(queue, left)

(* Whom an abort of e's signal reaches: also what its attempt called.      *)
Reached(e) == {e} \cup (IF Trying(e) THEN Heirs(Current(e)) ELSE {})

(* The caller aborts during the execution.                                 *)
Abort(e) ==
    /\ Parent[e] = 0
    /\ exec[e].stage \notin {"new", "settled"} /\ exec[e].signal = "live"
    /\ AbortSignals(Reached(e), {}, "caller", {})
    /\ UNCHANGED <<timed, running, book>>

(* DEVIATION of TimerFires: what timed out gives its slot back.            *)
TimerFreesSlot(e) ==
    /\ e \in timed /\ Trying(e) /\ Quiet
    /\ AbortSignals(Heirs(Current(e)), {Current(e)}, "timeout", {Current(e)})
    /\ running' = IF call[Current(e)].place = "running" THEN running - 1 ELSE running
    /\ UNCHANGED <<timed, book>>

(* DEVIATION of TimerFires: only an attempt that runs is timed.            *)
TimerOfRunning(e) ==
    /\ e \in timed /\ Trying(e) /\ Quiet
    /\ call[Current(e)].place = "running"
    /\ AbortSignals(Heirs(Current(e)), {Current(e)}, "timeout", {Current(e)})
    /\ UNCHANGED <<timed, running, book>>

(* TimeoutPolicy's timer: the attempt's signal aborts, then it rejects.  A *)
(* function that runs is not stopped by that, and keeps its slot.          *)
TimerFires(e) ==
    /\ e \in timed /\ Trying(e) /\ Quiet
    /\ AbortSignals(Heirs(Current(e)), {Current(e)}, "timeout", {Current(e)})
    /\ UNCHANGED <<timed, running, book>>

-----------------------------------------------------------------------------
(* Ending an attempt.                                                      *)

(* DEVIATION of VerdictOn: the result counts although it is late.          *)
LateVerdictOn(c, result) == result

(* A promise settles once: TimeoutPolicy's may have rejected long ago.     *)
VerdictOn(c, result) == IF call[c].verdict = "none" THEN result ELSE call[c].verdict

(* A value, an error, one that isClientError() puts down to the request.   *)
Results == {"ok", "failed", "client"}

(* What the function returned settles: the slot passes on to the head of   *)
(* the queue, the result to the policies around.  A function that executed *)
(* something waits for that.                                               *)
FnSettles(c, result) ==
    LET granted == IF queue = <<>> THEN {} ELSE {Head(queue)} IN
    /\ call[c].place = "running"
    /\ \A x \in Execs : exec[x].inside = c => exec[x].stage = "settled"
    /\ call' = [d \in Calls |->
           IF d = c THEN [call[c] EXCEPT !.place = "over", !.verdict = VerdictOn(c, result)]
           ELSE IF d \in granted THEN [call[d] EXCEPT !.place = "granted"]
           ELSE call[d]]
    /\ running' = (running - 1) + Cardinality(granted)
    /\ queue' = IF queue = <<>> THEN queue ELSE Tail(queue)
    /\ UNCHANGED <<timed, exec, book>>

(* DEVIATION of Records: a call that was turned away is a failure, too.    *)
RecordsRejections(e, verdict) ==
    IF verdict = "ok" THEN <<"success">>
    ELSE IF verdict = "refused" \/ exec[e].signal = "caller" \/ verdict = "client" THEN <<>>
    ELSE <<"failure">>

(* CircuitBreakerPolicy.run() around the attempt: not admitted; aborted by *)
(* a caller that went away; rejected by the bulkhead; the caller's fault.  *)
Records(e, verdict) ==
    IF verdict = "ok" THEN <<"success">>
    ELSE IF verdict = "refused" \/ exec[e].signal = "caller" \/ verdict \in {"full", "client"} THEN <<>>
    ELSE <<"failure">>

(* RetryPolicy: the last attempt, an aborted execution, a RejectionError,  *)
(* an error that the default retryIf does not retry.                       *)
Final(e, verdict) ==
    \/ exec[e].attempt >= Attempts[e]
    \/ exec[e].signal # "live"
    \/ verdict \in {"ok", "full", "refused", "client"}

(* Breaker and retry see the verdict.                                      *)
Conclude(e) ==
    LET verdict == call[Current(e)].verdict IN
    /\ Concluding(e)
    /\ book' = [book EXCEPT ![e] = @ \o Records(e, verdict)]
    /\ exec' = [exec EXCEPT ![e] = IF Final(e, verdict) THEN Settled(@, verdict)
                                   ELSE [@ EXCEPT !.stage = "sleeping"]]
    /\ UNCHANGED <<timed, call, running, queue>>

(* The backoff is over.                                                    *)
Wake(e) ==
    /\ exec[e].stage = "sleeping" /\ Quiet
    /\ exec' = [exec EXCEPT ![e].stage = "woken"]
    /\ UNCHANGED <<timed, call, running, queue, book>>

(* The next attempt; the policies below look at the signal again.          *)
Resume(e, refused) ==
    /\ exec[e].stage = "woken"
    /\ Begin(e, [exec[e] EXCEPT !.stage = "trying", !.attempt = @ + 1], refused)
    /\ UNCHANGED <<timed, book>>

Microtask ==
    \/ \E c \in Calls : Start(c)
    \/ \E e \in Execs : Conclude(e) \/ \E refused \in BOOLEAN : Resume(e, refused)

Timer == \E e \in Execs : TimerFires(e) \/ Wake(e)

Next ==
    \/ Microtask \/ Timer
    \/ \E e \in Execs :
           Execute(e) \/ ExecuteAborted(e) \/ Abort(e) \/ \E c \in Calls : ExecuteInside(e, c)
    \/ \E c \in Calls, r \in Results : FnSettles(c, r)

(* Microtasks run and timers fire.  Nothing makes a function settle.       *)
Fairness == WF_vars(Microtask) /\ WF_vars(Timer)

Spec == Init /\ [][Next]_vars /\ Fairness

-----------------------------------------------------------------------------
(* Properties.                                                             *)

(* "A slot is held until the call really settles, even when an outer       *)
(* Timeout already gave up on it, so the limit reflects actual load": the  *)
(* counter is the number of functions in progress, zombies included, with  *)
(* those about to start, and nobody waits beside a free slot.              *)
SlotsAreLoad ==
    /\ running = Cardinality({c \in Calls : call[c].place \in {"granted", "running"}})
    /\ running <= MaxConcurrent
    /\ queue # <<>> => running = MaxConcurrent

(* Nothing that was given up waits for a slot, or is retried: whoever is   *)
(* in the queue is the present attempt of an execution that goes on, and   *)
(* neither its signal nor the one of the attempt it was called from has    *)
(* aborted; no execution sleeps after its signal aborted.                  *)
OnlyTheLivingWait ==
    /\ \A i \in DOMAIN queue :
           LET e == queue[i][1] IN
           /\ Trying(e) /\ queue[i] = Current(e)
           /\ call[queue[i]].signal = "live" /\ exec[e].signal = "live"
           /\ exec[e].linked => call[exec[e].inside].signal = "live"
    /\ \A e \in Execs : exec[e].stage = "sleeping" => exec[e].signal = "live"

(* "A call that ignores the signal keeps running in the background, but    *)
(* its result is dropped": one attempt of an execution at a time is open   *)
(* to its function; the others failed or timed out, whatever they return   *)
(* later, those still running were told by their signal, and what execute()*)
(* returned stays what the last attempt gave in time, or the abort.        *)
LateResultsAreDropped ==
    /\ \A c \in Calls :
           LET e == c[1] IN
           /\ c[2] < exec[e].attempt \/ (c = Current(e) /\ exec[e].stage \in {"sleeping", "woken"})
                  => call[c].verdict \in {"failed", "timeout"}
           /\ c[2] > exec[e].attempt => call[c].place = "none"
           /\ call[c].place = "running" /\ call[c].verdict # "none"
                  => call[c].verdict = "timeout" /\ call[c].signal # "live"
    /\ \A e \in Execs : exec[e].stage = "settled" =>
           \/ exec[e].attempt > 0 /\ exec[e].outcome = call[Current(e)].verdict
           \/ exec[e].outcome = exec[e].signal

(* "Retry wraps the breaker, so each attempt is recorded": every retry was *)
(* paid for with one recorded failure, a zombie's end adds none, and an    *)
(* attempt is not recorded if the breaker or the bulkhead turned it away,  *)
(* if it was the caller's fault, or if the caller left while it waited.    *)
EachAttemptRecordedOnce ==
    \A e \in Execs : exec[e].attempt > 0 =>
        LET k == exec[e].attempt
            told == book[e]
            verdict == call[Current(e)].verdict
        IN
        /\ Len(told) \in {k - 1, k}
        /\ \A i \in 1 .. k - 1 : told[i] = "failure"
        /\ Len(told) = k =>
               /\ exec[e].stage # "trying"
               /\ verdict \in {"ok", "failed", "timeout"}
               /\ told[k] = "success" <=> verdict = "ok"

(* Slots are handed on in line, however calls end: a call that gets one    *)
(* waited longest, or nobody waits.  Neither a timeout nor the retry that  *)
(* follows its zombie makes room for a newcomer.                           *)
NobodyOvertakes ==
    [][\A c \in Calls : call[c].place # "granted" /\ call'[c].place = "granted" =>
           IF queue = <<>> THEN call[c].place = "none" ELSE c = Head(queue)]_vars

(* What is settled stays: neither the end of a zombie nor an abort changes *)
(* a verdict, what execute() returned, or what was recorded of it.         *)
SettledStays ==
    [][/\ \A c \in Calls : call[c].verdict # "none" => call'[c].verdict = call[c].verdict
       /\ \A e \in Execs : exec[e].stage = "settled" =>
              exec'[e] = exec[e] /\ book'[e] = book[e]]_vars

Waiting(e) == Current(e) \in ToSet(queue)

(* No wait is for good.  With a timeout stage an execution ends even if    *)
(* the functions it calls never settle and hold every slot for good.  And  *)
(* a function that waits in its slot for another slot of the same bulkhead *)
(* does so no longer than its attempt may take: the execution inside got   *)
(* the attempt's signal and leaves the queue with it.  (A zombie that      *)
(* begins one is on its own.)                                              *)
SettlesInTime ==
    /\ \A e \in UNION Timings :
           e \in timed /\ exec[e].stage # "new" ~> exec[e].stage = "settled"
    /\ \A e \in {x \in Execs : Parent[x] # 0} :
           exec[e].linked /\ Parent[e] \in timed /\ Waiting(e) ~> ~Waiting(e)
=============================================================================
