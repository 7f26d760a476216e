# TLA+ models of nestjs/resilience

This directory is a verification development of the library under `src/lib`:
TLA+ modules translated from its source, TLC configurations that check them on
small instances, and TLAPS proofs of what matters most for every size.
`PROJECT.json` lists components, runs, the lines each definition stands for, the
hazards of the code and the properties that answer them.

    tlc -workers 2 -config MCBulkhead.cfg MCBulkhead     # any run of the table
    tlapm BulkheadProofs.tla                             # any ...Proofs or ...Theorems module

## 1. The system

The library wraps calls in *policies*. A policy is an object with
`run(next, execution)`; `ResiliencePolicy.wrap()` composes several into one,
outermost first, and the canonical order is

    fallback > retry > circuitBreaker > outboundRateLimit > timeout > bulkhead > call

`execute(fn)` runs a promise-returning function through a policy;
`executeObservable(fn)` and the entrypoint interceptor use `observe()`, which
does the same for an Observable. The stateful policies (breaker, rate limit,
bulkhead) are shared by name through registries: every call of every handler
that refers to a name goes through one object. JavaScript runs one piece of
code at a time, so interleavings happen only at awaits, timers, abort listeners
and synchronous emissions; those points are the grain of atomicity of all models.

| component | state it keeps | operations | what is hard | what makes it correct |
|---|---|---|---|---|
| `BulkheadPolicy` | `running`, `queue`; per waiter a promise, a timer, an abort listener | arrive, start, settle, abort, queue timeout | release, abort and timer compete for one waiter; a grant is a promise that is acted on later | slots conserved, no idle slot while somebody waits, FIFO, no starvation, reported iff rejected |
| sliding windows | ring and running failure count; ten recycled time buckets | record, reset, stats | wrap-around; stale buckets after a skip of the clock | they report what a complete log would |
| `CircuitBreakerPolicy` | `current`, `generation`, `openedAt`, `probes`, the window | arrive, settle, `trip`, `reset`, `state` | results of calls admitted before a transition; probes that settle out of order or are ignored; listeners that re-enter | only outcomes of the present generation count; probe places neither lost nor doubled; the window never stays over the threshold |
| `OutboundRateLimitPolicy` | `tokens` (may be negative), `refilledAt` | refill, reserve, sleep, refund | refunds out of order, late timers, rounding | tokens conserved, quota kept, bursts bounded, FIFO until somebody aborts |
| `RetryPolicy`, `TimeoutPolicy`, `FallbackPolicy` | none between calls; per call a loop counter, a timer, a linked signal | run | timeouts, aborts and committed outcomes racing with results | one outcome, nothing left behind, cancellation ends the call |
| `observe()` | `emitted`, the execution's controller, subscription | subscribe, forward, adopt, teardown | values that were delivered cannot be taken back; a consumer may leave inside `subscribe()` | values of one origin only, one source at a time, no leak |
| `wrap()`, `execute()` | the list of policies | compose, run | timed-out functions go on running beside the next attempt | late results dropped, permits of shared policies released once |
| attempt scopes, `ResilienceContext` | `AsyncLocalStorage` store per async context; per scope `parent`, `ended` | `runInAttempt`, `currentAttempt`, `run` | code goes on in the context of an attempt that ended | the innermost live scope is found; ended scopes are not kept alive |
| named registries | `instances`, `declarations` | `declare`, `get`, `find`, `names`, `list` | order of wiring | one instance per name, never built from settings other than the declared ones |
| `PolicyFactory`, `ResilienceService` | the cache of presets | `build`, `compose`, `preset`, `circuitBreaker` | sharing by name | a preset's instances are those of the entrypoints |
| `EntrypointPlanner` | the cache of plans | `resolve`, `prepare`, `planFor` | field-wise merging, presets taken whole | each stage comes from the most specific level that sets it |
| `ResilienceInterceptor` | none | `intercept`, `canRepeat`, `isCommitted` | which calls are safe to repeat | a handler is repeated only if it may be |
| `ResilienceExplorer` | none | `onModuleInit` | decides from metadata what the interceptor decides from requests | misconfiguration stops the boot, warnings are true |
| `TransportErrorMapper` | none | `map` | headers that went out, rounding | the client is told, and not to come back too early |
| module, events, errors, options, decorators | none or caches | emit, validate | - | pure or sequential; listed in `PROJECT.json` with the reason |

How they interact. Outermost first, a policy calls `next`, the rest of the
chain. All policies of an execution share its `Execution`: the signal, which
the caller, the consumer's teardown or an outer timeout aborts, and
`committed()`. `TimeoutPolicy` replaces the signal for what it wraps by one
linked to it. A `RejectionError` of an inner policy (bulkhead full, circuit
open, no token) passes through the breaker unrecorded and through Retry without
another attempt. `runInAttempt` opens a scope around each attempt.

The hazards, each with the line where it bites and the properties that
answer it, are in `PROJECT.json` under `hazards`.

## 2. Modules

Every module says in its head what runs as one action. A definition marked
DEVIATION is a plausible bug, not the code: put in place of the definition that
follows it, it makes the property named in `PROJECT.json` (`mutants`) fail,
which shows that the property depends on that code.

**FairSlots** is what a bulkhead promises: slots, a bounded line, hand-over to
its head, no overtaking. It knows no counter, timer or promise.

**Bulkhead** (`bulkhead.policy.ts`) has the fields `running` and `queue`, and
for each call its place in `run()`, whether its timer is armed and whether its
abort listener is registered. `ThrowAborted`, `TakeSlot`, `RejectFull` and
`JoinQueue` are the branches of `acquire()` in the code's order; `Abort` and
`QueueTimeout` are its closures; `Release` is the `finally` with the grant of
the next waiter. A grant only resolves a promise, so "granted" is a place of
its own: the caller may abort before `Start`, the microtask that calls `next`.
It implements FairSlots with `holders <- Holders, line <- queue`.

**SlidingWindows** holds `CountWindow` and `TimeWindow` as operators on their
fields. **WindowLog** drives both beside a complete log of outcomes.

**CircuitBreaker** (`circuit-breaker.policy.ts`) uses them. `Arrive` is
`checkOpenDuration()` and admission, `Settle` the rest of `run()` from the
settlement of `next` to the end of `release()`. A permit carries the generation
and whether it is a probe. `ArriveWithListener` is the one place where a
listener that calls `trip()` or `reset()` from an event changes the rest of a
method. `Signals` tells why a call's signal aborted, as far as `isIgnoredAbort`
does. The threshold is the ratio `Threshold / Scale`: the constructor takes any
number above 0 up to 100, and every number JavaScript has is a ratio of integers.

**OutboundRateLimit** (`outbound-rate-limit.policy.ts`, `sleep()`): tokens are
counted in fractions of 1/Interval, so a tick adds Limit of them and the
arithmetic is exact. `due` is when a reserved token is there, `went` (history)
when the call really went: a timer may fire up to `MaxLate` ticks after its time,
any bound on that. `Refund` is the catch block, a microtask after the abort;
a call that aborted before it arrives, or whose signal aborts while `run()`
goes on, is treated as the code treats it (a free token is taken unseen).

**ObservedCall** is one subscription to what `observe()` returns, with
`fallback(retry(timeout(call)))` around the call: the subscriber, the
execution's controller, the linked signal and timer of each attempt, the
subscription of each attempt's source, and the headers of an HTTP response. Its
`settings` are chosen in the initial state, so one run covers all sixteen
configurations of stages. Steps inside `source.subscribe()`, microtasks and
timers are told apart: a timer never fires between a settlement and its
continuation, an abort may.

**AttemptScopes** (`attempt-scope.context.ts`, `resilience.context.ts`): scopes
in the order in which they open, each opened from any context there is, since
code may run in the context of an ended scope for ever. `CurrentScope` walks
`parent` as the code does; `Around` walks the raw stores.

**Wiring** (`named-registry.service.ts`, with the callers in
`policy-factory.service.ts`, `resilience.service.ts` and
`EntrypointPlanner.prepare/planFor`): what is declared and what instances are
made of for each name, under constructors, the bootstrap, run-time calls and
handlers planned late. All presets' and handlers' configurations are initial
states.

**PromiseCall** is `execute()` of several executions whose policies are those
that `PolicyFactory` composes, with one shared bulkhead. Per execution it keeps
where it is (`trying`, `sleeping`, `woken`, `settled`), its signal and the
attempt whose function called it; per attempt its place in the bulkhead, its
signal, and the `verdict` that is on its way up through the policies.
`Execute`, `ExecuteInside` and `Resume` run synchronously from `execute()` (or
the end of the backoff) through breaker, timeout and `acquire()`; `FnSettles`
is the function's promise with the release of its slot; `Conclude` is the
breaker's accounting and Retry's decision, which follow each other; `TimerFires`
leaves the function running. `AbortSignals` does all that listeners do
synchronously: waiters leave the queue, sleeps reject, linked signals abort, and
with them the executions inside. The breaker's state is abstract here (it may
refuse any retry), the bulkhead is `Bulkhead` without its queue timer.

**StagePlan** (`EntrypointPlanner.resolve`, the merging and validation in
`policy-factory.service.ts`) is operators on the configuration of one handler:
what each of the four levels sets for each stage, the module's defaults, and
facts of the application around it. **Entrypoint** drives a handler with such a
configuration through `PolicyFactory`'s constructor, the explorer's and the
planner's bootstrap, and any request it can get: which pipeline, which attempts,
fallback or mapped error. `AttemptFails` ends an attempt, with the backoff or the
answer; `Retry` is the end of the backoff; `SendHeaders` may happen in either. An
attempt there fails before it emits anything; ObservedCall has those that emit.

**BulkheadProofs**, **CircuitBreakerProofs**, **WindowLogProofs**,
**OutboundRateLimitProofs**, **AttemptScopesProofs**, **PromiseCallProofs** and
**ObservedCallProofs** hold the theorems about the modules they are named for;
**StructureTheorems** holds the lemmas that several of them cite: queues without
one of their waiters, counting, sums over buckets, what a window reports after
`record`, `reset` or a pause. The `MC...` modules give the constants their values for TLC.

## 3. Runs

| run | asks | instance, and why it is enough |
|---|---|---|
| `bulkhead` | slots conserved, nobody waits beside a free slot, queue exact and FIFO (refinement of FairSlots), no starvation | 5 calls, 2 slots, 2 places: every branch of `acquire()` is taken with everything full, two waiters give an order; queue timers on (without them the behaviours are a subset) |
| `windows` | both windows report what the log says, and so are off by less than a bucket | ring of 2 wrapped twice; 3 buckets of 2 ms over two laps, so slots are reused, skipped and stale |
| `breaker_count` | probes accounted, stale results kept out, threshold respected, probes decide | 4 calls, ring of 2, 2 probes, 2 commands, two outages: results of up to three generations meet |
| `breaker_time` | never records past the threshold; a full half-open state is left | 3 calls, 2 buckets, so outcomes age out while closed; a threshold of 33.3 percent, which one failure in three reaches; not symmetric, because of liveness |
| `rate_limit` | conservation, quota at every moment, bursts of real service and order without aborts | 2 tokens in 3 ticks (fractions and rounding occur), 5 calls, timers up to 2 ticks late (two sleepers go at once, a newcomer beside them), aborts before and during the sleep |
| `observed_call` | see section 4 | 3 attempts (a retry after a retry), 2 values, all sixteen configurations |
| `attempt_scopes` | the short parent chain is equivalent to the raw one; no aborted attempt is current; ended scopes are let go | 4 scopes, 2 signals: an ended scope between two live ones, shared and separate signals |
| `wiring` | settings are honoured or refused, presets as written, the boot fails iff there is a reason | 2 names, a preset, 2 handlers in any order, a late one, 2 settings, and invalid inline options |
| `promise_call` | slots are the real load, the dead do not wait, late results dropped and nothing settled undone, one record per attempt, nobody overtakes the queue, no timed wait for good | 3 executions, one inside another, 2 slots, 1 place: the function that waits for its own slot, behind another call or beside its own zombie; retry after a timeout while the zombie still runs; with and without a timeout on the inner one |
| `entrypoint` | settings of the most specific level, boot fails iff misconfigured, true warnings, safe repetition, answers that arrive | one stage at a time over all subsets of the four levels with up to 4 decorators and 2 presets, defaults, 12 kinds of handlers, 8 surroundings (7492 initial states): stages are resolved one by one, so pairs of stages add nothing |
| `arrival_order`, `retry_after_commit` | findings: a sentence of the code's comments that the code does not keep (section 7) | the instances above |

Bounds: clocks stop at `MaxTime`, the log at `MaxRecords`, commands at
`MaxCommands`, values at `MaxValues`, scopes at `MaxScopes`, each a CONSTANT in
the guards. Symmetry is used only where the run has no liveness property. Runs
that switch deadlock checking off are those whose system ends; the cfg says so.

## 4. Properties worth reading

- Bulkhead: `SlotsAccounted` and `QueueHoldsTheWaiting` relate counter, queue,
  timers and listeners under every race; `ImplementsFairSlots` is the contract.
- Breaker: `WindowHoldsThisGeneration`, `ProbesAccounted` and `ProbesDecide`
  compare the fields with the calls whose permit is of the present generation.
  `NeverRecordsPastThreshold` is the form that holds of a time window too: its
  successes may age out until the rest is over the threshold while the breaker
  is still closed, and it opens with the next record.
- Rate limit: `QuotaKept` says that at every moment, past or to come, calls
  served and sleepers due are at most the initial tokens and those refilled.
  `SmoothUnlessAborted` counts the calls that really went in a period, whichever:
  at most `limit` and what is refilled in that period and in as much before it as
  timers are late, since sleepers whose timers are late may go at once. (Without
  that allowance TLC finds two late sleepers and a newcomer that go within a tick.)
  It holds only until somebody aborts: aborts free reservations that later calls
  take.
- Observed call: `OneOrigin` (all values delivered come from one attempt or all
  from the fallback), `OneSourceAtATime` and `NothingLeftBehind` (no source,
  timer, listener outlives its use), `NoCallOnceAborted`, `AbortEnds` and
  `EndsInTime` (cancellation and timeout do end the execution).
- Scopes: `CurrentIsInnermost` compares two walks over different links.
- Promise calls: `SlotsAreLoad` says that the bulkhead counts exactly the
  functions that run, zombies included. `LateResultsAreDropped` is the
  documented promise about them, `SettledStays` the same of each step: nothing
  that was settled is settled again. `NobodyOvertakes` is the bulkhead's order
  under all that happens around it: a timeout frees no slot, so a retry cannot
  pass those in line. `EachAttemptRecordedOnce` follows the breaker's
  book along the retries: each retry was paid for with one failure, and
  rejections, late results and aborts add nothing. `SettlesInTime` covers the
  nested call through one bulkhead: with a timeout around either call the wait
  ends. Without one it does not, and that is the code's contract.
- Entrypoint: `MostSpecificWins` and `MisconfigurationFailsTheBoot` compare the
  code's folds with a direct reading of its documentation ("the smallest level
  that contributes and sets the field", a fallback's condition apart, for which
  see section 7); `WarningsAreTrue` relates what the
  explorer says at the bootstrap to what the interceptor does at any request;
  `RepeatedOnlyIfSafe` derives from the configuration, not from the plan, who
  may have declared a handler idempotent. Of headers it says only that no backoff
  begins once they are out; that none goes out before the next attempt is what
  `retry_after_commit` refutes.
- Wiring: `BootDecides` gives the order-free reason for which a boot fails.

## 5. Fairness

Only what JavaScript's event loop and the documented use give: microtasks run,
due timers fire, `subscribe()` returns, and (bulkhead, breaker) an operation
that was started settles at some time. The comment on the breaker asks for
exactly that: "Only calls that settle are recorded: give a breaker a timeout".
PromiseCall asks less: microtasks run and timers fire (a timer only when no
microtask is left), no function needs to settle; an execution with a timeout
still ends. No fairness is asked of aborts, of the bulkhead's queue timer (waiters get out
without it), of sources that emit or end, or of a fallback's promise: `AbortEnds`
and `EndsInTime` name the states in which the code itself has nothing that
would end the call.

## 6. Proofs

Every theorem is of the module's own `Spec`, for all constants that satisfy the
module's named assumption, which is what the constructors validate (sizes and
limits at least 1, queues at least 0, any finite set of calls). TLC checked each
inductive invariant on the instances of section 3 before it was proved. `TypeOK`
of each module is proved with them; as invariants of a run of their own the type
invariants would add nothing to that.

**BulkheadProofs** (any slots, places, with or without queue timers):
`SlotsNeverLeak`, `NoCallWaitsForNothing`, `QueueIsTheWaiting`,
`ReportsAreTrue` (only proved: its invariant is in no run), `TypeCorrect`, and the
safety part of the refinement,
`BulkheadIsASemaphore`: initial states and steps are those of FairSlots, or
stutter. None of the conjuncts of `Inv` is inductive alone. That the counter is
the number of holders survives `Release` only because the head of the queue is a
waiting call, so that its promise can still settle; that the queue is exact
survives the timer only because timers belong to waiting calls; that no slot is
idle needs the counter to be the holders. The refinement needs `NoIdleSlot`:
without it `TakeSlot` could overtake the line.

**CircuitBreakerProofs** (any threshold, whole or not, durations, generations, either window):
`EveryProbeAccounted`, `WindowIsOfThisGeneration`, `NeverClosedOverThreshold`,
and the action properties `RecordsStayBelowThreshold` and `AllProbesDecide`. The
invariant adds to the properties that no permit is of a generation to come, and
that one of the present generation was given in the state the breaker is in
(`PermitsOK`): that is why a late result is told from a present one by its
generation alone. `acquire()` and `release()` go through several states of the
fields within one step (`checkOpenDuration`, admission, a listener's command), so
the conjuncts are stated of fields `b`, and each part of the method is shown to
keep them.

**WindowLogProofs** (any size, any number and width of buckets, any pauses):
`CountWindowIsExact`, that the ring is the tail of the log and its running count
that of the tail, and `TimeWindowIsExactToABucket`. What a time window reports
now is not inductive: the invariant (`BucketsHoldTheirOwn`) says of every
bucket, skipped ones included, which bucket of the clock it is for, that it has
that one's outcomes and no others, and that an outcome's slot never goes back to
an older bucket. Two ids in one slot that are less than a lap apart are equal
(`SameRemainder`), so nothing stale is read and nothing recent is missed.

**OutboundRateLimitProofs** (any calls, limit, interval, longest wait, and any
bound on how late timers are): `NoTokenIsLost`, `QuotaHolds`, `SmoothUntilAborted`. `QuotaKept` looks
ahead to the moments that sleepers can be due at, and a tick looks further: the
invariant (`Paid`) is that of all moments. Until a reservation is given back
(`Smooth`) five statements carry each other: from any moment on the bucket
would not have been more than full without what was due later (`NotEarly`), it
is not in debt when the last sleeper is due (`NoDebt`), and from these follow
the bound on every period (`NoBurst`) and, with the level that the next sleeper's
time is computed from (`NextApart`), the distances in the line (`Apart`). The
proof uses that a wait is rounded up to the first tick that pays for it, no
more. All these are about the times that calls are due at; that a call goes no
earlier and at most `MaxLate` later (`Punctual`, inductive by itself) carries the
bound over to when they went: those that go in a period were due in it or that
little before (`WentWereDue`).

**AttemptScopesProofs** (any number of scopes and signals): `FoundIsInnermost`,
`NoneInheritsAnOldAbort`, `NothingEndedIsHeld`. `CurrentIsInnermost` says
nothing of what an attempt that still runs remembers; the invariant adds that
this parent is one around the attempt, or none, and that all between have ended
(`ParentsAreInner`), which stays so because ending is final: the reason that the
code's comment gives for not keeping the raw store.

**PromiseCallProofs** (any executions with one level of nesting, any attempts,
slots and places, each with a timeout or not): `CounterIsLoad`, `TheLivingWait`,
`LateResultsDropped`, `RecordedOnce`, and of every step `SlotsGoInLine` and
`TheSettledStays`. The queue is of attempts, and what concerns one is spread over
four policies, so the parts of `Inv` lean on each other:

- `SlotsKept` (the counter is the number of holders, the queue is those in line,
  each once) survives the hand-over since its head is in line and not a holder,
  and an abort since `Remaining` takes out just those that it hits
  (`QueueRemaining`).
- That a waiter is the present attempt of a live execution (`Waiters`) survives an
  abort only if the abort takes out all waiters it concerns. It does because an
  execution inside is reached with the attempt that called it (`Nested`, and
  `Abortable`: with an attempt all its heirs), and because nesting goes one level
  deep in the model.
- An attempt can begin with a clean record because nothing happens to attempts
  still to come (`Ahead`).
- `Decided` says of which attempts a verdict is known and which; the one verdict
  that Retry must not see of a live execution, its caller's abort, implies that
  the execution's signal aborted. It makes "every retry followed a failure or a
  timeout" inductive, and that a zombie's verdict is "timeout".
- `Told` adds up the breaker's book. It needs that the verdicts of settled
  executions stay, which is part of `SettledStays`.

All steps are first put into seven kinds (`StepsAre`: an attempt begins, signals
abort, ...), and the action properties are shown of each kind.

**ObservedCallProofs** (any number of attempts, any settings): `ValuesHaveOneOrigin`,
`NoSourceIsLeft`, `NoListenerIsLeft`; `AbortsAreHeard`, the safe half of
`AbortEnds`; and of every step `NoCallAfterAbort` and `NoCallAfterValue`. The last
is what remains true of the sentence that `retry_after_commit` refutes: a value
commits against retries, sent headers do not, since no source is left that could
emit during the backoff while a handler that failed or timed out may go on and
send them. In the invariant,
`Subscribed` says that a source outlives its forward()'s decision only while
`subscribe()` is on the stack, and then the execution has aborted: that is why
the check after `subscribe()` returns is enough. `Plumbing` says that an attempt
whose outcome is open is linked to the execution, whether or not its timeout
stood down. `Origin` says which phases are never reached after a value.

Induction over data. The induction theorems of the library cannot be used here
(they take an operator as a parameter). What recursive functions and folds
compute is proved all the same by looking at a least counterexample: of the
subsets of a finite set for sums over buckets (`LeastSubset` in StructureTheorems), of
the naturals for the walks over scopes and for what is left of a queue (`Least` in
AttemptScopesProofs and PromiseCallProofs).

Model-checked only: liveness (`NoStarvation`, `ProbesAreReleased`, `AbortEnds`,
`EndsInTime`, `SettlesInTime`, the liveness of the refinement), which is out of
the prover's reach; Wiring, StagePlan and Entrypoint (`SettingsAreHonoured`,
`PresetsAsWritten`, `BootDecides`, `MostSpecificWins`,
`MisconfigurationFailsTheBoot`, `WarningsAreTrue`, `AnswersReachTheClient`,
`RepeatedOnlyIfSafe`), whose configurations are finite choices that TLC
enumerates.

## 7. Where comment and code differ

- `arrival_order`: "Callers that wait for a token are served in arrival order."
  A waiter keeps the wake-up time it computed on arrival; tokens given back by
  aborted waiters go to the next newcomer, who can be due before it.
- `retry_after_commit`: Retry is said to stand down once the outcome is
  committed. It asks before its backoff only. What an earlier attempt left
  running, after a timeout or (as in TLC's trace, which has no timeout) beside an
  error it already gave, may send the headers during the backoff, and the handler
  is then called again.

Met while modelling, and without a run of their own: "a call its caller aborted
is not recorded" (`circuit-breaker.policy.ts:140`) holds only if it rejects, one
that resolves all the same is a success. An attempt that an outer timeout aborts
while it still waits in the bulkhead's queue is recorded by a breaker between
the two as a failure of the dependency; the exception made for that wait
(`abortedBeforeCall`) covers the rate limit's only. A backoff function between
two objects is skipped over by the defaults: a handler's `{ delay }` above a
class's function gets the other fields from `defaults.retry`. `@Retry()` on a
route for SEARCH, COPY and the like is never repeated and not warned about.
"Decorators refine the levels below them field by field"
(`entrypoint-planner.service.ts:99`) does not hold of a fallback's condition: a
`@Fallback()` without a `handleIf` takes that of a decorator below it, but not
that of a preset below it, since `resolve()` drops the presets (line 276) before
it looks for one (line 288). The fallback then also takes errors that the preset's
condition excludes. `MostSpecificWins` compares `handleIf` with that rule of the
code, and says so.

## 8. What is not modelled, and what is abstracted

Event payloads, names, messages and logging; decorators and metadata; the
parsing of durations, the backoff formula, the clamp of timers. The breaker's
rate and the limiter's tokens are exact where the code has floating point.
Clocks do not go back, and a timer does not fire early. `attempts: Infinity` is
outside the models: attempts are finite in number. In ObservedCall and PromiseCall delays have no length.
ObservedCall has no shared policies in the chain, only their rejections
(`rejection`), and no predicate or backoff function of the user's that throws
after a value; PromiseCall has no fallback, rate limit or predicates of the
user's, and one level of nesting. Wiring covers one kind of policy and named
instances, Entrypoint one handler, in an application whose breakers and
bulkheads nobody else configures; `size` stands for the breaker's whole window
option; headers that go out while a fallback's promise is awaited, and handlers
planned after the bootstrap, are outside it. `PROJECT.json` lists the hazards that no property covers, with the
reason.

## 9. What is left

The models are as far as the code's control goes, and the policies, shared or not,
are proved. Not done:

1. Wiring for any names and handlers: `SettingsAreHonoured` as a theorem.
2. PromiseCall with any depth of nesting: `Nested` would have to be closed under
   a chain of attempts; TLC checks one level, which is enough to wait for oneself.
3. Backoff and rate in floating point as operators over bounded inputs.
