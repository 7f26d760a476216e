----------------------------- MODULE Entrypoint -----------------------------
(***************************************************************************)
(* A handler of an application from its configuration to the answers it    *)
(* gives: PolicyFactory checks the presets when it is constructed,         *)
(* ResilienceExplorer finds the handler at bootstrap, EntrypointPlanner    *)
(* plans it (StagePlan), ResilienceInterceptor picks the pipeline of each  *)
(* request, and TransportErrorMapper translates what is left of a failure. *)
(* The bootstrap is one synchronous pass, so it is one action.  A request  *)
(* is one for each attempt that fails and one for the end of each backoff, *)
(* with the response's headers going out anywhere between.                 *)
(*                                                                         *)
(* Facts that may hold of the application: "entry": the class is a         *)
(* controller, resolver or gateway; "handler": the method is one; "copies": *)
(* the module is registered twice; "unknown preset"; "namesake": another   *)
(* class of this name has this handler; "method": the class has the method *)
(* that @Fallback() names; "static": it is a singleton; "signal": the      *)
(* handler uses @Signal(); "unmapped": mapErrors is false.                 *)
(*                                                                         *)
(* A definition marked DEVIATION is not the code: it is a plausible bug,   *)
(* put in place of the definition after it to see which property notices.  *)
(***************************************************************************)
EXTENDS StagePlan

CONSTANTS Handlers, \* the configurations of a handler
          Waits     \* retryAfterMs of an open breaker or a rate limit, in ms

ASSUME ConstantsAssumption == Waits \subseteq Nat

VARIABLES handler,  \* its configuration
          phase,    \* constructing, constructed, running, failed
          plan,     \* its EntrypointPlan; `exists` is false for null
          warnings, \* what the bootstrap warned about
          request   \* the request in progress

vars == <<handler, phase, plan, warnings, request>>

NoPlan == [exists |-> FALSE, stages |-> Nothing, hasRetry |-> FALSE, idempotent |-> FALSE,
           retryOnMethod |-> FALSE, requestStream |-> FALSE, sse |-> FALSE]

(* runs: attempts so far; waiting: in the backoff after one; sent: the     *)
(* response's headers went out.  Attempts fail before they emit anything;  *)
(* ObservedCall has those that emit.                                       *)
NoRequest == [op |-> "none", repeats |-> FALSE, runs |-> 0, waiting |-> FALSE, sent |-> FALSE,
              answer |-> [kind |-> "none"]]

Init ==
    /\ handler \in Handlers
    /\ phase = "constructing"
    /\ plan = NoPlan /\ warnings = {} /\ request = NoRequest

Is(fact) == fact \in handler.facts

-----------------------------------------------------------------------------
(* Start-up.                                                               *)

(* PolicyFactory's constructor.                                            *)
Construct ==
    /\ phase = "constructing"
    /\ phase' = IF ConstructorThrows(handler) THEN "failed" ELSE "constructed"
    /\ UNCHANGED <<handler, plan, warnings, request>>

(* hasResilienceMetadata() of the method, of the class.                    *)
Decorated(levels) == \E stage \in Stages : DOMAIN handler.sets[stage] \cap levels # {}
MethodDecorated == Decorated({1, 2}) \/ Is("unknown preset")
ClassDecorated == Decorated({3, 4})

(* The explorer hands the handler to prepare().                            *)
Discovered == (MethodDecorated \/ ClassDecorated) /\ Is("entry") /\ Is("handler")

SpecOfHandler == SpecOf(handler)

(* build(): the plan.                                                      *)
PlanOf ==
    LET stages == Build(handler, SpecOfHandler) IN
    [exists |-> TRUE, stages |-> stages, hasRetry |-> "retry" \in DOMAIN stages,
     idempotent |-> Retries(handler) # <<>> /\ Field(RetryOptions(handler), "idempotent", FALSE),
     retryOnMethod |-> \E i \in DOMAIN Retries(handler) : Retries(handler)[i] = 1,
     requestStream |-> Retries(handler) # <<>> /\ handler.is.stream,
     sse |-> handler.is.sse]

(* DEVIATION of PrepareThrows: a request-scoped class is accepted.         *)
PrepareThrowsUnlessMethod ==
    /\ ~IsSubscription(handler)
    /\ \/ ResolveThrows(handler)
       \/ FallbackMethod(handler) /\ ~Is("method")
       \/ PerHandler(handler) # {} /\ Is("namesake")
       \/ BuildThrows(handler, SpecOfHandler)

(* prepare() throws: resolve() did; a fallback method that is missing, or  *)
(* on a class without a single instance; two handlers of one name with a   *)
(* breaker or bulkhead of their own; build() does.                         *)
PrepareThrows ==
    /\ ~IsSubscription(handler)
    /\ \/ ResolveThrows(handler)
       \/ FallbackMethod(handler) /\ ~(Is("method") /\ Is("static"))
       \/ PerHandler(handler) # {} /\ Is("namesake")
       \/ BuildThrows(handler, SpecOfHandler)

(* What visit(), resolve() and onModuleInit() warn about, given the plan.  *)
WarningsOf(p) ==
    LET active == p.hasRetry /\ p.retryOnMethod IN
    (IF ~Is("entry") /\ (MethodDecorated \/ ClassDecorated) THEN {"not an entry class"} ELSE {})
    \cup (IF Is("entry") /\ ~Is("handler") /\ MethodDecorated THEN {"not a handler"} ELSE {})
    \cup (IF Discovered /\ IsSubscription(handler) /\ MethodDecorated THEN {"subscription"} ELSE {})
    \cup (IF Discovered /\ ~IsSubscription(handler)
             /\ Fallbacks(handler) # <<>> /\ HandlesOwnResponse(handler) THEN {"fallback"} ELSE {})
    \cup (IF Is("entry") /\ Is("handler") /\ Is("signal") /\ ~p.exists THEN {"signal"} ELSE {})
    \cup (IF active /\ p.requestStream THEN {"retry of a stream"} ELSE {})
    \cup (IF active /\ ~p.requestStream /\ ~p.idempotent
             /\ handler.is.method \in {"POST", "PUT", "PATCH", "DELETE", "Mutation"}
          THEN {"unsafe retry"} ELSE {})

(* onModuleInit(): more than one registration, or prepare(), fails the     *)
(* boot.                                                                   *)
Boot ==
    LET throws == Is("copies") \/ (Discovered /\ PrepareThrows)
        p == IF Discovered /\ DOMAIN SpecOfHandler # {} THEN PlanOf ELSE NoPlan
    IN
    /\ phase = "constructed"
    /\ IF throws
         THEN phase' = "failed" /\ UNCHANGED <<plan, warnings>>
         ELSE /\ phase' = "running"
              /\ plan' = p
              /\ warnings' = WarningsOf(p)
    /\ UNCHANGED <<handler, request>>

-----------------------------------------------------------------------------
(* Requests.                                                               *)

(* What a request can be: the HTTP method, the operation of the GraphQL    *)
(* document (a field is resolved in any), a message.                       *)
Operations ==
    CASE handler.is.method = "ALL" -> {"GET", "POST", "PATCH"}
      [] handler.is.method = "GET" -> {"GET", "HEAD"}
      [] handler.is.method = "field" -> {"query", "mutation", "subscription"}
      [] handler.is.method = "Query" -> {"query"}
      [] handler.is.method = "Mutation" -> {"mutation"}
      [] OTHER -> {handler.is.method}

(* DEVIATION of CanRepeat: `idempotent` is looked at first.                *)
CanRepeatIdempotent(op) ==
    \/ plan.idempotent
    \/ ~plan.requestStream /\ op \in {"GET", "HEAD", "OPTIONS", "query"}
    \/ ~plan.requestStream /\ handler.is.type \notin {"http", "graphql"} /\ plan.retryOnMethod

(* canRepeat(): never a stream; what its author calls idempotent; what the *)
(* protocol calls safe; a message only with @Retry() on the handler.       *)
CanRepeat(op) ==
    /\ ~plan.requestStream
    /\ \/ plan.idempotent
       \/ op \in {"GET", "HEAD", "OPTIONS", "query"}
       \/ handler.is.type \notin {"http", "graphql"} /\ plan.retryOnMethod

(* intercept(): the pipeline with or without its retry, or none.           *)
Request(op) ==
    /\ phase = "running" /\ Is("entry") /\ Is("handler")
    /\ request.op = "none"
    /\ request' = [NoRequest EXCEPT !.op = op, !.repeats = plan.hasRetry /\ CanRepeat(op), !.runs = 1]
    /\ UNCHANGED <<handler, phase, plan, warnings>>

InProgress == request.op # "none" /\ request.answer.kind = "none"

(* The handler, what runs around it, or what an earlier attempt left       *)
(* running writes to the response: its headers go out.                     *)
SendHeaders ==
    /\ InProgress /\ handler.is.type = "http" /\ ~request.sent
    /\ request' = [request EXCEPT !.sent = TRUE]
    /\ UNCHANGED <<handler, phase, plan, warnings>>

(* isCommitted(), which is not asked on an SSE route.                      *)
Committed == request.sent /\ handler.is.type = "http" /\ ~plan.sse

(* describeResilienceError(): whole seconds, at least one.                 *)
RetryAfter(ms) == Max({1, (ms + 999) \div 1000})

(* map(): the status of a resilience error, Retry-After in a header unless *)
(* these went out, and in the payload of other transports.                 *)
Mapped(error) ==
    IF error.kind \in {"other", "client"} \/ Is("unmapped")
    THEN [kind |-> "error", error |-> error, status |-> 0, retryAfter |-> 0, sent |-> request.sent]
    ELSE [kind |-> "error", error |-> error, sent |-> request.sent,
          status |-> IF error.kind = "timeout" THEN 504 ELSE 503,
          retryAfter |-> IF /\ error.kind \in {"open", "limited"}
                            /\ ~(handler.is.type = "http" /\ request.sent)
                         THEN RetryAfter(error.ms) ELSE 0]

(* "client": isClientError(), which the default predicates pass on.  "full", *)
(* "open" and "limited" are the RejectionErrors; a bulkhead does not know  *)
(* when to retry, and a rate limit always has a token to wait for.         *)
Errors == [kind : {"other", "client", "timeout", "full"}, ms : {0}]
          \cup [kind : {"open"}, ms : Waits] \cup [kind : {"limited"}, ms : Waits \ {0}]

(* Retry goes on after an error that may be repeated, while nothing went   *)
(* out.                                                                    *)
GoesOn(error) ==
    /\ request.repeats /\ ~Committed
    /\ error.kind \in {"other", "timeout"}
    /\ request.runs < Field(plan.stages["retry"], "attempts", 3)

(* A fallback may take the error, for a handleIf of its own or by default. *)
MayHandle(error) ==
    IF "fallback" \notin DOMAIN plan.stages THEN {FALSE}
    ELSE IF plan.stages["fallback"].handleIf = "default" THEN {error.kind # "client"} ELSE BOOLEAN

(* An attempt fails: the backoff begins, a fallback takes the error, or it *)
(* is the answer.                                                          *)
AttemptFails(error, handled) ==
    /\ handled \in MayHandle(error)
    /\ InProgress /\ ~request.waiting
    /\ request' =
           IF GoesOn(error) THEN [request EXCEPT !.waiting = TRUE]
           ELSE [request EXCEPT !.answer =
                    IF handled /\ ~Committed THEN [kind |-> "fallback", sent |-> request.sent]
                                              ELSE Mapped(error)]
    /\ UNCHANGED <<handler, phase, plan, warnings>>

(* The backoff is over and the next attempt begins.  Nobody asks           *)
(* committed() again.                                                      *)
Retry ==
    /\ request.waiting
    /\ request' = [request EXCEPT !.waiting = FALSE, !.runs = @ + 1]
    /\ UNCHANGED <<handler, phase, plan, warnings>>

Next ==
    \/ Construct \/ Boot
    \/ \E op \in Operations : Request(op)
    \/ \E error \in Errors, handled \in BOOLEAN : AttemptFails(error, handled)
    \/ SendHeaders \/ Retry

Spec == Init /\ [][Next]_vars

-----------------------------------------------------------------------------
(* Properties.                                                             *)

(* What the documentation of EntrypointPlanner says of the levels, without *)
(* the code's folds.  Level 5 stands for the module's defaults.            *)
Given(stage, l) == IF l = 5 THEN handler.defaults[stage] ELSE Value(handler, stage, l)
Sets(stage) == {l \in DOMAIN handler.sets[stage] : Reaches(handler, l)}
Contributing(stage) ==
    {l \in Sets(stage) : \A m \in Sets(stage) : m < l => ~TakenWhole(handler, stage, m)}
Setting(stage, f) == {l \in Contributing(stage) \cup {5} : f \in DOMAIN Given(stage, l)}
Effective(stage, f, default) ==
    IF Setting(stage, f) = {} THEN default ELSE Given(stage, Min(Setting(stage, f)))[f]

(* The duration of the most specific level that has one.                   *)
Duration ==
    LET set == {l \in Sets("timeout") : Value(handler, "timeout", l) # Bare}
    IN  IF set = {} THEN handler.defaults.timeout ELSE Value(handler, "timeout", Min(set))

(* The backoff objects that merge: those above the first function, and the *)
(* defaults' unless a function is on top.                                  *)
MergedBackoffs ==
    LET set == Setting("retry", "backoff")
        fns == {l \in set : ~Given("retry", l)["backoff"].object}
        above == {l \in set : \A m \in fns : l < m}
    IN  IF above = {} THEN {} ELSE above \cup ({5} \cap (set \ fns))

(* The fallbacks' levels that have a handleIf, and that of the most        *)
(* specific of them.                                                       *)
Conditions(levels) == {l \in levels : Given("fallback", l).handleIf # "default"}
ConditionOf(set) == IF set = {} THEN "default" ELSE Given("fallback", Min(set)).handleIf

(* "Each stage is resolved on its own, from the most specific level that   *)
(* sets it ... Decorators refine the levels below them field by field ...  *)
(* A preset is taken whole": every field of every stage of a plan is the   *)
(* one of the most specific level that contributes and sets it, down to    *)
(* the defaults, inside backoff objects, too.  One field is an exception   *)
(* to that rule: a decorator's fallback takes its handleIf from other      *)
(* decorators only; that of a preset below it, which the sentence would    *)
(* promise, is dropped by resolve().                                       *)
MostSpecificWins ==
    plan.exists =>
        /\ \A stage \in {"retry", "circuitBreaker", "bulkhead"} \cap DOMAIN plan.stages :
               \A f \in {"attempts", "minimumCalls", "size", "name"} :
                   Field(plan.stages[stage], f, "unset")
                       = Effective(stage, f, IF f = "name" /\ stage # "retry" THEN "handler" ELSE "unset")
        /\ "retry" \in DOMAIN plan.stages /\ MergedBackoffs # {} =>
               \A f \in {"delay", "maxDelay"} :
                   LET set == {l \in MergedBackoffs : f \in DOMAIN Given("retry", l)["backoff"].fields} IN
                   Field(plan.stages["retry"]["backoff"].fields, f, 0)
                       = IF set = {} THEN 0 ELSE Given("retry", Min(set))["backoff"].fields[f]
        /\ "timeout" \in DOMAIN plan.stages => plan.stages["timeout"] = Duration
        /\ "outboundRateLimit" \in DOMAIN plan.stages =>
               plan.stages["outboundRateLimit"]
                   = Given("outboundRateLimit", Min(Sets("outboundRateLimit")))
        /\ "fallback" \in DOMAIN plan.stages =>
               LET top == Min(Sets("fallback"))
                   set == Conditions({l \in Contributing("fallback") : l = top \/ ~IsPreset(l)})
               IN  /\ plan.stages["fallback"].by = Given("fallback", top).by
                   /\ plan.stages["fallback"].handleIf = ConditionOf(set)

(* A reason not to start.                                                  *)
Misconfigured ==
    \/ Is("copies")
    \/ ConstructorThrows(handler)
    \/ /\ Discovered /\ ~IsSubscription(handler)
       /\ \/ Is("unknown preset")
          \/ Sets("timeout") # {} /\ Duration = Bare
          \/ /\ 1 \in Sets("fallback") /\ Value(handler, "fallback", 1).by = "method"
             /\ ~handler.is.own
             /\ ~(Is("method") /\ Is("static"))
          \/ /\ Is("namesake")
             /\ \E stage \in {"circuitBreaker", "bulkhead"} :
                    Sets(stage) # {} /\ Setting(stage, "name") = {}
          \/ Sets("retry") # {} /\ Effective("retry", "attempts", 3) < 1
          \/ /\ Sets("circuitBreaker") # {}
             /\ Effective("circuitBreaker", "minimumCalls", 10) > Effective("circuitBreaker", "size", 20)

(* "Misconfiguration fails the boot instead of the first request": an      *)
(* application that runs has no reason not to, even one that only shows    *)
(* when all levels and defaults are put together, and none is refused      *)
(* without a reason.                                                       *)
MisconfigurationFailsTheBoot ==
    /\ phase = "running" => ~Misconfigured
    /\ phase = "failed" => Misconfigured

(* What the bootstrap calls ineffective is so, whatever requests come: the *)
(* explorer's warning about a retry and the interceptor's decision agree;  *)
(* and a decorated handler without a plan is not passed over in silence.   *)
WarningsAreTrue ==
    /\ {"not an entry class", "not a handler", "subscription", "signal"} \cap warnings # {}
           => ~plan.exists
    /\ "fallback" \in warnings => "fallback" \notin DOMAIN plan.stages
    /\ {"retry of a stream", "unsafe retry"} \cap warnings # {} => request.runs <= 1
    /\ phase = "running" /\ MethodDecorated /\ ~plan.exists => warnings # {}

(* The author's word that a handler may be repeated: a decorator's, and    *)
(* none on a level below a preset.                                         *)
DeclaredIdempotent ==
    LET set == {l \in Contributing("retry") :
                   ~IsPreset(l) /\ "idempotent" \in DOMAIN Value(handler, "retry", l)}
    IN  set # {} /\ Value(handler, "retry", Min(set))["idempotent"]

(* A handler runs again for the same request only if it may: no stream,    *)
(* attempts left, and its author declared it idempotent, or the protocol   *)
(* calls the operation safe, or it is a message handler with @Retry() on   *)
(* itself; a preset or the class alone never repeat side effects.  And no  *)
(* backoff begins once headers went out; those that go out during it do    *)
(* not keep the next attempt from running, so headers are not claimed to   *)
(* (that is NoCallOnceCommitted of ObservedCall, which the code breaks).   *)
RepeatedOnlyIfSafe ==
    [][/\ request'.runs > request.runs /\ request.runs > 0 =>
              /\ ~handler.is.stream
              /\ request'.runs <= Effective("retry", "attempts", 3)
              /\ \/ DeclaredIdempotent
                 \/ request.op \in {"GET", "HEAD", "OPTIONS", "query"}
                 \/ handler.is.type \in {"rpc", "ws"} /\ 1 \in Sets("retry")
       /\ request'.waiting /\ ~request.waiting =>
              ~(request.sent /\ handler.is.type = "http" /\ ~handler.is.sse)]_vars

(* An answer is one that the client gets: a fallback is called only if     *)
(* Nest sends its result and no headers went out before, an SSE route's    *)
(* apart; an open breaker or a rate limit gives a time to retry after that *)
(* is not too early, less than a second late, and not in a header that     *)
(* went out already.                                                       *)
AnswersReachTheClient ==
    LET answer == request.answer IN
    /\ answer.kind = "fallback" =>
           /\ ~(handler.is.type = "http" /\ handler.is.own)
           /\ answer.sent => handler.is.sse
    /\ answer.kind = "error" /\ answer.error.kind \in {"open", "limited"} /\ ~Is("unmapped") =>
           IF answer.sent THEN answer.retryAfter = 0
           ELSE /\ answer.retryAfter >= 1 /\ answer.retryAfter * 1000 >= answer.error.ms
                /\ answer.retryAfter > 1 => (answer.retryAfter - 1) * 1000 < answer.error.ms
=============================================================================
