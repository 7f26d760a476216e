---------------------------- MODULE MCEntrypoint ----------------------------
(***************************************************************************)
(* Entrypoint for TLC.  Stages are resolved one by one, so each set of     *)
(* configurations varies one stage over all four levels, and what matters  *)
(* to it; the last one varies the application around the handler.          *)
(***************************************************************************)
EXTENDS Entrypoint

Handler(type, method, stream, own, sse) ==
    [type |-> type, method |-> method, stream |-> stream, own |-> own, sse |-> sse]

Http == {Handler("http", m, FALSE, FALSE, FALSE) : m \in {"GET", "POST", "ALL", "SEARCH"}}
Sse == Handler("http", "GET", FALSE, FALSE, TRUE)
Own == Handler("http", "GET", FALSE, TRUE, FALSE)
GraphQL == {Handler("graphql", m, FALSE, FALSE, FALSE) : m \in {"Query", "Mutation", "field", "Subscription"}}
Messages == {Handler("rpc", "message", s, FALSE, FALSE) : s \in BOOLEAN}
            \cup {Handler("ws", "message", FALSE, FALSE, FALSE)}

Usual == {"entry", "handler", "method", "static", "signal"}

(* Any of the levels may set the stage, to any of these options.           *)
Combinations(decorators, presets) ==
    UNION {[L -> decorators \cup presets] : L \in SUBSET {1, 2, 3, 4}}
Settings(decorators, presets) ==
    {s \in Combinations(decorators, presets) :
        \A l \in DOMAIN s : s[l] \in IF IsPreset(l) THEN presets ELSE decorators}

Unset == [stage \in Stages |-> Nothing]
NoDefaults == [retry |-> Nothing, circuitBreaker |-> Nothing, bulkhead |-> Nothing, timeout |-> Bare]

Configurations(is, stage, settings, defaults, facts) ==
    {[is |-> i, sets |-> [Unset EXCEPT ![stage] = s], defaults |-> d, facts |-> f] :
        i \in is, s \in settings, d \in defaults, f \in facts}

Backoff(fields) == [object |-> TRUE, fields |-> fields]
BackoffFunction == [object |-> FALSE, fields |-> Nothing]

Retrying ==
    Configurations(Http \cup {Sse} \cup GraphQL \cup Messages, "retry",
        Settings({Nothing, "attempts" :> 2, "idempotent" :> TRUE,
                  "attempts" :> 1 @@ "idempotent" :> FALSE},
                 {"attempts" :> 2, "attempts" :> 2 @@ "idempotent" :> TRUE}),
        {NoDefaults}, {Usual})

Backoffs ==
    Configurations({Own}, "retry",
        Settings({"backoff" :> Backoff("delay" :> 1), "backoff" :> Backoff("maxDelay" :> 2),
                  "backoff" :> BackoffFunction, "attempts" :> 0},
                 {"backoff" :> Backoff("delay" :> 3 @@ "maxDelay" :> 4), "attempts" :> 0}),
        {NoDefaults, [NoDefaults EXCEPT !.retry = "backoff" :> Backoff("maxDelay" :> 5)]}, {Usual})

Breakers ==
    Configurations({Own, Handler("graphql", "field", FALSE, FALSE, FALSE)}, "circuitBreaker",
        Settings({"minimumCalls" :> 5, "size" :> 5, "name" :> "shared", "name" :> "shared" @@ "size" :> 30},
                 {"size" :> 5, "minimumCalls" :> 15}),
        {NoDefaults, [NoDefaults EXCEPT !.circuitBreaker = "minimumCalls" :> 5]},
        {Usual, Usual \cup {"namesake"}})

(* The types let only a method's @Fallback() name a method of the class.   *)
Fallback(by, handleIf) == [by |-> by, handleIf |-> handleIf]
Fallbacking ==
    Configurations({Own, Sse, Handler("http", "POST", FALSE, FALSE, FALSE)}, "fallback",
        {s \in Settings({Fallback("function", "default"), Fallback("function", "other"),
                         Fallback("method", "mine"), Fallback("method", "default")},
                        {Fallback("function", "default"), Fallback("function", "preset")}) :
            3 \in DOMAIN s => s[3].by = "function"},
        {NoDefaults}, {Usual \ {"signal"}, Usual \ {"method"}, Usual \ {"static"}, Usual \cup {"unmapped"}})

Timeouts ==
    Configurations({Own, Handler("graphql", "field", FALSE, FALSE, FALSE)}, "timeout",
        Settings({Bare, 5}, {7}),
        {NoDefaults, [NoDefaults EXCEPT !.timeout = 9]}, {Usual})

RateLimits ==
    Configurations({Own, Handler("graphql", "field", FALSE, FALSE, FALSE)}, "outboundRateLimit",
        Settings({}, {"limit" :> 7, "limit" :> 8}), {NoDefaults}, {Usual})

Surroundings ==
    Configurations(Http \cup GraphQL, "timeout", Settings({5}, {7}), {NoDefaults},
        {Usual \ {"entry"}, Usual \ {"handler"}, Usual \ {"signal"}, Usual \cup {"copies"},
         Usual \cup {"unknown preset"}, Usual \cup {"unmapped"}})

MCHandlers == Retrying \cup Backoffs \cup Breakers \cup Fallbacking \cup Timeouts \cup RateLimits \cup Surroundings

MCWaits == {0, 1, 999, 1000, 1001, 2500}
=============================================================================
