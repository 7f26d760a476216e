----------------------------- MODULE StagePlan ------------------------------
(***************************************************************************)
(* How the settings of one handler become its stages: what                 *)
(* EntrypointPlanner.resolve() makes of the four levels that may set each  *)
(* stage, and what PolicyFactory adds and refuses when it builds them.     *)
(*                                                                         *)
(* A handler h is a record: what it is (h.is), what sets its stages        *)
(* (h.sets[stage][level]), the module's defaults (h.defaults[stage]), and  *)
(* the facts that hold of the application around it (h.facts).  Options    *)
(* are functions from the names of the fields that are defined; the        *)
(* undefined ones are dropped by definedFields().  "size" stands for the   *)
(* breaker's slidingWindow, which is never merged.                         *)
(*                                                                         *)
(* A definition marked DEVIATION is not the code: it is a plausible bug,   *)
(* put in place of the definition after it to see which property notices.  *)
(***************************************************************************)
EXTENDS Integers, Sequences, SequencesExt, FiniteSets, FiniteSetsExt, TLC

Stages == {"fallback", "retry", "circuitBreaker", "outboundRateLimit", "timeout", "bulkhead"}
NamedStages == {"circuitBreaker", "bulkhead", "outboundRateLimit"}

(* Handler decorator, handler preset, class decorator, class preset.       *)
Levels == <<1, 2, 3, 4>>
IsPreset(l) == l \in {2, 4}
OnHandler(l) == l \in {1, 2}

Nothing == [f \in {} |-> {}]
Field(options, f, default) == IF f \in DOMAIN options THEN options[f] ELSE default
Without(options, f) == [g \in DOMAIN options \ {f} |-> options[g]]

(* @Timeout() without a duration.                                          *)
Bare == 0

(* mergeRetry(): `override` wins field by field, two backoff objects merge, *)
(* too (a backoff function is replaced as a whole).                        *)
MergeRetry(base, override) ==
    IF /\ "backoff" \in DOMAIN base /\ "backoff" \in DOMAIN override
       /\ base["backoff"].object /\ override["backoff"].object
    THEN ("backoff" :> [override["backoff"] EXCEPT !.fields = @ @@ base["backoff"].fields])
         @@ override @@ base
    ELSE override @@ base

-----------------------------------------------------------------------------
(* resolve(): which levels count.                                          *)

(* Class-level settings do not reach field resolvers.                      *)
Reaches(h, l) == h.is.method = "field" => OnHandler(l)

(* The stages that have a decorator: STAGE_METADATA has no outbound rate    *)
(* limit, which only a preset sets.                                        *)
StageMetadata == Stages \ {"outboundRateLimit"}

(* What level l sets; presetOptions() names a preset's stateful stages.    *)
Value(h, stage, l) ==
    IF IsPreset(l) /\ stage \in NamedStages
    THEN h.sets[stage][l] @@ ("name" :> <<"preset", l>>)
    ELSE h.sets[stage][l]

FindAll(h, stage) ==
    SelectSeq(Levels, LAMBDA l : /\ l \in DOMAIN h.sets[stage] /\ Reaches(h, l)
                                 /\ IsPreset(l) \/ stage \in StageMetadata)

(* A preset is taken whole, and so is a breaker or bulkhead with a name.   *)
TakenWhole(h, stage, l) ==
    IsPreset(l) \/ (stage \in NamedStages /\ "name" \in DOMAIN Value(h, stage, l))

UpTo(h, stage) ==
    LET matches == FindAll(h, stage)
        index == SelectInSeq(matches, LAMBDA l : TakenWhole(h, stage, l))
    IN  IF index = 0 THEN matches ELSE SubSeq(matches, 1, index)

-----------------------------------------------------------------------------
(* resolve(): each stage, as a part of the spec.                           *)

(* handlesOwnResponse(): @Res() or @Next() without passthrough on a route. *)
HandlesOwnResponse(h) == h.is.type = "http" /\ h.is.own

Fallbacks(h) == UpTo(h, "fallback")

(* DEVIATION of FallbackSpec: whoever sends the response.                  *)
FallbackAlways(h) ==
    IF Fallbacks(h) = <<>> THEN Nothing
    ELSE "fallback" :> Value(h, "fallback", Head(Fallbacks(h)))

(* DEVIATION of FallbackSpec: no condition but that of the level on top.   *)
FallbackOnTop(h) ==
    IF Fallbacks(h) = <<>> \/ HandlesOwnResponse(h) THEN Nothing
    ELSE "fallback" :> Value(h, "fallback", Head(Fallbacks(h)))

(* The handler of the most specific level; the condition of the most       *)
(* specific decorator that has one, or of the preset that has the handler. *)
FallbackSpec(h) ==
    LET decorators == SelectSeq(Fallbacks(h), LAMBDA l : ~IsPreset(l))
        conditions == SelectSeq(decorators, LAMBDA l : Value(h, "fallback", l).handleIf # "default")
    IN
    IF Fallbacks(h) = <<>> \/ HandlesOwnResponse(h) THEN Nothing
    ELSE IF IsPreset(Head(Fallbacks(h))) THEN "fallback" :> Value(h, "fallback", Head(Fallbacks(h)))
    ELSE "fallback" :> [by |-> Value(h, "fallback", Head(decorators)).by,
                        handleIf |-> IF conditions = <<>> THEN "default"
                                     ELSE Value(h, "fallback", Head(conditions)).handleIf]

FallbackMethod(h) ==
    "fallback" \in DOMAIN FallbackSpec(h) /\ FallbackSpec(h)["fallback"].by = "method"

Retries(h) == UpTo(h, "retry")

(* DEVIATION of RetryValue: a preset declares handlers idempotent.         *)
RetryValueAsIs(h, l) == Value(h, "retry", l)

(* "A preset can't declare handlers safe to repeat: only their author can" *)
RetryValue(h, l) ==
    IF IsPreset(l) THEN Without(Value(h, "retry", l), "idempotent") ELSE Value(h, "retry", l)

(* DEVIATION of RetryOptions: reduce() in place of reduceRight().          *)
RetryOptionsReduced(h) ==
    FoldLeft(LAMBDA merged, l : MergeRetry(merged, RetryValue(h, l)), Nothing, Retries(h))

RetryOptions(h) ==
    FoldRight(LAMBDA l, merged : MergeRetry(merged, RetryValue(h, l)), Retries(h), Nothing)

RetrySpec(h) ==
    IF Retries(h) = <<>> THEN Nothing ELSE "retry" :> Without(RetryOptions(h), "idempotent")

MergedStateful(h, stage) ==
    FoldRight(LAMBDA l, merged : Value(h, stage, l) @@ merged, UpTo(h, stage), Nothing)

(* Unnamed breakers and bulkheads are named after the handler.             *)
StatefulSpec(h, stage) ==
    IF UpTo(h, stage) = <<>> THEN Nothing
    ELSE stage :> (MergedStateful(h, stage) @@ ("name" :> "handler"))

PerHandler(h) ==
    {stage \in {"circuitBreaker", "bulkhead"} :
        UpTo(h, stage) # <<>> /\ "name" \notin DOMAIN MergedStateful(h, stage)}

RateLimitSpec(h) ==
    LET matches == FindAll(h, "outboundRateLimit") IN
    IF matches = <<>> THEN Nothing
    ELSE "outboundRateLimit" :> Value(h, "outboundRateLimit", Head(matches))

(* The first duration down the levels, or the module's; Bare if none.      *)
TimeoutOf(h) ==
    LET set == SelectSeq(FindAll(h, "timeout"), LAMBDA l : Value(h, "timeout", l) # Bare)
    IN  IF set = <<>> THEN h.defaults.timeout ELSE Value(h, "timeout", Head(set))

TimeoutSpec(h) == IF FindAll(h, "timeout") = <<>> THEN Nothing ELSE "timeout" :> TimeoutOf(h)

(* resolve() throws: a preset that does not exist, no duration anywhere.   *)
ResolveThrows(h) ==
    \/ "unknown preset" \in h.facts
    \/ FindAll(h, "timeout") # <<>> /\ TimeoutOf(h) = Bare

IsSubscription(h) == h.is.method = "Subscription"

SpecOf(h) ==
    IF IsSubscription(h) THEN Nothing
    ELSE FallbackSpec(h) @@ RetrySpec(h) @@ StatefulSpec(h, "circuitBreaker")
         @@ StatefulSpec(h, "bulkhead") @@ RateLimitSpec(h) @@ TimeoutSpec(h)

-----------------------------------------------------------------------------
(* PolicyFactory.                                                          *)

(* The options a stage is built with, and whether its constructor takes    *)
(* them: at least one attempt, a count window that holds minimumCalls.     *)
WithDefaults(h, stage, options) ==
    CASE stage = "retry" -> MergeRetry(h.defaults.retry, options)
      [] stage \in {"circuitBreaker", "bulkhead"} -> options @@ h.defaults[stage]
      [] OTHER -> options

Accepted(stage, options) ==
    CASE stage = "retry" -> Field(options, "attempts", 3) >= 1
      [] stage = "circuitBreaker" -> Field(options, "minimumCalls", 10) <= Field(options, "size", 20)
      [] OTHER -> TRUE

(* validateStages() in the constructor: the defaults, and each preset with *)
(* the defaults under it.                                                  *)
Validated == {"retry", "circuitBreaker"}
ConstructorThrows(h) ==
    \E stage \in Validated :
        \/ ~Accepted(stage, h.defaults[stage])
        \/ \E l \in DOMAIN h.sets[stage] :
               IsPreset(l) /\ ~Accepted(stage, WithDefaults(h, stage, h.sets[stage][l]))

BuildThrows(h, spec) ==
    \E stage \in DOMAIN spec : ~Accepted(stage, WithDefaults(h, stage, spec[stage]))

(* build(): the options of each stage; a retry of a single attempt is none. *)
Build(h, spec) ==
    LET options == [stage \in DOMAIN spec |-> WithDefaults(h, stage, spec[stage])]
        single == "retry" \in DOMAIN spec /\ Field(options["retry"], "attempts", 3) = 1
    IN  IF single THEN Without(options, "retry") ELSE options
=============================================================================
