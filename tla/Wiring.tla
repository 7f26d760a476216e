------------------------------- MODULE Wiring -------------------------------
(***************************************************************************)
(* How one kind of shared policy (circuit breakers, say) gets its          *)
(* instances: NamedRegistry (declare, get, find), the presets and inline   *)
(* options that PolicyFactory and ResilienceService bring to it, and the   *)
(* bootstrap of EntrypointPlanner.prepare(), in every order in which an    *)
(* application may be wired: services are constructed before the bootstrap *)
(* and call the library in their constructors, some handlers are planned   *)
(* with their first request.                                               *)
(*                                                                         *)
(* Each call is synchronous, so an action; one that throws keeps what it   *)
(* changed until then.  prepare() is synchronous as a whole: nothing else  *)
(* happens while `phase` is "booting".  What else it checks (fallback      *)
(* methods, two classes of one name) is left out.                          *)
(*                                                                         *)
(* A definition marked DEVIATION is not the code: it is a plausible bug,   *)
(* put in place of the definition after it to see which property notices.  *)
(***************************************************************************)
EXTENDS Integers, FiniteSets

CONSTANTS Names,     \* names of instances
          Presets,   \* the names that are presets'
          Handlers,  \* the handlers that prepare() gets
          Late,      \* handlers planned with their first request
          Settings   \* what options can say besides the name, in comparable form

ASSUME ConstantsAssumption == Presets \subseteq Names

(* No settings but the name: module defaults alone.                        *)
Default == "default"

(* Options that the policy's constructor refuses.                          *)
Invalid == "invalid"

Nothing == "nothing"

(* A stage of a spec: absent, a string that refers to a name, or options.  *)
(* A preset's and a handler's options have a name, by default their own.   *)
Absent == [kind |-> "absent", name |-> Nothing, settings |-> Nothing]
References == [kind : {"reference"}, name : Names, settings : {Nothing}]
Options(settings) == [kind : {"options"}, name : Names, settings : settings]

(* Presets are validated by the constructor of PolicyFactory, decorators   *)
(* when their stages are built: the boot of an application with invalid    *)
(* ones fails for that alone and is left out.                              *)
ValidSpecs == {Absent} \cup References \cup Options(Settings \cup {Default})
InlineSpecs == References \cup Options(Settings \cup {Default, Invalid})

VARIABLES preset,    \* the stage of each preset
          handler,   \* the stage of each handler
          registry,  \* NamedRegistry: what is declared, what instances are made of
          phase,     \* constructing, booting, running, failed
          declared,  \* the presets and handlers that the bootstrap declared
          built,     \* the handlers whose plan exists
          cached,    \* ResilienceService.presets
          answered   \* the last call that returned a policy: the spec it asked for

vars == <<preset, handler, registry, phase, declared, built, cached, answered>>

Init ==
    /\ preset \in [Presets -> ValidSpecs]
    /\ handler \in [Handlers \cup Late -> ValidSpecs]
    /\ registry = [declarations |-> [n \in Names |-> Nothing],
                   instances |-> [n \in Names |-> Nothing]]
    /\ phase = "constructing"
    /\ declared = {} /\ built = {} /\ cached = {}
    /\ answered = Absent

-----------------------------------------------------------------------------
(* NamedRegistry: each operation takes the registry to [ok, registry].     *)

Returns(r) == [ok |-> TRUE, registry |-> r]
Throws(r) == [ok |-> FALSE, registry |-> r]

Then(result, Continue(_)) == IF result.ok THEN Continue(result.registry) ELSE result

(* DEVIATION of Declare: settings that differ from those declared are      *)
(* taken for the same.                                                     *)
DeclareFirstWins(r, name, settings, definition) ==
    IF (settings = Default /\ ~definition) \/ r.declarations[name] # Nothing
    THEN Returns(r)
    ELSE IF r.instances[name] # Nothing
    THEN Throws(r)
    ELSE Returns([r EXCEPT !.declarations[name] = settings])

(* declare(): references set nothing; the first configuration is kept, the *)
(* same once more is fine, a different one or a late one throws.           *)
Declare(r, name, settings, definition) ==
    IF settings = Default /\ ~definition
    THEN Returns(r)
    ELSE IF r.declarations[name] # Nothing
    THEN IF r.declarations[name] = settings THEN Returns(r) ELSE Throws(r)
    ELSE IF r.instances[name] # Nothing
    THEN Throws(r)
    ELSE Returns([r EXCEPT !.declarations[name] = settings])

(* get(name): created on first use from what is declared; create() throws  *)
(* on invalid options.                                                     *)
Get(r, name) ==
    LET settings == IF r.declarations[name] = Nothing THEN Default ELSE r.declarations[name]
    IN  CASE r.instances[name] # Nothing -> Returns(r)
          [] r.instances[name] = Nothing /\ settings = Invalid -> Throws(r)
          [] OTHER -> Returns([r EXCEPT !.instances[name] = settings])

(* get(name, options)                                                      *)
GetWith(r, name, settings) ==
    Then(Declare(r, name, settings, FALSE), LAMBDA s : Get(s, name))

Known(r, name) == r.instances[name] # Nothing \/ r.declarations[name] # Nothing

-----------------------------------------------------------------------------
(* PolicyFactory.                                                          *)

(* declare(spec): its named options, if it has any.                        *)
DeclareSpec(r, spec, definition) ==
    IF spec.kind = "options" THEN Declare(r, spec.name, spec.settings, definition)
                             ELSE Returns(r)

(* stateful(): the stage of build().                                       *)
BuildSpec(r, spec) ==
    CASE spec.kind = "absent" -> Returns(r)
      [] spec.kind = "reference" -> Get(r, spec.name)
      [] spec.kind = "options" -> GetWith(r, spec.name, spec.settings)

(* DEVIATION of DeclarePreset: a preset is declared as any spec is, so its *)
(* `circuitBreaker: {}` does not define anything.                          *)
DeclarePresetAsReference(r, p) == DeclareSpec(r, preset[p], FALSE)

DeclarePreset(r, p) == DeclareSpec(r, preset[p], TRUE)

-----------------------------------------------------------------------------
(* ResilienceService, in a constructor or later.                           *)

CanCall == phase \in {"constructing", "running"}

Answer(result, spec) ==
    /\ registry' = result.registry
    /\ answered' = IF result.ok THEN spec ELSE Absent

(* preset(p): declared as a definition, built and cached unless it throws. *)
UsePreset(p) ==
    LET result == Then(DeclarePreset(registry, p), LAMBDA r : BuildSpec(r, preset[p])) IN
    /\ CanCall
    /\ p \notin cached
    /\ Answer(result, preset[p])
    /\ cached' = IF result.ok THEN cached \cup {p} ELSE cached
    /\ UNCHANGED <<preset, handler, phase, declared, built>>

(* create(options)                                                         *)
Create(spec) ==
    /\ CanCall
    /\ Answer(BuildSpec(registry, spec), spec)
    /\ UNCHANGED <<preset, handler, phase, declared, built, cached>>

(* circuitBreaker(name): find() and then, for a preset nothing used yet,   *)
(* declare it and get the instance if it is the preset's own.              *)
Lookup(name) ==
    LET viaPreset ==
            Then(DeclarePreset(registry, name),
                 LAMBDA r : IF preset[name].kind = "options" /\ preset[name].name = name
                            THEN Get(r, name) ELSE Throws(r))
        result == IF Known(registry, name) THEN Get(registry, name)
                  ELSE IF name \in Presets THEN viaPreset
                  ELSE Throws(registry)
    IN
    /\ CanCall
    /\ Answer(result, [kind |-> "reference", name |-> name, settings |-> Nothing])
    /\ UNCHANGED <<preset, handler, phase, declared, built, cached>>

-----------------------------------------------------------------------------
(* EntrypointPlanner.                                                      *)

BeginBoot ==
    /\ phase = "constructing"
    /\ phase' = "booting"
    /\ answered' = Absent
    /\ UNCHANGED <<preset, handler, registry, declared, built, cached>>

(* A step of prepare(): whatever throws fails the boot.                    *)
BootStep(result) ==
    /\ phase = "booting"
    /\ registry' = result.registry
    /\ phase' = IF result.ok THEN phase ELSE "failed"
    /\ UNCHANGED <<preset, handler, cached, answered>>

BootPreset(p) ==
    /\ p \notin declared
    /\ BootStep(DeclarePreset(registry, p))
    /\ declared' = declared \cup {p}
    /\ UNCHANGED built

BootDeclare(h) ==
    /\ Presets \subseteq declared
    /\ h \notin declared
    /\ BootStep(DeclareSpec(registry, handler[h], FALSE))
    /\ declared' = declared \cup {h}
    /\ UNCHANGED built

(* DEVIATION of MayBuild: each plan is built as soon as it is declared.    *)
MayBuildAtOnce(h) == h \in declared

(* Plans are built when everything is declared.                            *)
MayBuild(h) == Presets \cup Handlers \subseteq declared

BootBuild(h) ==
    /\ MayBuild(h)
    /\ h \notin built
    /\ BootStep(BuildSpec(registry, handler[h]))
    /\ built' = built \cup {h}
    /\ UNCHANGED declared

EndBoot ==
    /\ phase = "booting"
    /\ Presets \cup Handlers \subseteq declared
    /\ Handlers \subseteq built
    /\ phase' = "running"
    /\ UNCHANGED <<preset, handler, registry, declared, built, cached, answered>>

(* planFor() a handler that the bootstrap did not see.                     *)
PlanLate(h) ==
    LET result == Then(DeclareSpec(registry, handler[h], FALSE),
                       LAMBDA r : BuildSpec(r, handler[h])) IN
    /\ phase = "running"
    /\ h \notin built
    /\ Answer(result, handler[h])
    /\ built' = IF result.ok THEN built \cup {h} ELSE built
    /\ UNCHANGED <<preset, handler, phase, declared, cached>>

Next ==
    \/ \E p \in Presets : UsePreset(p) \/ BootPreset(p)
    \/ \E spec \in InlineSpecs : Create(spec)
    \/ \E name \in Names : Lookup(name)
    \/ BeginBoot \/ EndBoot
    \/ \E h \in Handlers : BootDeclare(h) \/ BootBuild(h)
    \/ \E h \in Late : PlanLate(h)

Spec == Init /\ [][Next]_vars

-----------------------------------------------------------------------------
(* Properties.                                                             *)

(* The settings that a preset or one of the bootstrap's handlers gives     *)
(* `name`; a preset's options define it even if they set nothing.          *)
Defined(name) ==
    {preset[p].settings : p \in {q \in Presets : preset[q].kind = "options" /\ preset[q].name = name}}
    \cup ({handler[h].settings : h \in {g \in Handlers : handler[g].name = name}}
          \ {Nothing, Default})

(* "A name is configured in one place": whoever asked for a name with      *)
(* settings of his own and got a policy got one with these settings, and   *)
(* who declared it finds its instance so, whoever created that.            *)
SettingsAreHonoured ==
    /\ answered.settings \in Settings =>
           registry.instances[answered.name] = answered.settings
    /\ \A name \in Names :
           registry.declarations[name] # Nothing /\ registry.instances[name] # Nothing
               => registry.instances[name] = registry.declarations[name]

(* A preset's policy runs with what the preset says, `{}` included, and so *)
(* do all handlers that refer to its name, whatever was created before.    *)
PresetsAsWritten ==
    \A p \in Presets :
        preset[p].kind = "options" /\ (p \in cached \/ phase = "running")
            => registry.instances[preset[p].name] \in {Nothing, preset[p].settings}

(* "Conflicting configurations fail regardless of order": the boot fails   *)
(* only if one name is defined in two ways, or was created or declared in  *)
(* another way by a constructor, and it always fails if two presets or     *)
(* handlers define one name differently.                                   *)
BootDecides ==
    /\ phase = "running" => \A name \in Names : Cardinality(Defined(name)) <= 1
    /\ phase = "failed" =>
           \E name \in Names :
               LET known == Defined(name) \cup ({registry.declarations[name]} \ {Nothing}) IN
               \/ Cardinality(known) > 1
               \/ known = {Invalid}
               \/ /\ Defined(name) # {}
                  /\ built = {}
                  /\ registry.declarations[name] = Nothing
                  /\ registry.instances[name] # Nothing
=============================================================================
