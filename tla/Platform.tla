------------------------------- MODULE Platform -------------------------------
(***************************************************************************)
(* The platform put together and used: PlatformBootstrap and its registries *)
(* (packages/bootstrap), the two PlatformValidators (packages/bootstrap and *)
(* packages/platform) and the EngineeringController that is the result      *)
(* (packages/controller/controller.py), with the RequestValidator and the   *)
(* OperationRegistry it owns.                                               *)
(*                                                                          *)
(* Abstractions: a field of a request is its shape; the issues of a report  *)
(* are a set and their numbers and texts are left out; the delegations of   *)
(* the controller, which return None, are too.                              *)
(***************************************************************************)
EXTENDS Integers, Sequences, FiniteSets, Functions

CONSTANTS
  Requests,        \* [id, operation, workflow, description, workspace, context, metadata]
  Configurations,  \* [limits: those that are not positive, observability: BOOLEAN]
  Containers,      \* [names, needs: names to sets of names]
  Offered,         \* <<name, registry>>: what callers put in the place of others
  Touched,         \* operations that callers register and unregister
  MaxCalls,        \* bound on the calls
  None

PlatformAssumption ==
  /\ MaxCalls \in Nat /\ None \notin Configurations
  /\ \A c \in Containers : c.names \subseteq DOMAIN c.needs

VARIABLES
  registries,    \* PlatformRegistries: names to [public, entries] or None
  built,         \* None or [configuration, refused]
  handlers,      \* the controller's OperationRegistry
  workflows,     \* and its default workflows
  initialized,
  telemetry,     \* "platform", or "custom": one that takes every event
  sessions,      \* the session manager's: request ids to workflow names
  events,        \* the events of the last request a custom telemetry took
  result,        \* what the last request returned
  calls

vars == <<registries, built, handlers, workflows, initialized, telemetry, sessions, events, result, calls>>
operations == <<handlers, workflows, initialized>>
assembly == <<registries, built, telemetry>>

-----------------------------------------------------------------------------
(* The registries and the bootstrap *)

RegistryNames == {"workflow", "execution", "verification", "session", "observability", "provider", "serializer",
                  "capability", "task", "evaluation"}

Registry(entries) == [public |-> TRUE, entries |-> entries]

\* _construct_registries and _register_default_workflows: no registry of
\* providers, which register in a module of their own.
Constructed ==
  [n \in RegistryNames |->
     CASE n = "workflow" -> Registry(<<"code-review", "default-engineering", "implement-feature">>)
       [] n \in {"session", "observability", "verification"} -> Registry(<<>>)
       [] OTHER -> None]

\* Mutant: a limit of zero is let through.
NegativeLimits(configuration) == configuration.limits \ {"max_symbols"}

ConfigurationErrors(configuration) == configuration.limits

Build(configuration) ==
  /\ built = None
  /\ registries' = Constructed
  /\ built' = [configuration |-> configuration, refused |-> ConfigurationErrors(configuration) # {}]
  /\ UNCHANGED <<operations, telemetry, sessions, events, result, calls>>

\* with_*_registry: a copy in which one of them is another.
WithRegistry(n, registry) ==
  /\ built # None /\ calls < MaxCalls
  /\ registries' = [registries EXCEPT ![n] = registry]
  /\ calls' = calls + 1
  /\ UNCHANGED <<built, operations, telemetry, sessions, events, result>>

-----------------------------------------------------------------------------
(* The validators *)

\* What is required and not registered.
Missing(c) == (UNION {c.needs[n] : n \in c.names}) \ c.names

Reached(c, n) ==
  LET far[k \in Nat] == IF k = 0 THEN c.needs[n] \cap c.names
                        ELSE far[k - 1] \cup UNION {c.needs[d] \cap c.names : d \in far[k - 1]}
  IN far[Cardinality(c.names)]

\* container.validate() does not return if names depend on each other.
Recurses(c) == \E n \in c.names : n \in Reached(c, n)

Issue(prefix, severity, about) == [prefix |-> prefix, severity |-> severity, about |-> about]
Issues(prefix, severity, abouts) == {Issue(prefix, severity, a) : a \in abouts}

Present(regs, names) == {n \in names : regs[n] # None}
Names(regs, n) == IF regs[n] # None /\ regs[n].public THEN Range(regs[n].entries) ELSE {}
Lacks(regs, n, required) == regs[n] # None /\ regs[n].public /\ required \notin Names(regs, n)
Watched == {"workflow", "session", "observability", "verification"}

BootstrapIssues(regs) == Issues("BOOT", "ERROR", {n \in {"workflow", "session"} : regs[n] = None})
UnsetIssues(regs) == Issues("REGS", "WARNING", {n \in Watched : regs[n] = None})
ProviderIssues(regs) == Issues("PROV", "ERROR", {p \in {"vllm"} : Lacks(regs, "provider", p)})
WorkflowIssues(regs) == Issues("WORK", "ERROR", {w \in {"default-engineering"} : Lacks(regs, "workflow", w)})
EmptyIssues(regs) ==
  Issues("EMPTY", "WARNING", {n \in Present(regs, {"task", "capability"}) : regs[n].public /\ Names(regs, n) = {}})
PublicIssues(regs) == Issues("API", "WARNING", {n \in Present(regs, Watched) : ~regs[n].public})
DuplicateIssues(regs) ==
  Issues("DUP", "ERROR", {n \in Present(regs, Watched) : regs[n].public /\ ~IsInjective(regs[n].entries)})

RegistryIssues(regs) ==
  IF regs = None THEN {Issue("BOOT", "CRITICAL", "registries"), Issue("REGS", "CRITICAL", "registries")}
  ELSE BootstrapIssues(regs) \cup UnsetIssues(regs) \cup ProviderIssues(regs) \cup WorkflowIssues(regs)
       \cup EmptyIssues(regs) \cup PublicIssues(regs) \cup DuplicateIssues(regs)

\* Twice the same check; what it raises is dropped.
ContainerIssues(c) ==
  IF c = None THEN {Issue("DEPG", "CRITICAL", "container")}
  ELSE Issues("DEPG", "ERROR", IF c.names = {} THEN {"empty"} ELSE {})
       \cup IF Recurses(c) THEN {} ELSE Issues("DEPG", "ERROR", Missing(c)) \cup Issues("CYCL", "CRITICAL", Missing(c))

ConfigurationIssues(configuration) ==
  IF configuration = None THEN {Issue("CONF", "CRITICAL", "configuration")}
  ELSE Issues("CONF", "ERROR", configuration.limits)

PlatformIssues(regs, configuration, c) == RegistryIssues(regs) \cup ContainerIssues(c) \cup ConfigurationIssues(configuration)

\* Mutant: what is critical is not an error.
HealthOfErrors(issues) ==
  IF \E i \in issues : i.severity = "ERROR" THEN "UNHEALTHY"
  ELSE IF \E i \in issues : i.severity = "WARNING" THEN "DEGRADED" ELSE "HEALTHY"

Health(issues) ==
  IF \E i \in issues : i.severity \in {"ERROR", "CRITICAL"} THEN "UNHEALTHY"
  ELSE IF \E i \in issues : i.severity = "WARNING" THEN "DEGRADED" ELSE "HEALTHY"

\* The validator of the bootstrap, which wants a registry of providers.
ContainerErrors(c) == IF c = None THEN {"no container"} ELSE Missing(c) \cup IF c.names = {} THEN {"empty container"} ELSE {}
RegistryErrors(regs) == {n \in {"workflow", "provider", "session"} : regs = None \/ regs[n] = None}

BootstrapErrors(regs, configuration, c) ==
  {"container"} \X ContainerErrors(c) \cup {"registry"} \X RegistryErrors(regs)
  \cup (IF regs = None THEN {}
        ELSE {"provider"} \X {p \in {"vllm"} : Lacks(regs, "provider", p)}
             \cup {"workflow"} \X {w \in {"default-engineering"} : Lacks(regs, "workflow", w)})
  \cup (IF configuration = None THEN {} ELSE {"configuration"} \X ConfigurationErrors(configuration))

-----------------------------------------------------------------------------
(* The controller *)

OperationTypes == <<"execute", "review", "implement", "refactor", "debug", "explain">>
DefaultWorkflow == [execute |-> "default-engineering", review |-> "code-review", implement |-> "implement-feature",
                    refactor |-> "large-refactoring", debug |-> "bug-investigation", explain |-> "code-explanation"]

IdErrors(r) == {<<"request_id", f>> : f \in {r.id} \cap {"", "long", "odd"}}
DescriptionErrors(r) == {<<"description", f>> : f \in {r.description} \cap {"", "blank", "long"}}
\* Only an explanation needs no workspace.
WorkspaceErrors(r) ==
  IF r.operation = "explain" THEN {} ELSE {<<"workspace_path", f>> : f \in {r.workspace} \cap {"", "blank", "odd"}}
SizeErrors(r) == {<<f, "many">> : f \in {g \in {"context", "metadata"} : r[g] = "many"}}

RequestErrors(r) == IdErrors(r) \cup DescriptionErrors(r) \cup WorkspaceErrors(r) \cup SizeErrors(r)

Running == built # None /\ ~built.refused /\ calls < MaxCalls

Record(happened) == IF telemetry = "custom" THEN happened ELSE <<>>
Failed(r, error) == [request |-> r, status |-> "FAILED", session |-> "", error |-> error]

\* _register_default_operations stops at the first operation that has a handler.
Free(n) == \A i \in 1 .. n : OperationTypes[i] \notin DOMAIN handlers
AllFree == Free(Len(OperationTypes))
Registered(o) == o \in DOMAIN handlers \/ \E i \in DOMAIN OperationTypes : OperationTypes[i] = o /\ Free(i)
WithDefaults ==
  IF initialized THEN handlers
  ELSE [o \in {p \in Range(OperationTypes) : Registered(p)} |-> IF o \in DOMAIN handlers THEN handlers[o] ELSE "default"]
\* Mutant: the flag is set before the operations are registered.
InitializeFirst ==
  /\ initialized' = TRUE
  /\ handlers' = WithDefaults
  /\ workflows' = [o \in DOMAIN WithDefaults |-> IF o \in DOMAIN workflows THEN workflows[o] ELSE DefaultWorkflow[o]]

Initialize ==
  /\ initialized' = (initialized \/ AllFree)
  /\ handlers' = WithDefaults
  /\ workflows' = [o \in DOMAIN WithDefaults |-> IF o \in DOMAIN workflows THEN workflows[o] ELSE DefaultWorkflow[o]]

Refuse(r) ==
  /\ Running /\ RequestErrors(r) # {}
  /\ result' = Failed(r, "invalid")
  /\ events' = Record(<<"request_received", "validation_failed">>)
  /\ calls' = calls + 1
  /\ UNCHANGED <<assembly, operations, sessions>>

\* The ValueError of the registry leaves the controller, half initialized.
FailToInitialize(r) ==
  /\ Running /\ RequestErrors(r) = {} /\ ~initialized /\ ~AllFree
  /\ Initialize
  /\ result' = [request |-> r, status |-> "raised", session |-> "", error |-> "already registered"]
  /\ events' = Record(<<"request_received">>)
  /\ calls' = calls + 1
  /\ UNCHANGED <<assembly, sessions>>

Ready(r) == Running /\ RequestErrors(r) = {} /\ (initialized \/ AllFree)

Unhandled(r) ==
  /\ Ready(r) /\ r.operation \notin DOMAIN WithDefaults
  /\ Initialize
  /\ result' = Failed(r, "no handler")
  /\ events' = Record(<<"request_received", "handler_not_found">>)
  /\ calls' = calls + 1
  /\ UNCHANGED <<assembly, sessions>>

\* A dictionary in which a key has a value.
Put(dictionary, key, value) ==
  [k \in DOMAIN dictionary \cup {key} |-> IF k = key THEN value ELSE dictionary[k]]

SessionWorkflow(r) == IF r.workflow = "" THEN r.operation ELSE r.workflow

\* The handlers of the controller create the session.
HandleOwn(r) ==
  /\ Ready(r) /\ r.operation \in DOMAIN WithDefaults /\ WithDefaults[r.operation] = "default"
  /\ Initialize
  /\ sessions' = Put(sessions, r.id, SessionWorkflow(r))
  /\ result' = [request |-> r, status |-> "SUCCESS", session |-> r.id, error |-> ""]
  /\ events' = Record(<<"request_received", "execution_started", "operation_completed", "execution_completed">>)
  /\ calls' = calls + 1
  /\ UNCHANGED assembly

\* Mutant: the end is recorded whether the handler raises or not.
HandleFinally(r) ==
  /\ Ready(r) /\ r.operation \in DOMAIN WithDefaults /\ WithDefaults[r.operation] = "custom"
  /\ Initialize
  /\ result' \in {Failed(r, "raised"), [request |-> r, status |-> "returned", session |-> "", error |-> ""]}
  /\ events' = Record(<<"request_received", "execution_started", "execution_completed">>)
  /\ calls' = calls + 1
  /\ UNCHANGED <<assembly, sessions>>

\* What another handler returns is the result, and what it raises the error of one.
HandleCustom(r) ==
  /\ Ready(r) /\ r.operation \in DOMAIN WithDefaults /\ WithDefaults[r.operation] = "custom"
  /\ Initialize
  /\ \/ /\ result' = Failed(r, "raised") /\ events' = Record(<<"request_received", "execution_started", "execution_failed">>)
     \/ /\ result' = [request |-> r, status |-> "returned", session |-> "", error |-> ""]
        /\ events' = Record(<<"request_received", "execution_started", "execution_completed">>)
  /\ calls' = calls + 1
  /\ UNCHANGED <<assembly, sessions>>

RegisterHandler(o) ==
  /\ Running /\ o \notin DOMAIN handlers
  /\ handlers' = Put(handlers, o, "custom")
  /\ workflows' = Put(workflows, o, "custom")
  /\ calls' = calls + 1
  /\ UNCHANGED <<assembly, initialized, sessions, events, result>>

\* Mutant: the default workflow stays.
UnregisterHandlerOnly(o) ==
  /\ Running /\ o \in DOMAIN handlers
  /\ handlers' = [p \in DOMAIN handlers \ {o} |-> handlers[p]]
  /\ calls' = calls + 1
  /\ UNCHANGED <<assembly, workflows, initialized, sessions, events, result>>

UnregisterHandler(o) ==
  /\ Running /\ o \in DOMAIN handlers
  /\ handlers' = [p \in DOMAIN handlers \ {o} |-> handlers[p]]
  /\ workflows' = [p \in DOMAIN workflows \ {o} |-> workflows[p]]
  /\ calls' = calls + 1
  /\ UNCHANGED <<assembly, initialized, sessions, events, result>>

-----------------------------------------------------------------------------
Init ==
  /\ registries = None /\ built = None /\ result = None
  /\ handlers = <<>> /\ workflows = <<>> /\ initialized = FALSE
  /\ telemetry \in {"platform", "custom"} /\ sessions = <<>> /\ events = <<>> /\ calls = 0

Next ==
  \/ \E c \in Configurations : Build(c)
  \/ \E o \in Offered : WithRegistry(o[1], o[2])
  \/ \E r \in Requests : Refuse(r) \/ FailToInitialize(r) \/ Unhandled(r) \/ HandleOwn(r) \/ HandleCustom(r)
  \/ \E o \in Touched : RegisterHandler(o) \/ UnregisterHandler(o)

Spec == Init /\ [][Next]_vars

-----------------------------------------------------------------------------
(* Properties *)

\* What a telemetry may be told of a request.
Event == {"request_received", "validation_failed", "handler_not_found", "execution_started", "operation_completed",
          "execution_completed", "execution_failed"}
TypeOK == calls \in 0 .. MaxCalls /\ initialized \in BOOLEAN /\ events \in Seq(Event)

NoProviders == <<"registry", "provider">>

\* Three validators written apart agree. But for the registry of providers,
\* which the bootstrap does not construct, and for a container that cannot be
\* checked, that of the bootstrap has errors exactly if that of the platform
\* calls it unhealthy for a reason both look at; and the configurations refused
\* are those with issues.
ValidatorsAgree ==
  /\ \A c \in Configurations \cup {None}, k \in Containers \cup {None} :
       LET issues == PlatformIssues(registries, c, k)
           errors == BootstrapErrors(registries, c, k)
       IN k = None \/ ~Recurses(k) =>
            IF Health(issues) = "UNHEALTHY"
            THEN errors \ {NoProviders} # {} \/ c = None \/ \E i \in issues : i.prefix = "DUP"
            ELSE errors \subseteq {NoProviders}
  /\ built # None => (built.refused <=> ConfigurationIssues(built.configuration) # {})

\* The log of a request tells how it ended, and what ended well has a session,
\* which nothing else creates: neither a refused request nor a handler that raised.
LogTellsTheEnd ==
  result # None =>
    /\ telemetry = "custom" =>
         /\ result.status \in {"SUCCESS", "returned"} <=> events[Len(events)] = "execution_completed"
         /\ result.status = "raised" <=> events = <<"request_received">>
    /\ result.status = "SUCCESS" => result.session \in DOMAIN sessions
    /\ result.status # "SUCCESS" => result.session = ""

\* A session is that of a well-formed request to one of the controller's own handlers.
SessionsAreOwn ==
  \A id \in DOMAIN sessions : \E r \in Requests : r.id = id /\ RequestErrors(r) = {}

\* The two dictionaries of the registry are kept in step, and a controller that
\* finished its initialization has each operation nobody took from it.
RegistryInStep ==
  /\ DOMAIN handlers = DOMAIN workflows
  /\ initialized => Range(OperationTypes) \ Touched \subseteq DOMAIN handlers
  /\ \A o \in DOMAIN handlers : handlers[o] = "default" => workflows[o] = DefaultWorkflow[o]

\* All of it.
PlatformIsSound == TypeOK /\ ValidatorsAgree /\ LogTellsTheEnd /\ SessionsAreOwn /\ RegistryInStep

\* What the documents say and the code does not do: names that depend on each
\* other are critical (docs/platform-validation.md), and a valid request is
\* answered.
CyclesAreCritical == \A c \in Configurations, k \in Containers : Recurses(k) => Health(PlatformIssues(registries, c, k)) = "UNHEALTHY"
ValidIsAnswered == result # None => result.status # "raised"
=============================================================================
