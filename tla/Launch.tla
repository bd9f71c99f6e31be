------------------------------- MODULE Launch -------------------------------
(***************************************************************************)
(* One invocation of the launch command, from the front door to the child's   *)
(* exit or the hosted session: the operator's gateway default, the route, the *)
(* plan, the network stage with the filtering gateway's guard and             *)
(* registration, the composition, the pre-spawn recheck and the child.  Other *)
(* programs change the network catalog and the settings sources between its   *)
(* steps.  A check that runs out of time, or that a held signal interrupts,   *)
(* refuses like any other; signals and the lease's own calls are in           *)
(* GatewayLease, the file readings in ProviderFiles.                          *)
(***************************************************************************)
EXTENDS NetworkPolicy

CONSTANTS
    Invocations,    \* the invocations with the facts of their host, as records
    Catalogs,       \* states of network.toml: absent, special, broken, or its default
    Texts,          \* what others may write into each settings source
    MaxChanges      \* bound: changes that others make

Kinds == {"gateway", "open", "direct", "proxy"}     \* "open": a gateway, not sensitive
ReadableCatalogs == Kinds \cup {"nodefault"}

ASSUME LaunchAssumption ==
    /\ Catalogs \subseteq ReadableCatalogs \cup {"absent", "special", "broken"}
    /\ DOMAIN Texts = Sources
    /\ MaxChanges \in Nat

VARIABLES
    inv,            \* the invocation
    catalog, source,\* the operator's catalog and the settings sources, as they are now
    changes,        \* changes made by others
    at,             \* the step the launch has reached
    present,        \* DefaultGatewaySelected has seen a regular file
    gatewayDefault, \* deps.gatewayDefault
    route,          \* native or delegated
    prepared,       \* the kind of the network prepared, or none
    looked,         \* sources the guard has admitted in its present pass
    lease,          \* the gateway's registration: none, live, unknown or ended
    child,          \* none, running or exited
    contacted,      \* a session manager has been called
    \* history
    due,            \* the catalog's default was a gateway when it was read, or the catalog
                    \* was there before that reading and no longer at it
    stale           \* sources refusable at every moment since the recheck began

vars == <<inv, catalog, source, changes, at, present, gatewayDefault, route, prepared,
          looked, lease, child, contacted, due, stale>>

world == <<catalog, source, changes, stale>>
decided == <<present, gatewayDefault, due>>
outcome == <<lease, child>>

Final == {"refused", "recovered", "delegated", "exited"}
hosted == route = "delegated"
explicitNetwork == inv.network # "none"
managedNetwork == explicitNetwork \/ inv.proxy # "none" \/ gatewayDefault

Goto(label) == at' = label

\* A refusal ends a registration that the process holds before it answers.
\* Mutant of Refuse: the deferred finish of the lease is missing.
RefuseAtOnce == at' = "refused"

\* Mutant of Refuse: the finish is deferred before there is a lease to finish.
RefuseThroughFinish == at' = "finish"

Refuse == at' = IF lease = "live" THEN "finish" ELSE "refused"

Proceed(label) == Goto(label) \/ Refuse

----------------------------------------------------------------------------
\* Other programs.

CatalogChanges ==
    /\ catalog' \in Catalogs \ {catalog}
    /\ UNCHANGED <<source, stale>>

SourceChanges ==
    /\ \E s \in Sources : \E text \in Texts[s] :
          /\ text # source[s]
          /\ source' = [source EXCEPT ![s] = text]
          /\ stale' = IF Refuses(s, text) THEN stale ELSE stale \ {s}
    /\ UNCHANGED catalog

Others ==
    /\ at \notin Final \cup {"running", "finish"}
    /\ inv.others
    /\ changes < MaxChanges
    /\ changes' = changes + 1
    /\ CatalogChanges \/ SourceChanges
    /\ UNCHANGED <<inv, at, decided, route, prepared, looked, outcome, contacted>>

----------------------------------------------------------------------------
\* The operator's gateway default, before any route is chosen.

\* lstat and stat of the catalog; an explicit or machine selection skips it.
Look ==
    /\ at = "look"
    /\ \/ (explicitNetwork \/ inv.proxy # "none") /\ Goto("host") /\ UNCHANGED present
       \/ /\ ~explicitNetwork /\ inv.proxy = "none"
          /\ IF catalog = "special" THEN Refuse ELSE Goto("load")
          /\ present' = (catalog # "absent")
    /\ UNCHANGED <<inv, world, gatewayDefault, due, route, prepared, looked, outcome, contacted>>

\* catalog.Load and the default's kind: a present file that does not load refuses.
DefaultGatewaySelected ==
    CASE catalog \in {"special", "broken"} -> "refused"
      [] catalog = "absent" -> IF present THEN "refused" ELSE "none"
      [] catalog \in {"gateway", "open"} -> "gateway"
      [] OTHER -> "none"

LoadDefault ==
    /\ at = "load"
    /\ IF DefaultGatewaySelected = "refused" THEN Refuse ELSE Goto("host")
    /\ gatewayDefault' = (DefaultGatewaySelected = "gateway")
    /\ due' = (catalog \in {"gateway", "open"} \/ (present /\ catalog = "absent"))
    /\ UNCHANGED <<inv, world, present, route, prepared, looked, outcome, contacted>>

----------------------------------------------------------------------------
\* resolveHost.

nativeOnly == inv.flag = "native" \/ (inv.flag = "none" /\ inv.mode = "native")
explicitHosted == inv.flag = "hosted" \/ inv.mode = "hosted"

\* The checks before any contact with a manager: OAuth source, network, terminal.
hostChecks ==
    /\ ~(inv.auth /\ inv.env = "claude")
    /\ ~(inv.recovery \/ managedNetwork)
    /\ inv.detach \/ inv.terminal

ResolveHost ==
    /\ at = "host"
    /\ IF nativeOnly THEN Goto("gates")
       ELSE IF inv.registry = "broken" \/ (explicitHosted /\ ~hostChecks) THEN Refuse
       ELSE IF inv.registry # "selected"
            THEN IF explicitHosted THEN Refuse ELSE Goto("gates")
       ELSE IF hostChecks /\ inv.env # "pi" /\ inv.resume # "conflict"
            THEN Goto("recover") ELSE Refuse
    /\ UNCHANGED <<inv, world, decided, route, prepared, looked, outcome, contacted>>

\* RecoverMatching: an earlier uncertain start of the same launch is settled first.
RecoverMatching ==
    /\ at = "recover"
    /\ contacted' = TRUE
    /\ Proceed("describe") \/ Goto("recovered")
    /\ UNCHANGED <<inv, world, decided, route, prepared, looked, outcome>>

Describe ==
    /\ at = "describe"
    /\ contacted' = TRUE
    /\ \/ Required(inv) /\ route' = "delegated" /\ Goto("gates")
       \/ Refuse /\ UNCHANGED route
    /\ UNCHANGED <<inv, world, decided, prepared, looked, outcome>>

\* What only one of the two routes supports.
Gates ==
    /\ at = "gates"
    /\ IF hosted
          THEN IF inv.recovery THEN Refuse ELSE Goto("plan")
          ELSE IF inv.a2a \/ inv.boardGoal \/ inv.detach \/ inv.resume # "new"
               THEN Refuse ELSE Goto("plan")
    /\ UNCHANGED <<inv, world, decided, route, prepared, looked, outcome, contacted>>

----------------------------------------------------------------------------
\* The plan: credentials, permission, resume, and what the module admits.

authActive == inv.auth /\ inv.env = "claude"

\* resolvePermission: a release probe or a mapping that fails is Plan's Refuse.
Permitted == ~PermissionRefuses(inv.permission)

Plan ==
    /\ at = "plan"
    /\ \/ Refuse
       \/ /\ ~(authActive /\ AuthOverlays(inv.fragment \cup inv.mcp))
          /\ Permitted
          /\ hosted /\ inv.resume # "new"
          /\ Goto("delegate")
       \/ /\ ~(authActive /\ AuthOverlays(inv.fragment \cup inv.mcp \cup inv.prompt))
          /\ Permitted
          /\ ~(hosted /\ inv.resume # "new")
          /\ Goto("prepare")
    /\ UNCHANGED <<inv, world, decided, route, prepared, looked, outcome, contacted>>

----------------------------------------------------------------------------
\* network.Prepare.

selected ==
    IF explicitNetwork THEN inv.network ELSE IF inv.proxy # "none" THEN inv.proxy ELSE catalog
gatewayKind(kind) == kind \in {"gateway", "open"}
entrypoint == EffectiveEntrypoint(inv)

\* Mutant of PrepareRefuses: the operator's default may have become of another kind.
PrepareRefusesLate(kind) ==
    \/ hosted
    \/ catalog \notin ReadableCatalogs
    \/ kind \notin Kinds
    \/ inv.recovery /\ ~gatewayKind(kind)
    \/ kind = "open" /\ ~explicitNetwork
    \/ AdmitRefuses(inv, entrypoint, kind)
    \/ CheckOverlays(inv)

PrepareRefuses(kind) ==
    \/ hosted
    \/ catalog \notin ReadableCatalogs
    \/ kind \notin Kinds                        \* blank, unknown, or no default any more
    \/ inv.recovery /\ ~gatewayKind(kind)
    \/ ~explicitNetwork /\ inv.proxy = "none" /\ ~gatewayKind(kind)
    \/ kind = "open" /\ ~explicitNetwork
    \/ AdmitRefuses(inv, entrypoint, kind)
    \/ CheckOverlays(inv)

\* Overlays and lookups that the gateway refuses, and the managed home.
GatewayRefuses ==
    \/ inv.env # "claude"
    \/ \E n \in inv.fragment \cup inv.prompt \cup inv.mcp : gatewayRefusedName(n)
    \/ ~inv.managedHome

Prepare ==
    /\ at = "prepare"
    /\ \/ ~managedNetwork /\ ~inv.recovery /\ Goto("compose") /\ UNCHANGED prepared
       \/ /\ managedNetwork
          /\ ~PrepareRefuses(selected)
          /\ IF gatewayKind(selected)
                THEN ~GatewayRefuses /\ Goto("guard")
                ELSE Goto("compose")              \* a direct profile, or a proxy that answers
          /\ prepared' = selected
       \/ Refuse /\ UNCHANGED prepared
    /\ UNCHANGED <<inv, world, decided, route, looked, outcome, contacted>>

\* One source of the guard, in its order; the native arguments follow the settings.
Admits(s) == /\ ~Refuses(s, source[s])
             /\ s = "managed" => ~nativeArgsConflict(inv.tail)

CheckSource(label, next) ==
    /\ at = label
    /\ \/ /\ Admits(Guard[looked + 1])
          /\ looked' = (looked + 1) % Len(Guard)
          /\ Goto(IF looked' = 0 THEN next ELSE label)
       \/ Refuse /\ looked' = 0
    /\ UNCHANGED <<inv, world, decided, route, prepared, outcome, contacted>>

GuardSource == CheckSource("guard", "health")

\* The registration's facts are validated and the gateway answers.
Health ==
    /\ at = "health"
    /\ Proceed("register")
    /\ UNCHANGED <<inv, world, decided, route, prepared, looked, outcome, contacted>>

\* Register: issued, refused, or its reply is lost; a recovery launch then cleans up once.
Register ==
    /\ at = "register"
    /\ \/ lease' = "live" /\ Goto("compose")
       \/ Refuse /\ UNCHANGED lease
       \/ lease' = "unknown" /\ Goto(IF inv.recovery THEN "cleanup" ELSE "refused")
    /\ UNCHANGED <<inv, world, decided, route, prepared, looked, child, contacted>>

Cleanup ==
    /\ at = "cleanup"
    /\ lease' \in {"ended", "unknown"}
    /\ Goto("refused")
    /\ UNCHANGED <<inv, world, decided, route, prepared, looked, child, contacted>>

----------------------------------------------------------------------------
\* Composition and the two ways on.

Patch ==
    CASE prepared = "none" -> Unmanaged
      [] gatewayKind(prepared) -> gatewayPatch(inv.parent, inv.parent \cup inv.own)
      [] OTHER -> GenericPatch(prepared)

Value == Compose(inv, Patch)
CheckComposed(value) == gatewayKind(prepared) => gatewayCompositionCheck(value)

ComposePlan ==
    /\ at = "compose"
    /\ IF ComposeRefuses(inv, Patch) \/ ~CheckComposed(Value) THEN Refuse ELSE Goto("emit")
    /\ UNCHANGED <<inv, world, decided, route, prepared, looked, outcome, contacted>>

\* The adapter's provenance must be written before anything starts.
Emit ==
    /\ at = "emit"
    /\ Proceed(IF hosted THEN "delegate" ELSE "boundary")
    /\ UNCHANGED <<inv, world, decided, route, prepared, looked, outcome, contacted>>

\* runDelegated: the doorbell's hooks, then the leased start, then the attach.
Delegate ==
    /\ at = "delegate"
    /\ \/ Refuse /\ UNCHANGED contacted              \* the request or the hooks
       \/ contacted' = TRUE /\ Proceed("delegated")
    /\ UNCHANGED <<inv, world, decided, route, prepared, looked, outcome>>

\* Mutant of Boundary: the gateway's guard does not run again before the child.
BoundaryUnchecked ==
    /\ at = "boundary"
    /\ Proceed("auth")
    /\ stale' = {s \in Sources : Refuses(s, source[s])}
    /\ UNCHANGED <<inv, catalog, source, changes, decided, route, prepared, looked, outcome,
                   contacted>>

\* execution.Run: the binary, the layer and the prompt's files, then the recheck.
Boundary ==
    /\ at = "boundary"
    /\ Proceed(IF lease = "live" THEN "recheck" ELSE "auth")
    /\ stale' = {s \in Sources : Refuses(s, source[s])}
    /\ UNCHANGED <<inv, catalog, source, changes, decided, route, prepared, looked, outcome,
                   contacted>>

RecheckSource == CheckSource("recheck", "auth")

\* The selected OAuth store's token, last; the gateway's contract is checked once more.
ChildEnvironment ==
    /\ at = "auth"
    /\ IF authActive
          THEN \/ Refuse                             \* the store, a held signal
               \/ /\ ~AuthOverlays(DOMAIN Value.literals \cup Value.names)
                  /\ ~InjectRefuses(Value.env)
                  /\ CheckComposed([Value EXCEPT !.env = Inject(@)])
                  /\ Goto("start")
          ELSE Goto("start")
    /\ UNCHANGED <<inv, world, decided, route, prepared, looked, outcome, contacted>>

Spawn ==
    /\ at = "start"
    /\ \/ child' = "running" /\ Goto("running")
       \/ Refuse /\ UNCHANGED child
    /\ UNCHANGED <<inv, world, decided, route, prepared, looked, lease, contacted>>

ChildExits ==
    /\ at = "running"
    /\ child' = "exited"
    /\ Goto(IF lease = "live" THEN "finish" ELSE "exited")
    /\ UNCHANGED <<inv, world, decided, route, prepared, looked, lease, contacted>>

FinishLease ==
    /\ at = "finish"
    /\ lease' = "ended"
    /\ Goto(IF child = "exited" THEN "exited" ELSE "refused")
    /\ UNCHANGED <<inv, world, decided, route, prepared, looked, child, contacted>>

----------------------------------------------------------------------------
Init ==
    /\ inv \in Invocations
    /\ catalog \in Catalogs
    /\ source \in {[s \in Sources |-> inv.sources[s]]}
    /\ changes = 0
    /\ at = "look"
    /\ present = FALSE
    /\ gatewayDefault = FALSE
    /\ route = "native"
    /\ prepared = "none"
    /\ looked = 0
    /\ lease = "none"
    /\ child = "none"
    /\ contacted = FALSE
    /\ due = FALSE
    /\ stale = {}

Next ==
    \/ Look \/ LoadDefault \/ ResolveHost \/ RecoverMatching \/ Describe \/ Gates \/ Plan
    \/ Prepare \/ GuardSource \/ Health \/ Register \/ Cleanup
    \/ ComposePlan \/ Emit \/ Delegate \/ Boundary \/ RecheckSource \/ ChildEnvironment
    \/ Spawn \/ ChildExits \/ FinishLease
    \/ Others

Spec == Init /\ [][Next]_vars

----------------------------------------------------------------------------
\* The launch's decisions fit the step it has reached: a lease is live only behind a
\* prepared gateway and from the registration on, and a child only of a native route.
TypeOK ==
    /\ catalog \in Catalogs
    /\ \A s \in Sources : source[s] \in Texts[s] \cup {inv.sources[s]}
    /\ changes \in 0 .. MaxChanges
    /\ at \in {"look", "load", "host", "recover", "describe", "gates", "plan", "prepare",
               "guard", "health", "register", "cleanup", "compose", "emit", "delegate",
               "boundary", "recheck", "auth", "start", "running", "finish"} \cup Final
    /\ {present, gatewayDefault, contacted, due} \subseteq BOOLEAN
    /\ route \in {"native", "delegated"}
    /\ prepared \in Kinds \cup {"none"}
    /\ looked \in 0 .. Len(Guard) - 1
    /\ looked # 0 => at \in {"guard", "recheck"}
    /\ lease # "none" => gatewayKind(prepared)
    /\ at \in {"recheck", "finish"} => lease = "live"
    /\ child # "none" => ~hosted
    /\ stale \subseteq Sources

\* The filter is never dropped: a launch that a network selection or a gateway default was
\* due for calls no session manager and starts no child without it, however the catalog
\* changes afterwards; a default is due when the catalog names a gateway at the launch's
\* first reading of it, or was there at the lstat before and is gone (DefaultGatewaySelected,
\* resolveHost, Prepare); and behind a profile no variable of the proxy family reaches the
\* child from another layer, in any spelling (CheckOverlays, ComposeWithNetwork).
FilterNeverDropped ==
    /\ due => ~contacted
    /\ child # "none" /\ due /\ ~explicitNetwork /\ inv.proxy = "none" => gatewayKind(prepared)
    /\ explicitNetwork \/ inv.proxy # "none" =>
          /\ ~contacted
          /\ child # "none" => prepared = selected
    /\ child # "none" /\ prepared # "none" =>
          \A n \in Name : IsProxyFamily(n) =>
             /\ n \in DOMAIN Value.env => Value.env[n] = "network"
             /\ n \notin Value.names

\* A child behind the gateway starts only when every settings source was admissible at
\* some moment of the pre-spawn recheck: a source spoiled after the first check, before the
\* registration or while it was made, is found (runNative, Prepared.Recheck).
RecheckGuardsSpawn == child = "running" /\ lease = "live" => stale = {}

\* What the gateway's preparation admitted, composition does not contradict: once a
\* registration is issued for a plan that carries its tail, neither ComposeWithNetwork nor
\* CheckComposed refuses (prepareGateway, inheritedRouteNames, gatewayCompositionCheck).
PreparedComposes ==
    [][at = "compose" /\ lease = "live" /\ inv.carries => at' # "finish"]_at

\* A registration that was issued is ended before the launch answers, on every path of
\* refusal, and never while the child runs (the deferred finish of launch, runNative).
LeaseEnded ==
    /\ at \in Final => lease # "live" /\ child # "running"
    /\ lease = "ended" => child # "running"
=============================================================================
