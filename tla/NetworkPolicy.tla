--------------------------- MODULE NetworkPolicy ---------------------------
(***************************************************************************)
(* What a launch decides from its inputs alone: which variable names the     *)
(* filtering gateway refuses, how the child's environment is composed and    *)
(* the network patch applied, which native arguments are admitted and which  *)
(* entrypoint they select, the permission mode and the manager capabilities. *)
(* An environment is a function from names to the layer that set them last.  *)
(***************************************************************************)
EXTENDS Naturals, Sequences, FiniteSets

CONSTANTS
    Name,       \* names of environment variables
    Upper,      \* their upper-case spelling
    Class,      \* the first rule of gatewayRefusedName that names an upper-case name
    Admitted,   \* names that the allowlist or the compatibility table admits
    Reserved,   \* names of credentials and backend switches (claudeauth)
    Variable,   \* CLAUDE_CODE_OAUTH_TOKEN
    Backend,    \* TBH_CREDENTIAL_BACKEND
    Token,      \* words of a native tail, "--" among them
    Shape,      \* none, required, optional, variadic, inline, operand or unknown
    PrintWord,      \* -p and --print, with and without a value
    Assigns,    \* words that contain "="
    Dispatched, \* claudeReservedArgs and claudeReservedPrefixes
    Early       \* --bare and --safe-mode

Classes == {"owned", "route", "proxy", "namespace", "aws", "table", "control", "other"}

ASSUME NamesAssumption ==
    /\ Upper \in [Name -> Name]
    /\ \A n \in Name : Upper[Upper[n]] = Upper[n]
    /\ Class \in [Name -> Classes]
    /\ {Variable, Backend} \cup Admitted \cup Reserved \subseteq Name

ASSUME WordsAssumption ==
    /\ Shape \in [Token -> {"none", "required", "optional", "variadic",
                            "inline", "operand", "unknown"}]
    /\ "--" \in Token /\ Shape["--"] = "none"
    /\ PrintWord \cup Assigns \cup Dispatched \cup Early \subseteq Token

----------------------------------------------------------------------------
\* Names: settings_guard.go and claude_environment.go.

\* The runtime's own namespaces have an allowlist, the outside names it reads a table.
claudeNamespaceAdmitted == {n \in Admitted : Class[n] = "namespace"}
claudeEnvironmentCompatibility == [n \in {m \in Name : Class[m] = "table"} |-> n \in Admitted]

gatewayRefusedName(n) ==
    CASE Class[Upper[n]] = "namespace" -> Upper[n] \notin claudeNamespaceAdmitted
      [] Class[Upper[n]] = "table" -> ~claudeEnvironmentCompatibility[Upper[n]]
      [] OTHER -> Class[Upper[n]] # "other"

IsProxyFamily(n) == Class[Upper[n]] = "proxy"

\* The names that the gateway owns, spelled as it spells them.
Owned == {n \in Name : Class[n] = "owned" /\ Upper[n] = n}
Proxies == {n \in Name : Class[n] = "proxy" /\ Upper[n] = n}

\* Mutant of inheritedRouteNames: the plan's own environment is not looked at.
inheritedFromParent(parent, child) == {n \in parent : gatewayRefusedName(n)}

inheritedRouteNames(parent, child) == {n \in parent \cup child : gatewayRefusedName(n)}

\* claudeauth.CheckOverlays: a selected OAuth store owns the child's credential.
AuthOverlays(names) == names \cap Reserved # {}

----------------------------------------------------------------------------
\* Composition: the plan's environment, the fragment, the prompt, and the patch last.

Over(f, g) == [n \in DOMAIN f \cup DOMAIN g |-> IF n \in DOMAIN f THEN f[n] ELSE g[n]]
Layer(names, layer) == [n \in names |-> layer]

\* envpatch.Patch.Apply: Unset matches without case, Set replaces exactly.
applyToMap(f, patch) ==
    LET Unset == {Upper[n] : n \in patch.unset}
    IN  Over(patch.set, [n \in {m \in DOMAIN f : Upper[m] \notin Unset} |-> f[n]])

Unmanaged == [unset |-> {}, set |-> <<>>]
Managed(patch) == patch # Unmanaged

\* envpatch.Generic: the proxy family is unset, and set again unless the profile is direct.
GenericPatch(kind) ==
    [unset |-> Proxies,
     set |-> Layer(IF kind = "direct" THEN {} ELSE Proxies, "network")]

gatewayPatch(parent, child) ==
    [unset |-> {n \in Name : Class[n] \in {"owned", "route", "proxy"}}
                  \cup inheritedRouteNames(parent, child),
     set |-> Layer(Owned, "network")]

\* network.CheckOverlays.
CheckOverlays(i) == \E n \in i.fragment \cup i.prompt \cup i.mcp : IsProxyFamily(n)

\* A Muse v4 home keeps its file backend, and the names of a fragment with a verified
\* root context (i.rooted) keep their values.  i.filed: the plan's own environment and the
\* prompt name the backend, if at all, with the value "file".  What a patch sets are
\* addresses of the network, values that no such name of the fragment has.
musePolicy(i, patch) ==
    LET touches(m) == \E n \in patch.unset \cup DOMAIN patch.set : Upper[n] = Upper[m]
    IN  /\ i.env = "muse"
        /\ \/ Backend \notin i.fragment
           \/ Backend \in i.own \cup i.prompt /\ ~i.filed
           \/ touches(Backend)
           \/ i.rooted /\ \E m \in i.fragment : touches(m)

planEnv(i) == Over(Layer(i.own, "plan"), Layer(i.parent, "parent"))

ComposeRefuses(i, patch) ==
    \/ ~i.carries                    \* the plan does not end with the native tail
    \/ Managed(patch) /\ CheckOverlays(i)
    \/ musePolicy(i, patch)

\* The child's environment, the owned literals, and the names it looks up itself.
Compose(i, patch) ==
    LET overlays == Over(Layer(i.prompt, "prompt"), Layer(i.fragment, "fragment"))
        before == Over(overlays, Layer(i.own, "plan"))
        literals == applyToMap(before, patch)
    IN  [env |-> applyToMap(Over(overlays, planEnv(i)), patch),
         literals |-> literals,
         names |-> i.mcp \ (DOMAIN before \cup DOMAIN literals)]

\* gatewayCompositionCheck of the final environment.
gatewayCompositionCheck(v) ==
    /\ \A n \in Owned : /\ n \in DOMAIN v.env /\ v.env[n] = "network"
                        /\ n \in DOMAIN v.literals /\ v.literals[n] = "network"
    /\ \A n \in (DOMAIN v.env \cup DOMAIN v.literals) \ Owned : ~gatewayRefusedName(n)
    /\ \A n \in v.names : ~gatewayRefusedName(n)

\* claudeauth.Inject: the selected store's token replaces the variable.
Inject(f) == Over(Layer({Variable}, "auth"), f)
InjectRefuses(f) == \E n \in Reserved \ {Variable} : n \in DOMAIN f

----------------------------------------------------------------------------
\* The native tail.

looksLikeOption(w) == Shape[w] # "operand"

\* The words that the runtime dispatches on wherever they stand.
reservedArg(w) == w \in Dispatched

\* Option values that the parser takes whatever they are; the rest may be operands too.
TakesNext(w) == Shape[w] \in {"required", "variadic"}
IsValue(tail) ==
    LET value[k \in 1 .. Len(tail)] == k > 1 /\ ~value[k - 1] /\ TakesNext(tail[k - 1])
    IN  value

\* The first "--" that ends option parsing, or the position after the tail.
Terminator(tail, value) ==
    LET ends == {k \in 1 .. Len(tail) : tail[k] = "--" /\ ~value[k]}
    IN  IF ends = {} THEN Len(tail) + 1 ELSE CHOOSE k \in ends : \A j \in ends : k <= j

nativeArgsConflict(tail) ==
    LET value == IsValue(tail)
        raw == Terminator(tail, [k \in 1 .. Len(tail) |-> FALSE])
    IN  \/ \E k \in 1 .. Len(tail) :
              /\ k # raw
              /\ reservedArg(tail[k]) \/ (k < raw /\ tail[k] \in Early)
        \/ \E k \in 1 .. Terminator(tail, value) - 1 :
              /\ ~value[k]
              /\ \/ Shape[tail[k]] = "unknown"
                 \/ TakesNext(tail[k]) /\ k = Len(tail)

\* hasPrintSelector: every bare word that looks like an option takes the next word.
IsSkipped(tail) ==
    LET skipped[k \in 1 .. Len(tail)] ==
            /\ k > 1
            /\ ~skipped[k - 1]
            /\ looksLikeOption(tail[k - 1])
            /\ tail[k - 1] \notin Assigns
    IN  skipped

hasPrintSelector(tail) ==
    LET skipped == IsSkipped(tail)
    IN  \E k \in 1 .. Terminator(tail, skipped) - 1 : ~skipped[k] /\ tail[k] \in PrintWord

\* A plan that does not carry the tail keeps its construction mode.
EffectiveEntrypoint(i) ==
    IF i.env = "claude" /\ i.carries /\ hasPrintSelector(i.tail) THEN "exec" ELSE "interactive"

----------------------------------------------------------------------------
\* Admission.

ScopeAllowed(env, entry) == env = "claude" /\ entry = "exec"
gatewayScopeAllowed(env, entry) == env = "claude" /\ entry \in {"exec", "interactive"}

recipeFor(env, entry, gateway) ==
    CASE env \in {"codex", "muse"} -> env
      [] env = "claude" /\ gateway /\ entry = "interactive" -> "interactive"
      [] OTHER -> "exec"

\* loadQualified: the operator's qualified builds, with the recipe of each.
Qualified(i) == {<<e, recipeFor("claude", e, TRUE)>> : e \in i.qualified}

Sensitive(kind) == kind = "gateway"

AdmitRefuses(i, entry, kind) ==
    LET gateway == kind \in {"gateway", "open"}
        strict == Sensitive(kind) \/ i.strict
    IN  \/ strict /\ (i.env # "claude" \/ <<entry, recipeFor(i.env, entry, gateway)>> \notin Qualified(i))
        \/ ~IF gateway THEN gatewayScopeAllowed(i.env, entry) ELSE ScopeAllowed(i.env, entry)

\* ResolvePermission: flag before profile before global, and the force-native lock.
ResolvePermission(p) ==
    IF p.locked THEN IF "yolo" \in {p.flag, p.global} THEN "refused" ELSE "native"
    ELSE IF p.flag # "none" THEN p.flag
    ELSE IF p.profile # "none" THEN p.profile
    ELSE IF p.global # "none" THEN p.global ELSE "yolo"

PermissionRefuses(p) ==
    \/ ResolvePermission(p) = "refused"
    \/ ResolvePermission(p) = "yolo" /\ ~p.transport

\* Required: the operations and capabilities that a delegated route needs of a manager.
NeededOperations(i) ==
    {IF i.resume = "new" THEN "launch" ELSE "resume", "status", "cancel"}
        \cup (IF i.detach THEN {} ELSE {"attach"})

NeededCapabilities(i) ==
    {IF i.resume = "new" THEN "launch-delegated/1" ELSE "resume/1", "admission/1", "status/1"}
        \cup (IF i.detach THEN {} ELSE {"attach/1"})
        \cup (IF i.boardGoal THEN {"board-goal/1"} ELSE {})
        \cup (IF i.a2a THEN {IF i.env = "claude" THEN "doorbell-claude/1" ELSE "doorbell-codex/1"} ELSE {})

Required(i) ==
    /\ i.manager.operations # {}                     \* the runtime is advertised
    /\ ~(/\ i.resume = "new" /\ ~i.detach /\ ~i.a2a  \* the exact route is not lease capable
         /\ "launch-exact" \in i.manager.operations)
    /\ i.env = "muse" =>
          /\ "attach" \in i.manager.operations
          /\ "attach/1" \in i.manager.capabilities
          /\ \/ "launch" \in i.manager.operations /\ "launch-delegated/1" \in i.manager.capabilities
             \/ "launch-exact" \in i.manager.operations /\ "launch-exact/2" \in i.manager.capabilities
          /\ ~i.a2a
    /\ NeededOperations(i) \subseteq i.manager.operations
    /\ NeededCapabilities(i) \subseteq i.manager.capabilities

----------------------------------------------------------------------------
\* The gateway's settings sources and its admission contract.

\* A source is the set of what it carries: names it sets, and what else is wrong with it.
Unreadable == "unreadable"
SetsRefused(text) == \E n \in text \cap Name : gatewayRefusedName(n)

\* Members of policy-limits.json that change nothing behind the gateway.
Inert == {"restrictions", "defaults", "monitoring_notice"}

policyCachePath(doc, remote) ==
    IF remote THEN doc # {"object"}
    ELSE \/ "object" \notin doc \/ "restrictions" \notin doc
         \/ doc \ ({"object"} \cup Inert) # {}

settingsConflict(source, text) ==
    \/ Unreadable \in text
    \/ SetsRefused(text)
    \/ source = "managed" /\ text \cap {"helper", "crowded"} # {}

admissionContract(source, text) ==
    CASE source = "home" -> "settings" \notin text \/ "writable" \in text
      [] source = "directory" -> "inside" \notin text
      [] source = "preferences" -> text # {}
      [] source = "remote" -> text # {} /\ policyCachePath(text, TRUE)
      [] source = "limits" -> text # {} /\ policyCachePath(text, FALSE)

Settings == {"user", "global", "project", "managed"}
Refuses(source, text) ==
    IF source \in Settings THEN settingsConflict(source, text) ELSE admissionContract(source, text)

\* checkPolicyCaches: the server's settings before its limits.
Caches == <<"remote", "limits">>

\* The order in which the guard looks at them.
Guard == <<"user", "global", "project", "managed", "home", "directory", "preferences">> \o Caches
Sources == {Guard[k] : k \in 1 .. Len(Guard)}
=============================================================================
