------------------------------ MODULE MCLaunch ------------------------------
(* Names, words and invocations for TLC: one name of each class with another spelling   *)
(* where it matters, one word of each shape, and families of invocations around Base.   *)
EXTENDS Launch, TLC

Classed == [
    ANTHROPIC_BASE_URL |-> "owned", anthropic_base_url |-> "owned",
    HTTPS_PROXY |-> "proxy", https_proxy |-> "proxy",
    CLAUDE_CODE_USE_BEDROCK |-> "route", CLAUDE_CODE_X |-> "namespace",
    CLAUDE_CODE_OAUTH_TOKEN |-> "namespace", ANTHROPIC_API_KEY |-> "namespace",
    AWS_ENDPOINT_URL |-> "aws", AI_AGENT |-> "table", TERM |-> "table", OTEL_X |-> "control",
    TBH_CREDENTIAL_BACKEND |-> "other", XDG_DATA_HOME |-> "other"]
Names == DOMAIN Classed
Uppers == [n \in Names |->
    IF n = "anthropic_base_url" THEN "ANTHROPIC_BASE_URL"
    ELSE IF n = "https_proxy" THEN "HTTPS_PROXY" ELSE n]
Allowlist == {"CLAUDE_CODE_OAUTH_TOKEN", "ANTHROPIC_API_KEY", "TERM"}
Credentials == {"CLAUDE_CODE_OAUTH_TOKEN", "ANTHROPIC_API_KEY", "CLAUDE_CODE_USE_BEDROCK"}

Shapes ==
    ("--" :> "none") @@ ("-p" :> "none") @@ ("--verbose" :> "none") @@
    ("--model" :> "required") @@ ("--tools" :> "variadic") @@ ("--debug" :> "optional") @@
    ("--model=x" :> "inline") @@ ("word" :> "operand") @@ ("--resume" :> "unknown") @@
    ("--bare" :> "unknown") @@ ("--unknown" :> "unknown")
Words == DOMAIN Shapes

----------------------------------------------------------------------------
Accepted == [s \in Sources |->
    CASE s = "home" -> {"settings"} [] s = "directory" -> {"inside"} [] OTHER -> {}]

\* Other admissible texts and refusable ones, of each source.
Written ==
    ("user" :> {{}, {"TERM"}, {"OTEL_X"}, {"unreadable"}}) @@
    ("global" :> {{}, {"https_proxy"}}) @@ ("project" :> {{}, {"CLAUDE_CODE_X"}}) @@
    ("managed" :> {{}, {"helper"}, {"crowded"}}) @@
    ("home" :> {{"settings"}, {}, {"settings", "writable"}}) @@
    ("directory" :> {{"inside"}, {}}) @@ ("preferences" :> {{}, {"plist"}}) @@
    ("remote" :> {{}, {"object"}, {"object", "settings"}}) @@
    ("limits" :> {{}, {"object", "restrictions"}, {"object", "restrictions", "taints"},
                  {"object"}})

Every == {"launch", "resume", "status", "cancel", "attach"}
Capable == {"launch-delegated/1", "resume/1", "admission/1", "status/1", "attach/1",
            "board-goal/1", "doorbell-claude/1", "doorbell-codex/1"}
Manages(operations, capabilities) == [operations |-> operations, capabilities |-> capabilities]

Base == [
    env |-> "claude", flag |-> "none", mode |-> "auto", network |-> "none", proxy |-> "none",
    auth |-> FALSE, recovery |-> FALSE, detach |-> FALSE, a2a |-> FALSE, boardGoal |-> FALSE,
    resume |-> "new", terminal |-> TRUE, registry |-> "selected",
    manager |-> Manages(Every, Capable),
    permission |-> [flag |-> "none", profile |-> "none", global |-> "native",
                    locked |-> FALSE, transport |-> TRUE],
    own |-> {}, parent |-> {"HTTPS_PROXY", "TERM"}, fragment |-> {}, prompt |-> {}, mcp |-> {},
    filed |-> TRUE, rooted |-> TRUE,
    carries |-> TRUE, tail |-> <<"-p">>, qualified |-> {"exec", "interactive"},
    strict |-> FALSE, managedHome |-> TRUE, sources |-> Accepted, others |-> FALSE]

Native == [Base EXCEPT !.flag = "native", !.network = "gateway"]

\* The route: flags, modes, registries, networks and defaults, with changes by others.
Routes ==
    {[Base EXCEPT !.flag = flag, !.mode = mode, !.registry = registry, !.network = network,
                  !.recovery = recovery, !.others = TRUE] :
        flag \in {"none", "hosted", "native"}, mode \in {"auto", "native", "hosted"},
        registry \in {"empty", "selected"}, network \in {"none", "direct"},
        recovery \in BOOLEAN}
    \cup {[Base EXCEPT !.proxy = "proxy", !.registry = registry, !.terminal = terminal] :
        registry \in {"unselected", "selected", "broken"}, terminal \in BOOLEAN}
    \cup {[Base EXCEPT !.flag = "native", !.network = network, !.recovery = recovery] :
        network \in {"blank", "unknown", "direct", "proxy", "open", "gateway"},
        recovery \in BOOLEAN}
    \cup {[Base EXCEPT !.flag = "hosted", !.mode = "hosted", !.auth = auth, !.terminal = FALSE,
                       !.detach = detach] : auth, detach \in BOOLEAN}

\* What a manager is asked for.
Needs ==
    {[Base EXCEPT !.env = env, !.detach = detach, !.a2a = a2a, !.boardGoal = goal,
                  !.resume = resume, !.manager = manager] :
        env \in {"claude", "codex", "muse", "pi"}, detach, a2a, goal \in BOOLEAN,
        resume \in {"new", "latest", "conflict"},
        manager \in {Manages({}, {}), Manages(Every, Capable),
                     Manages(Every \ {"attach"}, Capable \ {"attach/1"}),
                     Manages(Every \cup {"launch-exact"}, Capable \cup {"launch-exact/2"}),
                     Manages(Every, Capable \ {"board-goal/1", "doorbell-codex/1"})}}

Permissions ==
    {[Base EXCEPT !.flag = "native",
                  !.permission = [flag |-> flag, profile |-> profile, global |-> global,
                                  locked |-> locked, transport |-> transport]] :
        flag, profile, global \in {"none", "native", "yolo"}, locked, transport \in BOOLEAN}

\* What a child's environment is composed of, behind each kind of network.
Environments ==
    {[Native EXCEPT !.network = network, !.own = own, !.parent = parent, !.fragment = overlay,
                    !.mcp = mcp, !.auth = auth, !.others = FALSE] :
        network \in {"none", "direct", "proxy", "gateway"},
        own \in {{}, {"OTEL_X"}, {"anthropic_base_url", "CLAUDE_CODE_X"}, {"ANTHROPIC_API_KEY"}},
        parent \in {{}, {"https_proxy", "HTTPS_PROXY", "AI_AGENT", "TERM"},
                    {"CLAUDE_CODE_USE_BEDROCK", "AWS_ENDPOINT_URL"}},
        overlay \in {{}, {"https_proxy"}, {"ANTHROPIC_BASE_URL"}, {"TERM"},
                     {"CLAUDE_CODE_OAUTH_TOKEN"}},
        mcp \in {{}, {"HTTPS_PROXY"}, {"TERM"}}, auth \in BOOLEAN}
    \cup {[Native EXCEPT !.network = network, !.env = "muse", !.own = own, !.fragment = overlay,
                         !.prompt = prompt, !.filed = filed, !.rooted = rooted] :
        network \in {"none", "direct"}, own, prompt \in {{}, {"TBH_CREDENTIAL_BACKEND"}},
        filed, rooted \in BOOLEAN,
        overlay \in {{}, {"TBH_CREDENTIAL_BACKEND", "XDG_DATA_HOME"}}}

\* Native tails of up to three words, behind a gateway, and whether the plan carries them.
Tails ==
    {[Native EXCEPT !.tail = tail, !.carries = carries, !.qualified = qualified] :
        tail \in UNION {[1 .. k -> Words \ {"--unknown"}] : k \in 0 .. 2}
                 \cup {<<"--verbose", "--", "-p">>, <<"--model", "--", "-p">>,
                       <<"-p", "--model", "--bare">>, <<"-p", "--", "--bare">>,
                       <<"-p", "--", "--unknown">>, <<"--debug", "word", "-p">>},
        carries \in BOOLEAN, qualified \in {{"exec"}, {"exec", "interactive"}}}

\* The guard, twice, while others write the settings sources and the catalog.
Guarded ==
    {[Native EXCEPT !.network = network, !.recovery = recovery, !.others = TRUE] :
        network \in {"gateway", "none"}, recovery \in BOOLEAN}
    \cup {[Native EXCEPT !.sources[s] = text, !.managedHome = managed] :
        s \in {"user", "limits"}, text \in {{}, {"object", "restrictions"}}, managed \in BOOLEAN}

AllInvocations ==
    Routes \cup Needs \cup Permissions \cup Environments \cup Tails \cup Guarded
=============================================================================
