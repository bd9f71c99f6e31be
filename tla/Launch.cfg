SPECIFICATION Spec
CONSTANTS
    Name <- Names
    Upper <- Uppers
    Class <- Classed
    Admitted <- Allowlist
    Reserved <- Credentials
    Variable = "CLAUDE_CODE_OAUTH_TOKEN"
    Backend = "TBH_CREDENTIAL_BACKEND"
    Token <- Words
    Shape <- Shapes
    PrintWord = {"-p"}
    Assigns = {"--model=x"}
    Dispatched = {"--resume"}
    Early = {"--bare"}
    Invocations <- AllInvocations
    Catalogs = {"gateway", "open", "direct", "nodefault", "absent", "special", "broken"}
    Texts <- Written
    MaxChanges = 2
INVARIANTS TypeOK FilterNeverDropped RecheckGuardsSpawn LeaseEnded
PROPERTIES PreparedComposes
CHECK_DEADLOCK FALSE
