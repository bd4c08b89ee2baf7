CHECK_DEADLOCK FALSE
CONSTANTS
    Readers = {"r1", "r2"}
    TTL = 2
    StaleTTL = 4
    FailureTTL = 1
    MaxRetry = 5
    MaxClock = 5
    None = None
    NoToken = NoToken
    PostureCalls = {"r1", "r2"}
    PostureScopes = {"a", "b", "all"}
    PostureTTL = 1
    MaxPostureScopes = 2
    PostureMaxClock = 2
    CapacityCalls = {"r1", "r2"}
    CapacityScopes = {"a", "all"}
    CapacityTTL = 1
    FreshTTL = 1
    MaxCapacityScopes = 1
    CapacityMaxClock = 2
    Calls = {"c1", "c2"}
    RuntimeTokens = {"manager", "plain"}
    McpTokens = {"mcp"}
    LegacyTokens = {"legacy"}
    DiscoveryTokens = {"discovery"}
    Scopes <- ScopesOf
    Until <- UntilOf
    ServerTTL = 1
    Timeout = 1
    MaxEntries = 1
    HasTimeline = TRUE
    Requests <- RequestsOf
    Revocable = {"mcp"}
    ServerMaxClock = 3
SPECIFICATION AllSpec
CONSTRAINT Scenario
INVARIANTS AllTypeOK StaleIsBounded AnswersAreFresh GrantsAreFresh OnlyAllowedReached
PROPERTIES RetryAfterHonoured LoadsAreShared
