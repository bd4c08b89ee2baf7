SPECIFICATION AllSpec
\* Of the store: init, three requests and close, a queue of two.
CONSTANTS
    MaxQueue = 2
    MaxSequence = 5
    Managers = {"x"}
    Channels = {"mail"}
    Findings <- Found
    Configs <- Saved
    MaxHistory = 1
    MaxClock = 3
    MaxCrashes = 1
    Contexts = {"x"}
    Readers = {"r1", "r2"}
    IdleStop = 1
    MaxSamples = 1
    MaxReads = 3
    Targets = {"x", "y"}
    Scanners = {"reader"}
    MaxRevision = 2
    Objects = {1}
    Preexisting = {1}
    MaxVersion = 1
    Sources = {"core"}
    SourceOf <- SourceOfObjects
    ProviderSources = {}
    Altered = {}
    Window = 1
    BatchSize = 1
    Collectors = {"c"}
    None = None
INVARIANTS AllTypeOK CooldownHonoured AnswersAreTrue NobodyWaitsForDead NothingLeftBehind
PROPERTIES SharesLoads AppliedInOrder SettlesInTheEnd
CHECK_DEADLOCK FALSE
