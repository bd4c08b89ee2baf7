SPECIFICATION Spec
CONSTANTS
    Objects = {1, 2}
    Preexisting = {2}
    MaxVersion = 1
    Sources = {"core", "provider"}
    SourceOf <- BothCore
    ProviderSources = {"provider"}
    Altered = {}
    Window = 1
    BatchSize = 1
    Collectors = {c1}
    None = None
INVARIANTS
    DeletionsAreTrue
CHECK_DEADLOCK FALSE
