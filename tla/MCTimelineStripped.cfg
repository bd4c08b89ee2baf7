SPECIFICATION Spec
CONSTANTS
    Objects = {1}
    Preexisting = {1}
    MaxVersion = 1
    Sources = {"core", "provider"}
    SourceOf <- OneProvider
    ProviderSources = {"provider"}
    Altered <- FirstAltered
    Window = 1
    BatchSize = 1
    Collectors = {c1}
    None = None
INVARIANTS
    ChangesAreTrue
CHECK_DEADLOCK FALSE
