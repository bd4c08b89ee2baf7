SPECIFICATION Spec
CONSTANTS
    Objects = {1, 2}
    Preexisting = {2}
    MaxVersion = 2
    Sources = {"core", "provider"}
    SourceOf <- CoreAndProvider
    ProviderSources = {"provider"}
    Altered <- RedactedAndStripped
    Window = 2
    BatchSize = 1
    First = First
    Second = Second
    Collectors = {First, Second}
    None = None
SYMMETRY Symmetry
CONSTRAINT Scenario
INVARIANTS
    TypeOK
    DeletionsAreTrue
    CreationsAreTrue
    KeptChangesAreTrue
    NothingReplayed
PROPERTIES
    RecordedBeforeAdvance
    DisabledStaysIdle
CHECK_DEADLOCK FALSE
