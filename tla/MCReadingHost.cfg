CONSTANTS
    Contexts <- AllContexts
    Allowlist <- Allowed
    MaxCollections = 2
    MaxPages = 2
    MaxBytes = 1
    MaxChunks = 3
    Stages <- PostureStages
    Lists <- PostureLists
    Length <- PostureLength
    Sizes <- PostureSizes
    Lanes <- TwoLanes
    PosturePages = 2
    PostureBytes = 6
    MaxReadBytes = 2
    Documents <- Kubeconfigs
    Unreadable = Unreadable
    Places <- KubeconfigPlaces
    Selectors <- Sessions
    AnyCluster = AnyCluster
    TTL = 1
    MaxVersion = 1
    Scopes = {"all", "one"}
    Providers = {"github", "gitlab", "jenkins"}
    Projects <- CiProjects
    Children <- JobTree
    Histories <- RunCounts
    PageSize = 2
    MaxRuns = 5
    CiPages = 2
    MaxDetails = 1
    MaxJobs = 3
    MaxDepth = 1
    Destinations = {"inside", "outside"}
    Targets = {"t", "u"}
    Identities = {"a", "b", "c"}
    NamespaceOf <- OneNamespace
    Readers <- OneReader
    Batches <- Appended
    Retentions = {1, 2}
    Limit = 1
    MaxTargetRows = 3
    MaxTotalRows = 3
    MaxSequence <- SequenceBounds
    MaxClock = 2
    MaxRestarts = 3
    MaxCount = 3
    Pods <- SomePods
    Namespaces = {"x", "y", "z"}
    Policies <- SomePolicies
    Clusters <- ThreeClusters
    AutoscalingScopes = {"all", "x"}
    AutoscalingPageSize = 1
    AutoscalingPages = 2
    Profiles <- SomeProfiles
    Discovered <- Found
    ClusterOf <- EndpointCluster
    PartOf <- EndpointPart
    MaxCandidates = 2
    MaxDown = 2
SPECIFICATION Spec
INVARIANT HostMetricsAreOwn
CHECK_DEADLOCK FALSE
