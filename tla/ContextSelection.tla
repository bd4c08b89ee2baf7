-------------------------- MODULE ContextSelection --------------------------
(***************************************************************************)
(* From a session's selector to the kubeconfig a request uses: the sources *)
(* agent/src/kube.js finds are merged, names that two sources define       *)
(* differently are ambiguous, and what was validated once is used again    *)
(* for a moment, for as long as the sources look the same.                 *)
(***************************************************************************)
EXTENDS Integers, Sequences, FiniteSetsExt

CONSTANTS
    Documents,    \* what a source may hold: contexts, clusters, users, current
    Unreadable,   \* a source that is not there or no kubeconfig
    Places,       \* the places that are looked at, in order
    Selectors,    \* what sessions are bound to: a context and a fingerprint
    AnyCluster,   \* the fingerprint of a selector that has none
    TTL,          \* VALIDATED_KUBECONFIG_CACHE_TTL_MS
    MaxVersion,   \* bound: how often a source changes
    MaxClock      \* bound on the time a behaviour takes

\* A document maps context names to <<cluster, user>>, and names to definitions.
ContextNames == UNION {DOMAIN d.contexts : d \in Documents}

\* What is asked of the constants; who instances the module assumes it.
DocumentAssumption ==
    /\ Unreadable \notin Documents
    /\ \A d \in Documents : DOMAIN d = {"contexts", "clusters", "users", "current"}
    /\ TTL \in Nat /\ MaxClock \in Nat /\ MaxVersion \in Nat

VARIABLES
    clock,
    source,    \* place -> its document
    version,   \* place -> its mtime and size, and those of the CA files it names
    validated, \* validatedKubeConfigCache: set of entries
    chosen     \* the outcome of the last selection

vars == <<clock, source, version, validated, chosen>>

\* The sources that count, as positions in Places.
Readable == {i \in 1..Len(Places) : source[Places[i]] # Unreadable}

At(i) == source[Places[i]]

Defining(kind, name) == {i \in Readable : name \in DOMAIN At(i)[kind]}

Defined(kind, name) == Defining(kind, name) # {}

\* mergeDiscoveredKubeconfigSources: of equal names the first source counts.
Definition(kind, name) == At(Min(Defining(kind, name)))[kind][name]

\* A name is ambiguous if two sources define it differently.
Ambiguous(kind, name) ==
    \E i \in Defining(kind, name) : At(i)[kind][name] # Definition(kind, name)

\* The context that is current unless a selector says otherwise: the last one wins.
CurrentContext ==
    LET naming == {i \in Readable : At(i).current # ""}
    IN  IF naming = {} THEN "" ELSE At(Max(naming)).current

ClusterNameOf(c) == Definition("contexts", c)[1]
UserNameOf(c) == Definition("contexts", c)[2]

\* discoveredClusterFingerprint: names the context, the cluster and how it is
\* reached; the user is no part of it.
Fingerprint(c) ==
    <<c, ClusterNameOf(c),
      IF Defined("clusters", ClusterNameOf(c)) THEN Definition("clusters", ClusterNameOf(c)) ELSE "none">>

\* buildDiscoveredAccessCandidates: every context is offered, an ambiguous one not as
\* a connection.
Candidates ==
    {[context |-> c, fingerprint |-> Fingerprint(c),
      mode |-> IF \/ Ambiguous("contexts", c) \/ Ambiguous("clusters", ClusterNameOf(c))
                  \/ Ambiguous("users", UserNameOf(c)) THEN "none" ELSE "agent"] :
        c \in {d \in ContextNames : Defined("contexts", d)}}

\* sourceFilesSignature: what is compared of the sources, never their content.
Signature == version

\* Mutant: an entry is found by its selector alone.
FoundBySelector(s) == {e \in validated : e.selector = s /\ e.expiresAt > clock}

Found(s) == {e \in validated : e.selector = s /\ e.signature = Signature /\ e.expiresAt > clock}

\* What resolveAgentRuntimeConfigForSelector asks of a selector; one may name no cluster.
Acceptable(s) ==
    /\ Defined("contexts", s.context) /\ ~Ambiguous("contexts", s.context)
    /\ ~Ambiguous("clusters", ClusterNameOf(s.context)) /\ ~Ambiguous("users", UserNameOf(s.context))
    /\ s.fingerprint \in {AnyCluster, Fingerprint(s.context)}
    /\ Defined("clusters", ClusterNameOf(s.context))

\* buildMergedKubeConfig for the context.
Config(s) == [cluster |-> Definition("clusters", ClusterNameOf(s.context)),
              user |-> IF Defined("users", UserNameOf(s.context))
                       THEN Definition("users", UserNameOf(s.context)) ELSE "none"]

NoChoice == [outcome |-> "none"]

Init ==
    /\ clock = 0
    /\ source \in [Range(Places) -> Documents \cup {Unreadable}]
    /\ version = [p \in Range(Places) |-> 0]
    /\ validated = {}
    /\ chosen = NoChoice

Tick ==
    /\ clock < MaxClock
    /\ clock' = clock + 1
    /\ chosen' = NoChoice
    /\ UNCHANGED <<source, version, validated>>

\* Somebody edits a kubeconfig, adds one or removes one (external).
Edit(p) == \E d \in (Documents \cup {Unreadable}) \ {source[p]} :
    /\ version[p] < MaxVersion
    /\ source' = [source EXCEPT ![p] = d]
    /\ version' = [version EXCEPT ![p] = @ + 1]
    /\ chosen' = NoChoice
    /\ UNCHANGED <<clock, validated>>

UseValidated(s) == \E e \in Found(s) :
    /\ chosen' = [outcome |-> "config", selector |-> s, config |-> e.config]
    /\ UNCHANGED <<clock, source, version, validated>>

Refuse(s) ==
    /\ Found(s) = {} /\ ~Acceptable(s)
    /\ chosen' = [outcome |-> "refused", selector |-> s]
    /\ UNCHANGED <<clock, source, version, validated>>

\* The entry of the same selector and signature is replaced, all others stay forever.
Validate(s) ==
    /\ Found(s) = {} /\ Acceptable(s)
    /\ validated' = {e \in validated : ~(e.selector = s /\ e.signature = Signature)}
         \cup {[selector |-> s, signature |-> Signature, config |-> Config(s), expiresAt |-> clock + TTL]}
    /\ chosen' = [outcome |-> "config", selector |-> s, config |-> Config(s)]
    /\ UNCHANGED <<clock, source, version>>

\* A discovery scan lists the candidates and changes nothing.
Scan ==
    /\ chosen' = [outcome |-> "scan", candidates |-> Candidates, current |-> CurrentContext]
    /\ UNCHANGED <<clock, source, version, validated>>

Next ==
    \/ Tick \/ Scan
    \/ \E p \in Range(Places) : Edit(p)
    \/ \E s \in Selectors : UseValidated(s) \/ Refuse(s) \/ Validate(s)

Spec == Init /\ [][Next]_vars

-----------------------------------------------------------------------------
\* What a request is given is the cluster its session was authorized for, with the
\* credentials the sources hold now, and no other source disagrees: also when the
\* config was validated before and the sources changed meanwhile ("no longer matches
\* the authorized cluster fingerprint", kube.js:1311; "ambiguous across multiple
\* sources", :1278).
SelectionIsAuthorized ==
    chosen.outcome = "config" =>
        LET s == chosen.selector
        IN  /\ \A i, j \in Defining("contexts", s.context) :
                  At(i).contexts[s.context] = At(j).contexts[s.context]
            /\ \A i, j \in Defining("clusters", ClusterNameOf(s.context)) :
                  At(i).clusters[ClusterNameOf(s.context)] = At(j).clusters[ClusterNameOf(s.context)]
            /\ \A i, j \in Defining("users", UserNameOf(s.context)) :
                  At(i).users[UserNameOf(s.context)] = At(j).users[UserNameOf(s.context)]
            /\ s.fingerprint \in {AnyCluster, Fingerprint(s.context)}
            /\ chosen.config = Config(s)
=============================================================================
