-------------------------- MODULE PrometheusExporter --------------------------
(***************************************************************************)
(* The Prometheus exporter of the agent (agent/src/metrics-exporter.js).   *)
(* A timer collects: it discovers the kubeconfig contexts, keeps the ones  *)
(* the configuration allows, reads a snapshot of each, and replaces the    *)
(* cached collection when all of them have ended.  A scrape renders the    *)
(* cache.  What a snapshot counts is left out (see PrometheusSnapshot in   *)
(* Inventory): a context is up when its snapshot was read.                 *)
(***************************************************************************)
EXTENDS FiniteSets, Naturals

CONSTANTS Contexts,        \* the contexts the kubeconfig files may name
          Allowlist,       \* the contexts the configuration allows, {} for all
          MaxCollections   \* bound on the collections begun

\* What is asked of the constants; who instances the module assumes it.
ExporterAssumption == Allowlist \subseteq Contexts /\ MaxCollections \in Nat

VARIABLES server,      \* whether the exporter listens, with its timer armed
          collecting,  \* the collection under way, Nothing between two
          begun,       \* the collections begun
          collection,  \* the one a scrape renders
          reached,     \* which contexts each finished collection reached
          scraped      \* what the last scrape was given

vars == <<server, collecting, begun, collection, reached, scraped>>

Nothing == [number |-> 0, waiting |-> {}, up |-> {}, down |-> {}, failed |-> FALSE]

Collections ==
    [number : 0 .. MaxCollections, waiting : SUBSET Contexts, up : SUBSET Contexts,
     down : SUBSET Contexts, failed : BOOLEAN]

\* The number of a cached collection stands for its time; lastSuccess is the number
\* of the last one that reached a context.
Cached == [number : 0 .. MaxCollections, up : SUBSET Contexts, down : SUBSET Contexts,
           lastSuccess : 0 .. MaxCollections]

TypeOK ==
    /\ server \in {"down", "listening", "closed"}
    /\ collecting \in Collections
    /\ begun \in 0 .. MaxCollections
    /\ collection \in Cached /\ scraped \in Cached
    /\ reached \in [1 .. MaxCollections -> [selected : SUBSET Contexts, answered : SUBSET Contexts]]

Empty == [number |-> 0, up |-> {}, down |-> {}, lastSuccess |-> 0]

Init ==
    /\ server = "down"
    /\ collecting = Nothing
    /\ begun = 0
    /\ collection = Empty /\ scraped = Empty
    /\ reached = [n \in 1 .. MaxCollections |-> [selected |-> {}, answered |-> {}]]

-----------------------------------------------------------------------------
Selected(usable) == IF Allowlist = {} THEN usable ELSE usable \cap Allowlist

\* Discovery reads the kubeconfig files, or fails; a collection under way is joined.
Collect ==
    /\ server # "down" /\ collecting = Nothing /\ begun < MaxCollections
    /\ begun' = begun + 1
    /\ \E usable \in SUBSET Contexts, failed \in BOOLEAN :
          LET selected == IF failed THEN {} ELSE Selected(usable) IN
          /\ collecting' = [number |-> begun + 1, waiting |-> selected, up |-> {}, down |-> {},
                            failed |-> failed]
          /\ reached' = [reached EXCEPT ![begun + 1] = [selected |-> selected, answered |-> {}]]
    /\ UNCHANGED <<server, collection, scraped>>

\* The exporter begins to listen and the agent asks for a first collection at once.
Start ==
    /\ server = "down"
    /\ server' = "listening"
    /\ UNCHANGED <<collecting, begun, collection, reached, scraped>>

TimerFires == server = "listening" /\ Collect

Up(c) ==
    /\ c \in collecting.waiting
    /\ collecting' = [collecting EXCEPT !.waiting = @ \ {c}, !.up = @ \cup {c}]
    /\ reached' = [reached EXCEPT ![collecting.number].answered = @ \cup {c}]
    /\ UNCHANGED <<server, begun, collection, scraped>>

\* The whole collection is lost with one context.
DownLosesAll(c) ==
    /\ c \in collecting.waiting
    /\ collecting' = [collecting EXCEPT !.waiting = {}, !.up = {}, !.down = {}]
    /\ UNCHANGED <<server, begun, collection, reached, scraped>>

Down(c) ==
    /\ c \in collecting.waiting
    /\ collecting' = [collecting EXCEPT !.waiting = @ \ {c}, !.down = @ \cup {c}]
    /\ UNCHANGED <<server, begun, collection, reached, scraped>>

Finish ==
    /\ collecting # Nothing /\ collecting.waiting = {}
    /\ collection' = [number |-> collecting.number, up |-> collecting.up, down |-> collecting.down,
                      lastSuccess |-> IF collecting.up = {} THEN collection.lastSuccess ELSE collecting.number]
    /\ collecting' = Nothing
    /\ UNCHANGED <<server, begun, reached, scraped>>

Scrape ==
    /\ server = "listening"
    /\ scraped' = collection
    /\ UNCHANGED <<server, collecting, begun, collection, reached>>

\* A collection under way is not stopped.
Close ==
    /\ server = "listening"
    /\ server' = "closed"
    /\ UNCHANGED <<collecting, begun, collection, reached, scraped>>

Next ==
    \/ Start \/ TimerFires \/ Finish \/ Scrape \/ Close
    \/ \E c \in Contexts : Up(c) \/ Down(c)

Spec == Init /\ [][Next]_vars

-----------------------------------------------------------------------------
\* "If one context is unavailable, only its kubi_cluster_up becomes 0; other contexts
\* remain visible": a scrape shows every context its collection selected, up exactly
\* when it was reached, and the time of the last success is that of a collection which
\* reached one.  (docs/prometheus-metrics.md:26, agent/src/metrics-exporter.js:258)
NeverCleanWhenCut ==
    scraped.number > 0 =>
        /\ scraped.up \cup scraped.down = reached[scraped.number].selected
        /\ scraped.up = reached[scraped.number].answered
        /\ scraped.lastSuccess > 0 => reached[scraped.lastSuccess].answered # {}
=============================================================================
