---- MODULE ReadingProofs ----
(***************************************************************************)
(* Proofs about the parts of the agent that read a cluster, a host or a    *)
(* service once and tell what they found: the exporter, the transport, the *)
(* posture, the kubeconfig selection, the loaders, the CI clients, the     *)
(* autoscaling, the store of the timeline and its reducers, the network    *)
(* and the storage.  One section per part, each with the invariant of that *)
(* part; the last section composes them into theorems of Spec.             *)
(***************************************************************************)
EXTENDS Reading, DataProofs, TLAPS

-----------------------------------------------------------------------------
(* Reading one list *)

\* The types of a request's and a list's fields, by name.
RequestPhases == {"none", "open", "resolved", "rejected"}
Statuses == {0, 200, 404, 500}
ChunkCount == 0..MaxChunks
Flag == BOOLEAN
RequestType == [phase : RequestPhases, incoming : Flag, status : Statuses, sent : ChunkCount, chunks : ChunkCount,
                bytes : ChunkCount, timer : Flag, listener : Flag]

ListPhases == {"asking", "done", "failed"}
PageCount == 0..MaxPages
ListType == [phase : ListPhases, read : PageCount, truncated : Flag, missing : Flag, garbled : Flag]

\* A request keeps no more than the server sent, and holds something only while it is open.
RequestKept ==
    /\ request.bytes =< request.sent /\ request.chunks =< request.sent
    /\ request.phase # "open" => ~request.timer /\ ~request.listener /\ request.chunks = 0

\* While pages are asked for, the cluster has another and the limit allows it; a list
\* that is done without a mark has them all.
ListKept ==
    /\ list.phase = "asking" => list.read < pages /\ list.read < MaxPages
    /\ list.phase = "done" /\ ~list.truncated /\ ~list.missing /\ ~list.garbled => list.read = pages

TransportInv ==
    /\ options \in [limited : Flag, allowMissing : Flag, native : Flag]
    /\ pages \in 1..(MaxPages + 1)
    /\ request \in RequestType /\ RequestKept
    /\ list \in ListType /\ ListKept

\* The names of the fields' types are those of TypeOK.
LEMMA TransportMembers ==
    /\ {"none", "open", "resolved", "rejected"} \subseteq RequestPhases
    /\ {0, 200, 404, 500} \subseteq Statuses /\ {TRUE, FALSE} \subseteq Flag
    /\ 0 \in ChunkCount /\ ChunkCount \subseteq Nat /\ \A n \in ChunkCount : n < MaxChunks => n + 1 \in ChunkCount
    /\ {"asking", "done", "failed"} \subseteq ListPhases
    /\ 0 \in PageCount /\ PageCount \subseteq Nat /\ \A n \in PageCount : n < MaxPages => n + 1 \in PageCount
    /\ MaxPages \in Nat /\ MaxPages > 0 /\ MaxChunks \in Nat
  BY PartsAssumption DEF Transport!BoundAssumption, RequestPhases, Statuses, ChunkCount, Flag, ListPhases, PageCount

LEMMA NothingAsked ==
    /\ Transport!NoRequest \in RequestType
    /\ Transport!NoRequest.bytes = 0 /\ Transport!NoRequest.sent = 0 /\ Transport!NoRequest.chunks = 0
    /\ ~Transport!NoRequest.timer /\ ~Transport!NoRequest.listener
<1>1. Transport!NoRequest \in RequestType
  BY TransportMembers DEF Transport!NoRequest, RequestType
<1> QED
  BY <1>1 DEF Transport!NoRequest

LEMMA TransportInit == ASSUME Transport!Init PROVE TransportInv
<1>1. request \in RequestType /\ RequestKept
  BY NothingAsked DEF Transport!Init, RequestKept
<1>2. list \in ListType /\ ListKept
  <2>1. /\ list = [phase |-> "asking", read |-> 0, truncated |-> FALSE, missing |-> FALSE, garbled |-> FALSE]
        /\ pages \in 1..(MaxPages + 1)
    BY DEF Transport!Init
  <2>2. list \in ListType
    BY <2>1, TransportMembers DEF ListType
  <2> QED
    BY <2>1, <2>2, TransportMembers DEF ListKept
<1> QED
  BY <1>1, <1>2 DEF Transport!Init, TransportInv, Flag

\* What the steps of one request do to it.
LEMMA RequestStep ==
    ASSUME request \in RequestType, RequestKept,
            Transport!Send \/ Transport!Headers \/ Transport!Fail \/ Transport!Data \/ Transport!End
    PROVE  request' \in RequestType /\ RequestKept'
<1> DEFINE Let(r) == ~r.timer /\ ~r.listener /\ r.chunks = 0
<1>0. /\ request.sent \in ChunkCount /\ request.bytes \in ChunkCount /\ request.chunks \in ChunkCount
      /\ {request.sent, request.bytes, request.chunks} \subseteq Nat
  BY TransportMembers DEF RequestType
<1>1. CASE Transport!Send
  <2>1. request' = [Transport!NoRequest EXCEPT !.phase = "open", !.timer = TRUE, !.listener = TRUE]
    BY <1>1 DEF Transport!Send
  <2>0. "open" \in RequestPhases /\ TRUE \in Flag
    BY TransportMembers
  <2>2. request' \in RequestType
    BY <2>0, <2>1, NothingAsked DEF RequestType
  <2>3. request'.phase = "open" /\ request'.bytes = 0 /\ request'.chunks = 0 /\ request'.sent = 0
    BY <2>1, NothingAsked DEF RequestType
  <2> QED
    BY <2>2, <2>3 DEF RequestKept
<1>2. CASE Transport!Headers
  <2>1. PICK status \in {200, 404, 500} : request' = [request EXCEPT !.incoming = TRUE, !.status = status]
    BY <1>2 DEF Transport!Headers
  <2>2. status \in Statuses /\ TRUE \in Flag
    BY DEF Statuses, Flag
  <2>3. request' \in RequestType
    BY <2>1, <2>2 DEF RequestType
  <2>4. /\ request'.phase = request.phase /\ request'.bytes = request.bytes
        /\ request'.chunks = request.chunks /\ request'.sent = request.sent
    BY <2>1, <2>2 DEF RequestType
  <2>5. request.phase = "open"
    BY <1>2 DEF Transport!Headers
  <2> QED
    BY <1>0, <2>3, <2>4, <2>5 DEF RequestKept
<1>3. CASE request' = Transport!Failed
  <2>1. "rejected" \in RequestPhases /\ FALSE \in Flag /\ 0 \in ChunkCount
    BY TransportMembers
  <2>2. request' \in RequestType
    BY <1>3, <2>1 DEF Transport!Failed, RequestType
  <2>3. Let(request') /\ request'.sent = request.sent /\ request'.bytes = request.bytes
    BY <1>3 DEF Transport!Failed, RequestType
  <2> QED
    BY <1>0, <2>2, <2>3 DEF RequestKept
<1>4. CASE /\ request.phase = "open" /\ request.sent < MaxChunks
    /\ request' = [request EXCEPT !.sent = @ + 1, !.bytes = @ + 1, !.chunks = @ + 1]
  <2>1. request.sent + 1 \in ChunkCount /\ request.bytes + 1 \in ChunkCount /\ request.chunks + 1 \in ChunkCount
    BY <1>0, <1>4, TransportMembers DEF RequestKept, ChunkCount
  <2>2. request' \in RequestType
    BY <1>4, <2>1 DEF RequestType
  <2>3. /\ request'.phase = "open" /\ request'.sent = request.sent + 1
        /\ request'.bytes = request.bytes + 1 /\ request'.chunks = request.chunks + 1
    BY <1>4 DEF RequestType
  <2> QED
    BY <1>0, <2>2, <2>3 DEF RequestKept
<1>5. CASE /\ request.phase # "open" /\ request.sent < MaxChunks
    /\ request' = [request EXCEPT !.sent = @ + 1]
  <2>1. request.sent + 1 \in ChunkCount
    BY <1>0, <1>5, TransportMembers
  <2>2. request' \in RequestType
    BY <1>5, <2>1 DEF RequestType
  <2>3. /\ request'.sent = request.sent + 1 /\ request'.bytes = request.bytes
        /\ request'.chunks = request.chunks /\ request'.timer = request.timer
        /\ request'.listener = request.listener
    BY <1>5 DEF RequestType
  <2> QED
    BY <1>0, <1>5, <2>2, <2>3 DEF RequestKept
<1>6. CASE Transport!End
  <2>1. request' = [request EXCEPT !.phase = "resolved", !.timer = FALSE, !.listener = FALSE, !.chunks = 0]
    BY <1>6 DEF Transport!End
  <2>2. "resolved" \in RequestPhases /\ FALSE \in Flag /\ 0 \in ChunkCount
    BY TransportMembers
  <2>3. request' \in RequestType
    BY <2>1, <2>2 DEF RequestType
  <2>4. Let(request') /\ request'.sent = request.sent /\ request'.bytes = request.bytes
    BY <2>1 DEF RequestType
  <2> QED
    BY <1>0, <2>3, <2>4 DEF RequestKept
<1> QED
  BY <1>1, <1>2, <1>3, <1>4, <1>5, <1>6 DEF Transport!Fail, Transport!Data

\* What the steps of the list do to it.
LEMMA ListStep ==
    ASSUME TransportInv, Transport!Status \/ Transport!RequestFailed \/ Transport!Garbled \/ Transport!NextPage
    PROVE  TransportInv'
<1> USE TransportMembers
<1>1. ASSUME UNCHANGED <<options, request, pages>>, list' \in ListType, ListKept' PROVE TransportInv'
  BY <1>1 DEF TransportInv, RequestKept
<1>2. CASE Transport!Status \/ Transport!RequestFailed \/ Transport!Garbled
  <2>1. UNCHANGED <<options, request, pages>>
    BY <1>2 DEF Transport!Status, Transport!RequestFailed, Transport!Garbled
  <2>2. CASE list' = [list EXCEPT !.phase = "done", !.missing = TRUE]
    <3>1. list' \in ListType
      BY <2>2 DEF TransportInv, ListType
    <3>2. list'.missing /\ list'.phase = "done"
      BY <2>2 DEF TransportInv, ListType
    <3> QED
      BY <1>1, <2>1, <3>1, <3>2 DEF ListKept
  <2>3. CASE list' = [list EXCEPT !.phase = "done", !.garbled = TRUE]
    <3>1. list' \in ListType
      BY <2>3 DEF TransportInv, ListType
    <3>2. list'.garbled /\ list'.phase = "done"
      BY <2>3 DEF TransportInv, ListType
    <3> QED
      BY <1>1, <2>1, <3>1, <3>2 DEF ListKept
  <2>4. CASE list' = [list EXCEPT !.phase = "failed"]
    <3>1. list' \in ListType
      BY <2>4 DEF TransportInv, ListType
    <3>2. list'.phase = "failed"
      BY <2>4 DEF TransportInv, ListType
    <3> QED
      BY <1>1, <2>1, <3>1, <3>2 DEF ListKept
  <2> QED
    BY <1>2, <2>2, <2>3, <2>4 DEF Transport!Status, Transport!RequestFailed, Transport!Garbled, Transport!Rejects
<1>3. CASE Transport!NextPage
  <2> DEFINE read == list.read + 1
  <2>0. read \in PageCount /\ read =< pages /\ read =< MaxPages /\ UNCHANGED <<options, pages>>
    BY <1>3 DEF Transport!NextPage, TransportInv, ListType, ListKept
  <2>1. CASE read = pages \/ read = MaxPages
    <3> DEFINE cut == Transport!CutAtLimit(read)
    <3>1. list' = [list EXCEPT !.phase = "done", !.read = read, !.truncated = cut] /\ UNCHANGED request
      BY <1>3, <2>1 DEF Transport!NextPage
    <3>2. cut \in Flag /\ (~cut => read = pages)
      BY <2>0, <2>1 DEF Transport!CutAtLimit, Flag, TransportInv
    <3> HIDE DEF cut, read
    <3>3. list' \in ListType
      BY <3>1, <3>2, <2>0 DEF TransportInv, ListType
    <3>4. list'.phase = "done" /\ list'.read = read /\ list'.truncated = cut
      BY <3>1 DEF TransportInv, ListType
    <3> QED
      BY <1>1, <2>0, <3>1, <3>2, <3>3, <3>4 DEF ListKept
  <2>2. CASE ~(read = pages \/ read = MaxPages)
    <3>1. list' = [list EXCEPT !.read = read] /\ request' = Transport!NoRequest
      BY <1>3, <2>2 DEF Transport!NextPage
    <3>2. list' \in ListType /\ ListKept'
      BY <1>3, <3>1, <2>0, <2>2 DEF Transport!NextPage, TransportInv, ListType, ListKept
    <3>3. request' \in RequestType /\ RequestKept'
      BY <3>1, NothingAsked DEF RequestKept
    <3> QED
      BY <2>0, <3>2, <3>3 DEF TransportInv
  <2> QED
    BY <2>1, <2>2
<1> QED
  BY <1>2, <1>3

LEMMA TransportStep == ASSUME TransportInv, [Transport!Next]_(Transport!vars) PROVE TransportInv'
<1>1. CASE Transport!Send \/ Transport!Headers \/ Transport!Fail \/ Transport!Data \/ Transport!End
  <2>1. request' \in RequestType /\ RequestKept'
    BY <1>1, RequestStep DEF TransportInv
  <2>2. UNCHANGED <<options, list, pages>>
    BY <1>1 DEF Transport!Send, Transport!Headers, Transport!Fail, Transport!Data, Transport!End
  <2> QED
    BY <2>1, <2>2 DEF TransportInv, ListKept
<1>2. CASE Transport!Status \/ Transport!RequestFailed \/ Transport!Garbled \/ Transport!NextPage
  BY <1>2, ListStep
<1>3. CASE UNCHANGED Transport!vars
  BY <1>3 DEF Transport!vars, TransportInv, RequestKept, ListKept
<1> QED
  BY <1>1, <1>2, <1>3 DEF Transport!Next

\* The transport; a settled request holds no timer, listener or data, whatever of
\* deadline, abort, byte limit, errors and the end of the body comes first, and whatever
\* comes after it.
LEMMA TransportCorrect == Transport!Init /\ [][Transport!Next]_(Transport!vars) => []TransportInv
  BY TransportInit, TransportStep, PTL

LEMMA TransportFacts ==
    TransportInv => Transport!NothingLeftBehind /\ Transport!NeverCleanWhenCut /\ Transport!TypeOK
<1> SUFFICES ASSUME TransportInv PROVE Transport!NothingLeftBehind /\ Transport!NeverCleanWhenCut /\ Transport!TypeOK
  OBVIOUS
<1>1. Transport!NothingLeftBehind
  BY TransportMembers DEF TransportInv, RequestKept, Transport!NothingLeftBehind
<1>2. Transport!NeverCleanWhenCut
  BY DEF TransportInv, ListKept, Transport!NeverCleanWhenCut
<1>3. Transport!TypeOK
  BY DEF TransportInv, Transport!TypeOK, RequestType, ListType, RequestPhases, Statuses, ChunkCount, Flag, ListPhases,
         PageCount
<1> QED
  BY <1>1, <1>2, <1>3

-----------------------------------------------------------------------------
(* The choice of a kubeconfig *)

Signatures == [Selection!Range(Places) -> Nat]

\* What the sources say of a selector's context now, and that they agree on it.
Agreed(s) ==
    /\ \A i, j \in Selection!Defining("contexts", s.context) :
          Selection!At(i).contexts[s.context] = Selection!At(j).contexts[s.context]
    /\ \A i, j \in Selection!Defining("clusters", Selection!ClusterNameOf(s.context)) :
          Selection!At(i).clusters[Selection!ClusterNameOf(s.context)]
              = Selection!At(j).clusters[Selection!ClusterNameOf(s.context)]
    /\ \A i, j \in Selection!Defining("users", Selection!UserNameOf(s.context)) :
          Selection!At(i).users[Selection!UserNameOf(s.context)] = Selection!At(j).users[Selection!UserNameOf(s.context)]
    /\ s.fingerprint \in {AnyCluster, Selection!Fingerprint(s.context)}

\* An entry of the sources as they look now holds what they say now; one of sources that
\* looked otherwise never comes back, because a signature only grows.
EntriesHold ==
    \A e \in validated :
        /\ e.signature \in Signatures /\ \A p \in Selection!Range(Places) : e.signature[p] =< version[p]
        /\ e.signature = version => Agreed(e.selector) /\ e.config = Selection!Config(e.selector)

SelectionInv == version \in Signatures /\ EntriesHold /\ Selection!SelectionIsAuthorized

\* Names that are not ambiguous are defined alike wherever they are defined.
LEMMA AcceptableAgrees == ASSUME NEW s, Selection!Acceptable(s) PROVE Agreed(s)
  BY DEF Selection!Acceptable, Agreed, Selection!Ambiguous

\* What the sources say changes with the sources only.
LEMMA SourcesDecide ==
    ASSUME UNCHANGED source, NEW s
    PROVE  (Agreed(s))' = Agreed(s) /\ Selection!Config(s)' = Selection!Config(s)
  BY DEF Agreed, Selection!Config, Selection!ClusterNameOf, Selection!UserNameOf, Selection!Fingerprint,
         Selection!Defined, Selection!Definition, Selection!Defining, Selection!Readable, Selection!At

LEMMA ChosenConfig ==
    ASSUME NEW s, NEW config, chosen' = [outcome |-> "config", selector |-> s, config |-> config],
           (Agreed(s))', config = Selection!Config(s)'
    PROVE  Selection!SelectionIsAuthorized'
  BY DEF Selection!SelectionIsAuthorized, Agreed

LEMMA SelectionInit == ASSUME Selection!Init PROVE SelectionInv
  BY DEF Selection!Init, SelectionInv, Signatures, EntriesHold, Selection!SelectionIsAuthorized, Selection!NoChoice

LEMMA EditStep == ASSUME SelectionInv, NEW p \in Selection!Range(Places), Selection!Edit(p) PROVE SelectionInv'
<1>1. version' = [version EXCEPT ![p] = @ + 1] /\ UNCHANGED validated /\ chosen' = Selection!NoChoice
  BY DEF Selection!Edit
<1>2. version' \in Signatures /\ version'[p] = version[p] + 1 /\ version[p] \in Nat
      /\ \A q \in Selection!Range(Places) : version[q] =< version'[q] /\ version'[q] \in Nat /\ version[q] \in Nat
  BY <1>1 DEF SelectionInv, Signatures
<1>3. ASSUME NEW e \in validated
      PROVE  /\ e.signature \in Signatures /\ \A q \in Selection!Range(Places) : e.signature[q] =< version'[q]
             /\ e.signature # version'
  <2>1. e.signature \in Signatures
          /\ \A q \in Selection!Range(Places) : e.signature[q] \in Nat /\ e.signature[q] =< version[q]
    BY DEF SelectionInv, EntriesHold, Signatures
  <2>2. \A q \in Selection!Range(Places) : e.signature[q] =< version'[q]
    BY <1>2, <2>1
  <2>3. e.signature[p] # version'[p]
    BY <1>2, <2>1
  <2> QED
    BY <2>1, <2>2, <2>3
<1>4. EntriesHold'
  BY <1>1, <1>3 DEF EntriesHold
<1>5. Selection!SelectionIsAuthorized'
  BY <1>1 DEF Selection!SelectionIsAuthorized, Selection!NoChoice
<1> QED
  BY <1>2, <1>4, <1>5 DEF SelectionInv

LEMMA SelectStep ==
    ASSUME SelectionInv, NEW s \in Selectors, Selection!UseValidated(s) \/ Selection!Refuse(s) \/ Selection!Validate(s)
     PROVE SelectionInv'
<1>1. UNCHANGED <<source, version>>
  BY DEF Selection!UseValidated, Selection!Refuse, Selection!Validate
<1>2. \A o : (Agreed(o))' = Agreed(o) /\ Selection!Config(o)' = Selection!Config(o)
  BY <1>1, SourcesDecide
<1>3. CASE Selection!UseValidated(s)
  <2>1. PICK e \in Selection!Found(s) : chosen' = [outcome |-> "config", selector |-> s, config |-> e.config]
    BY <1>3 DEF Selection!UseValidated
  <2>2. e \in validated /\ e.selector = s /\ e.signature = version
    BY DEF Selection!Found, Selection!Signature
  <2>3. Agreed(s) /\ e.config = Selection!Config(s)
    BY <2>2 DEF SelectionInv, EntriesHold
  <2>4. Selection!SelectionIsAuthorized'
    BY <1>2, <2>1, <2>3, ChosenConfig
  <2> QED
    BY <1>1, <1>2, <1>3, <2>4 DEF SelectionInv, EntriesHold, Selection!UseValidated
<1>4. CASE Selection!Refuse(s)
  <2>1. Selection!SelectionIsAuthorized'
    BY <1>4 DEF Selection!Refuse, Selection!SelectionIsAuthorized
  <2> QED
    BY <1>1, <1>2, <1>4, <2>1 DEF SelectionInv, EntriesHold, Selection!Refuse
<1>5. CASE Selection!Validate(s)
  <2> DEFINE new == [selector |-> s, signature |-> Selection!Signature,
                           config |-> Selection!Config(s), expiresAt |-> clock + TTL]
  <2>1. \A e \in validated' : e \in validated \/ e = new
    BY <1>5 DEF Selection!Validate
  <2>2. new.selector = s /\ new.signature = version /\ new.config = Selection!Config(s)
    BY DEF Selection!Signature
  <2> HIDE DEF new
  <2>3. Agreed(s)
    BY <1>5, AcceptableAgrees DEF Selection!Validate
  <2>4. \A p \in Selection!Range(Places) : version[p] =< version[p]
    BY DEF SelectionInv, Signatures
  <2>5. EntriesHold'
    BY <1>1, <1>2, <2>1, <2>2, <2>3, <2>4 DEF SelectionInv, EntriesHold
  <2>6. Selection!SelectionIsAuthorized'
    BY <1>2, <1>5, <2>3, ChosenConfig DEF Selection!Validate
  <2> QED
    BY <1>1, <2>5, <2>6 DEF SelectionInv
<1> QED
  BY <1>3, <1>4, <1>5

LEMMA SelectionStep == ASSUME SelectionInv, [Selection!Next]_(Selection!vars) PROVE SelectionInv'
<1>1. CASE Selection!Tick \/ Selection!Scan \/ UNCHANGED Selection!vars
  <2>1. UNCHANGED <<source, version, validated>>
    BY <1>1 DEF Selection!Tick, Selection!Scan, Selection!vars
  <2>2. \A o : (Agreed(o))' = Agreed(o) /\ Selection!Config(o)' = Selection!Config(o)
    BY <2>1, SourcesDecide
  <2>3. EntriesHold'
    BY <2>1, <2>2 DEF SelectionInv, EntriesHold
  <2>4. ASSUME Selection!Tick \/ Selection!Scan PROVE Selection!SelectionIsAuthorized'
    BY <2>4 DEF Selection!Tick, Selection!Scan, Selection!SelectionIsAuthorized, Selection!NoChoice
  <2>5. ASSUME UNCHANGED Selection!vars PROVE Selection!SelectionIsAuthorized'
    <3>1. Selection!SelectionIsAuthorized <=>
              (chosen.outcome = "config"
                   => Agreed(chosen.selector) /\ chosen.config = Selection!Config(chosen.selector))
      BY DEF Selection!SelectionIsAuthorized, Agreed
    <3>2. (chosen'.outcome = "config"
              => (Agreed(chosen.selector))' /\ chosen'.config = Selection!Config(chosen.selector)')
          => Selection!SelectionIsAuthorized'
      BY <2>5 DEF Selection!vars, Selection!SelectionIsAuthorized, Agreed
    <3>3. chosen' = chosen
      BY <2>5 DEF Selection!vars
    <3> QED
      BY <2>2, <3>1, <3>2, <3>3 DEF SelectionInv
  <2> QED
    BY <1>1, <2>1, <2>3, <2>4, <2>5 DEF SelectionInv
<1> QED
  BY <1>1, EditStep, SelectStep DEF Selection!Next

LEMMA SelectionIsSound ==
    Selection!Init /\ [][Selection!Next]_(Selection!vars) => []Selection!SelectionIsAuthorized
<1>1. SelectionInv => Selection!SelectionIsAuthorized
  BY DEF SelectionInv
<1> QED
  BY <1>1, SelectionInit, SelectionStep, PTL

-----------------------------------------------------------------------------
(* The exporter *)

Reach == [selected : SUBSET Contexts, answered : SUBSET Contexts]

\* What is cached of a collection is what that collection reached, and its last success
\* is a collection that reached a context; both ended before the one under way.
CachedHolds(c) ==
    /\ c.number =< begun /\ c.lastSuccess =< c.number
    /\ collecting.number > 0 => c.number < begun
    /\ c.number > 0 =>
          /\ c.up \cup c.down = reached[c.number].selected
          /\ c.up = reached[c.number].answered
          /\ c.lastSuccess > 0 => reached[c.lastSuccess].answered # {}

\* The collection under way is the last one begun; the contexts it selected are still
\* waited for, up, or down.
CollectingHolds ==
    /\ collecting.number = 0 => collecting = Exporter!Nothing
    /\ collecting.number > 0 =>
          /\ collecting.number = begun
          /\ collecting.waiting \cup collecting.up \cup collecting.down = reached[begun].selected
          /\ collecting.up = reached[begun].answered

ExporterInv ==
    /\ Exporter!TypeOK /\ CollectingHolds
    /\ CachedHolds(collection) /\ CachedHolds(scraped)

LEMMA ExporterInit == Exporter!Init => ExporterInv
<1> SUFFICES ASSUME Exporter!Init PROVE ExporterInv
  OBVIOUS
<1>1. MaxCollections \in Nat
  BY PartsAssumption DEF Exporter!ExporterAssumption
<1>2. Exporter!TypeOK
  BY <1>1 DEF Exporter!Init, Exporter!TypeOK, Exporter!Nothing, Exporter!Empty, Exporter!Collections, Exporter!Cached
<1>3. CollectingHolds /\ CachedHolds(collection) /\ CachedHolds(scraped)
  BY DEF Exporter!Init, CollectingHolds, CachedHolds, Exporter!Nothing, Exporter!Empty
<1> QED
  BY <1>2, <1>3 DEF ExporterInv

LEMMA CollectStep == ExporterInv /\ Exporter!Collect => ExporterInv'
<1> SUFFICES ASSUME ExporterInv, Exporter!Collect PROVE ExporterInv'
  OBVIOUS
<1>1. MaxCollections \in Nat /\ Allowlist \subseteq Contexts
  BY PartsAssumption DEF Exporter!ExporterAssumption
<1>2. PICK selected \in SUBSET Contexts, failed \in BOOLEAN :
        /\ collecting' = [number |-> begun + 1, waiting |-> selected, up |-> {}, down |-> {}, failed |-> failed]
        /\ reached' = [reached EXCEPT ![begun + 1] = [selected |-> selected, answered |-> {}]]
  BY DEF Exporter!Collect, Exporter!Selected
<1>3. begun' = begun + 1 /\ begun < MaxCollections /\ begun \in Nat /\ UNCHANGED <<server, collection, scraped>>
      /\ collecting = Exporter!Nothing /\ server # "down"
  BY <1>1 DEF Exporter!Collect, ExporterInv, Exporter!TypeOK
<1>4. begun + 1 \in 1..MaxCollections /\ begun + 1 \in 0..MaxCollections
  BY <1>1, <1>3
<1> DEFINE new == [selected |-> selected, answered |-> {}]
<1>5. new \in Reach
  BY DEF Reach
<1>6. reached \in [1..MaxCollections -> Reach]
  BY DEF ExporterInv, Exporter!TypeOK, Reach
<1>7. /\ reached' \in [1..MaxCollections -> Reach] /\ reached'[begun + 1] = new
      /\ \A n \in 1..MaxCollections : n # begun + 1 => reached'[n] = reached[n]
  BY <1>2, <1>4, <1>5, <1>6
<1>8. Exporter!TypeOK'
  BY <1>2, <1>3, <1>4, <1>7 DEF ExporterInv, Exporter!TypeOK, Exporter!Collections, Reach
<1>9. CollectingHolds'
  BY <1>2, <1>3, <1>7 DEF CollectingHolds
<1>10. ASSUME NEW c \in Exporter!Cached, CachedHolds(c)
       PROVE  /\ c.number =< begun' /\ c.lastSuccess =< c.number
              /\ collecting'.number > 0 => c.number < begun'
              /\ c.number > 0 =>
                    /\ c.up \cup c.down = reached'[c.number].selected
                    /\ c.up = reached'[c.number].answered
                    /\ c.lastSuccess > 0 => reached'[c.lastSuccess].answered # {}
  <2>1. c.number =< begun /\ c.lastSuccess =< c.number
        /\ c.number \in 0..MaxCollections /\ c.lastSuccess \in 0..MaxCollections
    BY <1>10 DEF CachedHolds, Exporter!Cached
  <2>2. c.number > 0 => c.number \in 1..MaxCollections /\ c.number # begun + 1
    BY <1>1, <1>3, <2>1
  <2>3. c.lastSuccess > 0 => c.lastSuccess \in 1..MaxCollections /\ c.lastSuccess # begun + 1
    BY <1>1, <1>3, <2>1
  <2> QED
    BY <1>1, <1>3, <1>7, <1>10, <2>1, <2>2, <2>3 DEF CachedHolds
<1>11. CachedHolds(collection)' /\ CachedHolds(scraped)'
  <2>1. collection \in Exporter!Cached /\ scraped \in Exporter!Cached /\ CachedHolds(collection) /\ CachedHolds(scraped)
    BY DEF ExporterInv, Exporter!TypeOK
  <2> QED
    BY <1>3, <1>10, <2>1 DEF CachedHolds
<1> QED
  BY <1>8, <1>9, <1>11 DEF ExporterInv

\* A context is reached, or found unreachable.
LEMMA ReachStep ==
    ASSUME ExporterInv, NEW c \in Contexts, Exporter!Up(c) \/ Exporter!Down(c) PROVE ExporterInv'
<1> DEFINE n == collecting.number
<1>1. MaxCollections \in Nat /\ c \in collecting.waiting /\ UNCHANGED <<server, begun, collection, scraped>>
  BY PartsAssumption DEF Exporter!ExporterAssumption, Exporter!Up, Exporter!Down
<1>2. collecting \in Exporter!Collections /\ reached \in [1..MaxCollections -> Reach] /\ begun \in 0..MaxCollections
  BY DEF ExporterInv, Exporter!TypeOK, Reach
<1>3. n \in 1..MaxCollections /\ n = begun
  BY <1>1, <1>2 DEF ExporterInv, CollectingHolds, Exporter!Nothing, Exporter!Collections
<1>4. /\ collecting.waiting \cup collecting.up \cup collecting.down = reached[n].selected
      /\ collecting.up = reached[n].answered
  BY <1>3 DEF ExporterInv, CollectingHolds
<1>5. /\ collecting' \in Exporter!Collections /\ collecting'.number = n
      /\ collecting'.waiting = collecting.waiting \ {c}
      /\ \/ /\ collecting'.up = collecting.up \cup {c} /\ collecting'.down = collecting.down
            /\ reached' = [reached EXCEPT ![n].answered = @ \cup {c}]
         \/ collecting'.up = collecting.up /\ collecting'.down = collecting.down \cup {c} /\ reached' = reached
  <2>1. CASE Exporter!Up(c)
    BY <1>2, <2>1 DEF Exporter!Up, Exporter!Collections
  <2>2. CASE Exporter!Down(c)
    BY <1>2, <2>2 DEF Exporter!Down, Exporter!Collections
  <2> QED
    BY <2>1, <2>2
<1>6. /\ reached' \in [1..MaxCollections -> Reach] /\ reached'[n].selected = reached[n].selected
      /\ collecting'.up = reached'[n].answered
      /\ \A k \in 1..MaxCollections : k # n => reached'[k] = reached[k]
  <2>1. CASE reached' = reached /\ collecting'.up = collecting.up
    BY <1>2, <1>4, <1>5, <2>1
  <2>2. CASE reached' = [reached EXCEPT ![n].answered = @ \cup {c}] /\ collecting'.up = collecting.up \cup {c}
    <3> DEFINE new == [reached[n] EXCEPT !.answered = @ \cup {c}]
    <3>1. reached[n] \in Reach
      BY <1>2, <1>3
    <3>2. new \in Reach /\ new.selected = reached[n].selected /\ new.answered = reached[n].answered \cup {c}
      BY <3>1 DEF Reach
    <3>3. reached' = [reached EXCEPT ![n] = new]
      BY <2>2
    <3> HIDE DEF new
    <3> QED
      BY <1>2, <1>3, <1>4, <2>2, <3>2, <3>3
  <2> QED
    BY <1>5, <2>1, <2>2
<1> HIDE DEF n
<1>7. Exporter!TypeOK'
  BY <1>1, <1>5, <1>6 DEF ExporterInv, Exporter!TypeOK, Reach
<1>8. collecting'.waiting \cup collecting'.up \cup collecting'.down = reached'[n].selected
  BY <1>1, <1>4, <1>5, <1>6
<1>9. CollectingHolds'
  BY <1>1, <1>3, <1>5, <1>6, <1>8 DEF CollectingHolds
<1>10. ASSUME NEW d \in Exporter!Cached, CachedHolds(d)
       PROVE  /\ d.number < n /\ d.lastSuccess =< d.number
              /\ d.number > 0 =>
                    /\ d.up \cup d.down = reached'[d.number].selected
                    /\ d.up = reached'[d.number].answered
                    /\ d.lastSuccess > 0 => reached'[d.lastSuccess].answered # {}
  <2>1. d.number < n /\ d.lastSuccess =< d.number
        /\ d.number \in 0..MaxCollections /\ d.lastSuccess \in 0..MaxCollections
    BY <1>3, <1>10 DEF CachedHolds, Exporter!Cached, n
  <2>2. d.number > 0 => d.number \in 1..MaxCollections /\ d.number # n
    BY <1>1, <1>3, <2>1
  <2>3. d.lastSuccess > 0 => d.lastSuccess \in 1..MaxCollections /\ d.lastSuccess # n
    BY <1>1, <1>3, <2>1
  <2> QED
    BY <1>6, <1>10, <2>1, <2>2, <2>3 DEF CachedHolds
<1>11. CachedHolds(collection)' /\ CachedHolds(scraped)'
  <2>1. collection \in Exporter!Cached /\ scraped \in Exporter!Cached /\ CachedHolds(collection) /\ CachedHolds(scraped)
    BY DEF ExporterInv, Exporter!TypeOK
  <2>2. \A d \in Exporter!Cached : CachedHolds(d) => d.number =< begun
    BY <1>3, <1>10 DEF Exporter!Cached
  <2> QED
    BY <1>1, <1>3, <1>10, <2>1, <2>2 DEF CachedHolds
<1> QED
  BY <1>7, <1>9, <1>11 DEF ExporterInv

LEMMA FinishStep == ExporterInv /\ Exporter!Finish => ExporterInv'
<1> SUFFICES ASSUME ExporterInv, Exporter!Finish PROVE ExporterInv'
  OBVIOUS
<1> DEFINE n == collecting.number
           success == IF collecting.up = {} THEN collection.lastSuccess ELSE n
<1>1. /\ MaxCollections \in Nat /\ collecting # Exporter!Nothing /\ collecting.waiting = {}
      /\ collecting' = Exporter!Nothing /\ UNCHANGED <<server, begun, reached, scraped>>
      /\ collection' = [number |-> n, up |-> collecting.up, down |-> collecting.down, lastSuccess |-> success]
  BY PartsAssumption DEF Exporter!ExporterAssumption, Exporter!Finish
<1>2. collecting \in Exporter!Collections /\ collection \in Exporter!Cached /\ scraped \in Exporter!Cached
      /\ begun \in 0..MaxCollections
  BY DEF ExporterInv, Exporter!TypeOK
<1>3. /\ n \in 1..MaxCollections /\ n = begun
      /\ collecting.up \cup collecting.down = reached[n].selected /\ collecting.up = reached[n].answered
  BY <1>1, <1>2 DEF ExporterInv, CollectingHolds, Exporter!Collections
<1>4. /\ collection.number < n /\ collection.lastSuccess =< collection.number
      /\ collection.lastSuccess \in 0..MaxCollections
      /\ collection.number \in 0..MaxCollections
      /\ collection.lastSuccess > 0 => reached[collection.lastSuccess].answered # {}
  BY <1>2, <1>3 DEF ExporterInv, CachedHolds, Exporter!Cached
<1>5. success \in 0..MaxCollections /\ success =< n /\ (success > 0 => reached[success].answered # {})
  BY <1>1, <1>3, <1>4
<1>6. /\ collection'.number = n /\ collection'.up = collecting.up /\ collection'.down = collecting.down
      /\ collection'.lastSuccess = success /\ collection' \in Exporter!Cached
  BY <1>1, <1>2, <1>3, <1>5 DEF Exporter!Cached, Exporter!Collections
<1> HIDE DEF n, success
<1>7. Exporter!Nothing \in Exporter!Collections /\ Exporter!Nothing.number = 0
  BY <1>1 DEF Exporter!Nothing, Exporter!Collections
<1>8. Exporter!TypeOK'
  BY <1>1, <1>6, <1>7 DEF ExporterInv, Exporter!TypeOK
<1>9. CachedHolds(collection)'
  BY <1>1, <1>3, <1>5, <1>6, <1>7 DEF CachedHolds
<1>10. CachedHolds(scraped)' /\ CollectingHolds'
  BY <1>1, <1>7 DEF ExporterInv, CachedHolds, CollectingHolds
<1> QED
  BY <1>8, <1>9, <1>10 DEF ExporterInv

LEMMA ExporterStep == ExporterInv /\ [Exporter!Next]_(Exporter!vars) => ExporterInv'
<1> SUFFICES ASSUME ExporterInv, [Exporter!Next]_(Exporter!vars) PROVE ExporterInv'
  OBVIOUS
<1>1. CASE Exporter!Start \/ Exporter!Scrape \/ Exporter!Close \/ UNCHANGED Exporter!vars
  <2>1. UNCHANGED <<collecting, begun, collection, reached>> /\ scraped' \in {scraped, collection}
        /\ server' \in {"down", "listening", "closed"}
    BY <1>1 DEF Exporter!Start, Exporter!Scrape, Exporter!Close, Exporter!vars, ExporterInv, Exporter!TypeOK
  <2>2. Exporter!TypeOK'
    BY <2>1 DEF ExporterInv, Exporter!TypeOK
  <2>3. CachedHolds(collection)' /\ CachedHolds(scraped)' /\ CollectingHolds'
    <3>1. CASE scraped' = scraped
      BY <2>1, <3>1 DEF ExporterInv, CachedHolds, CollectingHolds
    <3>2. CASE scraped' = collection
      BY <2>1, <3>2 DEF ExporterInv, CachedHolds, CollectingHolds
    <3> QED
      BY <2>1, <3>1, <3>2
  <2> QED
    BY <2>2, <2>3 DEF ExporterInv
<1>2. CASE Exporter!TimerFires
  BY <1>2, CollectStep DEF Exporter!TimerFires
<1> QED
  BY <1>1, <1>2, ReachStep, FinishStep DEF Exporter!Next

LEMMA ExporterCorrect == Exporter!Init /\ [][Exporter!Next]_(Exporter!vars) => []ExporterInv
  BY ExporterInit, ExporterStep, PTL

LEMMA ExporterFacts == ExporterInv => Exporter!TypeOK /\ Exporter!NeverCleanWhenCut
  BY DEF ExporterInv, CachedHolds, Exporter!NeverCleanWhenCut

-----------------------------------------------------------------------------
(* One posture collection *)

LEMMA SameCount == \A S : Posture!Cardinality(S) = Cardinality(S)
  BY DEF Posture!Cardinality, Cardinality

LEMMA PostureConstants ==
    /\ IsFiniteSet(Lanes) /\ Length \in [Posture!Sources -> Nat \ {0}] /\ Lists \subseteq Posture!Sources
    /\ Sizes \subseteq Nat \ {0} /\ PosturePages \in Nat \ {0} /\ PostureBytes \in Nat \ {0}
    /\ Stages \in Seq(SUBSET Posture!Sources) /\ Stages # <<>> /\ Cardinality(Lanes) \in Nat
<1>1. IsFiniteSet(Lanes)
  BY PartsAssumption DEF Posture!BoundAssumption, Posture!IsFiniteSet, IsFiniteSet
<1>2. Cardinality(Lanes) \in Nat
  BY <1>1, FS_CardinalityType
<1> QED
  BY <1>1, <1>2, PartsAssumption DEF Posture!BoundAssumption

LaneStates == [source : Posture!Sources \cup {"none"}, pages : 0..PosturePages, asking : BOOLEAN]

Said == [status : {"unread", "available", "denied", "absent", "error"}, partial : BOOLEAN, pages : 0..PosturePages]

\* A lane that reads has a source, of which it lacks a page; what it waits for is outstanding.
LaneHolds(l) ==
    /\ lane[l] # Posture!Idle => lane[l].source \in Posture!Sources
    /\ lane[l].pages < PosturePages
    /\ lane[l].source \in Lists => lane[l].pages < Length[lane[l].source]
    /\ lane[l].asking => l \in pending.asked

\* What is not said to be partial was read to its end; what was not read is not said of.
SaidHolds(said, s) ==
    /\ said.status = "unread" => said = Posture!Unread
    /\ said.status # "unread" /\ ~said.partial =>
          said.status = "available" /\ (s \in Lists => said.pages = Length[s])

PostureInv ==
    /\ Posture!TypeOK
    /\ \A l \in Lanes : LaneHolds(l)
    /\ \A s \in Posture!Sources : SaidHolds(report[s], s)
    /\ accepted \in Nat /\ accepted =< PostureBytes /\ accepted + budget =< PostureBytes
    /\ Cardinality(pending.asked) + pending.abandoned =< Cardinality(Lanes)

LEMMA PostureInit == Posture!Init => PostureInv
<1> SUFFICES ASSUME Posture!Init PROVE PostureInv
  OBVIOUS
<1>1. 1 \in DOMAIN Stages
  BY PostureConstants
<1>2. Posture!Idle \in LaneStates /\ Posture!Unread \in Said /\ Posture!Idle.pages = 0 /\ ~Posture!Idle.asking
      /\ Posture!Unread.status = "unread"
  BY PostureConstants DEF Posture!Idle, Posture!Unread, LaneStates, Said
<1>3. Posture!TypeOK
  <2>1. pending \in [asked : SUBSET Lanes, abandoned : 0..Posture!Cardinality(Lanes)]
    <3>1. Posture!Cardinality(Lanes) \in Nat
      BY PostureConstants, SameCount
    <3> QED
      BY <3>1 DEF Posture!Init
  <2>2. lane \in [Lanes -> LaneStates] /\ report \in [Posture!Sources -> Said]
    BY <1>2 DEF Posture!Init
  <2>3. stage \in DOMAIN Stages /\ budget \in Int /\ overdue \in BOOLEAN
    <3>1. stage = 1 /\ budget = PostureBytes /\ overdue = FALSE
      BY DEF Posture!Init
    <3>2. PostureBytes \in Int
      BY PostureConstants
    <3> QED
      BY <1>1, <3>1, <3>2
  <2> QED
    BY <2>1, <2>2, <2>3 DEF Posture!TypeOK, LaneStates, Said
<1>4. \A l \in Lanes : LaneHolds(l)
  BY <1>2, PostureConstants DEF Posture!Init, LaneHolds
<1>5. \A s \in Posture!Sources : SaidHolds(report[s], s)
  BY <1>2 DEF Posture!Init, SaidHolds
<1>6. Cardinality(pending.asked) + pending.abandoned = 0
  BY FS_EmptySet DEF Posture!Init
<1> QED
  BY <1>3, <1>4, <1>5, <1>6, PostureConstants DEF Posture!Init, PostureInv

\* What the typed parts are, in the names of this module.
LEMMA PostureTypes ==
    ASSUME PostureInv
    PROVE  /\ lane \in [Lanes -> LaneStates] /\ report \in [Posture!Sources -> Said] /\ budget \in Int
           /\ pending.asked \in SUBSET Lanes /\ pending.abandoned \in Nat /\ IsFiniteSet(pending.asked)
           /\ pending = [asked |-> pending.asked, abandoned |-> pending.abandoned]
           /\ Cardinality(pending.asked) \in Nat /\ stage \in DOMAIN Stages
<1>1. /\ lane \in [Lanes -> LaneStates] /\ report \in [Posture!Sources -> Said] /\ budget \in Int
      /\ pending \in [asked : SUBSET Lanes, abandoned : 0..Cardinality(Lanes)] /\ stage \in DOMAIN Stages
  BY SameCount DEF PostureInv, Posture!TypeOK, LaneStates, Said
<1>2. IsFiniteSet(pending.asked)
  BY <1>1, PostureConstants, FS_Subset
<1> QED
  BY <1>1, <1>2, FS_CardinalityType

\* What a step makes of one lane, and of what is said of the source it read.
LEMMA PostureKept ==
    ASSUME PostureInv, NEW l \in Lanes, NEW new \in LaneStates,
           lane' = [lane EXCEPT ![l] = new],
           \A k \in pending.asked : k # l => k \in pending'.asked,
           new # Posture!Idle => new.source \in Posture!Sources,
           new.pages < PosturePages,
           new.source \in Lists => new.pages < Length[new.source],
           new.asking => l \in pending'.asked
    PROVE  lane' \in [Lanes -> LaneStates] /\ (\A k \in Lanes : LaneHolds(k)')
<1>1. lane \in [Lanes -> LaneStates] /\ \A k \in Lanes : LaneHolds(k)
  BY PostureTypes DEF PostureInv
<1>2. /\ lane' \in [Lanes -> LaneStates] /\ lane'[l] = new
      /\ \A k \in Lanes : k # l => lane'[k] = lane[k]
  BY <1>1
<1>3. ASSUME NEW k \in Lanes PROVE LaneHolds(k)'
  <2>1. CASE k = l
    BY <1>2, <2>1 DEF LaneHolds
  <2>2. CASE k # l
    BY <1>1, <1>2, <2>2 DEF LaneHolds
  <2> QED
    BY <2>1, <2>2
<1> QED
  BY <1>2, <1>3

LEMMA ReportStep ==
    ASSUME PostureInv, NEW l \in Lanes, lane[l] # Posture!Idle, NEW status, NEW partial, NEW got,
           [status |-> status, partial |-> partial, pages |-> got] \in Said,
           SaidHolds([status |-> status, partial |-> partial, pages |-> got], lane[l].source),
           Posture!Report(l, status, partial, got),
           \A k \in pending.asked : k # l => k \in pending'.asked
    PROVE  /\ lane' \in [Lanes -> LaneStates] /\ \A k \in Lanes : LaneHolds(k)'
           /\ report' \in [Posture!Sources -> Said] /\ \A s \in Posture!Sources : SaidHolds(report'[s], s)
<1> DEFINE said == [status |-> status, partial |-> partial, pages |-> got]
           s0 == lane[l].source
<1>1. lane \in [Lanes -> LaneStates] /\ report \in [Posture!Sources -> Said]
      /\ \A s \in Posture!Sources : SaidHolds(report[s], s)
  BY PostureTypes DEF PostureInv
<1>2. s0 \in Posture!Sources
  BY DEF PostureInv, LaneHolds
<1>3. report' = [report EXCEPT ![s0] = said] /\ lane' = [lane EXCEPT ![l] = Posture!Idle]
  BY DEF Posture!Report
<1>4. Posture!Idle \in LaneStates /\ Posture!Idle.pages = 0 /\ ~Posture!Idle.asking
  BY PostureConstants DEF Posture!Idle, LaneStates
<1>5. Posture!Idle.source \in Lists => 0 < Length[Posture!Idle.source]
  BY PostureConstants
<1>6. lane' \in [Lanes -> LaneStates] /\ (\A k \in Lanes : LaneHolds(k)')
  <2>1. Posture!Idle.pages < PosturePages
    BY <1>4, PostureConstants
  <2>2. Posture!Idle.source \in Lists => Posture!Idle.pages < Length[Posture!Idle.source]
    BY <1>4, <1>5
  <2> QED
    BY <1>3, <1>4, <2>1, <2>2, PostureKept
<1>7. said \in Said /\ SaidHolds(said, s0)
  OBVIOUS
<1> HIDE DEF said, s0
<1>8. report' \in [Posture!Sources -> Said] /\ \A s \in Posture!Sources : SaidHolds(report'[s], s)
  BY <1>1, <1>2, <1>3, <1>7
<1> QED
  BY <1>6, <1>8

\* The invariant from its parts.
LEMMA PostureAgain ==
    ASSUME lane' \in [Lanes -> LaneStates], \A k \in Lanes : LaneHolds(k)',
           report' \in [Posture!Sources -> Said], \A s \in Posture!Sources : SaidHolds(report'[s], s),
           stage' \in DOMAIN Stages, budget' \in Int, overdue' \in BOOLEAN,
           pending' = [asked |-> pending'.asked, abandoned |-> pending'.abandoned],
           pending'.asked \in SUBSET Lanes, pending'.abandoned \in Nat,
           Cardinality(pending'.asked) + pending'.abandoned =< Cardinality(Lanes),
           accepted' \in Nat, accepted' =< PostureBytes, accepted' + budget' =< PostureBytes
    PROVE  PostureInv'
<1>1. IsFiniteSet(pending'.asked)
  BY PostureConstants, FS_Subset
<1>2. Cardinality(pending'.asked) \in Nat
  BY <1>1, FS_CardinalityType
<1>3. pending' \in [asked : SUBSET Lanes, abandoned : 0..Cardinality(Lanes)]
  BY <1>2, PostureConstants
<1>4. Posture!TypeOK'
  BY <1>3, SameCount DEF Posture!TypeOK, LaneStates, Said
<1> QED
  BY <1>4 DEF PostureInv

LEMMA TakeStep == ASSUME PostureInv, NEW l \in Lanes, Posture!Take(l) PROVE PostureInv'
<1>1. PICK s \in Stages[stage] :
        /\ lane' = [lane EXCEPT ![l] = [source |-> s, pages |-> 0, asking |-> FALSE]]
        /\ UNCHANGED <<stage, pending, budget, overdue, report, accepted>>
  BY DEF Posture!Take
<1>2. s \in Posture!Sources
  BY PostureTypes, PostureConstants
<1> DEFINE new == [source |-> s, pages |-> 0, asking |-> FALSE]
<1>3. new \in LaneStates /\ new.source = s /\ new.pages = 0 /\ ~new.asking
  BY <1>2, PostureConstants DEF LaneStates
<1>4. lane' = [lane EXCEPT ![l] = new]
  BY <1>1
<1> HIDE DEF new
<1>5. new.pages < PosturePages /\ (new.source \in Lists => new.pages < Length[new.source])
  BY <1>2, <1>3, PostureConstants
<1>6. lane' \in [Lanes -> LaneStates] /\ (\A k \in Lanes : LaneHolds(k)')
  BY <1>1, <1>2, <1>3, <1>4, <1>5, PostureKept
<1> QED
  BY <1>1, <1>6, PostureAgain, PostureTypes DEF PostureInv, Posture!TypeOK

LEMMA AskStep == ASSUME PostureInv, NEW l \in Lanes, Posture!Ask(l) PROVE PostureInv'
<1>1. lane[l] # Posture!Idle /\ ~lane[l].asking /\ UNCHANGED <<stage, budget, overdue, accepted>>
  BY DEF Posture!Ask
<1>2. CASE Posture!MayAsk
  <2>1. /\ lane' = [lane EXCEPT ![l].asking = TRUE]
        /\ pending' = [pending EXCEPT !.asked = @ \cup {l}] /\ UNCHANGED report
    BY <1>2 DEF Posture!Ask
  <2>2. Cardinality(pending.asked) + pending.abandoned < Cardinality(Lanes)
    BY <1>2, SameCount DEF Posture!MayAsk, Posture!Outstanding
  <2>3. pending'.asked = pending.asked \cup {l} /\ pending'.abandoned = pending.abandoned
        /\ pending' = [asked |-> pending'.asked, abandoned |-> pending'.abandoned]
    BY <2>1, PostureTypes
  <2> DEFINE new == [lane[l] EXCEPT !.asking = TRUE]
  <2>4. lane[l] \in LaneStates
    BY PostureTypes
  <2>5. new \in LaneStates /\ new.source = lane[l].source /\ new.pages = lane[l].pages
    BY <2>4 DEF LaneStates
  <2>6. lane' = [lane EXCEPT ![l] = new]
    BY <2>1
  <2> HIDE DEF new
  <2>7. LaneHolds(l)
    BY DEF PostureInv
  <2>8. lane' \in [Lanes -> LaneStates] /\ (\A k \in Lanes : LaneHolds(k)')
    BY <1>1, <2>3, <2>5, <2>6, <2>7, PostureKept DEF LaneHolds
  <2>9. Cardinality(pending'.asked) =< Cardinality(pending.asked) + 1 /\ Cardinality(pending'.asked) \in Nat
    <3>1. IsFiniteSet(pending.asked) /\ Cardinality(pending.asked) \in Nat
      BY PostureTypes
    <3>2. IsFiniteSet(pending'.asked)
      BY <2>3, <3>1, FS_AddElement
    <3>3. Cardinality(pending'.asked) \in Nat
      BY <3>2, FS_CardinalityType
    <3>4. Cardinality(pending.asked \cup {l}) =
            IF l \in pending.asked THEN Cardinality(pending.asked) ELSE Cardinality(pending.asked) + 1
      BY <3>1, FS_AddElement
    <3>5. Cardinality(pending'.asked) = Cardinality(pending.asked \cup {l})
      BY <2>3
    <3> QED
      BY <3>1, <3>3, <3>4, <3>5
  <2>10. Cardinality(pending'.asked) + pending'.abandoned =< Cardinality(Lanes)
    BY <2>2, <2>3, <2>9, PostureTypes, PostureConstants
  <2> QED
    BY <1>1, <2>1, <2>3, <2>8, <2>10, PostureAgain, PostureTypes DEF PostureInv, Posture!TypeOK
<1>3. CASE ~Posture!MayAsk
  <2>1. Posture!Report(l, "error", TRUE, lane[l].pages) /\ UNCHANGED pending
    BY <1>3 DEF Posture!Ask
  <2>2. lane[l].pages \in 0..PosturePages
    BY PostureTypes DEF LaneStates
  <2>3. /\ lane' \in [Lanes -> LaneStates] /\ (\A k \in Lanes : LaneHolds(k)')
        /\ report' \in [Posture!Sources -> Said] /\ \A s \in Posture!Sources : SaidHolds(report'[s], s)
    BY <1>1, <2>1, <2>2, ReportStep DEF Said, SaidHolds
  <2> QED
    BY <1>1, <2>1, <2>3, PostureAgain, PostureTypes DEF PostureInv, Posture!TypeOK
<1> QED
  BY <1>2, <1>3

\* An answer, or its absence: a request is no longer asked, and may be left behind.
LEMMA PendingStep ==
    ASSUME PostureInv, NEW l \in Lanes, lane[l].asking, NEW more \in {0, 1},
           pending' = [asked |-> pending.asked \ {l}, abandoned |-> pending.abandoned + more]
    PROVE  /\ pending' = [asked |-> pending'.asked, abandoned |-> pending'.abandoned]
           /\ pending'.asked \in SUBSET Lanes /\ pending'.abandoned \in Nat
           /\ Cardinality(pending'.asked) + pending'.abandoned =< Cardinality(Lanes)
           /\ \A k \in pending.asked : k # l => k \in pending'.asked
           /\ lane[l].source \in Posture!Sources /\ lane[l] # Posture!Idle
<1>1. l \in pending.asked /\ (lane[l] # Posture!Idle => lane[l].source \in Posture!Sources)
  BY DEF PostureInv, LaneHolds
<1>2. IsFiniteSet(pending.asked) /\ Cardinality(pending.asked) \in Nat /\ pending.abandoned \in Nat
      /\ pending.asked \in SUBSET Lanes
  BY PostureTypes
<1>3. Cardinality(pending.asked \ {l}) = Cardinality(pending.asked) - 1
  BY <1>1, <1>2, FS_RemoveElement
<1>4. Cardinality(pending.asked) + pending.abandoned =< Cardinality(Lanes)
  BY DEF PostureInv
<1>5. lane[l] # Posture!Idle
  BY DEF Posture!Idle
<1> QED
  BY <1>1, <1>2, <1>3, <1>4, <1>5, PostureConstants

LEMMA LessAsked ==
    ASSUME PostureInv, NEW l \in Lanes, pending' = [pending EXCEPT !.asked = @ \ {l}]
    PROVE  pending' = [asked |-> pending.asked \ {l}, abandoned |-> pending.abandoned + 0]
<1> DEFINE a == pending.asked
           b == pending.abandoned
<1>1. pending = [asked |-> a, abandoned |-> b] /\ b \in Nat
  BY PostureTypes
<1> HIDE DEF a, b
<1>2. pending' = [asked |-> a \ {l}, abandoned |-> b]
  BY <1>1
<1>3. b + 0 = b
  BY <1>1
<1> QED
  BY <1>2, <1>3 DEF a, b

LEMMA PageStep == ASSUME PostureInv, NEW l \in Lanes, Posture!Page(l) PROVE PostureInv'
<1> DEFINE s == lane[l].source
           pages1 == lane[l].pages + 1
<1>1. PICK size \in Sizes :
        /\ lane[l].asking /\ pending' = [pending EXCEPT !.asked = @ \ {l}] /\ budget' = budget - size
        /\ IF size > MaxReadBytes \/ Posture!Spent(size)
           THEN Posture!Report(l, "error", TRUE, lane[l].pages) /\ UNCHANGED accepted
           ELSE /\ accepted' = accepted + size
                /\ IF s \notin Lists \/ pages1 = Length[s] \/ pages1 = PosturePages
                   THEN Posture!Report(l, "available", s \in Lists /\ pages1 < Length[s], pages1)
                   ELSE lane' = [lane EXCEPT ![l].pages = pages1, ![l].asking = FALSE] /\ UNCHANGED report
        /\ UNCHANGED <<stage, overdue>>
  BY DEF Posture!Page, Posture!Answered
<1>2. pending' = [asked |-> pending.asked \ {l}, abandoned |-> pending.abandoned + 0]
  BY <1>1, LessAsked
<1>3. /\ pending' = [asked |-> pending'.asked, abandoned |-> pending'.abandoned]
      /\ pending'.asked \in SUBSET Lanes /\ pending'.abandoned \in Nat
      /\ Cardinality(pending'.asked) + pending'.abandoned =< Cardinality(Lanes)
      /\ \A k \in pending.asked : k # l => k \in pending'.asked
      /\ s \in Posture!Sources /\ lane[l] # Posture!Idle
  BY <1>1, <1>2, PendingStep
<1>4. /\ lane[l] \in LaneStates /\ lane[l].pages \in 0..PosturePages /\ lane[l].pages < PosturePages
      /\ s \in Lists => lane[l].pages < Length[s]
      /\ size \in Nat \ {0} /\ budget \in Int /\ Length[s] \in Nat \ {0} /\ PosturePages \in Nat \ {0}
  BY <1>3, PostureTypes, PostureConstants DEF PostureInv, LaneHolds, LaneStates
<1>5. budget' \in Int /\ accepted \in Nat /\ accepted =< PostureBytes /\ accepted + budget =< PostureBytes
      /\ PostureBytes \in Nat
  BY <1>1, <1>4, PostureConstants DEF PostureInv
<1>6. accepted' \in Nat /\ accepted' =< PostureBytes /\ accepted' + budget' =< PostureBytes
  <2>1. CASE size > MaxReadBytes \/ Posture!Spent(size)
    <3>1. accepted' = accepted
      BY <1>1, <2>1
    <3> QED
      BY <1>1, <1>4, <1>5, <3>1
  <2>2. CASE ~(size > MaxReadBytes \/ Posture!Spent(size))
    <3>1. accepted' = accepted + size /\ ~(budget - size < 0)
      BY <1>1, <2>2 DEF Posture!Spent
    <3> QED
      BY <1>1, <1>4, <1>5, <3>1
  <2> QED
    BY <2>1, <2>2
<1>7. /\ lane' \in [Lanes -> LaneStates] /\ (\A k \in Lanes : LaneHolds(k)')
      /\ report' \in [Posture!Sources -> Said] /\ (\A k \in Posture!Sources : SaidHolds(report'[k], k))
  <2>1. CASE Posture!Report(l, "error", TRUE, lane[l].pages)
    BY <1>3, <1>4, <2>1, ReportStep DEF Said, SaidHolds
  <2>2. CASE /\ s \notin Lists \/ pages1 = Length[s] \/ pages1 = PosturePages
             /\ Posture!Report(l, "available", s \in Lists /\ pages1 < Length[s], pages1)
    <3> DEFINE cut == s \in Lists /\ pages1 < Length[s]
               said == [status |-> "available", partial |-> cut, pages |-> pages1]
    <3>1. cut \in BOOLEAN /\ pages1 \in 0..PosturePages
      BY <1>4
    <3>2. said \in Said
      BY <3>1 DEF Said
    <3>3. SaidHolds(said, s)
      <4>1. ~cut /\ s \in Lists => pages1 = Length[s]
        BY <1>4
      <4> HIDE DEF cut, pages1
      <4> QED
        BY <4>1 DEF SaidHolds
    <3> QED
      BY <1>3, <2>2, <3>2, <3>3, ReportStep
  <2>3. CASE /\ ~(s \notin Lists \/ pages1 = Length[s] \/ pages1 = PosturePages)
             /\ lane' = [lane EXCEPT ![l].pages = pages1, ![l].asking = FALSE] /\ UNCHANGED report
    <3> DEFINE new == [lane[l] EXCEPT !.pages = pages1, !.asking = FALSE]
    <3>1. pages1 \in 0..PosturePages /\ pages1 < PosturePages /\ pages1 < Length[s]
      BY <1>4, <2>3
    <3>2. new \in LaneStates /\ new.source = s /\ new.pages = pages1 /\ ~new.asking
      BY <1>4, <3>1 DEF LaneStates
    <3>3. lane' = [lane EXCEPT ![l] = new]
      BY <2>3
    <3> HIDE DEF new
    <3>4. lane' \in [Lanes -> LaneStates] /\ (\A k \in Lanes : LaneHolds(k)')
      BY <1>3, <3>1, <3>2, <3>3, PostureKept
    <3> QED
      BY <2>3, <3>4, PostureTypes DEF PostureInv
  <2> QED
    BY <1>1, <2>1, <2>2, <2>3
<1>8. stage' \in DOMAIN Stages /\ overdue' \in BOOLEAN
  BY <1>1 DEF PostureInv, Posture!TypeOK
<1> QED
  BY <1>3, <1>5, <1>6, <1>7, <1>8, PostureAgain

LEMMA UnansweredStep ==
    ASSUME PostureInv, NEW l \in Lanes, Posture!Refused(l) \/ Posture!GiveUp(l) PROVE PostureInv'
<1>1. PICK status \in {"denied", "absent", "error"}, more \in {0, 1} :
        /\ lane[l].asking /\ Posture!Report(l, status, TRUE, lane[l].pages)
        /\ pending' = [asked |-> pending.asked \ {l}, abandoned |-> pending.abandoned + more]
        /\ UNCHANGED <<stage, budget, overdue, accepted>>
  <2>1. CASE Posture!Refused(l)
    <3>1. pending' = [asked |-> pending.asked \ {l}, abandoned |-> pending.abandoned + 0]
      BY <2>1, LessAsked DEF Posture!Refused, Posture!Answered
    <3> QED
      BY <2>1, <3>1 DEF Posture!Refused
  <2>2. CASE Posture!GiveUp(l)
    BY <2>2 DEF Posture!GiveUp
  <2> QED
    BY <2>1, <2>2
<1>2. /\ pending' = [asked |-> pending'.asked, abandoned |-> pending'.abandoned]
      /\ pending'.asked \in SUBSET Lanes /\ pending'.abandoned \in Nat
      /\ Cardinality(pending'.asked) + pending'.abandoned =< Cardinality(Lanes)
      /\ \A k \in pending.asked : k # l => k \in pending'.asked
      /\ lane[l] # Posture!Idle
  BY <1>1, PendingStep
<1>3. lane[l].pages \in 0..PosturePages
  BY PostureTypes DEF LaneStates
<1>4. /\ lane' \in [Lanes -> LaneStates] /\ (\A k \in Lanes : LaneHolds(k)')
      /\ report' \in [Posture!Sources -> Said] /\ (\A k \in Posture!Sources : SaidHolds(report'[k], k))
  BY <1>1, <1>2, <1>3, ReportStep DEF Said, SaidHolds
<1> QED
  BY <1>1, <1>2, <1>4, PostureAgain, PostureTypes DEF PostureInv, Posture!TypeOK

LEMMA PostureStep == PostureInv /\ [Posture!Next]_(Posture!vars) => PostureInv'
<1> SUFFICES ASSUME PostureInv, [Posture!Next]_(Posture!vars) PROVE PostureInv'
  OBVIOUS
<1>1. CASE Posture!NextStage \/ Posture!LetGo \/ Posture!Deadline \/ UNCHANGED Posture!vars
  <2>1. /\ UNCHANGED <<lane, budget, report, accepted>> /\ overdue' \in BOOLEAN /\ stage' \in DOMAIN Stages
        /\ pending'.asked = pending.asked /\ pending'.abandoned \in Nat /\ pending'.abandoned =< pending.abandoned
        /\ pending' = [asked |-> pending'.asked, abandoned |-> pending'.abandoned]
    <3>1. CASE Posture!NextStage
      BY <3>1, PostureTypes, PostureConstants DEF Posture!NextStage, PostureInv, Posture!TypeOK
    <3>2. CASE Posture!LetGo
      BY <3>2, PostureTypes DEF Posture!LetGo, PostureInv, Posture!TypeOK
    <3>3. CASE Posture!Deadline \/ UNCHANGED Posture!vars
      <4>1. UNCHANGED <<stage, lane, pending, budget, report, accepted>> /\ overdue' \in {TRUE, overdue}
        BY <3>3 DEF Posture!Deadline, Posture!vars
      <4>2. overdue \in BOOLEAN
        BY DEF PostureInv, Posture!TypeOK
      <4>3. overdue' \in BOOLEAN
        BY <4>1, <4>2
      <4>4. pending' = [asked |-> pending'.asked, abandoned |-> pending'.abandoned]
        BY <4>1, PostureTypes
      <4> QED
        BY <4>1, <4>3, <4>4, PostureTypes
    <3> QED
      BY <1>1, <3>1, <3>2, <3>3
  <2>2. \A k \in Lanes : LaneHolds(k)'
    BY <2>1 DEF PostureInv, LaneHolds
  <2>3. Cardinality(pending'.asked) + pending'.abandoned =< Cardinality(Lanes)
    BY <2>1, PostureTypes, PostureConstants DEF PostureInv
  <2> QED
    BY <2>1, <2>2, <2>3, PostureAgain, PostureTypes DEF PostureInv
<1> QED
  BY <1>1, TakeStep, AskStep, PageStep, UnansweredStep DEF Posture!Next

LEMMA PostureCorrect == Posture!Init /\ [][Posture!Next]_(Posture!vars) => []PostureInv
  BY PostureInit, PostureStep, PTL

LEMMA PostureFacts ==
    ASSUME PostureInv PROVE Posture!TypeOK /\ Posture!NeverCleanWhenCut /\ Posture!CollectionIsBounded
<1>1. \A s \in Lists : Posture!Complete(s) => report[s].pages = Length[s]
  BY PostureConstants DEF PostureInv, SaidHolds, Posture!Complete
<1>2. ASSUME Posture!Finished, ~Posture!SummaryPartial, NEW s \in Lists PROVE report[s].pages = Length[s]
  <2>1. s \in Posture!Sources /\ report[s] \in Said
    BY PostureConstants, PostureTypes
  <2>2. report[s].status # "unread"
    <3>1. report[s].status = "unread" => report[s] = Posture!Unread
      BY <2>1 DEF PostureInv, SaidHolds
    <3>2. report[s] # Posture!Unread
      BY <1>2, <2>1 DEF Posture!Finished
    <3> QED
      BY <3>1, <3>2
  <2> QED
    BY <1>2, <2>1, <2>2 DEF PostureInv, SaidHolds, Posture!SummaryPartial
<1>3. Posture!CollectionIsBounded
  BY SameCount DEF PostureInv, Posture!CollectionIsBounded, Posture!Outstanding
<1> QED
  BY <1>1, <1>2, <1>3 DEF PostureInv, Posture!NeverCleanWhenCut

-----------------------------------------------------------------------------
(* The loaders *)

\* A shape, by its fields.
IsShape(shape) ==
    shape = [reads |-> shape.reads, needed |-> shape.needed, either |-> shape.either, told |-> shape.told,
             toldCut |-> shape.toldCut, optional |-> shape.optional, unsaid |-> shape.unsaid]

\* Nothing is shown without a word: what is not all there is told, also when it was cut.
Tells(shape) ==
    /\ IsShape(shape)
    /\ \A l \in shape.reads \ shape.unsaid : l \in shape.told /\ l \in shape.toldCut \cup Loaders!Single

LEMMA SectionsTell == \A S : Tells(Loaders!Sections(S))
  BY DEF Tells, IsShape, Loaders!Sections

LEMMA ShapesTell ==
    /\ \A S : Tells(Loaders!Required(S)) /\ Tells(Loaders!Each(S))
    /\ \A N, S : Tells(Loaders!Around(N, S))
<1>1. ASSUME NEW N, NEW E, NEW S PROVE Tells([Loaders!Sections(S) EXCEPT !.needed = N, !.either = E])
  <2> DEFINE needing == [reads |-> S, needed |-> N, either |-> S, told |-> S, toldCut |-> S, optional |-> {},
                         unsaid |-> {}]
             shape == [reads |-> S, needed |-> N, either |-> E, told |-> S, toldCut |-> S, optional |-> {},
                       unsaid |-> {}]
  <2>1. [Loaders!Sections(S) EXCEPT !.needed = N] = needing
    BY DEF Loaders!Sections
  <2>2. [Loaders!Sections(S) EXCEPT !.needed = N, !.either = E] = [needing EXCEPT !.either = E]
    BY <2>1, Zenon
  <2>3. [needing EXCEPT !.either = E] = shape
    OBVIOUS
  <2>4. Tells(shape)
    BY DEF Tells, IsShape
  <2> QED
    BY <2>2, <2>3, <2>4
<1>2. ASSUME NEW E, NEW S PROVE Tells([Loaders!Sections(S) EXCEPT !.either = E])
  <2> DEFINE shape == [reads |-> S, needed |-> {}, either |-> E, told |-> S, toldCut |-> S, optional |-> {},
                       unsaid |-> {}]
  <2>1. [Loaders!Sections(S) EXCEPT !.either = E] = shape
    BY DEF Loaders!Sections
  <2>2. Tells(shape)
    BY DEF Tells, IsShape
  <2> QED
    BY <2>1, <2>2
<1> QED
  BY <1>1, <1>2 DEF Loaders!Required, Loaders!Each, Loaders!Around

LEMMA WeakerShapesTell ==
    ASSUME NEW shape, Tells(shape), NEW S
    PROVE  Tells(Loaders!Extra(shape, S)) /\ Tells(Loaders!CutUnsaid(shape, S)) /\ Tells(Loaders!Optional(shape, S))
           /\ Tells([shape EXCEPT !.either = S])
<1> DEFINE a == shape.reads
           b == shape.needed
           c == shape.either
           d == shape.told
           e == shape.toldCut
           f == shape.optional
           g == shape.unsaid
<1>1. shape = [reads |-> a, needed |-> b, either |-> c, told |-> d, toldCut |-> e, optional |-> f, unsaid |-> g]
      /\ \A l \in a \ g : l \in d /\ l \in e \cup Loaders!Single
  BY DEF Tells, IsShape
<1> HIDE DEF a, b, c, d, e, f, g
<1> DEFINE grown == [reads |-> a \cup S, needed |-> b, either |-> c, told |-> d, toldCut |-> e, optional |-> f,
                     unsaid |-> g]
           shrunk == [reads |-> a, needed |-> b, either |-> c, told |-> d, toldCut |-> e \ S, optional |-> f,
                      unsaid |-> g]
<1>2. Tells(Loaders!Extra(shape, S))
  <2>1. Loaders!Extra(shape, S) = [reads |-> a \cup S, needed |-> b, either |-> c, told |-> d, toldCut |-> e,
                                   optional |-> f, unsaid |-> g \cup S]
    <3>1. [shape EXCEPT !.reads = @ \cup S] = grown
      BY <1>1
    <3>2. Loaders!Extra(shape, S) = [grown EXCEPT !.unsaid = g \cup S]
      BY <1>1, <3>1 DEF Loaders!Extra
    <3> QED
      BY <3>2
  <2> QED
    BY <1>1, <2>1 DEF Tells, IsShape
<1>3. Tells(Loaders!CutUnsaid(shape, S))
  <2>1. Loaders!CutUnsaid(shape, S) = [reads |-> a, needed |-> b, either |-> c, told |-> d, toldCut |-> e \ S,
                                       optional |-> f, unsaid |-> g \cup S]
    <3>1. [shape EXCEPT !.toldCut = @ \ S] = shrunk
      BY <1>1
    <3>2. Loaders!CutUnsaid(shape, S) = [shrunk EXCEPT !.unsaid = g \cup S]
      BY <1>1, <3>1 DEF Loaders!CutUnsaid
    <3> QED
      BY <3>2
  <2> QED
    BY <1>1, <2>1 DEF Tells, IsShape
<1>4. Tells(Loaders!Optional(shape, S))
  <2>1. Loaders!Optional(shape, S) = [reads |-> a, needed |-> b, either |-> c, told |-> d, toldCut |-> e,
                                      optional |-> f \cup S, unsaid |-> g]
    BY <1>1 DEF Loaders!Optional
  <2> QED
    BY <1>1, <2>1 DEF Tells, IsShape
<1>5. Tells([shape EXCEPT !.either = S])
  <2>1. [shape EXCEPT !.either = S] = [reads |-> a, needed |-> b, either |-> S, told |-> d, toldCut |-> e,
                                       optional |-> f, unsaid |-> g]
    BY <1>1
  <2> QED
    BY <1>1, <2>1 DEF Tells, IsShape
<1> QED
  BY <1>2, <1>3, <1>4, <1>5

\* Every view tells, but for the two that are left out.
LEMMA ViewsTell == \A v \in DOMAIN Loaders!Views \ {"domainhealth", "validation"} : Tells(Loaders!Views[v])
<1>1. /\ Tells(Loaders!Workloads) /\ Tells(Loaders!Rbac) /\ Tells(Loaders!Ports) /\ Tells(Loaders!Traffic)
      /\ Tells(Loaders!Components) /\ Tells(Loaders!Vip) /\ Tells(Loaders!Topology) /\ Tells(Loaders!Storage)
  BY SectionsTell
  DEF Loaders!Workloads, Loaders!Rbac, Loaders!Ports, Loaders!Traffic, Loaders!Components, Loaders!Vip,
      Loaders!Topology, Loaders!Storage
<1>2. /\ Tells(Loaders!Overview) /\ Tells(Loaders!NamespaceList) /\ Tells(Loaders!Nodes) /\ Tells(Loaders!PodList)
      /\ Tells(Loaders!PodLogs) /\ Tells(Loaders!ConfigMapContent) /\ Tells(Loaders!Crds)
      /\ Tells(Loaders!ImageRisk) /\ Tells(Loaders!Cni)
  BY ShapesTell
  DEF Loaders!Overview, Loaders!NamespaceList, Loaders!Nodes, Loaders!PodList, Loaders!PodLogs,
      Loaders!ConfigMapContent, Loaders!Crds, Loaders!ImageRisk, Loaders!Cni
<1>3. /\ Tells(Loaders!Capability) /\ Tells(Loaders!VolumeUsage) /\ Tells(Loaders!Metrics)
      /\ Tells(Loaders!Services) /\ Tells(Loaders!PodRelated) /\ Tells(Loaders!Secrets)
      /\ Tells(Loaders!ConfigMaps) /\ Tells(Loaders!PrometheusSnapshot)
  BY ShapesTell
  DEF Loaders!Capability, Loaders!VolumeUsage, Loaders!Metrics, Loaders!Services, Loaders!PodRelated,
      Loaders!Secrets, Loaders!ConfigMaps, Loaders!PrometheusSnapshot
<1>4. /\ Tells(Loaders!NamespaceSummary) /\ Tells(Loaders!CrdObjects) /\ Tells(Loaders!BackupActivity)
      /\ Tells(Loaders!DeliveryActivity) /\ Tells(Loaders!GatewayApi)
  BY ShapesTell, WeakerShapesTell
  DEF Loaders!NamespaceSummary, Loaders!CrdObjects, Loaders!BackupActivity, Loaders!DeliveryActivity,
      Loaders!GatewayApi
<1>5. /\ Tells(Loaders!ComponentDetails) /\ Tells(Loaders!PodInspect) /\ Tells(Loaders!ObjectInspect)
      /\ Tells(Loaders!JobLogs) /\ Tells(Loaders!Events)
  BY ShapesTell, WeakerShapesTell
  DEF Loaders!ComponentDetails, Loaders!PodInspect, Loaders!ObjectInspect, Loaders!JobLogs, Loaders!Events
<1>6. Tells(Loaders!PodDns) /\ Tells(Loaders!ProviderActivity)
  BY ShapesTell, WeakerShapesTell DEF Loaders!PodDns, Loaders!ProviderActivity
<1>7. Tells(Loaders!ServiceMesh)
  BY SectionsTell, WeakerShapesTell DEF Loaders!ServiceMesh
<1>8. Tells(Loaders!Jobs) /\ Tells(Loaders!Ghosts)
  BY SectionsTell, WeakerShapesTell DEF Loaders!Jobs, Loaders!Ghosts
<1> QED
  BY <1>1, <1>2, <1>3, <1>4, <1>5, <1>6, <1>7, <1>8 DEF Loaders!Views

\* What was answered was made from the outcome kept.
LoadersInv ==
    /\ Loaders!TypeOK
    /\ answer.state = "given" =>
          /\ \A l \in Loaders!Single \cap Loaders!Views[view].reads : outcome[l] # "cut"
          /\ answer.partial = Loaders!Partial(view, outcome)
    /\ (scope = "all" /\ user.list # Loaders!Uncollected) \/ answer.state \in {"none", "asked"} =>
          answer.unused = {}

LEMMA LoadersTypes ==
    /\ Loaders!Nobody \in Loaders!Users /\ "overview" \in DOMAIN Loaders!Views /\ "all" \in Scopes
    /\ \A v \in DOMAIN Loaders!Views : Loaders!Candidates(v) \subseteq Loaders!Users
    /\ \A v : [l \in Loaders!Views[v].reads |-> "whole"] \in [Loaders!Views[v].reads -> Loaders!Outcomes]
    /\ \A v : Loaders!Possible(v) \subseteq [Loaders!Views[v].reads -> Loaders!Outcomes]
<1>1. Loaders!Nobody \in Loaders!Users
  BY DEF Loaders!Nobody, Loaders!Users, Loaders!Kinds, Loaders!References
<1>2. "overview" \in DOMAIN Loaders!Views
  BY DEF Loaders!Views
<1>3. "all" \in Scopes
  BY PartsAssumption DEF Loaders!InventoryAssumption
<1>4. \A v \in DOMAIN Loaders!Views : Loaders!Candidates(v) \subseteq Loaders!Users
  BY <1>1 DEF Loaders!Candidates
<1>5. \A v : [l \in Loaders!Views[v].reads |-> "whole"] \in [Loaders!Views[v].reads -> Loaders!Outcomes]
  BY DEF Loaders!Outcomes
<1>6. \A v : Loaders!Possible(v) \subseteq [Loaders!Views[v].reads -> Loaders!Outcomes]
  BY DEF Loaders!Possible, Loaders!Outcomes
<1> QED
  BY <1>1, <1>2, <1>3, <1>4, <1>5, <1>6

\* Of an object covered, every list that may name it was read whole.
LEMMA CoveredIsRead ==
    ASSUME NEW o, NEW u \in Loaders!Candidates("ghosts"), u.list # Loaders!Uncollected,
           u.kind \in Loaders!Covered(o)
    PROVE  o[u.list] = "whole"
<1>1. u.list \in Loaders!Namers[u.kind]
  BY DEF Loaders!Candidates
<1>2. /\ \A l \in Loaders!References : o[l] = "whole"
      /\ o["providerresources"] = "whole"
  BY DEF Loaders!Covered, Loaders!ReferencesComplete
<1>3. CASE u.kind = "ConfigMap"
  BY <1>1, <1>2, <1>3 DEF Loaders!Namers
<1>4. CASE u.kind = "Secret"
  BY <1>1, <1>2, <1>4 DEF Loaders!Namers, Loaders!Covered
<1>5. CASE u.kind = "ServiceAccount"
  BY <1>1, <1>2, <1>5 DEF Loaders!Namers, Loaders!Covered
<1> QED
  BY <1>3, <1>4, <1>5 DEF Loaders!Covered, Loaders!Kinds

LEMMA LoadersInit == Loaders!Init => LoadersInv
  BY LoadersTypes DEF Loaders!Init, LoadersInv, Loaders!TypeOK, Loaders!NoAnswer

LEMMA LoadStep == LoadersInv /\ Loaders!Load => LoadersInv'
<1> SUFFICES ASSUME LoadersInv, Loaders!Load PROVE LoadersInv'
  OBVIOUS
<1>1. UNCHANGED <<view, scope>> /\ view \in DOMAIN Loaders!Views /\ scope \in Scopes
  BY DEF Loaders!Load, LoadersInv, Loaders!TypeOK
<1>2. PICK o \in Loaders!Possible(view), u \in Loaders!Candidates(view) :
        /\ \A l \in Loaders!Single \cap Loaders!Views[view].reads : o[l] # "cut"
        /\ outcome' = o /\ user' = u /\ answer' = Loaders!Answer(view, scope, o, u)
  <2>1. \A o \in Loaders!Possible(view) : DOMAIN o = Loaders!Views[view].reads
    BY LoadersTypes
  <2> QED
    BY <2>1 DEF Loaders!Load
<1>3. Loaders!Partial(view, o) \in BOOLEAN
  BY DEF Loaders!Partial
<1>4. Loaders!Unused(view, scope, o, u) \subseteq Loaders!Kinds
      /\ (scope = "all" /\ u.list # Loaders!Uncollected => Loaders!Unused(view, scope, o, u) = {})
  <2>1. CASE view = "ghosts" /\ u.kind \in Loaders!Covered(o) /\ ~Loaders!Sees(scope, o, u)
    <3>1. u.list # Loaders!Uncollected => o[u.list] = "whole"
      BY <1>2, <2>1, CoveredIsRead
    <3>2. scope # "all" \/ u.list = Loaders!Uncollected
      BY <2>1, <3>1 DEF Loaders!Sees
    <3> QED
      BY <2>1, <3>2 DEF Loaders!Unused, Loaders!Covered, Loaders!Namers
  <2>2. CASE ~(view = "ghosts" /\ u.kind \in Loaders!Covered(o) /\ ~Loaders!Sees(scope, o, u))
    BY <2>2 DEF Loaders!Unused
  <2> QED
    BY <2>1, <2>2
<1>5. /\ answer' \in [state : {"none", "asked", "thrown", "given"}, partial : BOOLEAN,
                     unused : SUBSET Loaders!Kinds]
      /\ answer'.state = "given" => answer'.partial = Loaders!Partial(view, o)
      /\ scope = "all" /\ u.list # Loaders!Uncollected => answer'.unused = {}
      /\ answer'.state \notin {"none", "asked"}
  BY <1>2, <1>3, <1>4 DEF Loaders!Answer
<1>6. Loaders!TypeOK'
  BY <1>1, <1>2, <1>5, LoadersTypes DEF Loaders!TypeOK
<1>7. Loaders!Partial(view', outcome') = Loaders!Partial(view, o)
  BY <1>1, <1>2
<1> QED
  BY <1>1, <1>2, <1>5, <1>6, <1>7 DEF LoadersInv

LEMMA LoadersStep == LoadersInv /\ [Loaders!Next]_(Loaders!vars) => LoadersInv'
<1> SUFFICES ASSUME LoadersInv, [Loaders!Next]_(Loaders!vars) PROVE LoadersInv'
  OBVIOUS
<1>1. CASE Loaders!Ask
  <2>1. view' \in DOMAIN Loaders!Views /\ scope' \in Scopes /\ user' = user
        /\ outcome' = [l \in Loaders!Views[view'].reads |-> "whole"]
        /\ answer.state = "none" /\ answer' = [answer EXCEPT !.state = "asked"]
    BY <1>1 DEF Loaders!Ask
  <2>2. answer'.state = "asked" /\ answer'.unused = answer.unused
        /\ answer' \in [state : {"none", "asked", "thrown", "given"}, partial : BOOLEAN,
                        unused : SUBSET Loaders!Kinds]
    BY <2>1 DEF LoadersInv, Loaders!TypeOK
  <2>3. Loaders!TypeOK'
    BY <2>1, <2>2, LoadersTypes DEF LoadersInv, Loaders!TypeOK
  <2>4. answer.unused = {}
    BY <2>1 DEF LoadersInv
  <2> QED
    BY <2>1, <2>2, <2>3 DEF LoadersInv
<1>2. CASE Loaders!Deliver
  BY <1>2, LoadersTypes DEF Loaders!Deliver, LoadersInv, Loaders!TypeOK, Loaders!NoAnswer
<1>3. CASE UNCHANGED Loaders!vars
  BY <1>3 DEF Loaders!vars, LoadersInv, Loaders!TypeOK
<1> QED
  BY <1>1, <1>2, <1>3, LoadStep DEF Loaders!Next

LEMMA LoadersCorrect == Loaders!Init /\ [][Loaders!Next]_(Loaders!vars) => []LoadersInv
  BY LoadersInit, LoadersStep, PTL

LEMMA LoadersFacts ==
    ASSUME LoadersInv PROVE Loaders!TypeOK /\ Loaders!NeverCleanWhenCut /\ Loaders!CleanupIsVerified
<1>1. ASSUME Loaders!Clean, view \notin {"domainhealth", "validation"},
             NEW l \in Loaders!Views[view].reads \ Loaders!Views[view].unsaid
      PROVE  Loaders!Read(view, outcome, l)
  <2>1. view \in DOMAIN Loaders!Views /\ outcome[l] \in {"whole", "cut", "missing", "failed"}
    BY DEF LoadersInv, Loaders!TypeOK, Loaders!Outcomes
  <2>2. l \in Loaders!Views[view].told /\ l \in Loaders!Views[view].toldCut \cup Loaders!Single
    BY <1>1, <2>1, ViewsTell DEF Tells
  <2>3. ~Loaders!Partial(view, outcome)
    BY <1>1 DEF Loaders!Clean, LoadersInv
  <2>4. ~Loaders!Lost(view, outcome, l) /\ (l \in Loaders!Views[view].toldCut => outcome[l] # "cut")
    BY <2>2, <2>3 DEF Loaders!Partial
  <2>5. l \in Loaders!Single => outcome[l] # "cut"
    BY <1>1 DEF Loaders!Clean, LoadersInv
  <2> QED
    BY <2>1, <2>2, <2>4, <2>5 DEF Loaders!Lost, Loaders!Read
<1>2. DOMAIN outcome = Loaders!Views[view].reads
  BY DEF LoadersInv, Loaders!TypeOK
<1> QED
  BY <1>1, <1>2 DEF LoadersInv, Loaders!NeverCleanWhenCut, Loaders!CleanupIsVerified

-----------------------------------------------------------------------------
(* One load of a CI instance *)

TodoItems == [job : Ci!Jobs, depth : Nat]

NowItems == [job : Ci!Jobs, depth : Nat, page : Nat \ {0}, budget : Int, first : Int, offset : Nat]

\* What a part of the load is typed by, and that a part that is over leaves nothing behind.
CiShape ==
    /\ provider \in Providers /\ history \in [Ci!Jobs -> Histories]
    /\ todo \in Seq(TodoItems) /\ (now = Ci!NoJob \/ now \in NowItems)
    /\ loaded \in [Ci!Jobs -> Seq(Nat)] /\ \A j \in Ci!Jobs : loaded[j] \in Seq(1..history[j])
    /\ queued \in Nat /\ details \in 0..MaxDetails /\ requests \in Nat
    /\ phase \in {"reading", "queue", "done"} /\ (phase = "queue" => provider = "jenkins")
    /\ phase # "reading" => now = Ci!NoJob /\ todo = <<>>
    /\ phase # "done" => queued = 0
    /\ now = Ci!NoJob /\ phase # "queue" => call = Ci!AtRest
    /\ contacted \subseteq {"inside"} /\ call.hops \in {0, 1}
    /\ visited \subseteq Ci!Jobs /\ IsFiniteSet(visited) /\ Cardinality(visited) =< MaxJobs

\* The room for runs, and what of it the project being read may take.
CiRoom ==
    /\ IsFiniteSet(Ci!Pushed) /\ Cardinality(Ci!Pushed) + queued =< MaxRuns
    /\ now # Ci!NoJob =>
          /\ provider = "github" => now.budget - Len(loaded[now.job]) =< MaxRuns - Cardinality(Ci!Pushed)
          /\ provider = "github" /\ now.page > 1 => 0 < now.budget - Len(loaded[now.job])
          /\ provider # "github" => Cardinality(Ci!Pushed) < MaxRuns
          /\ now.page =< CiPages

LEMMA CiConstants ==
    /\ PageSize \in Nat \ {0} /\ MaxRuns \in Nat \ {0} /\ CiPages \in Nat \ {0} /\ MaxJobs \in Nat \ {0}
    /\ MaxDetails \in Nat /\ MaxDepth \in Nat /\ Histories \subseteq Nat
    /\ Providers \subseteq {"github", "gitlab", "jenkins"}
    /\ Projects \in Seq(Ci!Jobs) /\ Children \in [Ci!Jobs -> Seq(Ci!Jobs)]
  BY PartsAssumption DEF Ci!LimitAssumption

LEMMA SameSize == \A S : Ci!Cardinality(S) = Cardinality(S)
  BY DEF Ci!Cardinality, Cardinality

LEMMA SomeJob == ASSUME NEW job \in NowItems PROVE job # Ci!NoJob
<1>1. "page" \in DOMAIN job
  BY DEF NowItems
<1>2. "page" \notin DOMAIN Ci!NoJob
  BY DEF Ci!NoJob
<1> QED
  BY <1>1, <1>2

LEMMA MoreIsMore ==
    ASSUME NEW m \in Nat, NEW n \in Nat, NEW p \in Nat
    PROVE  m * p \in Nat /\ (m + 1) * p = m * p + p /\ (m =< n => m * p =< n * p)
<1>1. m * p \in Nat /\ (m + 1) * p = m * p + p
  OBVIOUS
<1>2. ASSUME m =< n PROVE m * p =< n * p
  <2>1. PICK d \in Nat : n = m + d
    <3>1. n - m \in Nat /\ n = m + (n - m)
      BY <1>2
    <3> QED
      BY <3>1
  <2>2. n * p = m * p + d * p /\ d * p \in Nat /\ m * p \in Nat
    BY <2>1
  <2> HIDE <2>1
  <2> QED
    BY <2>2
<1> QED
  BY <1>1, <1>2

\* A window of runs lies among those there are, and is no larger than asked.
LEMMA WindowIs ==
    ASSUME NEW start \in Nat, NEW asked0 \in Int, NEW there \in Nat
    PROVE  LET runs == [i \in 1..(Ci!Min2(start + asked0, there) - Ci!Min2(start, there)) |-> start + i]
           IN  runs \in Seq(1..there) /\ (Len(runs) =< asked0 \/ Len(runs) = 0)
<1> DEFINE size == Ci!Min2(start + asked0, there) - Ci!Min2(start, there)
           runs == [i \in 1..size |-> start + i]
<1>1. size \in Int /\ (size > 0 => size =< asked0 /\ start + size =< there)
  BY DEF Ci!Min2
<1>2. CASE size > 0
  <2>1. \A i \in 1..size : start + i \in 1..there
    BY <1>1, <1>2
  <2>2. runs \in [1..size -> 1..there] /\ size \in Nat
    BY <1>1, <1>2, <2>1
  <2> HIDE DEF size
  <2>3. runs \in Seq(1..there) /\ Len(runs) = size
    BY <2>2
  <2> QED
    BY <1>1, <1>2, <2>3 DEF size
<1>3. CASE ~(size > 0)
  <2>1. 1..size = {}
    BY <1>1, <1>3
  <2> HIDE DEF size
  <2>2. runs = <<>>
    BY <2>1
  <2> HIDE DEF runs
  <2>3. Len(runs) = 0 /\ runs \in Seq(1..there)
    BY <2>2
  <2> QED
    BY <2>3 DEF size, runs
<1> QED
  BY <1>2, <1>3

\* What is read of a project that is being read.
LEMMA WindowFits ==
    ASSUME CiShape, CiRoom, now \in NowItems
    PROVE  /\ Ci!Asked \in Int /\ Ci!Window \in Seq(1..history[now.job]) /\ Len(Ci!Window) \in Nat
           /\ Len(Ci!Window) =< Ci!Asked \/ Len(Ci!Window) = 0
           /\ Len(Ci!Window) =< MaxRuns - Cardinality(Ci!Pushed)
           /\ provider # "github" => Ci!Asked >= 1
           /\ provider = "github" => Ci!Asked =< now.budget - Len(loaded[now.job])
           /\ now.page > 1 => Ci!Asked >= 1
           /\ history[now.job] \in Nat /\ Len(loaded[now.job]) \in Nat /\ Cardinality(Ci!Pushed) \in Nat
<1>1. now # Ci!NoJob /\ now.job \in Ci!Jobs /\ now.page \in Nat \ {0} /\ now.budget \in Int /\ now.offset \in Nat
  BY SomeJob DEF NowItems
<1>2. Cardinality(Ci!Pushed) \in Nat
  BY FS_CardinalityType DEF CiRoom
<1>3. history[now.job] \in Nat /\ loaded[now.job] \in Seq(1..history[now.job])
  BY <1>1, CiConstants DEF CiShape
<1>4. Len(loaded[now.job]) \in Nat
  BY <1>3
<1>5. queued = 0
  BY <1>1 DEF CiShape
<1>6. Ci!Room = MaxRuns - Cardinality(Ci!Pushed) /\ Ci!Room \in Int /\ Ci!Room >= 0
  BY <1>2, <1>5, CiConstants, SameSize DEF Ci!Room, Ci!Count, CiRoom
<1>7. /\ provider = "github" => Ci!Asked = Ci!Min2(PageSize, now.budget - Len(loaded[now.job]))
      /\ provider # "github" => Ci!Asked = Ci!Min2(PageSize, Ci!Room) /\ Ci!Room > 0
      /\ provider = "github" => now.budget - Len(loaded[now.job]) =< Ci!Room
      /\ provider = "github" /\ now.page > 1 => 0 < now.budget - Len(loaded[now.job])
  BY <1>1, <1>2, <1>6, CiConstants DEF Ci!Asked, CiRoom
<1>8. /\ Ci!Asked \in Int /\ Ci!Asked =< Ci!Room
      /\ provider # "github" => Ci!Asked >= 1
      /\ provider = "github" => Ci!Asked =< now.budget - Len(loaded[now.job])
      /\ now.page > 1 => Ci!Asked >= 1
  BY <1>1, <1>4, <1>6, <1>7, CiConstants DEF Ci!Min2
<1> DEFINE start == IF provider = "jenkins" THEN now.offset ELSE (now.page - 1) * Ci!Asked
<1>9. start \in Nat
  <2>1. CASE now.page = 1
    <3>1. (now.page - 1) * Ci!Asked = 0
      BY <1>8, <2>1
    <3> QED
      BY <1>1, <3>1
  <2>2. CASE now.page > 1
    <3>1. now.page - 1 \in Nat /\ Ci!Asked \in Nat
      BY <1>1, <1>8, <2>2
    <3>2. (now.page - 1) * Ci!Asked \in Nat
      BY <3>1
    <3> QED
      BY <1>1, <3>2
  <2> QED
    BY <1>1, <2>1, <2>2
<1>10. Ci!Window = [i \in 1..(Ci!Min2(start + Ci!Asked, history[now.job]) - Ci!Min2(start, history[now.job]))
                      |-> start + i]
  BY DEF Ci!Window
<1> HIDE DEF start
<1>11. Ci!Window \in Seq(1..history[now.job]) /\ (Len(Ci!Window) =< Ci!Asked \/ Len(Ci!Window) = 0)
  BY <1>3, <1>8, <1>9, <1>10, WindowIs
<1>12. Len(Ci!Window) \in Nat
  BY <1>11
<1> QED
  BY <1>2, <1>3, <1>4, <1>6, <1>8, <1>11, <1>12

LEMMA CiInit == Ci!Init => CiShape /\ CiRoom
<1> SUFFICES ASSUME Ci!Init PROVE CiShape /\ CiRoom
  OBVIOUS
<1>1. Ci!Pushed = {}
  BY DEF Ci!Init, Ci!Pushed
<1>2. todo \in Seq(TodoItems)
  <2>1. \A i \in 1..Len(Projects) : [job |-> Projects[i], depth |-> 0] \in TodoItems
    BY CiConstants DEF TodoItems
  <2>2. todo \in [1..Len(Projects) -> TodoItems] /\ Len(Projects) \in Nat
    BY <2>1, CiConstants DEF Ci!Init
  <2> QED
    BY <2>2
<1>3. IsFiniteSet({}) /\ Cardinality({}) = 0
  BY FS_EmptySet
<1>4. now = Ci!NoJob /\ call = Ci!AtRest /\ Ci!AtRest.hops = 0
  BY DEF Ci!Init, Ci!AtRest
<1>5. CiShape
  BY <1>2, <1>3, <1>4, CiConstants DEF Ci!Init, CiShape
<1>6. CiRoom
  BY <1>1, <1>3, <1>4, CiConstants DEF Ci!Init, CiRoom
<1> QED
  BY <1>5, <1>6

\* The share of a project is within the room.
LEMMA BudgetFits ==
    ASSUME NEW room \in Nat, NEW parts \in Nat \ {0}
    PROVE  (room + parts - 1) \div parts \in Int /\ (room + parts - 1) \div parts =< room
<1> DEFINE q == (room + parts - 1) \div parts
<1>1. q \in Nat /\ q * parts =< room + parts - 1
  OBVIOUS
<1>2. ASSUME q > room PROVE FALSE
  <2>1. room + 1 \in Nat /\ room + 1 =< q
    BY <1>1, <1>2
  <2> HIDE DEF q
  <2>2. (room + 1) * parts =< q * parts /\ room * parts \in Nat /\ (room + 1) * parts = room * parts + parts
    BY <1>1, <2>1, MoreIsMore
  <2>3. room * parts =< room - 1 /\ q * parts \in Nat
    BY <1>1, <2>2, MoreIsMore
  <2>4. 1 * room =< parts * room /\ parts * room = room * parts
    BY MoreIsMore
  <2> QED
    BY <2>2, <2>3, <2>4
<1> QED
  BY <1>1, <1>2

LEMMA CiTake == CiShape /\ CiRoom /\ Ci!Take => CiShape' /\ CiRoom'
<1> SUFFICES ASSUME CiShape, CiRoom, Ci!Take PROVE CiShape' /\ CiRoom'
  OBVIOUS
<1> DEFINE next == Head(todo)
           new == [job |-> next.job, depth |-> next.depth, page |-> 1, budget |-> Ci!Budget,
                   first |-> Ci!Min2(PageSize, Ci!Budget), offset |-> 0]
<1>1. /\ phase = "reading" /\ now = Ci!NoJob /\ todo # <<>> /\ todo' = Tail(todo)
      /\ provider = "github" \/ Ci!Room > 0
      /\ provider = "jenkins" => Cardinality(visited) < MaxJobs
      /\ UNCHANGED <<provider, history, loaded, queued, details, call, phase, requests, contacted>>
      /\ \/ now' = now /\ visited' = visited
         \/ /\ now' = new
            /\ visited' = visited \/ (provider = "jenkins" /\ visited' = visited \cup {next.job})
  BY SameSize DEF Ci!Take, Ci!settings
<1>2. next \in TodoItems /\ todo' \in Seq(TodoItems) /\ Len(todo) \in Nat \ {0}
  BY <1>1 DEF CiShape
<1>3. Cardinality(Ci!Pushed) \in Nat /\ Ci!Room = MaxRuns - Cardinality(Ci!Pushed) /\ Ci!Room \in Nat
  <2>1. Cardinality(Ci!Pushed) \in Nat
    BY FS_CardinalityType DEF CiRoom
  <2>2. queued = 0
    BY <1>1 DEF CiShape
  <2> QED
    BY <2>1, <2>2, CiConstants, SameSize DEF CiRoom, Ci!Room, Ci!Count
<1>4. Ci!Budget \in Int /\ (provider = "github" => Ci!Budget =< Ci!Room)
  BY <1>2, <1>3, BudgetFits DEF Ci!Budget
<1>5. Ci!Min2(PageSize, Ci!Budget) \in Int
  BY <1>4, CiConstants DEF Ci!Min2
<1> HIDE DEF next
<1>6. new \in NowItems /\ new.page = 1 /\ new.job = next.job /\ new.budget = Ci!Budget /\ next.job \in Ci!Jobs
  BY <1>2, <1>4, <1>5 DEF NowItems, TodoItems
<1>7. /\ visited' \subseteq Ci!Jobs /\ IsFiniteSet(visited') /\ Cardinality(visited') =< MaxJobs
  <2>1. CASE visited' = visited
    BY <2>1 DEF CiShape
  <2>2. CASE provider = "jenkins" /\ visited' = visited \cup {next.job}
    <3>1. IsFiniteSet(visited) /\ visited \subseteq Ci!Jobs
      BY DEF CiShape
    <3>2. Cardinality(visited) \in Nat
      BY <3>1, FS_CardinalityType
    <3>3. IsFiniteSet(visited') /\ Cardinality(visited') =< Cardinality(visited) + 1
      <4>1. /\ IsFiniteSet(visited \cup {next.job})
            /\ Cardinality(visited \cup {next.job}) =
                  IF next.job \in visited THEN Cardinality(visited) ELSE Cardinality(visited) + 1
        BY <3>1, FS_AddElement
      <4> QED
        BY <2>2, <3>2, <4>1
    <3>4. Cardinality(visited') \in Nat
      BY <3>3, FS_CardinalityType
    <3> QED
      BY <1>1, <1>6, <2>2, <3>1, <3>2, <3>3, <3>4, CiConstants
  <2> QED
    BY <1>1, <2>1, <2>2
<1> HIDE DEF new
<1>8. now' = Ci!NoJob \/ now' = new
  BY <1>1
<1>9. CiShape'
  <2>1. call = Ci!AtRest
    BY <1>1 DEF CiShape
  <2> QED
    BY <1>1, <1>2, <1>6, <1>7, <1>8, <2>1 DEF CiShape
<1>10. Ci!Pushed' = Ci!Pushed
  BY <1>1 DEF Ci!Pushed
<1>11. CASE now' = Ci!NoJob
  <2>1. queued' = queued
    BY <1>1
  <2> QED
    BY <1>9, <1>10, <1>11, <2>1 DEF CiRoom
<1>12. CASE now' = new
  <2>1. loaded[next.job] \in Seq(Nat)
    BY <1>6 DEF CiShape
  <2>2. Len(loaded[next.job]) \in Nat
    BY <2>1
  <2>3. /\ provider = "github" => Ci!Budget - Len(loaded[next.job]) =< MaxRuns - Cardinality(Ci!Pushed)
        /\ provider # "github" => Cardinality(Ci!Pushed) < MaxRuns
        /\ 1 =< CiPages
    BY <1>1, <1>3, <1>4, <2>2, CiConstants
  <2>4. now'.job = next.job /\ now'.page = 1 /\ now'.budget = Ci!Budget /\ UNCHANGED <<queued, provider, loaded>>
    BY <1>1, <1>6, <1>12
  <2> QED
    BY <1>9, <1>10, <2>3, <2>4 DEF CiRoom
<1> QED
  BY <1>8, <1>9, <1>11, <1>12

\* The steps that read no run of a project.
LEMMA CiOther ==
    ASSUME CiShape, CiRoom,
           Ci!LimitReached \/ Ci!ProjectsDone \/ Ci!Request \/ Ci!Redirected \/ UNCHANGED Ci!vars
    PROVE  CiShape' /\ CiRoom'
<1>1. /\ UNCHANGED <<provider, history, loaded, queued, visited, details, now>>
      /\ contacted' \subseteq {"inside"} /\ requests' \in Nat /\ call'.hops \in {0, 1}
      /\ now = Ci!NoJob /\ phase' # "queue" => call' = Ci!AtRest
      /\ phase' \in {phase, "queue", "done"}
      /\ phase' # phase => phase = "reading" /\ now = Ci!NoJob /\ todo = <<>> /\ todo' = todo
      /\ phase' = "queue" => provider = "jenkins"
      /\ phase' = phase => todo' \in {todo, <<>>}
  <2>1. CASE Ci!LimitReached
    BY <2>1 DEF Ci!LimitReached, Ci!settings, CiShape
  <2>2. CASE Ci!ProjectsDone
    BY <2>2 DEF Ci!ProjectsDone, Ci!settings, CiShape
  <2>3. CASE Ci!Request
    BY <2>3 DEF Ci!Request, Ci!settings, CiShape
  <2>4. CASE Ci!Redirected
    <3>1. PICK place \in Destinations :
            /\ call # Ci!AtRest /\ call.hops < 1 /\ place = "inside"
            /\ call' = [place |-> place, hops |-> call.hops + 1] /\ contacted' = contacted \cup {place}
      BY <2>4 DEF Ci!Redirected, Ci!Follows
    <3>2. call'.hops = 1
      BY <3>1 DEF CiShape
    <3>3. UNCHANGED <<provider, history, todo, now, loaded, queued, visited, details, phase, requests>>
      BY <2>4 DEF Ci!Redirected, Ci!settings
    <3> QED
      BY <3>1, <3>2, <3>3 DEF CiShape
  <2>5. CASE UNCHANGED Ci!vars
    BY <2>5 DEF Ci!vars, CiShape
  <2> QED
    BY <2>1, <2>2, <2>3, <2>4, <2>5
<1>2. todo' \in Seq(TodoItems) /\ (todo = <<>> => todo' = <<>>)
  <2>1. todo \in Seq(TodoItems) /\ <<>> \in Seq(TodoItems)
    BY DEF CiShape
  <2>2. todo' = todo \/ todo' = <<>>
    BY <1>1
  <2> QED
    BY <2>1, <2>2
<1>3. CiShape'
  BY <1>1, <1>2 DEF CiShape
<1>4. CiRoom'
  BY <1>1 DEF CiRoom, Ci!Pushed
<1> QED
  BY <1>3, <1>4

LEMMA CiBelow == ASSUME CiShape, now \in NowItems PROVE Ci!Below \o todo \in Seq(TodoItems)
<1>1. now.job \in Ci!Jobs /\ now.depth \in Nat
  BY DEF NowItems
<1>2. Ci!Below \in Seq(TodoItems)
  <2> DEFINE below == [i \in DOMAIN Children[now.job] |-> [job |-> Children[now.job][i], depth |-> now.depth + 1]]
  <2>1. Children[now.job] \in Seq(Ci!Jobs)
    BY <1>1, CiConstants
  <2>2. Len(Children[now.job]) \in Nat /\ DOMAIN Children[now.job] = 1..Len(Children[now.job])
        /\ \A i \in DOMAIN Children[now.job] : Children[now.job][i] \in Ci!Jobs
    BY <2>1
  <2>3. \A i \in DOMAIN Children[now.job] :
            [job |-> Children[now.job][i], depth |-> now.depth + 1] \in TodoItems
    BY <1>1, <2>2 DEF TodoItems
  <2>5. below \in [1..Len(Children[now.job]) -> TodoItems]
    BY <2>2, <2>3
  <2>6. below \in Seq(TodoItems)
    BY <2>2, <2>5
  <2>4. Ci!Below = <<>> \/ Ci!Below = below
    BY DEF Ci!Below
  <2> HIDE DEF below
  <2>7. <<>> \in Seq(TodoItems)
    OBVIOUS
  <2> QED
    BY <2>4, <2>6, <2>7
<1> QED
  BY <1>2 DEF CiShape

LEMMA Column == \A j, S, pair : pair \in {j} \X S <=> pair = <<j, pair[2]>> /\ pair[2] \in S
  OBVIOUS

\* A page of runs: each is pushed once.
LEMMA PushedGrow ==
    ASSUME CiShape, IsFiniteSet(Ci!Pushed), NEW j \in Ci!Jobs, NEW runs \in Seq(Nat),
           loaded' = [loaded EXCEPT ![j] = @ \o runs]
    PROVE  /\ IsFiniteSet(Ci!Pushed') /\ Cardinality(Ci!Pushed') = Cardinality(Ci!Pushed) + Len(runs)
           /\ loaded'[j] = loaded[j] \o runs /\ Len(loaded'[j]) = Len(loaded[j]) + Len(runs)
           /\ \A k \in Ci!Jobs : k # j => loaded'[k] = loaded[k]
<1> DEFINE n == Len(loaded[j])
           m == Len(runs)
           fresh == {j} \X ((n + 1)..(n + m))
<1>1. loaded \in [Ci!Jobs -> Seq(Nat)] /\ n \in Nat /\ m \in Nat
  BY DEF CiShape
<1>2. loaded'[j] = loaded[j] \o runs /\ \A k \in Ci!Jobs : k # j => loaded'[k] = loaded[k]
  BY <1>1
<1>3. Len(loaded'[j]) = n + m /\ DOMAIN loaded'[j] = 1..(n + m) /\ DOMAIN loaded[j] = 1..n
  BY <1>1, <1>2
<1> HIDE DEF n, m
<1>4. Ci!Pushed' = Ci!Pushed \cup fresh
  <2>1. ASSUME NEW k \in Ci!Jobs, k # j PROVE DOMAIN loaded'[k] = DOMAIN loaded[k]
    BY <1>2, <2>1
  <2>2. ASSUME NEW pair
        PROVE  pair \in {j} \X DOMAIN loaded'[j] <=> pair \in {j} \X DOMAIN loaded[j] \/ pair \in fresh
    <3>1. pair[2] \in 1..(n + m) <=> pair[2] \in 1..n \/ pair[2] \in (n + 1)..(n + m)
      BY <1>1
    <3> QED
      BY <1>3, <3>1, Column
  <2>3. Ci!Pushed' = UNION {{k} \X DOMAIN loaded'[k] : k \in Ci!Jobs}
        /\ Ci!Pushed = UNION {{k} \X DOMAIN loaded[k] : k \in Ci!Jobs}
    BY DEF Ci!Pushed
  <2> HIDE DEF fresh
  <2>4. ASSUME NEW pair PROVE pair \in Ci!Pushed' <=> pair \in Ci!Pushed \cup fresh
    <3>1. pair \in Ci!Pushed' <=> \E k \in Ci!Jobs : pair \in {k} \X DOMAIN loaded'[k]
      BY <2>3, Zenon
    <3>2. pair \in Ci!Pushed <=> \E k \in Ci!Jobs : pair \in {k} \X DOMAIN loaded[k]
      BY <2>3, Zenon
    <3>3. \A k \in Ci!Jobs : k # j => (pair \in {k} \X DOMAIN loaded'[k] <=> pair \in {k} \X DOMAIN loaded[k])
      BY <2>1
    <3>4. pair \in {j} \X DOMAIN loaded'[j] <=> pair \in {j} \X DOMAIN loaded[j] \/ pair \in fresh
      BY <2>2
    <3> QED
      BY <3>1, <3>2, <3>3, <3>4
  <2> QED
    BY <2>4
<1>5. IsFiniteSet(fresh) /\ Cardinality(fresh) = m
  <2>1. IsFiniteSet({j}) /\ Cardinality({j}) = 1
    BY FS_Singleton
  <2>2. IsFiniteSet((n + 1)..(n + m)) /\ Cardinality((n + 1)..(n + m)) = m
    <3>1. /\ IsFiniteSet((n + 1)..(n + m))
          /\ Cardinality((n + 1)..(n + m)) = IF n + 1 > n + m THEN 0 ELSE (n + m) - (n + 1) + 1
      <4>1. n + 1 \in Int /\ n + m \in Int
        BY <1>1
      <4> QED
        BY <4>1, FS_Interval
    <3> QED
      BY <1>1, <3>1
  <2>3. IsFiniteSet(fresh) /\ Cardinality(fresh) = Cardinality({j}) * Cardinality((n + 1)..(n + m))
    BY <2>1, <2>2, FS_Product
  <2> QED
    BY <1>1, <2>1, <2>2, <2>3
<1>6. Ci!Pushed \cap fresh = {}
  <2>1. \A pair \in fresh : pair[1] = j /\ pair[2] > n /\ pair[2] \in Nat
    BY <1>1
  <2>2. \A pair \in Ci!Pushed : pair[1] = j => pair[2] \in 1..n
    <3>1. ASSUME NEW k \in Ci!Jobs, NEW pair \in {k} \X DOMAIN loaded[k], pair[1] = j PROVE pair[2] \in 1..n
      BY <1>3, <3>1
    <3> QED
      BY <3>1 DEF Ci!Pushed
  <2> HIDE DEF fresh
  <2> QED
    BY <1>1, <2>1, <2>2
<1> HIDE DEF fresh
<1>7. /\ IsFiniteSet(Ci!Pushed \cup fresh)
      /\ Cardinality(Ci!Pushed \cup fresh) = Cardinality(Ci!Pushed) + Cardinality(fresh) - Cardinality({})
  <2> DEFINE old == Ci!Pushed
  <2>1. IsFiniteSet(old)
    OBVIOUS
  <2>2. old \cap fresh = {}
    BY <1>6
  <2> HIDE DEF old
  <2>3. /\ IsFiniteSet(old \cup fresh)
        /\ Cardinality(old \cup fresh) = Cardinality(old) + Cardinality(fresh) - Cardinality(old \cap fresh)
    BY <1>5, <2>1, FS_Union
  <2>4. IsFiniteSet(old \cup fresh) /\ Cardinality(old \cup fresh) = Cardinality(old) + Cardinality(fresh) - Cardinality({})
    BY <2>2, <2>3
  <2> QED
    BY <2>4 DEF old
<1>8. Cardinality(Ci!Pushed) \in Nat
  BY FS_CardinalityType
<1> QED
  BY <1>1, <1>2, <1>3, <1>4, <1>5, <1>7, <1>8, FS_EmptySet DEF n, m

LEMMA CiPage == CiShape /\ CiRoom /\ Ci!PageRead => CiShape' /\ CiRoom'
<1> SUFFICES ASSUME CiShape, CiRoom, Ci!PageRead PROVE CiShape' /\ CiRoom'
  OBVIOUS
<1> DEFINE runs == Ci!Window
           count == Len(loaded[now.job]) + Len(runs)
           more == Ci!MorePages(runs, count, Ci!Room - Len(runs))
<1>1. /\ phase = "reading" /\ now # Ci!NoJob /\ call' = Ci!AtRest /\ now \in NowItems
      /\ UNCHANGED <<provider, history, queued, visited, phase, contacted>>
      /\ loaded' = [loaded EXCEPT ![now.job] = @ \o runs]
  BY DEF Ci!PageRead, Ci!settings, CiShape
<1>2. PICK wanted \in 0..(IF provider = "gitlab" /\ now.page = 1 THEN Ci!Min2(details, Len(runs)) ELSE 0) :
        /\ details' = details - wanted /\ requests' = requests + wanted
        /\ now' = IF more THEN [now EXCEPT !.page = @ + 1, !.offset = @ + Ci!Asked] ELSE Ci!NoJob
        /\ todo' = IF more THEN todo ELSE Ci!Below \o todo
  BY DEF Ci!PageRead
<1>3. /\ Ci!Asked \in Int /\ runs \in Seq(1..history[now.job]) /\ Len(runs) \in Nat
      /\ Len(runs) =< MaxRuns - Cardinality(Ci!Pushed)
      /\ provider # "github" => Ci!Asked >= 1
      /\ provider = "github" => Ci!Asked =< now.budget - Len(loaded[now.job])
      /\ history[now.job] \in Nat /\ Len(loaded[now.job]) \in Nat /\ Cardinality(Ci!Pushed) \in Nat
  BY <1>1, WindowFits
<1>4. now.job \in Ci!Jobs /\ now.page \in Nat \ {0} /\ now.offset \in Nat /\ now.budget \in Int
  BY <1>1 DEF NowItems
<1>5. runs \in Seq(Nat)
  BY <1>3
<1> HIDE DEF runs
<1>6. /\ IsFiniteSet(Ci!Pushed') /\ Cardinality(Ci!Pushed') = Cardinality(Ci!Pushed) + Len(runs)
      /\ loaded'[now.job] = loaded[now.job] \o runs
      /\ Len(loaded'[now.job]) = Len(loaded[now.job]) + Len(runs)
      /\ \A k \in Ci!Jobs : k # now.job => loaded'[k] = loaded[k]
  BY <1>1, <1>4, <1>5, PushedGrow DEF CiRoom
<1>7. loaded' \in [Ci!Jobs -> Seq(Nat)] /\ \A j \in Ci!Jobs : loaded'[j] \in Seq(1..history[j])
  <2>1. loaded \in [Ci!Jobs -> Seq(Nat)] /\ \A j \in Ci!Jobs : loaded[j] \in Seq(1..history[j])
    BY DEF CiShape
  <2>2. loaded[now.job] \o runs \in Seq(1..history[now.job]) /\ loaded[now.job] \o runs \in Seq(Nat)
    BY <1>3, <1>4, <1>5, <2>1
  <2>3. \A j \in Ci!Jobs : loaded'[j] \in Seq(1..history[j])
    BY <1>6, <2>1, <2>2
  <2> QED
    BY <1>1, <1>4, <2>1, <2>2, <2>3
<1>8. details' \in 0..MaxDetails /\ requests' \in Nat
  <2>1. details \in 0..MaxDetails /\ requests \in Nat /\ MaxDetails \in Nat
    BY CiConstants DEF CiShape
  <2>2. Ci!Min2(details, Len(runs)) \in Nat /\ Ci!Min2(details, Len(runs)) =< details
    BY <1>3, <2>1 DEF Ci!Min2
  <2>3. wanted \in Nat /\ wanted =< details
    BY <1>2, <2>1, <2>2
  <2> QED
    BY <1>2, <2>1, <2>3
<1>9. queued = 0 /\ Ci!Room = MaxRuns - Cardinality(Ci!Pushed)
  <2>1. queued = 0
    BY <1>1 DEF CiShape
  <2> QED
    BY <1>3, <2>1, CiConstants, SameSize DEF Ci!Room, Ci!Count
<1>12. Ci!AtRest.hops = 0
  BY DEF Ci!AtRest
<1>10. CASE more
  <2> DEFINE new == [now EXCEPT !.page = @ + 1, !.offset = @ + Ci!Asked]
  <2>1. /\ now.page < CiPages /\ Len(runs) < MaxRuns - Cardinality(Ci!Pushed)
        /\ provider = "github" => Len(runs) = Ci!Asked /\ count < now.budget
    <3>1. now.page < CiPages /\ Ci!Room - Len(runs) > 0
      BY <1>10 DEF Ci!MorePages
    <3>2. provider = "github" => Len(runs) = Ci!Asked /\ count < Ci!Min2(history[now.job], now.budget)
      BY <1>10 DEF Ci!MorePages
    <3>3. count < Ci!Min2(history[now.job], now.budget) => count < now.budget
      BY <1>3, <1>4 DEF Ci!Min2
    <3> QED
      BY <1>3, <1>9, <3>1, <3>2, <3>3, CiConstants
  <2>2. Ci!Asked \in Nat
    BY <1>3, <2>1
  <2>3. new \in NowItems /\ new.job = now.job /\ new.page = now.page + 1 /\ new.budget = now.budget
    <3>1. now.page + 1 \in Nat \ {0} /\ now.offset + Ci!Asked \in Nat
      BY <1>4, <2>2
    <3> QED
      BY <1>1, <3>1 DEF NowItems
  <2>4. now' = new /\ todo' = todo
    BY <1>2, <1>10
  <2> HIDE DEF new, more
  <2>5. CiShape'
    BY <1>1, <1>7, <1>8, <1>12, <2>3, <2>4, SomeJob DEF CiShape
  <2>6. /\ now'.job = now.job /\ now'.page = now.page + 1 /\ now'.budget = now.budget
        /\ provider' = provider /\ queued' = 0
    BY <1>1, <1>9, <2>3, <2>4
  <2>7. /\ Cardinality(Ci!Pushed') =< MaxRuns /\ Cardinality(Ci!Pushed') < MaxRuns /\ now.page + 1 =< CiPages
        /\ provider = "github" => now.budget - Len(loaded'[now.job]) =< MaxRuns - Cardinality(Ci!Pushed')
        /\ provider = "github" => 0 < now.budget - Len(loaded'[now.job])
    <3>1. provider = "github" => now.budget - Len(loaded[now.job]) =< MaxRuns - Cardinality(Ci!Pushed)
      BY <1>1 DEF CiRoom
    <3>2. provider = "github" => Len(loaded[now.job]) + Len(runs) < now.budget
      BY <2>1
    <3>3. now.page + 1 =< CiPages
      BY <1>4, <2>1, CiConstants
    <3> DEFINE l == Len(loaded[now.job])
               r == Len(runs)
               p == Cardinality(Ci!Pushed)
               b == now.budget
    <3>4. /\ l \in Nat /\ r \in Nat /\ p \in Nat /\ b \in Int /\ MaxRuns \in Nat /\ r < MaxRuns - p
          /\ Len(loaded'[now.job]) = l + r /\ Cardinality(Ci!Pushed') = p + r
          /\ provider = "github" => b - l =< MaxRuns - p /\ l + r < b
      BY <1>3, <1>4, <1>6, <2>1, <3>1, <3>2, CiConstants
    <3> HIDE DEF l, r, p, b
    <3>5. /\ p + r =< MaxRuns /\ p + r < MaxRuns
          /\ provider = "github" => b - (l + r) =< MaxRuns - (p + r) /\ 0 < b - (l + r)
      BY <3>4
    <3> QED
      BY <3>3, <3>4, <3>5 DEF b
  <2>8. Cardinality(Ci!Pushed') + 0 =< MaxRuns
    BY <1>3, <1>6, <2>7
  <2> QED
    BY <1>6, <2>5, <2>6, <2>7, <2>8 DEF CiRoom
<1>11. CASE ~more
  <2>1. now' = Ci!NoJob /\ todo' = Ci!Below \o todo
    BY <1>2, <1>11
  <2>2. todo' \in Seq(TodoItems)
    BY <1>1, <2>1, CiBelow
  <2> HIDE DEF more
  <2>3. CiShape'
    BY <1>1, <1>7, <1>8, <1>12, <2>1, <2>2 DEF CiShape
  <2>4. Cardinality(Ci!Pushed') + queued' =< MaxRuns
    BY <1>1, <1>3, <1>6, <1>9, CiConstants
  <2> QED
    BY <1>6, <2>1, <2>3, <2>4 DEF CiRoom
<1> QED
  BY <1>10, <1>11

LEMMA CiFails == CiShape /\ CiRoom /\ Ci!PageFails => CiShape' /\ CiRoom'
<1> SUFFICES ASSUME CiShape, CiRoom, Ci!PageFails PROVE CiShape' /\ CiRoom'
  OBVIOUS
<1>1. /\ phase = "reading" /\ now \in NowItems /\ now' = Ci!NoJob /\ call' = Ci!AtRest
      /\ todo' \in {todo, Ci!Below \o todo}
      /\ UNCHANGED <<provider, history, loaded, queued, visited, details, phase, requests, contacted>>
  BY DEF Ci!PageFails, Ci!settings, CiShape
<1>2. todo' \in Seq(TodoItems)
  BY <1>1, CiBelow DEF CiShape
<1>3. Ci!AtRest.hops = 0
  BY DEF Ci!AtRest
<1>4. CiShape'
  BY <1>1, <1>2, <1>3 DEF CiShape
<1>5. CiRoom'
  BY <1>1 DEF CiRoom, Ci!Pushed
<1> QED
  BY <1>4, <1>5

LEMMA CiQueue == CiShape /\ CiRoom /\ (Ci!QueueRead \/ Ci!QueueFails) => CiShape' /\ CiRoom'
<1> SUFFICES ASSUME CiShape, CiRoom, Ci!QueueRead \/ Ci!QueueFails PROVE CiShape' /\ CiRoom'
  OBVIOUS
<1>1. /\ phase = "queue" /\ phase' = "done" /\ call' = Ci!AtRest
      /\ UNCHANGED <<provider, history, todo, now, loaded, visited, details, requests, contacted>>
      /\ queued' = queued \/ \E n \in Histories : queued' = Ci!Min2(n, Ci!Room)
  BY DEF Ci!QueueRead, Ci!QueueFails, Ci!settings
<1>2. /\ now = Ci!NoJob /\ todo = <<>> /\ queued = 0 /\ Cardinality(Ci!Pushed) \in Nat
      /\ Cardinality(Ci!Pushed) + queued =< MaxRuns
  BY <1>1, FS_CardinalityType DEF CiShape, CiRoom
<1>3. Ci!Room = MaxRuns - Cardinality(Ci!Pushed)
  BY <1>2, CiConstants, SameSize DEF Ci!Room, Ci!Count
<1>4. queued' \in Nat /\ Cardinality(Ci!Pushed) + queued' =< MaxRuns
  BY <1>1, <1>2, <1>3, CiConstants DEF Ci!Min2
<1>5. Ci!AtRest.hops = 0
  BY DEF Ci!AtRest
<1>6. CiShape'
  BY <1>1, <1>2, <1>4, <1>5 DEF CiShape
<1>7. Ci!Pushed' = Ci!Pushed /\ now' = Ci!NoJob
  BY <1>1, <1>2 DEF Ci!Pushed
<1>8. CiRoom'
  BY <1>4, <1>7 DEF CiRoom
<1> QED
  BY <1>6, <1>8

\* The projects turned to, those that are over, and what is asked for next to their pages.
Taken == IF provider = "jenkins" THEN Cardinality(visited) ELSE Len(Projects) - Len(todo)

Over == IF now = Ci!NoJob THEN Taken ELSE Taken - 1

InPage == IF now = Ci!NoJob THEN 0 ELSE IF call = Ci!AtRest THEN now.page - 1 ELSE now.page

Aside ==
    IF provider = "gitlab" THEN MaxDetails - details
    ELSE IF provider = "jenkins" /\ (phase = "done" \/ (phase = "queue" /\ call # Ci!AtRest)) THEN 1 ELSE 0

CiSpent == Over \in Nat /\ requests =< Over * CiPages + InPage + Aside

LEMMA CiNumbers ==
    ASSUME CiShape
    PROVE  /\ Taken \in Int /\ Aside \in Nat /\ requests \in Nat /\ details \in Nat /\ Len(todo) \in Nat
           /\ Taken =< (IF provider = "jenkins" THEN MaxJobs ELSE Len(Projects))
           /\ Aside =< (IF provider = "gitlab" THEN MaxDetails ELSE 1)
           /\ now # Ci!NoJob => now.page \in Nat \ {0} /\ InPage \in Nat /\ InPage =< now.page
           /\ Len(Projects) \in Nat
<1>1. Cardinality(visited) \in Nat /\ Cardinality(visited) =< MaxJobs
  BY FS_CardinalityType DEF CiShape
<1>2. Len(Projects) \in Nat /\ Len(todo) \in Nat
  BY CiConstants DEF CiShape
<1>3. Taken \in Int /\ Taken =< (IF provider = "jenkins" THEN MaxJobs ELSE Len(Projects))
  BY <1>1, <1>2 DEF Taken
<1>4. details \in Nat /\ details =< MaxDetails /\ MaxDetails \in Nat /\ requests \in Nat
  BY CiConstants DEF CiShape
<1>5. Aside \in Nat /\ Aside =< (IF provider = "gitlab" THEN MaxDetails ELSE 1)
  BY <1>4 DEF Aside
<1>6. now # Ci!NoJob => now.page \in Nat \ {0}
  BY DEF CiShape, NowItems
<1>7. now # Ci!NoJob => InPage \in Nat /\ InPage =< now.page
  BY <1>6 DEF InPage
<1> QED
  BY <1>2, <1>3, <1>4, <1>5, <1>6, <1>7

LEMMA SpentInit == Ci!Init => CiSpent
<1> SUFFICES ASSUME Ci!Init PROVE CiSpent
  OBVIOUS
<1>1. Len(todo) = Len(Projects) /\ Len(Projects) \in Nat
  BY CiConstants DEF Ci!Init
<1>2. Cardinality(visited) = 0
  BY FS_EmptySet DEF Ci!Init
<1>3. now = Ci!NoJob /\ requests = 0 /\ phase = "reading" /\ details = MaxDetails
  BY DEF Ci!Init
<1>4. Over = 0 /\ InPage = 0 /\ Aside = 0
  BY <1>1, <1>2, <1>3, CiConstants DEF Over, Taken, InPage, Aside
<1>5. 0 * CiPages = 0
  BY CiConstants
<1> QED
  BY <1>3, <1>4, <1>5 DEF CiSpent

\* What a step may do to the numbers.
LEMMA SpentAgain ==
    ASSUME CiShape, CiShape', CiSpent, Over' \in Nat, NEW more \in Nat, requests' = requests + more,
           \/ Over' >= Over /\ InPage' + Aside' >= InPage + Aside + more
           \/ Over' = Over + 1 /\ InPage =< CiPages /\ InPage' = 0 /\ Aside' >= Aside + more
    PROVE  CiSpent'
<1> DEFINE a == Over * CiPages
           b == Over' * CiPages
<1>1. CiPages \in Nat /\ Over \in Nat /\ requests \in Nat /\ Aside \in Nat /\ Aside' \in Nat
  <2>0. details' \in 0..MaxDetails
    BY Zenon DEF CiShape
  <2>1. MaxDetails \in Nat
    BY CiConstants
  <2>2. \A d \in 0..MaxDetails : MaxDetails - d \in Nat
    BY <2>1
  <2>3. Aside' \in Nat
    BY <2>0, <2>2 DEF Aside
  <2> QED
    BY <2>3, CiConstants, CiNumbers DEF CiSpent
<1>2. a \in Nat /\ b \in Nat /\ (Over =< Over' => a =< b) /\ (Over' = Over + 1 => b = a + CiPages)
  BY <1>1, MoreIsMore
<1>3. InPage \in Nat /\ InPage' \in Nat
  <2>1. /\ now # Ci!NoJob => now.page \in Nat \ {0}
        /\ now' # Ci!NoJob => now'.page \in Nat \ {0}
    BY DEF CiShape, NowItems
  <2> QED
    BY <2>1 DEF InPage
<1>4. requests =< a + InPage + Aside
  BY DEF CiSpent
<1> HIDE DEF a, b
<1>5. requests + more =< b + InPage' + Aside'
  <2> DEFINE i == InPage
             j == InPage'
             c == Aside
             d == Aside'
  <2>1. i \in Nat /\ j \in Nat /\ c \in Nat /\ d \in Nat /\ requests =< a + i + c
    BY <1>1, <1>3, <1>4
  <2>2. CASE Over' >= Over /\ j + d >= i + c + more
    <3>1. a =< b
      BY <1>1, <1>2, <2>2
    <3> HIDE DEF i, j, c, d
    <3>2. requests + more =< b + j + d
      BY <1>1, <1>2, <2>1, <2>2, <3>1
    <3> QED
      BY <3>2 DEF j, d
  <2>3. CASE Over' = Over + 1 /\ i =< CiPages /\ j = 0 /\ d >= c + more
    <3>1. b = a + CiPages
      BY <1>2, <2>3
    <3> HIDE DEF i, j, c, d
    <3>2. requests + more =< b + j + d
      BY <1>1, <1>2, <2>1, <2>3, <3>1
    <3> QED
      BY <3>2 DEF j, d
  <2> QED
    BY <2>2, <2>3
<1> QED
  BY <1>5 DEF CiSpent, b

\* An adapter turns to a project: it is one more, unless it was visited.
LEMMA SpentTake == CiShape /\ CiRoom /\ CiSpent /\ Ci!Take => CiSpent'
<1> SUFFICES ASSUME CiShape, CiRoom, CiSpent, Ci!Take PROVE CiSpent'
  OBVIOUS
<1> DEFINE job == Head(todo).job
<1>1. CiShape'
  BY CiTake
<1>2. /\ now = Ci!NoJob /\ todo # <<>> /\ todo' = Tail(todo) /\ phase = "reading"
      /\ UNCHANGED <<provider, details, call, phase, requests>>
      /\ \/ now' = Ci!NoJob /\ visited' = visited
         \/ /\ now' # Ci!NoJob /\ now'.page = 1
            /\ visited' = IF provider = "jenkins" THEN visited \cup {job} ELSE visited
            /\ provider = "jenkins" => job \notin visited
  <2>1. /\ now = Ci!NoJob /\ todo # <<>> /\ todo' = Tail(todo) /\ phase = "reading"
        /\ UNCHANGED <<provider, details, call, phase, requests>>
    BY DEF Ci!Take, Ci!settings
  <2>2. CASE (provider = "github" /\ Ci!Budget = 0) \/ (provider = "jenkins" /\ job \in visited)
    BY <2>1, <2>2 DEF Ci!Take
  <2>3. CASE ~(provider = "github" /\ Ci!Budget = 0) /\ ~(provider = "jenkins" /\ job \in visited)
    <3>1. /\ now' = [job |-> job, depth |-> Head(todo).depth, page |-> 1, budget |-> Ci!Budget,
                     first |-> Ci!Min2(PageSize, Ci!Budget), offset |-> 0]
          /\ visited' = IF provider = "jenkins" THEN visited \cup {job} ELSE visited
      BY <2>3 DEF Ci!Take
    <3>2. "page" \in DOMAIN now' /\ now'.page = 1
      BY <3>1
    <3>3. "page" \notin DOMAIN Ci!NoJob
      BY DEF Ci!NoJob
    <3> QED
      BY <2>1, <2>3, <3>1, <3>2, <3>3
  <2> QED
    BY <2>1, <2>2, <2>3
<1>3. call = Ci!AtRest /\ InPage = 0 /\ Over = Taken /\ Taken \in Nat
  BY <1>2 DEF CiShape, InPage, Over, CiSpent
<1>4. InPage' = 0
  BY <1>2, <1>3 DEF InPage
<1>5. Aside' = Aside /\ Aside \in Nat
  BY <1>2, CiNumbers DEF Aside
<1>6. Len(todo) \in Nat /\ Len(todo') = Len(todo) - 1 /\ Len(Projects) \in Nat
  BY <1>2, CiConstants DEF CiShape
<1>7. Over' \in Nat /\ Over' >= Over
  <2>1. CASE provider = "jenkins" /\ visited' = visited /\ now' = Ci!NoJob
    BY <1>2, <1>3, <2>1 DEF Over, Taken
  <2>2. CASE provider = "jenkins" /\ visited' = visited \cup {job} /\ job \notin visited /\ now' # Ci!NoJob
    <3>1. Cardinality(visited \cup {job}) = Cardinality(visited) + 1
      BY <2>2, FS_AddElement DEF CiShape
    <3> QED
      BY <1>2, <1>3, <2>2, <3>1 DEF Over, Taken
  <2>3. CASE provider # "jenkins"
    <3>1. Taken' = Taken + 1
      BY <1>2, <1>3, <1>6, <2>3 DEF Taken
    <3> QED
      BY <1>3, <3>1 DEF Over
  <2> QED
    BY <1>2, <2>1, <2>2, <2>3
<1>8. requests' = requests + 0 /\ requests \in Nat
  BY <1>2, CiNumbers
<1>9. InPage' + Aside' >= InPage + Aside + 0
  BY <1>3, <1>4, <1>5
<1> QED
  BY <1>1, <1>7, <1>8, <1>9, SpentAgain

LEMMA SpentOther ==
    ASSUME CiShape, CiRoom, CiSpent,
           Ci!LimitReached \/ Ci!ProjectsDone \/ Ci!Request \/ Ci!Redirected \/ UNCHANGED Ci!vars
    PROVE  CiSpent'
<1>1. CiShape'
  BY CiOther
<1>2. /\ UNCHANGED <<provider, visited, details, now>> /\ (todo' = todo \/ todo' = <<>>)
      /\ (phase' = phase \/ (phase = "reading" /\ now = Ci!NoJob /\ requests' = requests /\ call' = call))
  BY DEF Ci!LimitReached, Ci!ProjectsDone, Ci!Request, Ci!Redirected, Ci!vars, Ci!settings
<1>3. /\ Taken \in Int /\ Len(todo) \in Nat /\ Len(Projects) \in Nat /\ Aside \in Nat /\ requests \in Nat
      /\ now # Ci!NoJob => now.page \in Nat \ {0}
  BY CiNumbers
<1>4. Over' \in Nat /\ Over' >= Over
  <2>1. CASE todo' = todo
    BY <1>2, <2>1 DEF Over, Taken, CiSpent
  <2>2. CASE todo' = <<>>
    BY <1>2, <1>3, <2>2 DEF Over, Taken, CiSpent
  <2> QED
    BY <1>2, <2>1, <2>2
<1>5. CASE requests' = requests /\ (call' = Ci!AtRest <=> call = Ci!AtRest)
  <2>1. InPage' = InPage
    BY <1>2, <1>5 DEF InPage
  <2>2. Aside' >= Aside /\ Aside' \in Nat
    <3>1. CASE phase' = phase
      BY <1>2, <1>3, <1>5, <3>1 DEF Aside
    <3>2. CASE phase = "reading"
      BY <1>2, <1>3, <1>5, <3>2 DEF Aside
    <3> QED
      BY <1>2, <3>1, <3>2
  <2>3. InPage \in Nat /\ requests' = requests + 0
    BY <1>3, <1>5 DEF InPage
  <2>4. InPage' + Aside' >= InPage + Aside + 0
    <3> DEFINE i == InPage
               c == Aside
               d == Aside'
    <3>1. i \in Nat /\ c \in Nat /\ d \in Nat /\ d >= c
      BY <1>3, <2>2, <2>3
    <3> HIDE DEF i, c, d
    <3>2. i + d >= i + c + 0
      BY <3>1
    <3> QED
      BY <2>1, <3>2 DEF i, c, d
  <2> QED
    BY <1>1, <1>4, <2>3, <2>4, SpentAgain
<1>6. CASE Ci!Request
  <2>1. /\ call = Ci!AtRest /\ call' # Ci!AtRest /\ requests' = requests + 1 /\ phase' = phase
        /\ now # Ci!NoJob \/ phase = "queue"
    BY <1>6 DEF Ci!Request, Ci!AtRest
  <2>2. CASE now # Ci!NoJob
    <3>1. InPage = now.page - 1 /\ InPage' = now.page
      BY <1>2, <2>1, <2>2 DEF InPage
    <3>2. phase # "queue" /\ phase # "done"
      BY <2>2 DEF CiShape
    <3>3. Aside' = Aside
      BY <1>2, <2>1, <3>2 DEF Aside
    <3>4. InPage' + Aside' >= InPage + Aside + 1
      BY <1>3, <2>2, <3>1, <3>3
    <3> QED
      BY <1>1, <1>4, <2>1, <3>4, SpentAgain
  <2>3. CASE now = Ci!NoJob
    <3>1. InPage = 0 /\ InPage' = 0 /\ phase = "queue" /\ provider = "jenkins"
      BY <1>2, <2>1, <2>3 DEF InPage, CiShape
    <3>2. Aside = 0 /\ Aside' = 1
      BY <1>2, <2>1, <3>1 DEF Aside
    <3>3. InPage' + Aside' >= InPage + Aside + 1
      BY <3>1, <3>2
    <3> QED
      BY <1>1, <1>4, <2>1, <3>3, SpentAgain
  <2> QED
    BY <2>2, <2>3
<1>7. CASE Ci!LimitReached \/ Ci!ProjectsDone \/ UNCHANGED Ci!vars
  <2>1. requests' = requests /\ call' = call
    BY <1>7 DEF Ci!LimitReached, Ci!ProjectsDone, Ci!vars
  <2> QED
    BY <1>5, <2>1
<1>8. CASE Ci!Redirected
  <2>1. requests' = requests /\ call # Ci!AtRest /\ call' # Ci!AtRest
    BY <1>8 DEF Ci!Redirected, Ci!Follows, Ci!AtRest
  <2> QED
    BY <1>5, <2>1
<1> QED
  BY <1>6, <1>7, <1>8

LEMMA SpentRead ==
    ASSUME CiShape, CiRoom, CiSpent, Ci!PageRead \/ Ci!PageFails PROVE CiSpent'
<1>1. CiShape'
  BY CiPage, CiFails
<1>2. /\ phase = "reading" /\ now # Ci!NoJob /\ now \in NowItems /\ call # Ci!AtRest /\ call' = Ci!AtRest
      /\ UNCHANGED <<provider, visited, phase>>
      /\ todo' = todo \/ todo' = Ci!Below \o todo
      /\ now' = Ci!NoJob \/ now' = [now EXCEPT !.page = @ + 1, !.offset = @ + Ci!Asked]
  BY DEF Ci!PageRead, Ci!PageFails, Ci!settings, CiShape
<1>3. PICK more \in Nat : requests' = requests + more /\ details' = details - more
        /\ (provider # "gitlab" => more = 0)
  <2>1. CASE Ci!PageFails
    <3>1. requests' = requests + 0 /\ details' = details - 0
      BY <2>1, CiNumbers DEF Ci!PageFails
    <3> QED
      BY <3>1
  <2>2. CASE Ci!PageRead
    BY <2>2 DEF Ci!PageRead
  <2> QED
    BY <2>1, <2>2
<1>4. /\ Taken \in Int /\ Over \in Nat /\ Aside \in Nat /\ now.page \in Nat \ {0} /\ InPage = now.page
      /\ now.page =< CiPages /\ Over = Taken - 1 /\ details \in Nat /\ MaxDetails \in Nat /\ CiPages \in Nat
  BY <1>2, CiNumbers, CiConstants DEF CiSpent, CiRoom, InPage, Over
<1>5. Taken' = Taken
  <2>1. CASE provider = "jenkins"
    BY <1>2, <2>1 DEF Taken
  <2>2. CASE provider # "jenkins"
    <3>1. Ci!Below = <<>> /\ todo \in Seq(TodoItems)
      BY <2>2 DEF Ci!Below, CiShape
    <3>2. todo' = todo
      BY <1>2, <3>1
    <3> QED
      BY <1>2, <2>2, <3>2 DEF Taken
  <2> QED
    BY <2>1, <2>2
<1>6. Aside' = Aside + more
  BY <1>2, <1>3, <1>4 DEF Aside
<1>7. CASE now' = Ci!NoJob
  <2>1. Over' = Over + 1 /\ InPage' = 0
    BY <1>4, <1>5, <1>7 DEF Over, InPage
  <2>2. InPage =< CiPages /\ Aside' >= Aside + more /\ Over' \in Nat
    BY <1>4, <1>6, <2>1
  <2> QED
    BY <1>1, <1>3, <2>1, <2>2, SpentAgain
<1>8. CASE now' = [now EXCEPT !.page = @ + 1, !.offset = @ + Ci!Asked]
  <2>1. now'.page = now.page + 1 /\ "page" \in DOMAIN now'
    BY <1>2, <1>8 DEF NowItems
  <2>2. now' # Ci!NoJob
    BY <2>1 DEF Ci!NoJob
  <2>3. Over' = Over /\ InPage' = now.page
    BY <1>2, <1>4, <1>5, <2>1, <2>2 DEF Over, InPage
  <2>4. Over' \in Nat /\ Over' >= Over /\ InPage' + Aside' >= InPage + Aside + more
    BY <1>4, <1>6, <2>3
  <2> QED
    BY <1>1, <1>3, <2>4, SpentAgain
<1> QED
  BY <1>2, <1>7, <1>8

LEMMA SpentQueue ==
    ASSUME CiShape, CiRoom, CiSpent, Ci!QueueRead \/ Ci!QueueFails PROVE CiSpent'
<1>1. CiShape'
  BY CiQueue
<1>2. /\ phase = "queue" /\ call # Ci!AtRest /\ phase' = "done"
      /\ UNCHANGED <<provider, visited, todo, now, details, requests>>
  BY DEF Ci!QueueRead, Ci!QueueFails, Ci!settings
<1>3. now = Ci!NoJob /\ provider = "jenkins"
  BY <1>2 DEF CiShape
<1>4. InPage = 0 /\ InPage' = 0 /\ Aside = 1 /\ Aside' = 1
  BY <1>2, <1>3 DEF InPage, Aside
<1>5. Over' = Over /\ Over \in Nat
  BY <1>2 DEF Over, Taken, CiSpent
<1>6. requests' = requests + 0 /\ Over' >= Over /\ InPage' + Aside' >= InPage + Aside + 0
  BY <1>2, <1>4, <1>5, CiNumbers
<1> QED
  BY <1>1, <1>5, <1>6, SpentAgain

LEMMA SpentEnough ==
    ASSUME CiShape, CiRoom, CiSpent
    PROVE  requests =< (IF provider = "jenkins" THEN MaxJobs ELSE Len(Projects)) * CiPages
                       + (IF provider = "gitlab" THEN MaxDetails ELSE 1)
<1> DEFINE most == IF provider = "jenkins" THEN MaxJobs ELSE Len(Projects)
           aside == IF provider = "gitlab" THEN MaxDetails ELSE 1
           a == Over * CiPages
           b == most * CiPages
<1>1. /\ Taken \in Int /\ Taken =< most /\ most \in Nat /\ CiPages \in Nat /\ Over \in Nat
      /\ Aside =< aside /\ Aside \in Nat /\ aside \in Nat /\ requests \in Nat
  BY CiNumbers, CiConstants DEF CiSpent
<1>2. requests =< a + InPage + Aside
  BY DEF CiSpent
<1>3. a \in Nat /\ b \in Nat /\ (Over =< most => a =< b)
  BY <1>1, MoreIsMore
<1>4. CASE now = Ci!NoJob
  <2>1. Over = Taken /\ InPage = 0
    BY <1>4 DEF Over, InPage
  <2> HIDE DEF a, b, most, aside
  <2>2. requests =< b + aside
    BY <1>1, <1>2, <1>3, <2>1
  <2> QED
    BY <2>2 DEF b, most, aside
<1>5. CASE now # Ci!NoJob
  <2>1. Over + 1 = Taken /\ InPage \in Nat /\ InPage =< CiPages
    BY <1>1, <1>5, CiNumbers DEF Over, CiRoom
  <2>2. (Over + 1) * CiPages = a + CiPages /\ (Over + 1) * CiPages =< b
    BY <1>1, <2>1, MoreIsMore
  <2> HIDE DEF a, b, most, aside
  <2>3. requests =< b + aside
    BY <1>1, <1>2, <1>3, <2>1, <2>2
  <2> QED
    BY <2>3 DEF b, most, aside
<1> QED
  BY <1>4, <1>5

\* A repository is still to be read, is being read, is told to be incomplete, or is whole.
Accounted(j) ==
    \/ \E k \in DOMAIN todo : todo[k].job = j
    \/ now # Ci!NoJob /\ now.job = j
    \/ j \in issues
    \/ Len(loaded[j]) >= history[j]

CiAccounted == provider = "github" => \A i \in DOMAIN Projects : Accounted(Projects[i])

LEMMA AccountedInit == Ci!Init => CiAccounted
<1> SUFFICES ASSUME Ci!Init, NEW i \in DOMAIN Projects PROVE Accounted(Projects[i])
  BY DEF CiAccounted
<1>1. todo = [k \in 1..Len(Projects) |-> [job |-> Projects[k], depth |-> 0]] /\ i \in 1..Len(Projects)
  BY CiConstants DEF Ci!Init
<1>2. i \in DOMAIN todo /\ todo[i].job = Projects[i]
  BY <1>1
<1> QED
  BY <1>2 DEF Accounted

LEMMA AccountedStep ==
    ASSUME CiShape, CiRoom, CiAccounted, [Ci!Next]_(Ci!vars) PROVE CiAccounted'
<1> SUFFICES ASSUME provider' = "github", NEW i \in DOMAIN Projects PROVE Accounted(Projects[i])'
  BY DEF CiAccounted
<1> DEFINE j == Projects[i]
<1>1. provider = "github" /\ history' = history /\ j \in Ci!Jobs /\ Accounted(j)
  <2>1. provider' = provider /\ history' = history
    BY DEF Ci!Next, Ci!vars, Ci!settings, Ci!Take, Ci!LimitReached, Ci!ProjectsDone, Ci!Request, Ci!Redirected,
           Ci!PageRead, Ci!PageFails, Ci!QueueRead, Ci!QueueFails
  <2>2. Projects[i] \in Ci!Jobs
    BY CiConstants
  <2> QED
    BY <2>1, <2>2 DEF CiAccounted
<1> HIDE DEF j
<1>2. todo \in Seq(TodoItems)
  BY DEF CiShape
<1>3. CASE Ci!Take
  <2>1. /\ now = Ci!NoJob /\ todo # <<>> /\ todo' = Tail(todo) /\ loaded' = loaded
        /\ issues' = issues \cup {Head(todo).job} \/ (issues' = issues /\ now' # Ci!NoJob /\ now'.job = Head(todo).job)
    <3>1. /\ now = Ci!NoJob /\ todo # <<>> /\ todo' = Tail(todo) /\ loaded' = loaded
      BY <1>3 DEF Ci!Take
    <3>2. CASE Ci!Budget = 0
      BY <1>1, <1>3, <3>2 DEF Ci!Take
    <3>3. CASE Ci!Budget # 0
      <4>1. /\ issues' = issues
            /\ now' = [job |-> Head(todo).job, depth |-> Head(todo).depth, page |-> 1, budget |-> Ci!Budget,
                       first |-> Ci!Min2(PageSize, Ci!Budget), offset |-> 0]
        BY <1>1, <1>3, <3>3 DEF Ci!Take
      <4>2. "page" \in DOMAIN now' /\ now'.job = Head(todo).job
        BY <4>1
      <4>3. "page" \notin DOMAIN Ci!NoJob
        BY DEF Ci!NoJob
      <4>4. now' # Ci!NoJob
        BY <4>2, <4>3
      <4> QED
        BY <3>1, <4>1, <4>2, <4>4
    <3> QED
      BY <3>2, <3>3
  <2>2. CASE \E k \in DOMAIN todo : todo[k].job = j
    <3>1. PICK k \in DOMAIN todo : todo[k].job = j
      BY <2>2
    <3>2. CASE k = 1
      <4>1. Head(todo).job = j
        BY <1>2, <2>1, <3>1, <3>2
      <4> QED
        BY <2>1, <4>1 DEF Accounted, j
    <3>3. CASE k # 1
      <4>1. k - 1 \in DOMAIN Tail(todo) /\ Tail(todo)[k - 1] = todo[k]
        BY <1>2, <2>1, <3>1, <3>3
      <4> QED
        BY <2>1, <3>1, <4>1 DEF Accounted, j
    <3> QED
      BY <3>2, <3>3
  <2>3. CASE j \in issues \/ Len(loaded[j]) >= history[j]
    BY <1>1, <2>1, <2>3 DEF Accounted, j
  <2> QED
    BY <1>1, <2>1, <2>2, <2>3 DEF Accounted
<1>4. CASE Ci!PageRead
  <2> DEFINE runs == Ci!Window
             count == Len(loaded[now.job]) + Len(runs)
             more == Ci!MorePages(runs, count, Ci!Room - Len(runs))
  <2>1. now # Ci!NoJob /\ now \in NowItems /\ loaded' = [loaded EXCEPT ![now.job] = @ \o runs]
    BY <1>4 DEF Ci!PageRead, CiShape
  <2>2. runs \in Seq(1..history[now.job]) /\ Len(loaded[now.job]) \in Nat /\ history[now.job] \in Nat /\ Len(runs) \in Nat
    BY <2>1, WindowFits
  <2>3. now.job \in Ci!Jobs /\ runs \in Seq(Nat)
    BY <2>1, <2>2 DEF NowItems
  <2> DEFINE Told == count < history[now.job] => now.job \in issues'
  <2>4. issues \subseteq issues' /\ todo' = todo /\ ((now'.job = now.job /\ now' # Ci!NoJob) \/ Told)
    <3>1. Ci!Below \o todo = todo
      BY <1>1, <1>2 DEF Ci!Below
    <3>2. CASE more
      <4>1. now' = [now EXCEPT !.page = @ + 1, !.offset = @ + Ci!Asked] /\ todo' = todo /\ issues \subseteq issues'
        BY <1>4, <3>2 DEF Ci!PageRead
      <4>2. "page" \in DOMAIN now' /\ now'.job = now.job
        BY <2>1, <4>1 DEF NowItems
      <4>3. "page" \notin DOMAIN Ci!NoJob
        BY DEF Ci!NoJob
      <4>4. now' # Ci!NoJob
        BY <4>2, <4>3
      <4> HIDE DEF runs, count, more, Told
      <4> QED
        BY <4>1, <4>2, <4>4
    <3>3. CASE ~more
      BY <1>1, <1>4, <3>1, <3>3 DEF Ci!PageRead, Ci!Missing
    <3> QED
      BY <3>2, <3>3
  <2> HIDE DEF runs
  <2>5. Len(loaded'[now.job]) = count /\ \A k \in Ci!Jobs : k # now.job => loaded'[k] = loaded[k]
    BY <2>1, <2>3, PushedGrow DEF CiRoom
  <2> HIDE DEF count, more
  <2>6. CASE j # now.job
    BY <1>1, <2>4, <2>5, <2>6 DEF Accounted, j
  <2>7. CASE j = now.job
    <3>1. CASE now'.job = now.job /\ now' # Ci!NoJob
      BY <2>7, <3>1 DEF Accounted, j
    <3>2. CASE count < history[now.job] /\ now.job \in issues'
      BY <2>7, <3>2 DEF Accounted, j
    <3>3. CASE count >= history[now.job]
      BY <1>1, <2>5, <2>7, <3>3 DEF Accounted, j
    <3> QED
      BY <2>2, <2>4, <3>1, <3>2, <3>3 DEF count
  <2> QED
    BY <2>6, <2>7
<1>5. CASE Ci!PageFails
  <2>1. /\ now.job \in issues' /\ issues \subseteq issues' /\ loaded' = loaded
        /\ todo' = todo \/ todo' = Ci!Below \o todo
    BY <1>5 DEF Ci!PageFails
  <2>2. todo' = todo
    BY <1>1, <1>2, <2>1 DEF Ci!Below
  <2> QED
    BY <1>1, <2>1, <2>2 DEF Accounted, j
<1>6. CASE Ci!ProjectsDone \/ Ci!Request \/ Ci!Redirected \/ UNCHANGED Ci!vars
  <2>1. UNCHANGED <<todo, now, issues, loaded>>
    BY <1>6 DEF Ci!ProjectsDone, Ci!Request, Ci!Redirected, Ci!vars
  <2> QED
    BY <1>1, <2>1 DEF Accounted, j
<1>7. CASE Ci!LimitReached \/ Ci!QueueRead \/ Ci!QueueFails
  <2>1. provider # "github" \/ phase = "queue"
    BY <1>7 DEF Ci!LimitReached, Ci!QueueRead, Ci!QueueFails
  <2> QED
    BY <1>1, <2>1 DEF CiShape
<1> QED
  BY <1>3, <1>4, <1>5, <1>6, <1>7 DEF Ci!Next

CiInv == CiShape /\ CiRoom /\ CiSpent /\ CiAccounted

LEMMA CiStep == CiInv /\ [Ci!Next]_(Ci!vars) => CiInv'
<1> SUFFICES ASSUME CiInv, [Ci!Next]_(Ci!vars) PROVE CiInv'
  OBVIOUS
<1>1. CiShape /\ CiRoom /\ CiSpent /\ CiAccounted
  BY DEF CiInv
<1>2. CiShape' /\ CiRoom'
  BY <1>1, CiTake, CiOther, CiPage, CiFails, CiQueue DEF Ci!Next
<1>3. CiSpent'
  BY <1>1, SpentTake, SpentOther, SpentRead, SpentQueue DEF Ci!Next
<1>4. CiAccounted'
  BY <1>1, AccountedStep
<1> QED
  BY <1>2, <1>3, <1>4 DEF CiInv

LEMMA CiCorrect == Ci!Init /\ [][Ci!Next]_(Ci!vars) => []CiInv
<1>1. Ci!Init => CiInv
  BY CiInit, SpentInit, AccountedInit DEF CiInv
<1> QED
  BY <1>1, CiStep, PTL

LEMMA EachOnce ==
    ASSUME NEW n \in Nat, NEW s \in Seq(1..n), Len(s) >= n, \A x, y \in DOMAIN s : s[x] = s[y] => x = y
    PROVE  {s[x] : x \in DOMAIN s} = 1..n
<1>1. Len(s) \in Nat /\ DOMAIN s = 1..Len(s) /\ 1..n \subseteq DOMAIN s
  OBVIOUS
<1>2. \A x \in DOMAIN s : s[x] \in 1..n
  OBVIOUS
<1> DEFINE f == [x \in 1..n |-> s[x]]
<1>3. f \in [1..n -> 1..n] /\ \A x, y \in 1..n : f[x] = f[y] => x = y
  BY <1>1, <1>2
<1>4. IsFiniteSet(1..n)
  BY FS_Interval
<1> HIDE DEF f
<1>5. f \in Injection(1..n, 1..n)
  BY <1>3 DEF Injection, IsInjective
<1>6. f \in Surjection(1..n, 1..n)
  BY <1>4, <1>5, FS_Injection
<1>7. \A y \in 1..n : \E x \in 1..n : f[x] = y
  BY <1>3, <1>6 DEF Surjection
<1>8. \A y \in 1..n : \E x \in DOMAIN s : s[x] = y
  <2> SUFFICES ASSUME NEW y \in 1..n PROVE \E x \in DOMAIN s : s[x] = y
    OBVIOUS
  <2>1. PICK x \in 1..n : f[x] = y
    BY <1>7
  <2> QED
    BY <1>1, <2>1 DEF f
<1> HIDE DEF f
<1> DEFINE found == {s[x] : x \in DOMAIN s}
<1>9. found \subseteq 1..n
  BY <1>2
<1>10. \A y \in 1..n : y \in found
  BY <1>8
<1> HIDE DEF found
<1>11. found = 1..n
  BY <1>9, <1>10
<1> QED
  BY <1>11 DEF found

LEMMA CiFacts == ASSUME CiInv PROVE Ci!TypeOK /\ Ci!NeverCleanWhenCut /\ Ci!CollectionIsBounded
<1>1. CiShape /\ CiRoom /\ CiSpent /\ CiAccounted
  BY DEF CiInv
<1>2. Ci!TypeOK
  <2>1. \A j \in Ci!Jobs : \A k \in DOMAIN loaded[j] : loaded[j][k] \in 1..history[j]
    <3> SUFFICES ASSUME NEW j \in Ci!Jobs, NEW k \in DOMAIN loaded[j] PROVE loaded[j][k] \in 1..history[j]
      OBVIOUS
    <3> DEFINE S == 1..history[j]
    <3>1. loaded[j] \in Seq(S)
      BY <1>1 DEF CiShape
    <3> HIDE DEF S
    <3>2. \A s \in Seq(S) : \A i \in DOMAIN s : s[i] \in S
      OBVIOUS
    <3>3. loaded[j][k] \in S
      BY <3>1, <3>2
    <3> QED
      BY <3>3 DEF S
  <2>2. \A j \in Ci!Jobs : Ci!Range(loaded[j]) \subseteq 1..history[j]
    BY <2>1 DEF Ci!Range
  <2> QED
    BY <1>1, <2>2 DEF CiShape, Ci!TypeOK
<1>3. Ci!NeverCleanWhenCut
  <2> SUFFICES ASSUME NEW i \in DOMAIN Projects, phase = "done", provider = "github", Projects[i] \notin issues,
                      Ci!IsInjective(loaded[Projects[i]])
               PROVE  Ci!Range(loaded[Projects[i]]) = 1..history[Projects[i]]
    BY DEF Ci!NeverCleanWhenCut
  <2> DEFINE j == Projects[i]
  <2>1. Len(loaded[j]) >= history[j]
    <3>1. now = Ci!NoJob /\ DOMAIN todo = {}
      BY <1>1 DEF CiShape
    <3>2. Accounted(j)
      BY <1>1 DEF CiAccounted
    <3> QED
      BY <3>1, <3>2 DEF Accounted
  <2>2. j \in Ci!Jobs
    BY CiConstants
  <2> HIDE DEF j
  <2>3. loaded[j] \in Seq(1..history[j]) /\ history[j] \in Nat
    BY <1>1, <2>2, CiConstants DEF CiShape
  <2>4. \A x, y \in DOMAIN loaded[j] : loaded[j][x] = loaded[j][y] => x = y
    BY DEF Ci!IsInjective, j
  <2>5. {loaded[j][x] : x \in DOMAIN loaded[j]} = 1..history[j]
    BY <2>1, <2>3, <2>4, EachOnce
  <2> QED
    BY <2>5 DEF Ci!Range, j
<1>4. Ci!CollectionIsBounded
  <2>1. contacted \subseteq {"inside"} /\ call.hops =< 1 /\ Cardinality(visited) =< MaxJobs
    BY <1>1 DEF CiShape
  <2>2. Ci!Count =< MaxRuns
    BY <1>1, SameSize DEF CiRoom, Ci!Count
  <2> QED
    BY <1>1, <2>1, <2>2, SpentEnough, SameSize DEF Ci!CollectionIsBounded
<1> QED
  BY <1>2, <1>3, <1>4

-----------------------------------------------------------------------------
(* The autoscaling inventory *)

\* What is found of each list, and of the cloud inventory.
FoundBy(o) == [l \in Autoscaling!ListNames |-> Autoscaling!Items(cluster, asked, l, o[l])]
CloudBy(a) == [status |-> a, providers |-> cluster["cloud"]]

CollectedBy(o, a) ==
    /\ sources = [l \in Autoscaling!ListNames |-> Autoscaling!SourceStatus(cluster, asked, l, o[l])]
    /\ inventory = Autoscaling!Report(sources, FoundBy(o), CloudBy(a))

\* A collection that is over told of every list it did not read whole, and derived what it
\* says from what it read.
AutoscalingInv ==
    /\ Autoscaling!TypeOK
    /\ Autoscaling!NeverCleanWhenCut
    /\ \/ inventory = Autoscaling!None
       \/ \E o \in Autoscaling!Troubled(cluster, asked), a \in {"available", "error"} : CollectedBy(o, a)

LEMMA OutcomesTyped ==
    ASSUME NEW c, NEW s, NEW o \in Autoscaling!Troubled(c, s)
    PROVE  \A l \in Autoscaling!ListNames : o[l].status \in {"available", "denied", "error", "absent"}
<1>1. \A x \in Autoscaling!Outcomes : x.status \in {"available", "denied", "error", "absent"}
  BY DEF Autoscaling!Outcomes
<1>2. Autoscaling!Read.status = "available"
  BY DEF Autoscaling!Read
<1> QED
  BY <1>1, <1>2 DEF Autoscaling!Troubled

LEMMA Collected ==
    ASSUME NEW c, NEW s, NEW l, NEW o, o.status \in {"available", "denied", "error", "absent"}
    PROVE  LET said == Autoscaling!SourceStatus(c, s, l, o)
           IN  /\ said.status = o.status /\ said.partial \in BOOLEAN
               /\ said \in [status : {"available", "denied", "error", "absent"}, partial : BOOLEAN]
               /\ said.status = "absent" \/ said.status = "available" \/ said.partial
<1> DEFINE cut == IF o.status = "available"
                  THEN Len(Autoscaling!Listed(c, s, l)) > AutoscalingPages * AutoscalingPageSize
                  ELSE o.status # "absent"
<1>1. Autoscaling!SourceStatus(c, s, l, o) = [status |-> o.status, partial |-> cut]
  BY DEF Autoscaling!SourceStatus
<1>2. cut \in BOOLEAN
  <2>1. CASE o.status = "available"
    <3>1. (Len(Autoscaling!Listed(c, s, l)) > AutoscalingPages * AutoscalingPageSize) \in BOOLEAN
      OBVIOUS
    <3> QED
      BY <2>1, <3>1
  <2>2. CASE o.status # "available"
    BY <2>2
  <2> QED
    BY <2>1, <2>2
<1>3. o.status \in {"available", "absent"} \/ cut
  OBVIOUS
<1> HIDE DEF cut
<1> QED
  BY <1>1, <1>2, <1>3

LEMMA AutoscalingStep == AutoscalingInv /\ [Autoscaling!Next]_(Autoscaling!vars) => AutoscalingInv'
<1> SUFFICES ASSUME AutoscalingInv, [Autoscaling!Next]_(Autoscaling!vars) PROVE AutoscalingInv'
  OBVIOUS
<1>1. CASE UNCHANGED Autoscaling!vars
  BY <1>1 DEF AutoscalingInv, Autoscaling!TypeOK, Autoscaling!NeverCleanWhenCut, Autoscaling!vars, CollectedBy,
     FoundBy, CloudBy
<1>2. CASE Autoscaling!Next
  <2>1. PICK o \in Autoscaling!Troubled(cluster, asked), a \in {"available", "error"} : Autoscaling!Collect(o, a)
    BY <1>2 DEF Autoscaling!Next
  <2>2. /\ sources' = [l \in Autoscaling!ListNames |-> Autoscaling!SourceStatus(cluster, asked, l, o[l])]
        /\ cluster' = cluster /\ asked' = asked
    BY <2>1 DEF Autoscaling!Collect
  <2> DEFINE cloud == CloudBy(a)
             found == FoundBy(o)
             src == sources'
             cut == cloud.status = "error" \/ \E l \in Autoscaling!ListNames : src[l].partial
             tabs == [t \in DOMAIN Autoscaling!TabLists |-> Autoscaling!Tab(src, found, cloud, t)]
  <2>3. inventory' = Autoscaling!Report(src, found, cloud)
    BY <2>1 DEF Autoscaling!Collect, FoundBy, CloudBy
  <2>4. inventory'.partial = cut /\ inventory'.tabs = tabs /\ cut \in BOOLEAN
    BY <2>3 DEF Autoscaling!Report
  <2>5. \A l \in Autoscaling!ListNames :
           /\ src[l] \in [status : {"available", "denied", "error", "absent"}, partial : BOOLEAN]
           /\ src[l].status = "absent" \/ src[l].status = "available" \/ src[l].partial
    BY <2>2, OutcomesTyped, Collected
  <2>6. src \in [Autoscaling!ListNames -> [status : {"available", "denied", "error", "absent"}, partial : BOOLEAN]]
    BY <2>2, <2>5
  <2>7. DOMAIN tabs = DOMAIN Autoscaling!TabLists
    OBVIOUS
  <2>8. cluster \in Clusters /\ asked \in AutoscalingScopes
    BY DEF AutoscalingInv, Autoscaling!TypeOK
  <2>9. ~cut => \A l \in Autoscaling!ListNames : ~src[l].partial
    OBVIOUS
  <2> HIDE DEF cloud, found, cut, tabs
  <2>10. Autoscaling!TypeOK'
    BY <2>2, <2>4, <2>6, <2>7, <2>8 DEF Autoscaling!TypeOK, src
  <2>11. ASSUME inventory' # Autoscaling!None, ~inventory'.partial, NEW l \in Autoscaling!ListNames
         PROVE  src[l].status = "absent" \/ (src[l].status = "available" /\ ~src[l].partial)
    BY <2>4, <2>5, <2>9, <2>11
  <2>12. Autoscaling!NeverCleanWhenCut'
    BY <2>11 DEF Autoscaling!NeverCleanWhenCut, Autoscaling!Complete, src
  <2>13. CollectedBy(o, a)'
    BY <2>2, <2>3 DEF CollectedBy, FoundBy, CloudBy, found, cloud, src
  <2>14. o \in Autoscaling!Troubled(cluster, asked)'
    BY <2>2
  <2> QED
    BY <2>10, <2>12, <2>13, <2>14 DEF AutoscalingInv
<1> QED
  BY <1>1, <1>2

LEMMA AutoscalingCorrect == Autoscaling!Init /\ [][Autoscaling!Next]_(Autoscaling!vars) => []AutoscalingInv
<1>1. Autoscaling!Init => AutoscalingInv
  BY DEF Autoscaling!Init, AutoscalingInv, Autoscaling!TypeOK, Autoscaling!NeverCleanWhenCut
<1> QED
  BY <1>1, AutoscalingStep, PTL

LEMMA AutoscalingConstants ==
    /\ \A c \in Clusters :
          /\ DOMAIN c = Autoscaling!ListNames \cup {"cloud"} /\ c["cloud"] \in Nat
          /\ \A l \in Autoscaling!ListNames : c[l] \in Seq(Autoscaling!Range(c[l]))
          /\ \A p \in Autoscaling!Range(c["pods"]) :
                /\ p.containers \in Seq(Nat) /\ p.init \in Seq([amount : Nat, always : BOOLEAN])
                /\ p.whole \in Nat /\ p.overhead \in Nat
          /\ \A l \in Autoscaling!Scalers : \A x, y \in Autoscaling!Range(c[l]) :
                /\ x.states \subseteq {"not-ready", "fallback", "paused", "scale-to-zero"}
                /\ x.namespace = y.namespace /\ x.name = y.name => x = y
    /\ AutoscalingPages * AutoscalingPageSize \in Nat \ {0} /\ AutoscalingPageSize \in Nat \ {0}
<1>1. AutoscalingPages \in Nat \ {0} /\ AutoscalingPageSize \in Nat \ {0}
  BY PartsAssumption DEF Autoscaling!CollectionAssumption
<1>2. AutoscalingPages * AutoscalingPageSize \in Nat \ {0}
  BY <1>1
<1> QED
  BY <1>1, <1>2, PartsAssumption DEF Autoscaling!CollectionAssumption

LEMMA ListedAre ==
    ASSUME NEW c \in Clusters, NEW s, NEW l \in Autoscaling!ListNames
    PROVE  /\ Autoscaling!Listed(c, s, l) \in Seq(Autoscaling!Range(c[l]))
           /\ Autoscaling!Range(Autoscaling!Listed(c, s, l)) =
                 {item \in Autoscaling!Range(c[l]) : Autoscaling!InScope(s, l, item)}
<1> DEFINE here == {item \in Autoscaling!Range(c[l]) : Autoscaling!InScope(s, l, item)}
<1>1. Autoscaling!Listed(c, s, l) = Only(c[l], here)
  BY DEF Autoscaling!Listed, Autoscaling!Only, Only
<1>2. \A q : Range(q) = Autoscaling!Range(q)
  BY DEF Range, Autoscaling!Range
<1>3. here \subseteq Autoscaling!Range(c[l])
  OBVIOUS
<1>4. c[l] \in Seq(Autoscaling!Range(c[l]))
  BY AutoscalingConstants
<1> HIDE DEF here
<1>5. Only(c[l], here) \in Seq(Autoscaling!Range(c[l])) /\ Range(Only(c[l], here)) = Range(c[l]) \cap here
  BY <1>4, OnlyProperties
<1>6. Autoscaling!Range(Only(c[l], here)) = here
  BY <1>2, <1>3, <1>5
<1> QED
  BY <1>1, <1>5, <1>6 DEF here

LEMMA FirstOnes ==
    ASSUME NEW S, NEW q \in Seq(S), NEW n \in Nat, n =< Len(q)
    PROVE  /\ Len(SubSeq(q, 1, n)) = n
           /\ Autoscaling!Range(SubSeq(q, 1, n)) \subseteq Autoscaling!Range(q)
           /\ n = Len(q) => SubSeq(q, 1, n) = q
           /\ Autoscaling!Range(SubSeq(q, 1, n)) = {} => SubSeq(q, 1, n) = <<>>
<1> DEFINE r == SubSeq(q, 1, n)
<1>1. r \in Seq(S) /\ Len(r) = n /\ DOMAIN r = 1..n /\ \A i \in 1..n : r[i] = q[i]
  OBVIOUS
<1>2. n = Len(q) => r = q
  OBVIOUS
<1> HIDE DEF r
<1>3. DOMAIN q = 1..Len(q)
  OBVIOUS
<1>4. Autoscaling!Range(r) \subseteq Autoscaling!Range(q)
  BY <1>1, <1>3 DEF Autoscaling!Range
<1>5. ASSUME Autoscaling!Range(r) = {} PROVE r = <<>>
  <2>1. n = 0
    <3> SUFFICES ASSUME n # 0 PROVE FALSE
      OBVIOUS
    <3>1. 1 \in DOMAIN r
      BY <1>1
    <3> QED
      BY <1>5, <3>1 DEF Autoscaling!Range
  <2> QED
    BY <1>1, <2>1
<1> QED
  BY <1>1, <1>2, <1>4, <1>5 DEF r

LEMMA TroublesArePossible ==
    ASSUME NEW o \in Autoscaling!Troubled(cluster, asked), NEW l \in Autoscaling!ListNames
    PROVE  o[l] \in Autoscaling!Outcomes /\ Autoscaling!Possible(cluster, asked, l, o[l])
<1>1. Autoscaling!Read \in Autoscaling!Outcomes /\ Autoscaling!Possible(cluster, asked, l, Autoscaling!Read)
  BY DEF Autoscaling!Read, Autoscaling!Outcomes, Autoscaling!Possible
<1> DEFINE can(m) == {e \in Autoscaling!Outcomes : Autoscaling!Possible(cluster, asked, m, e)}
<1>2. PICK a, b \in Autoscaling!ListNames : o \in {[m \in Autoscaling!ListNames |-> IF m = a THEN x ELSE IF m = b THEN y
                                                  ELSE Autoscaling!Read] : x \in can(a), y \in can(b)}
  BY DEF Autoscaling!Troubled
<1>3. PICK x \in can(a), y \in can(b) :
         o = [m \in Autoscaling!ListNames |-> IF m = a THEN x ELSE IF m = b THEN y ELSE Autoscaling!Read]
  BY <1>2
<1>4. o[l] = IF l = a THEN x ELSE IF l = b THEN y ELSE Autoscaling!Read
  BY <1>3
<1>5. \A e \in can(a) : e \in Autoscaling!Outcomes /\ Autoscaling!Possible(cluster, asked, a, e)
  OBVIOUS
<1>6. \A e \in can(b) : e \in Autoscaling!Outcomes /\ Autoscaling!Possible(cluster, asked, b, e)
  OBVIOUS
<1> QED
  BY <1>1, <1>4, <1>5, <1>6

\* What was found of a list is in it; all of it, unless its status tells otherwise.
LEMMA ItemsAre ==
    ASSUME NEW c \in Clusters, NEW s, NEW l \in Autoscaling!ListNames, NEW o \in Autoscaling!Outcomes,
           Autoscaling!Possible(c, s, l, o)
    PROVE  LET found == Autoscaling!Items(c, s, l, o)
               there == Autoscaling!Listed(c, s, l)
               said == Autoscaling!SourceStatus(c, s, l, o)
           IN  /\ Autoscaling!Range(found) \subseteq Autoscaling!Range(there)
               /\ ~said.partial => Autoscaling!Range(found) = Autoscaling!Range(there)
               /\ said.status \notin {"denied", "error"} /\ found = <<>> => Autoscaling!Range(there) = {}
               /\ Autoscaling!Range(found) = {} => found = <<>>
               /\ IsFiniteSet(Autoscaling!Range(found))
<1> DEFINE found == Autoscaling!Items(c, s, l, o)
           there == Autoscaling!Listed(c, s, l)
           said == Autoscaling!SourceStatus(c, s, l, o)
           most == IF o.status = "available" THEN AutoscalingPages * AutoscalingPageSize
                   ELSE (o.page - 1) * AutoscalingPageSize
           n == IF Len(there) < most THEN Len(there) ELSE most
<1>1. there \in Seq(Autoscaling!Range(c[l]))
  BY ListedAre
<1>2. o.status \in {"available", "denied", "error", "absent"} /\ (o.status # "available" => o.page \in Nat \ {0})
  BY DEF Autoscaling!Outcomes
<1>3. most \in Nat /\ (o.status = "available" => most # 0)
  <2>1. CASE o.status = "available"
    BY <2>1, AutoscalingConstants
  <2>2. CASE o.status # "available"
    <3>1. o.page - 1 \in Nat /\ AutoscalingPageSize \in Nat
      BY <1>2, <2>2, AutoscalingConstants
    <3>2. (o.page - 1) * AutoscalingPageSize \in Nat
      BY <3>1
    <3> QED
      BY <2>2, <3>2
  <2> QED
    BY <2>1, <2>2
<1>4. found = SubSeq(there, 1, n)
  BY DEF Autoscaling!Items
<1>5. /\ said.status = o.status
      /\ o.status = "available" /\ ~said.partial => ~(Len(there) > AutoscalingPages * AutoscalingPageSize)
      /\ o.status \notin {"available", "absent"} => said.partial
  BY DEF Autoscaling!SourceStatus
<1>6. o.status = "absent" => there = <<>>
  <2> SUFFICES ASSUME o.status = "absent" PROVE there = <<>>
    OBVIOUS
  <2>1. c[l] = <<>>
    BY DEF Autoscaling!Possible
  <2>2. Autoscaling!Range(c[l]) = {}
    BY <2>1 DEF Autoscaling!Range
  <2>3. ASSUME NEW q \in Seq({}) PROVE q = <<>>
    <3>1. Len(q) = 0
      <4> SUFFICES ASSUME Len(q) # 0 PROVE FALSE
        OBVIOUS
      <4>1. q[1] \in {}
        OBVIOUS
      <4> QED
        BY <4>1
    <3> QED
      BY <3>1
  <2> HIDE DEF there
  <2> QED
    BY <1>1, <2>2, <2>3
<1>7. o.status = "available" => most = AutoscalingPages * AutoscalingPageSize
  OBVIOUS
<1>8. Len(there) \in Nat
  BY <1>1 DEF there
<1> HIDE DEF found, there, said, most
<1>9. n \in Nat /\ n =< Len(there) /\ (n = Len(there) \/ n = most)
  BY <1>3, <1>8
<1>10. ~said.partial => Len(there) =< most \/ there = <<>>
  <2>1. CASE o.status = "available"
    <3>1. ~said.partial => ~(Len(there) > most)
      BY <1>5, <1>7, <2>1
    <3> QED
      BY <1>3, <1>8, <3>1
  <2>2. CASE o.status = "absent"
    BY <1>6, <2>2
  <2>3. CASE o.status \notin {"available", "absent"}
    BY <1>5, <2>3
  <2> QED
    BY <2>1, <2>2, <2>3
<1>11. Len(there) =< most => n = Len(there)
  BY <1>3, <1>8
<1> HIDE DEF n
<1>12. /\ Len(found) = n /\ Autoscaling!Range(found) \subseteq Autoscaling!Range(there)
       /\ n = Len(there) => found = there
       /\ Autoscaling!Range(found) = {} => found = <<>>
  BY <1>1, <1>4, <1>9, FirstOnes
<1>13. there = <<>> => Autoscaling!Range(there) = {} /\ Autoscaling!Range(found) = {}
  <2>1. Autoscaling!Range(<<>>) = {}
    BY DEF Autoscaling!Range
  <2> QED
    BY <1>12, <2>1
<1>14. ~said.partial => Autoscaling!Range(found) = Autoscaling!Range(there)
  BY <1>10, <1>11, <1>12, <1>13
<1>15. ASSUME said.status \notin {"denied", "error"}, found = <<>> PROVE Autoscaling!Range(there) = {}
  <2>1. CASE o.status = "absent"
    BY <1>6, <1>13, <2>1
  <2>2. CASE o.status = "available"
    <3>1. n = 0
      BY <1>12, <1>15
    <3>2. n = Len(there)
      BY <1>3, <1>9, <2>2, <3>1
    <3> QED
      BY <1>12, <1>13, <1>15, <3>2
  <2> QED
    BY <1>2, <1>5, <1>15, <2>1, <2>2
<1>16. IsFiniteSet(Autoscaling!Range(found))
  <2>1. found \in Seq(Autoscaling!Range(c[l]))
    BY <1>1, <1>4, <1>9
  <2>2. DOMAIN found = 1..Len(found) /\ Len(found) \in Nat
    BY <2>1
  <2>3. found \in [1..Len(found) -> Autoscaling!Range(found)]
        /\ \A x \in Autoscaling!Range(found) : \E i \in 1..Len(found) : found[i] = x
    BY <2>1, <2>2 DEF Autoscaling!Range
  <2>4. found \in Surjection(1..Len(found), Autoscaling!Range(found))
    BY <2>3 DEF Surjection
  <2> QED
    BY <2>2, <2>4, FS_NatSurjection DEF ExistsSurjection
<1> QED
  BY <1>12, <1>14, <1>15, <1>16 DEF found, there, said

LEMMA FoundAre ==
    ASSUME AutoscalingInv, NEW o \in Autoscaling!Troubled(cluster, asked), NEW a, CollectedBy(o, a),
           NEW l \in Autoscaling!ListNames
    PROVE  LET found == FoundBy(o)[l]
               there == {item \in Autoscaling!Range(cluster[l]) : Autoscaling!InScope(asked, l, item)}
           IN  /\ Autoscaling!Range(found) \subseteq there
               /\ ~sources[l].partial => Autoscaling!Range(found) = there
               /\ sources[l].status \notin {"denied", "error"} /\ found = <<>> => there = {}
               /\ Autoscaling!Range(found) = {} => found = <<>>
               /\ IsFiniteSet(Autoscaling!Range(found))
               /\ Autoscaling!There(l) = there
<1>1. cluster \in Clusters
  BY DEF AutoscalingInv, Autoscaling!TypeOK
<1>2. o[l] \in Autoscaling!Outcomes /\ Autoscaling!Possible(cluster, asked, l, o[l])
  BY TroublesArePossible
<1>3. FoundBy(o)[l] = Autoscaling!Items(cluster, asked, l, o[l])
      /\ sources[l] = Autoscaling!SourceStatus(cluster, asked, l, o[l])
  BY DEF CollectedBy, FoundBy
<1>4. Autoscaling!There(l) = Autoscaling!Range(Autoscaling!Listed(cluster, asked, l))
  BY DEF Autoscaling!There
<1> QED
  BY <1>1, <1>2, <1>3, <1>4, ItemsAre, ListedAre

\* A list of objects that says it is whole holds those of the namespaces asked for.
LEMMA Sought ==
    ASSUME AutoscalingInv, NEW o \in Autoscaling!Troubled(cluster, asked), NEW a, CollectedBy(o, a),
           NEW l \in Autoscaling!ListNames, Autoscaling!Complete(sources, l),
           NEW item \in Autoscaling!Range(cluster[l]), Autoscaling!InScope(asked, l, item)
    PROVE  item \in Autoscaling!Range(FoundBy(o)[l])
  BY FoundAre DEF Autoscaling!Complete

\* Two readings of one object: what was found of it, and what there is.
LEMMA SameObject ==
    ASSUME AutoscalingInv, NEW o \in Autoscaling!Troubled(cluster, asked), NEW a, CollectedBy(o, a),
           NEW l \in Autoscaling!Scalers, NEW s \in Autoscaling!There(l), NEW x \in Autoscaling!Range(FoundBy(o)[l]),
           x.namespace = s.namespace, x.name = s.name
    PROVE  x = s
<1>1. l \in Autoscaling!ListNames
  BY DEF Autoscaling!Scalers, Autoscaling!ListNames, Autoscaling!Namespaced
<1>2. x \in Autoscaling!Range(cluster[l]) /\ s \in Autoscaling!Range(cluster[l])
  BY <1>1, FoundAre
<1>3. cluster \in Clusters
  BY DEF AutoscalingInv, Autoscaling!TypeOK
<1> QED
  BY <1>2, <1>3, AutoscalingConstants DEF Autoscaling!Scalers

\* Who is told to lack an autoscaler, or an authentication, was looked at.
LEMMA ToldMissing ==
    ASSUME NEW src, NEW found, NEW cloud,
           \A l \in Autoscaling!Scalers : \A x \in Autoscaling!Range(found[l]) :
              x.states \subseteq {"not-ready", "fallback", "paused", "scale-to-zero"}
    PROVE  /\ \A s : Autoscaling!Named("missing-hpa", s) \in Autoscaling!Analyze(src, found, cloud) =>
                 \E x \in Autoscaling!Range(found["keda-scaledobjects"]) :
                    /\ x.namespace = s.namespace /\ x.name = s.name
                    /\ Autoscaling!Complete(src, "hpa") /\ ~Autoscaling!HasHpa(found, x)
           /\ \A l \in Autoscaling!Scalers : \A s, ref :
                 Autoscaling!Missing(l, s, ref) \in Autoscaling!Analyze(src, found, cloud) =>
                    \E x \in Autoscaling!Range(found[l]) :
                       /\ x.namespace = s.namespace /\ x.name = s.name
                       /\ Autoscaling!Complete(src, Autoscaling!AuthList(ref)) /\ ~Autoscaling!HasAuth(found, x, ref)
<1> DEFINE objects == Autoscaling!Range(found["keda-scaledobjects"])
           vpas == Autoscaling!Either(found, "vpa", "vpa-v1beta2")
           stuck == {p \in Autoscaling!Range(found["pods"]) : p.unschedulable}
           hpas == Autoscaling!Range(found["hpa"])
           lacking == {Autoscaling!Named("missing-hpa", s) :
                          s \in {s \in objects : Autoscaling!Complete(src, "hpa") /\ ~Autoscaling!HasHpa(found, s)}}
           wanting == UNION {UNION {{Autoscaling!Missing(l, s, ref) :
                          ref \in {ref \in s.auth : Autoscaling!Complete(src, Autoscaling!AuthList(ref))
                                                    /\ ~Autoscaling!HasAuth(found, s, ref)}} :
                          s \in Autoscaling!Range(found[l])} : l \in Autoscaling!Scalers}
           states == UNION {UNION {{Autoscaling!Named(how, s) : how \in s.states} :
                          s \in Autoscaling!Range(found[l])} : l \in Autoscaling!Scalers}
           scaling == {Autoscaling!Named("scaling-failed", h) : h \in {h \in hpas : h.failing}}
           limits == {Autoscaling!Named("max-replicas", h) :
                          h \in {h \in hpas : h.limited /\ h.max > 0 /\ h.desired >= h.max}}
           conflicts == {Autoscaling!Named("hpa-metric-conflict", v)
                    : v \in {v \in vpas : Autoscaling!Conflicting(found, v)}}
           unavailable == {Autoscaling!Named("recommendation-unavailable", v) : v \in {v \in vpas : v.failing}}
           unhealthy == {Autoscaling!Named("insufficient-healthy", b) :
                          b \in {b \in Autoscaling!Range(found["pdb"]) : b.healthy < b.wanted}}
           unplaced == {Autoscaling!Named("unschedulable", p) : p \in stuck}
           exhausted == {Autoscaling!Named("quota-exhausted", q) :
                          q \in {q \in Autoscaling!Range(found["quotas"]) : q.used >= q.hard}}
           pools == {Autoscaling!OfCluster("pool-not-ready", p.name) : p \in {p \in Autoscaling!Pools(found) : ~p.ready}}
           claims == {Autoscaling!OfCluster("claim-not-ready", c.name) :
                          c \in {c \in Autoscaling!Claims(found) : ~c.ready}}
           none == IF stuck # {} /\ Autoscaling!NodeProviders(found, cloud) = 0
                   THEN {Autoscaling!OfCluster("provider-missing", "node-scaling")} ELSE {}
<1>1. Autoscaling!Analyze(src, found, cloud) =
         scaling \cup limits \cup conflicts \cup lacking \cup wanting \cup states \cup unavailable \cup unhealthy
         \cup unplaced \cup exhausted \cup pools \cup claims \cup none
  BY DEF Autoscaling!Analyze
<1>2. \A code, item : /\ Autoscaling!Named(code, item).code = code
                      /\ Autoscaling!Named(code, item).about = <<item.namespace, item.name>>
  BY DEF Autoscaling!Named
<1>3. \A l, s, ref : /\ Autoscaling!Missing(l, s, ref).code = "missing-auth"
                     /\ Autoscaling!Missing(l, s, ref).about = <<l, s.namespace, s.name, ref>>
  BY DEF Autoscaling!Missing
<1>4. \A f \in scaling \cup limits \cup conflicts : f.code \notin {"missing-hpa", "missing-auth"}
  BY <1>2
<1>5. \A f \in unavailable \cup unhealthy \cup unplaced \cup exhausted : f.code \notin {"missing-hpa", "missing-auth"}
  BY <1>2
<1>6. \A f \in pools \cup claims \cup none : f.code \notin {"missing-hpa", "missing-auth"}
  <2>1. \A code, name : Autoscaling!OfCluster(code, name).code = code
    BY DEF Autoscaling!OfCluster
  <2> QED
    BY <2>1
<1>7. \A f \in states : f.code \notin {"missing-hpa", "missing-auth"}
  <2> SUFFICES ASSUME NEW l \in Autoscaling!Scalers, NEW s \in Autoscaling!Range(found[l]), NEW how \in s.states
               PROVE  Autoscaling!Named(how, s).code \notin {"missing-hpa", "missing-auth"}
    OBVIOUS
  <2>1. how \in {"not-ready", "fallback", "paused", "scale-to-zero"}
    OBVIOUS
  <2> QED
    BY <1>2, <2>1
<1>8. \A f \in lacking : f.code = "missing-hpa"
  BY <1>2
<1>9. \A f \in wanting : f.code = "missing-auth"
  BY <1>3
<1>10. \A f \in lacking : \E x \in objects : /\ f.about = <<x.namespace, x.name>>
                                           /\ Autoscaling!Complete(src, "hpa") /\ ~Autoscaling!HasHpa(found, x)
  BY <1>2
<1>11. \A f \in wanting : \E l \in Autoscaling!Scalers : \E x \in Autoscaling!Range(found[l]) : \E ref \in x.auth :
         /\ f.about = <<l, x.namespace, x.name, ref>>
         /\ Autoscaling!Complete(src, Autoscaling!AuthList(ref)) /\ ~Autoscaling!HasAuth(found, x, ref)
  <2> SUFFICES ASSUME NEW l \in Autoscaling!Scalers, NEW x \in Autoscaling!Range(found[l]),
                      NEW ref \in {ref \in x.auth : Autoscaling!Complete(src, Autoscaling!AuthList(ref))
                                                   /\ ~Autoscaling!HasAuth(found, x, ref)}
               PROVE  Autoscaling!Missing(l, x, ref).about = <<l, x.namespace, x.name, ref>>
    OBVIOUS
  <2> QED
    BY <1>3
<1> HIDE DEF scaling, limits, conflicts, lacking, wanting, states, unavailable, unhealthy, unplaced, exhausted, pools,
             claims, none
<1>12. ASSUME NEW s, Autoscaling!Named("missing-hpa", s) \in Autoscaling!Analyze(src, found, cloud)
       PROVE  \E x \in objects : /\ x.namespace = s.namespace /\ x.name = s.name
                                 /\ Autoscaling!Complete(src, "hpa") /\ ~Autoscaling!HasHpa(found, x)
  <2> DEFINE f == Autoscaling!Named("missing-hpa", s)
  <2>1. f.code = "missing-hpa" /\ f.about = <<s.namespace, s.name>>
    BY <1>2
  <2> HIDE DEF f
  <2>2. f \in Autoscaling!Analyze(src, found, cloud)
    BY <1>12 DEF f
  <2>3. f \in lacking
    BY <1>1, <1>4, <1>5, <1>6, <1>7, <1>9, <2>1, <2>2
  <2>4. PICK x \in objects : /\ f.about = <<x.namespace, x.name>>
                            /\ Autoscaling!Complete(src, "hpa") /\ ~Autoscaling!HasHpa(found, x)
    BY <1>10, <2>3
  <2> QED
    BY <2>1, <2>4
<1>13. ASSUME NEW l \in Autoscaling!Scalers, NEW s, NEW ref,
              Autoscaling!Missing(l, s, ref) \in Autoscaling!Analyze(src, found, cloud)
       PROVE  \E x \in Autoscaling!Range(found[l]) :
                 /\ x.namespace = s.namespace /\ x.name = s.name
                 /\ Autoscaling!Complete(src, Autoscaling!AuthList(ref)) /\ ~Autoscaling!HasAuth(found, x, ref)
  <2> DEFINE f == Autoscaling!Missing(l, s, ref)
  <2>1. f.code = "missing-auth" /\ f.about = <<l, s.namespace, s.name, ref>>
    BY <1>3
  <2> HIDE DEF f
  <2>2. f \in Autoscaling!Analyze(src, found, cloud)
    BY <1>13 DEF f
  <2>3. f \in wanting
    BY <1>1, <1>4, <1>5, <1>6, <1>7, <1>8, <2>1, <2>2
  <2>4. PICK k \in Autoscaling!Scalers : \E x \in Autoscaling!Range(found[k]) : \E r \in x.auth :
         /\ f.about = <<k, x.namespace, x.name, r>>
         /\ Autoscaling!Complete(src, Autoscaling!AuthList(r)) /\ ~Autoscaling!HasAuth(found, x, r)
    BY <1>11, <2>3
  <2> QED
    BY <2>1, <2>4
<1> QED
  BY <1>12, <1>13

\* The first two parts of MissingIsMissing: who is told to lack something lacks it.
LEMMA MissingIsSo ==
    ASSUME AutoscalingInv, NEW o \in Autoscaling!Troubled(cluster, asked), NEW a, CollectedBy(o, a)
    PROVE  /\ \A s \in Autoscaling!There("keda-scaledobjects") :
                 Autoscaling!Named("missing-hpa", s) \in inventory.findings =>
                    \A hpa \in Autoscaling!Range(cluster["hpa"]) : ~Autoscaling!OwnHpa(s, hpa)
           /\ \A l \in Autoscaling!Scalers : \A s \in Autoscaling!There(l) : \A ref \in s.auth :
                 Autoscaling!Missing(l, s, ref) \in inventory.findings => ~Autoscaling!HasAuth(cluster, s, ref)
<1> DEFINE found == FoundBy(o)
<1>1. inventory.findings = Autoscaling!Analyze(sources, found, CloudBy(a))
  BY DEF CollectedBy, Autoscaling!Report
<1>2. cluster \in Clusters /\ Autoscaling!Scalers \subseteq Autoscaling!ListNames /\ "keda-scaledobjects" \in Autoscaling!Scalers
  BY DEF AutoscalingInv, Autoscaling!TypeOK, Autoscaling!Scalers, Autoscaling!ListNames, Autoscaling!Namespaced
<1>3. ASSUME NEW l \in Autoscaling!Scalers, NEW x \in Autoscaling!Range(found[l])
      PROVE  x.states \subseteq {"not-ready", "fallback", "paused", "scale-to-zero"}
  <2>1. x \in Autoscaling!Range(cluster[l])
    BY <1>2, FoundAre
  <2> QED
    BY <1>2, <2>1, AutoscalingConstants
<1>4. ASSUME NEW l \in Autoscaling!Scalers, NEW s \in Autoscaling!There(l)
      PROVE  s \in Autoscaling!Range(cluster[l]) /\ (asked = "all" \/ s.namespace = asked)
  <2>1. l \in Autoscaling!Namespaced /\ l \in Autoscaling!ListNames
    BY DEF Autoscaling!Scalers, Autoscaling!ListNames, Autoscaling!Namespaced
  <2> QED
    BY <2>1, FoundAre DEF Autoscaling!InScope
<1> HIDE DEF found
<1>5. ASSUME NEW s \in Autoscaling!There("keda-scaledobjects"),
             Autoscaling!Named("missing-hpa", s) \in inventory.findings,
             NEW hpa \in Autoscaling!Range(cluster["hpa"]), Autoscaling!OwnHpa(s, hpa)
      PROVE  FALSE
  <2>1. PICK x \in Autoscaling!Range(found["keda-scaledobjects"]) :
           /\ x.namespace = s.namespace /\ x.name = s.name
           /\ Autoscaling!Complete(sources, "hpa") /\ ~Autoscaling!HasHpa(found, x)
    BY <1>1, <1>3, <1>5, ToldMissing
  <2>2. x = s
    BY <1>2, <2>1, SameObject DEF found
  <2>3. hpa.namespace = s.namespace
    BY <1>5 DEF Autoscaling!OwnHpa
  <2>4. "hpa" \in Autoscaling!ListNames /\ Autoscaling!InScope(asked, "hpa", hpa)
    BY <1>2, <1>4, <2>3 DEF Autoscaling!InScope, Autoscaling!ListNames, Autoscaling!Namespaced
  <2>5. hpa \in Autoscaling!Range(found["hpa"])
    BY <1>5, <2>1, <2>4, Sought DEF found
  <2>6. Autoscaling!ManagedByKeda(found, hpa)
    BY <1>5, <2>1, <2>2 DEF Autoscaling!ManagedByKeda, Autoscaling!OwnHpa
  <2>7. Autoscaling!HasHpa(found, s)
    BY <1>5, <2>5, <2>6 DEF Autoscaling!HasHpa, Autoscaling!OwnHpa
  <2> QED
    BY <2>1, <2>2, <2>7
<1>6. ASSUME NEW l \in Autoscaling!Scalers, NEW s \in Autoscaling!There(l), NEW ref \in s.auth,
             Autoscaling!Missing(l, s, ref) \in inventory.findings, Autoscaling!HasAuth(cluster, s, ref)
      PROVE  FALSE
  <2>1. PICK x \in Autoscaling!Range(found[l]) :
           /\ x.namespace = s.namespace /\ x.name = s.name
           /\ Autoscaling!Complete(sources, Autoscaling!AuthList(ref)) /\ ~Autoscaling!HasAuth(found, x, ref)
    BY <1>1, <1>3, <1>6, ToldMissing
  <2>2. x = s
    BY <2>1, SameObject DEF found
  <2>3. PICK auth \in Autoscaling!Range(cluster[Autoscaling!AuthList(ref)]) :
           auth.name = ref.name /\ (ref.cluster \/ auth.namespace = s.namespace)
    BY <1>6 DEF Autoscaling!HasAuth
  <2>4. Autoscaling!AuthList(ref) \in Autoscaling!ListNames
        /\ (ref.cluster => Autoscaling!AuthList(ref) \notin Autoscaling!Namespaced)
    BY DEF Autoscaling!AuthList, Autoscaling!ListNames, Autoscaling!Namespaced
  <2>5. Autoscaling!InScope(asked, Autoscaling!AuthList(ref), auth)
    BY <1>4, <2>3, <2>4 DEF Autoscaling!InScope
  <2>6. auth \in Autoscaling!Range(found[Autoscaling!AuthList(ref)])
    BY <2>1, <2>3, <2>4, <2>5, Sought DEF found
  <2>7. Autoscaling!HasAuth(found, s, ref)
    BY <2>3, <2>6 DEF Autoscaling!HasAuth
  <2> QED
    BY <2>1, <2>2, <2>7
<1> QED
  BY <1>5, <1>6

\* The others: a tab that says there is nothing lacks nothing it could not read.
LEMMA EmptyTabIsSo ==
    ASSUME AutoscalingInv, NEW o \in Autoscaling!Troubled(cluster, asked), NEW a, CollectedBy(o, a)
    PROVE  /\ \A t \in DOMAIN Autoscaling!TabLists \ {"nodescaling"} :
                 inventory.tabs[t] = "none found" =>
                    t = "capacity" \/ \A l \in Autoscaling!TabLists[t] : Autoscaling!There(l) = {}
           /\ inventory.tabs["nodescaling"] = "none found" /\ ~inventory.partial =>
                 /\ \A l \in Autoscaling!TabLists["nodescaling"] : Autoscaling!There(l) = {}
                 /\ \A d \in Autoscaling!There("deployments") : ~d.autoscaler
<1> DEFINE found == FoundBy(o)
           cloud == CloudBy(a)
<1>1. /\ inventory.tabs = [t \in DOMAIN Autoscaling!TabLists |-> Autoscaling!Tab(sources, found, cloud, t)]
      /\ ~inventory.partial => \A l \in Autoscaling!ListNames : ~sources[l].partial
  <2>1. inventory.partial = (cloud.status = "error" \/ \E l \in Autoscaling!ListNames : sources[l].partial)
    BY DEF CollectedBy, Autoscaling!Report
  <2>2. inventory.tabs = [t \in DOMAIN Autoscaling!TabLists |-> Autoscaling!Tab(sources, found, cloud, t)]
    BY DEF CollectedBy, Autoscaling!Report
  <2> QED
    BY <2>1, <2>2
<1>2. /\ DOMAIN Autoscaling!TabLists = {"hpa", "vpa", "keda", "pdb", "capacity", "nodescaling"}
      /\ Autoscaling!TabLists["hpa"] = {"hpa"} /\ Autoscaling!TabLists["vpa"] = {"vpa", "vpa-v1beta2"}
      /\ Autoscaling!TabLists["keda"] = {"keda-scaledobjects", "keda-scaledjobs"}
      /\ Autoscaling!TabLists["pdb"] = {"pdb"}
      /\ Autoscaling!TabLists["nodescaling"] = {"karpenter-nodepools", "karpenter-nodeclaims"}
  BY DEF Autoscaling!TabLists
<1>3. {"hpa", "vpa", "vpa-v1beta2", "keda-scaledobjects", "keda-scaledjobs", "pdb", "karpenter-nodepools",
       "karpenter-nodeclaims", "deployments"} \subseteq Autoscaling!ListNames
  BY DEF Autoscaling!ListNames, Autoscaling!Namespaced
<1>4. ASSUME NEW newer \in Autoscaling!ListNames, NEW older \in Autoscaling!ListNames,
             Autoscaling!Either(found, newer, older) = {}
      PROVE  found[newer] = <<>> /\ found[older] = <<>>
  <2>1. \A l \in Autoscaling!ListNames : Autoscaling!Range(found[l]) = {} => found[l] = <<>>
    BY FoundAre
  <2> HIDE DEF found
  <2> QED
    BY <1>4, <2>1 DEF Autoscaling!Either
<1>5. ASSUME NEW l \in Autoscaling!ListNames, found[l] = <<>>, sources[l].status \notin {"denied", "error"}
      PROVE  Autoscaling!There(l) = {}
  BY <1>5, FoundAre
<1>6. ASSUME NEW t \in DOMAIN Autoscaling!TabLists, inventory.tabs[t] = "none found"
      PROVE  /\ ~Autoscaling!Shown(found, cloud, t)
             /\ \A l \in Autoscaling!TabLists[t] : sources[l].status \notin {"denied", "error"}
  <2>1. Autoscaling!Tab(sources, found, cloud, t) = "none found"
    BY <1>1, <1>6
  <2> QED
    BY <2>1 DEF Autoscaling!Tab
<1>7. IsFiniteSet(Autoscaling!Range(found["deployments"]))
  BY <1>3, FoundAre
<1>8. (~sources["deployments"].partial) => Autoscaling!There("deployments") = Autoscaling!Range(found["deployments"])
  BY <1>3, FoundAre
<1>9. cloud.status \in {"available", "error"} \cup {a} /\ cloud.providers \in Nat
  <2>1. cluster \in Clusters
    BY DEF AutoscalingInv, Autoscaling!TypeOK
  <2> QED
    BY <2>1, AutoscalingConstants DEF CloudBy
<1> HIDE DEF found, cloud
<1>10. ASSUME NEW t \in {"hpa", "vpa", "keda", "pdb"}, inventory.tabs[t] = "none found", NEW l \in Autoscaling!TabLists[t]
       PROVE  Autoscaling!There(l) = {}
  <2>1. ~Autoscaling!Shown(found, cloud, t) /\ sources[l].status \notin {"denied", "error"} /\ l \in Autoscaling!ListNames
    <3>1. t \in DOMAIN Autoscaling!TabLists /\ Autoscaling!TabLists[t] \subseteq Autoscaling!ListNames
      BY <1>2, <1>3
    <3> QED
      BY <1>6, <1>10, <3>1
  <2>2. CASE t = "vpa"
    <3>1. Autoscaling!Either(found, "vpa", "vpa-v1beta2") = {}
      BY <2>1, <2>2 DEF Autoscaling!Shown
    <3>2. found["vpa"] = <<>> /\ found["vpa-v1beta2"] = <<>>
      BY <1>3, <1>4, <3>1
    <3> QED
      BY <1>2, <1>5, <1>10, <2>1, <2>2, <3>2
  <2>3. CASE t # "vpa"
    <3>1. Autoscaling!Shown(found, cloud, t) <=> \E k \in Autoscaling!TabLists[t] : found[k] # <<>>
      BY <1>10, <2>3 DEF Autoscaling!Shown
    <3> QED
      BY <1>5, <1>10, <2>1, <3>1
  <2> QED
    BY <2>2, <2>3
<1>11. ASSUME inventory.tabs["nodescaling"] = "none found", ~inventory.partial
       PROVE  /\ \A l \in Autoscaling!TabLists["nodescaling"] : Autoscaling!There(l) = {}
              /\ \A d \in Autoscaling!There("deployments") : ~d.autoscaler
  <2>1. ~(Autoscaling!NodeProviders(found, cloud) > 0)
        /\ \A l \in Autoscaling!TabLists["nodescaling"] : sources[l].status \notin {"denied", "error"}
    BY <1>2, <1>6, <1>11 DEF Autoscaling!Shown
  <2> DEFINE scalers == Autoscaling!ClusterAutoscalers(found)
             custom == Autoscaling!Pools(found) \cup Autoscaling!Claims(found)
  <2>2. scalers \subseteq Autoscaling!Range(found["deployments"])
    BY DEF Autoscaling!ClusterAutoscalers
  <2>3. IsFiniteSet(scalers) /\ Cardinality(scalers) \in Nat
    BY <1>7, <2>2, FS_Subset, FS_CardinalityType
  <2>4. Autoscaling!NodeProviders(found, cloud) =
            Cardinality(scalers) + (IF custom # {} THEN 1 ELSE 0)
            + (IF cloud.status = "available" THEN cloud.providers ELSE 0)
    BY DEF Autoscaling!NodeProviders, Autoscaling!Cardinality, Cardinality
  <2> HIDE DEF scalers, custom
  <2>5. Cardinality(scalers) = 0 /\ custom = {}
    BY <1>9, <2>1, <2>3, <2>4
  <2>6. scalers = {}
    BY <2>3, <2>5, FS_EmptySet
  <2>7. /\ found["karpenter-nodepools"] = <<>> /\ found["karpenter-nodeclaims"] = <<>>
    <3>1. Autoscaling!Either(found, "karpenter-nodepools", "karpenter-nodepools-v1beta1") = {}
          /\ Autoscaling!Either(found, "karpenter-nodeclaims", "karpenter-nodeclaims-v1beta1") = {}
      BY <2>5 DEF custom, Autoscaling!Pools, Autoscaling!Claims
    <3>2. "karpenter-nodepools-v1beta1" \in Autoscaling!ListNames /\ "karpenter-nodeclaims-v1beta1" \in Autoscaling!ListNames
      BY DEF Autoscaling!ListNames
    <3> QED
      BY <1>3, <1>4, <3>1, <3>2
  <2>8. \A l \in Autoscaling!TabLists["nodescaling"] : Autoscaling!There(l) = {}
    BY <1>2, <1>3, <1>5, <2>1, <2>7
  <2>9. \A d \in Autoscaling!There("deployments") : ~d.autoscaler
    BY <1>1, <1>3, <1>8, <1>11, <2>6 DEF scalers, Autoscaling!ClusterAutoscalers
  <2> QED
    BY <2>8, <2>9
<1> QED
  BY <1>2, <1>10, <1>11

-----------------------------------------------------------------------------
(* The capacity adds up *)

LEMMA SumsAre == ASSUME NEW f PROVE Autoscaling!SumFunction(f) = SumFunctionOnSet(f, DOMAIN f)
  BY DEF Autoscaling!SumFunction, Autoscaling!SumFunctionOnSet, Autoscaling!FoldFunctionOnSet,
         Autoscaling!MapThenFoldSet, SumFunctionOnSet, FoldFunctionOnSet, MapThenFoldSet

\* What init containers need once the next has started, and f, the recursive function of
\* EffectivePodResources, up to m.
NothingStarted == [running |-> 0, peak |-> 0]

OneStarted(container, before) ==
    LET started == before.running + container.amount
    IN  [running |-> IF container.always THEN started ELSE before.running,
         peak |-> Autoscaling!Larger(before.peak, started)]

StartsTo(init, f, m) ==
    f = [i \in 0..m |-> IF i = 0 THEN NothingStarted ELSE OneStarted(init[i], f[i - 1])]

LEMMA StartsExist ==
    ASSUME NEW init
    PROVE  \A m \in Nat : \E f : StartsTo(init, f, m)
<1> DEFINE Good == {m \in Nat : \E f : StartsTo(init, f, m)}
<1>1. 0 \in Good
  <2>1. StartsTo(init, [i \in 0..0 |-> NothingStarted], 0)
    BY DEF StartsTo
  <2> QED
    BY <2>1
<1>2. ASSUME NEW m \in Good PROVE m + 1 \in Good
  <2>1. PICK f : StartsTo(init, f, m)
    OBVIOUS
  <2>2. m \in Nat
    OBVIOUS
  <2> DEFINE g == [i \in 0..(m + 1) |-> IF i = m + 1 THEN OneStarted(init[m + 1], f[m]) ELSE f[i]]
  <2>3. ASSUME NEW i \in 0..(m + 1)
        PROVE  g[i] = IF i = 0 THEN NothingStarted ELSE OneStarted(init[i], g[i - 1])
    <3>1. CASE i = m + 1
      <4>1. m \in 0..(m+1) /\ g[m] = f[m] /\ i # 0 /\ i - 1 = m
        BY <3>1, <2>2
      <4>2. g[i] = OneStarted(init[m + 1], f[m])
        BY <3>1
      <4> HIDE DEF g
      <4> QED
        BY <4>1, <4>2, <3>1
    <3>2. CASE i # m + 1
      <4>1. i \in 0..m /\ g[i] = f[i]
        BY <3>2, <2>2
      <4>2. f[i] = IF i = 0 THEN NothingStarted ELSE OneStarted(init[i], f[i - 1])
        BY <4>1, <2>1 DEF StartsTo
      <4>3. i # 0 => g[i - 1] = f[i - 1]
        BY <4>1, <2>2
      <4> HIDE DEF g
      <4> QED
        BY <4>1, <4>2, <4>3
    <3> QED
      BY <3>1, <3>2
  <2>4. StartsTo(init, g, m + 1)
    <3>1. g = [i \in 0..(m + 1) |-> g[i]]
      OBVIOUS
    <3> HIDE DEF g
    <3> QED
      BY <2>3, <3>1 DEF StartsTo
  <2> QED
    BY <2>4, <2>2
<1>3. Good = Nat
  <2>1. Good \in SUBSET Nat
    OBVIOUS
  <2> HIDE DEF Good
  <2> QED
    BY <1>1, <1>2, <2>1, AllNaturals
<1> QED
  BY <1>3

\* The requests of a pod are the most it needs at one moment.
LEMMA PodNeeds ==
    ASSUME NEW pod, pod.containers \in Seq(Nat), pod.init \in Seq([amount : Nat, always : BOOLEAN]),
           pod.whole \in Nat, pod.overhead \in Nat
    PROVE  Autoscaling!EffectivePodResources(pod) = Autoscaling!Peak(pod) /\ Autoscaling!Peak(pod) \in Nat
<1> DEFINE n == Len(pod.init)
           amount(i) == pod.init[i].amount
           always(i) == pod.init[i].always
           kept == [j \in 1..n |-> IF always(j) THEN amount(j) ELSE 0]
           before(i) == SumFunctionOnSet([j \in 1..(i - 1) |-> kept[j]], 1..(i - 1))
           own == Autoscaling!SumFunction(pod.containers)
           F == CHOOSE F : F = [i \in 0..n |-> IF i = 0 THEN NothingStarted
                                               ELSE OneStarted(pod.init[i], F[i - 1])]
           running(i) == F[i].running
           peak(i) == F[i].peak
           moments == {before(i) + amount(i) : i \in 1..n} \cup {before(n + 1) + own, pod.whole}
           top == Autoscaling!Larger(Autoscaling!Larger(own + running(n), peak(n)), pod.whole)
<1>1. n \in Nat /\ \A i \in 1..n : amount(i) \in Nat /\ always(i) \in BOOLEAN
  <2> DEFINE s == pod.init
             R == [amount : Nat, always : BOOLEAN]
  <2>1. s \in Seq(R)
    OBVIOUS
  <2>2. \A x \in R : x.amount \in Nat /\ x.always \in BOOLEAN
    OBVIOUS
  <2> HIDE DEF R
  <2>3. Len(s) \in Nat /\ \A i \in 1..Len(s) : s[i] \in R
    <3> HIDE DEF s
    <3> QED
      BY <2>1, LenProperties, ElementOfSeq
  <2> QED
    BY <2>2, <2>3
<1>2. own \in Nat
  <2> DEFINE c == pod.containers
             m == Len(c)
  <2>0. c \in Seq(Nat) /\ own = Autoscaling!SumFunction(c)
    OBVIOUS
  <2> HIDE DEF c, own
  <2>1. m \in Nat /\ DOMAIN c = 1..m /\ c \in [1..m -> Nat]
    BY <2>0
  <2>2. IsFiniteSet(1..m) /\ 1..m \in SUBSET (1..m)
    BY <2>1, FS_Interval
  <2> HIDE DEF m
  <2>3. SumFunctionOnSet(c, 1..m) \in Nat
    BY <2>1, <2>2, SumProperties
  <2> QED
    BY <2>0, <2>1, <2>3, SumsAre
<1>3. kept \in [1..n -> Nat] /\ \A i \in 1..n : kept[i] = IF always(i) THEN amount(i) ELSE 0
  BY <1>1
<1>4. StartsTo(pod.init, F, n)
  <2>1. PICK f : StartsTo(pod.init, f, n)
    BY <1>1, StartsExist
  <2> QED
    BY <2>1 DEF StartsTo
<1>5. /\ running(0) = 0 /\ peak(0) = 0
      /\ \A i \in 1..n :
            /\ running(i) = IF always(i) THEN running(i - 1) + amount(i) ELSE running(i - 1)
            /\ peak(i) = Autoscaling!Larger(peak(i - 1), running(i - 1) + amount(i))
  <2> HIDE DEF F, kept, own
  <2>1. \A i \in 0..n : F[i] = IF i = 0 THEN NothingStarted ELSE OneStarted(pod.init[i], F[i - 1])
    BY <1>4 DEF StartsTo
  <2>2. F[0] = NothingStarted
    BY <1>1, <2>1
  <2>3. ASSUME NEW i \in 1..n PROVE F[i] = OneStarted(pod.init[i], F[i - 1])
    <3>1. i \in 0..n /\ i # 0
      OBVIOUS
    <3> QED
      BY <2>1, <3>1
  <2>4. running(0) = 0 /\ peak(0) = 0
    BY <2>2 DEF NothingStarted
  <2>5. ASSUME NEW i \in 1..n
        PROVE  /\ running(i) = IF always(i) THEN running(i - 1) + amount(i) ELSE running(i - 1)
               /\ peak(i) = Autoscaling!Larger(peak(i - 1), running(i - 1) + amount(i))
    <3>1. F[i] = OneStarted(pod.init[i], F[i - 1])
      BY <2>3
    <3> HIDE DEF n
    <3> QED
      BY <3>1 DEF OneStarted
  <2> QED
    BY <2>4, <2>5
<1>6. Autoscaling!EffectivePodResources(pod) = top + pod.overhead
  BY DEF Autoscaling!EffectivePodResources, NothingStarted, OneStarted
<1>7. Autoscaling!Peak(pod) = (CHOOSE m \in moments : \A k \in moments : k =< m) + pod.overhead
  <2> DEFINE b(i) == Autoscaling!SumFunction([j \in 1..(i - 1) |-> IF pod.init[j].always THEN pod.init[j].amount ELSE 0])
             all == {b(i) + pod.init[i].amount : i \in 1..n} \cup {b(n + 1) + own, pod.whole}
  <2>1. Autoscaling!Peak(pod) = (CHOOSE m \in all : \A k \in all : k =< m) + pod.overhead
    BY DEF Autoscaling!Peak
  <2>2. ASSUME NEW i \in 1..(n + 1) PROVE b(i) = before(i)
    <3> DEFINE v == [j \in 1..(i - 1) |-> IF pod.init[j].always THEN pod.init[j].amount ELSE 0]
    <3>1. v = [j \in 1..(i - 1) |-> kept[j]] /\ DOMAIN v = 1..(i - 1)
      BY <1>1
    <3>2. b(i) = Autoscaling!SumFunction(v)
      OBVIOUS
    <3> HIDE DEF v, b, kept
    <3> QED
      BY <3>1, <3>2, SumsAre
  <2>3. all = moments
    <3>1. n + 1 \in 1..(n + 1) /\ \A i \in 1..n : i \in 1..(n + 1)
      BY <1>1
    <3> HIDE DEF b, before, own, n
    <3> QED
      BY <2>2, <3>1
  <2> HIDE DEF all, moments
  <2> QED
    BY <2>1, <2>3
<1> HIDE DEF F, own, amount, always, kept, running, peak, n
<1>8. before(1) = 0 /\ (\A i \in 1..n : before(i + 1) = before(i) + kept[i])
      /\ \A i \in 1..(n + 1) : before(i) \in Nat
  <2>1. ASSUME NEW i \in 1..(n + 1) PROVE before(i) \in Nat /\ (i = 1 => before(i) = 0)
    <3> DEFINE b == [j \in 1..(i - 1) |-> kept[j]]
               D == 1..(i - 1)
    <3>1. b \in [D -> Nat] /\ (i = 1 => D = {})
      BY <1>1, <1>3
    <3>2. before(i) = SumFunctionOnSet(b, D)
      OBVIOUS
    <3>3. IsFiniteSet(D) /\ D \in SUBSET D
      BY <1>1, FS_Interval
    <3> HIDE DEF b, before, D
    <3>4. SumFunctionOnSet(b, D) \in Nat /\ SumFunctionOnSet(b, {}) = 0
      BY <3>1, <3>3, SumProperties
    <3> QED
      BY <3>1, <3>2, <3>4
  <2>2. ASSUME NEW i \in 1..n PROVE before(i + 1) = before(i) + kept[i]
    <3>1. (i + 1) - 1 = i
      BY <1>1
    <3> QED
      BY <1>1, <1>3, <3>1, SumOfFirst
  <2>3. 1 \in 1..(n + 1)
    BY <1>1
  <2> HIDE DEF before
  <2> QED
    BY <2>1, <2>2, <2>3
<1> HIDE DEF before
<1> DEFINE Fine(i) == /\ running(i) = before(i + 1) /\ peak(i) \in Nat
                      /\ peak(i) = 0 \/ \E j \in 1..i : peak(i) = before(j) + amount(j)
                      /\ \A j \in 1..i : before(j) + amount(j) =< peak(i)
           Good == {i \in Nat : i =< n => Fine(i)}
<1>9. Good = Nat
  <2>1. 0 \in Good
    <3>1. running(0) = before(0 + 1) /\ peak(0) = 0 /\ 1..0 = {}
      BY <1>5, <1>8
    <3> QED
      BY <3>1
  <2>2. ASSUME NEW i \in Good PROVE i + 1 \in Good
    <3> SUFFICES ASSUME i + 1 =< n PROVE Fine(i + 1)
      OBVIOUS
    <3>1. i \in Nat /\ Fine(i) /\ i + 1 \in 1..n /\ (i + 1) - 1 = i
      BY <1>1
    <3>2. amount(i + 1) \in Nat /\ always(i + 1) \in BOOLEAN
      BY <1>1, <3>1
    <3>3. /\ before(i + 1) \in Nat /\ before((i + 1) + 1) \in Nat
          /\ before((i + 1) + 1) = before(i + 1) + kept[i + 1]
          /\ kept[i + 1] = IF always(i + 1) THEN amount(i + 1) ELSE 0
      <4>1. i + 1 \in 1..(n + 1) /\ (i + 1) + 1 \in 1..(n + 1) /\ i + 1 \in 1..n
        BY <1>1, <3>1
      <4> QED
        BY <4>1, <1>3, <1>8
    <3> DEFINE started == before(i + 1) + amount(i + 1)
    <3>4. /\ running(i + 1) = IF always(i + 1) THEN running(i) + amount(i + 1) ELSE running(i)
          /\ peak(i + 1) = Autoscaling!Larger(peak(i), running(i) + amount(i + 1))
      BY <1>5, <3>1
    <3>5. started \in Nat
      BY <3>2, <3>3
    <3>6. running(i + 1) = before((i + 1) + 1)
      BY <3>1, <3>2, <3>3, <3>4
    <3>7. peak(i + 1) = IF peak(i) > started THEN peak(i) ELSE started
      BY <3>1, <3>4 DEF Autoscaling!Larger
    <3>8. peak(i + 1) \in Nat /\ peak(i) =< peak(i + 1) /\ started =< peak(i + 1)
      BY <3>1, <3>5, <3>7
    <3>9. peak(i + 1) = 0 \/ \E j \in 1..(i + 1) : peak(i + 1) = before(j) + amount(j)
      BY <3>1, <3>7
    <3>10. ASSUME NEW j \in 1..(i + 1) PROVE before(j) + amount(j) =< peak(i + 1)
      <4>1. CASE j = i + 1
        BY <3>8, <4>1
      <4>2. CASE j \in 1..i
        <5>1. j \in 1..n /\ j \in 1..(n + 1)
          BY <1>1, <3>1, <4>2
        <5>2. before(j) + amount(j) =< peak(i)
          BY <3>1, <4>2
        <5>3. before(j) \in Nat /\ amount(j) \in Nat
          BY <1>1, <1>8, <5>1
        <5> QED
          BY <3>1, <3>8, <5>2, <5>3
      <4> QED
        BY <3>1, <4>1, <4>2
    <3> HIDE DEF started
    <3> QED
      BY <3>6, <3>8, <3>9, <3>10
  <2>3. Good \in SUBSET Nat
    OBVIOUS
  <2> HIDE DEF Good
  <2> QED
    BY <2>1, <2>2, <2>3, AllNaturals
<1>10. Fine(n)
  <2>1. n \in Good
    <3> HIDE DEF Good
    <3> QED
      BY <1>1, <1>9
  <2>2. n =< n
    BY <1>1
  <2> QED
    BY <2>1, <2>2
<1> DEFINE run == before(n + 1) + own
<1>11. run \in Nat /\ peak(n) \in Nat /\ pod.whole \in Nat /\ own + running(n) = run
  <2>1. n + 1 \in 1..(n + 1)
    BY <1>1
  <2>2. before(n + 1) \in Nat /\ running(n) = before(n + 1)
    BY <1>8, <1>10, <2>1
  <2> QED
    BY <1>2, <1>10, <2>2
<1>12. top \in Nat /\ run =< top /\ peak(n) =< top /\ pod.whole =< top /\ top \in {run, peak(n), pod.whole}
       /\ (peak(n) = 0 => top \in {run, pod.whole})
  <2> DEFINE whole == pod.whole
  <2>1. run \in Nat /\ peak(n) \in Nat /\ whole \in Nat /\ top = Autoscaling!Larger(Autoscaling!Larger(run, peak(n)), whole)
    BY <1>11
  <2> HIDE DEF run, top, whole
  <2>2. top \in Nat /\ run =< top /\ peak(n) =< top /\ whole =< top /\ top \in {run, peak(n), whole}
        /\ (peak(n) = 0 => top \in {run, whole})
    BY <2>1 DEF Autoscaling!Larger
  <2> QED
    BY <2>2 DEF whole
<1>13. top \in moments
  <2>1. CASE top \in {run, pod.whole}
    BY <2>1
  <2>2. CASE top = peak(n) /\ peak(n) # 0
    <3>1. PICK j \in 1..n : peak(n) = before(j) + amount(j)
      BY <1>10, <2>2
    <3> QED
      BY <2>2, <3>1
  <2> QED
    BY <1>12, <2>1, <2>2
<1>14. ASSUME NEW k \in moments PROVE k \in Int /\ k =< top
  <2>1. CASE k \in {run, pod.whole}
    BY <1>11, <1>12, <2>1
  <2>2. CASE k \notin {run, pod.whole}
    <3>1. PICK j \in 1..n : k = before(j) + amount(j)
      BY <2>2
    <3>2. k =< peak(n)
      BY <1>10, <3>1
    <3>3. j \in 1..(n + 1)
      BY <1>1
    <3>4. before(j) \in Nat /\ amount(j) \in Nat
      BY <1>1, <1>8, <3>3
    <3>5. k \in Int
      BY <3>1, <3>4
    <3> HIDE DEF moments, top
    <3> QED
      BY <1>11, <1>12, <3>2, <3>5
  <2> QED
    BY <2>1, <2>2
<1> HIDE DEF moments, top
<1>15. (CHOOSE m \in moments : \A k \in moments : k =< m) = top
  <2> DEFINE m == CHOOSE m \in moments : \A k \in moments : k =< m
  <2>1. m \in moments /\ \A k \in moments : k =< m
    BY <1>13, <1>14
  <2>2. m =< top /\ top =< m /\ m \in Int /\ top \in Int
    BY <1>13, <1>14, <2>1
  <2> HIDE DEF m
  <2>3. m = top
    BY <2>2
  <2> QED
    BY <2>3 DEF m
<1>16. top + pod.overhead \in Nat
  BY <1>12
<1> QED
  BY <1>6, <1>7, <1>15, <1>16

\* P splits A into the parts of K and the rest; r has the sum of each part.
Splits(P, K, A, rest) ==
    /\ P \in [K -> SUBSET A] /\ rest \in SUBSET A
    /\ \A j, k \in K : j # k => P[j] \cap P[k] = {}
    /\ \A x \in A : x \in rest <=> \A k \in K : x \notin P[k]

SumsOf(r, w, P, K) == DOMAIN r = K /\ r = [k \in K |-> r[k]] /\ \A k \in K : r[k] = SumFunctionOnSet(w, P[k])

\* The sums of the parts and of the rest add up to that of the whole.
LEMMA RowsAddUp ==
    ASSUME NEW A, IsFiniteSet(A), NEW w \in [A -> Nat], NEW K, IsFiniteSet(K),
           NEW P, NEW rest, Splits(P, K, A, rest), NEW r, SumsOf(r, w, P, K)
    PROVE  Autoscaling!SumFunction(r) + SumFunctionOnSet(w, rest) = SumFunctionOnSet(w, A)
<1> DEFINE parts == UNION {P[k] : k \in K}
<1>0. P \in [K -> SUBSET A] /\ rest \in SUBSET A
  BY DEF Splits
<1>1. parts \in SUBSET A /\ IsFiniteSet(parts) /\ IsFiniteSet(rest) /\ IsFiniteSet(A)
  <2>1. parts \in SUBSET A
    BY <1>0
  <2> HIDE DEF parts
  <2> QED
    BY <1>0, <2>1, FS_Subset
<1>2. ASSUME NEW k \in K PROVE r[k] \in Nat
  <2> DEFINE part == P[k]
  <2>1. part \in SUBSET A /\ r[k] = SumFunctionOnSet(w, part)
    BY <1>0 DEF SumsOf
  <2> HIDE DEF part
  <2>2. SumFunctionOnSet(w, part) \in Nat
    BY <2>1, FS_Subset, SumProperties
  <2> QED
    BY <2>1, <2>2
<1>3. r \in [K -> Nat] /\ DOMAIN r = K
  BY <1>2 DEF SumsOf
<1>4. SumFunctionOnSet(r, K) = SumFunctionOnSet(w, parts)
  BY <1>0, <1>3, SumOfParts DEF SumsOf, Splits
<1>5. parts \cap rest = {} /\ A = parts \cup rest
  BY <1>0 DEF Splits
<1> HIDE DEF parts
<1>6. SumFunctionOnSet(w, parts \cup rest) = SumFunctionOnSet(w, parts) + SumFunctionOnSet(w, rest)
  BY <1>0, <1>1, <1>5, SumOfUnion
<1> QED
  BY <1>3, <1>4, <1>5, <1>6, SumsAre

\* What was found of the pods, when it is whole, are those there; their requests are their needs.
LEMMA ActivePodsAre ==
    ASSUME AutoscalingInv, NEW o \in Autoscaling!Troubled(cluster, asked), ~sources["pods"].partial,
           sources = [l \in Autoscaling!ListNames |-> Autoscaling!SourceStatus(cluster, asked, l, o[l])]
    PROVE  LET active == Autoscaling!ActivePods(FoundBy(o))
           IN  /\ active = {p \in Autoscaling!There("pods") : ~p.done}
               /\ IsFiniteSet(active)
               /\ \A p \in active : /\ Autoscaling!EffectivePodResources(p) = Autoscaling!Peak(p)
                                    /\ Autoscaling!Peak(p) \in Nat
<1> DEFINE found == FoundBy(o)
           active == Autoscaling!ActivePods(found)
<1>1. "pods" \in Autoscaling!ListNames /\ cluster \in Clusters
  BY DEF AutoscalingInv, Autoscaling!TypeOK, Autoscaling!ListNames, Autoscaling!Namespaced
<1>2. sources["pods"] = Autoscaling!SourceStatus(cluster, asked, "pods", o["pods"])
      /\ found["pods"] = Autoscaling!Items(cluster, asked, "pods", o["pods"])
  BY <1>1 DEF FoundBy
<1>3. o["pods"] \in Autoscaling!Outcomes /\ Autoscaling!Possible(cluster, asked, "pods", o["pods"])
  BY <1>1, TroublesArePossible
<1> HIDE DEF found
<1>4. /\ Autoscaling!Range(found["pods"]) = Autoscaling!There("pods")
      /\ IsFiniteSet(Autoscaling!Range(found["pods"]))
  BY <1>1, <1>2, <1>3, ItemsAre DEF Autoscaling!There
<1>5. active = {p \in Autoscaling!There("pods") : ~p.done} /\ active \subseteq Autoscaling!Range(found["pods"])
  BY <1>4 DEF Autoscaling!ActivePods
<1>6. IsFiniteSet(active)
  BY <1>4, <1>5, FS_Subset
<1>7. ASSUME NEW p \in active
      PROVE  Autoscaling!EffectivePodResources(p) = Autoscaling!Peak(p) /\ Autoscaling!Peak(p) \in Nat
  <2>1. p \in Autoscaling!Range(cluster["pods"])
    BY <1>1, <1>5, ListedAre DEF Autoscaling!There
  <2> QED
    BY <1>1, <2>1, AutoscalingConstants, PodNeeds
<1> QED
  BY <1>5, <1>6, <1>7 DEF found

LEMMA CapacityIsSo ==
    ASSUME AutoscalingInv, NEW o \in Autoscaling!Troubled(cluster, asked),
           NEW a \in {"available", "error"}, CollectedBy(o, a)
    PROVE  Autoscaling!CapacityAddsUp
<1> SUFFICES ASSUME sources["pods"].status = "available", ~sources["pods"].partial
             PROVE  Autoscaling!CapacityAddsUp
  BY DEF Autoscaling!CapacityAddsUp
<1> DEFINE found == FoundBy(o)
           active == Autoscaling!ActivePods(found)
           w == [p \in active |-> Autoscaling!Peak(p)]
           capacity == Autoscaling!CapacityFromInventory(found)
<1>1. /\ active = {p \in Autoscaling!There("pods") : ~p.done} /\ IsFiniteSet(active)
      /\ \A p \in active : Autoscaling!EffectivePodResources(p) = Autoscaling!Peak(p) /\ Autoscaling!Peak(p) \in Nat
  BY ActivePodsAre DEF CollectedBy
<1>2. inventory.capacity = capacity
  BY DEF CollectedBy, Autoscaling!Report
<1>3. w \in [active -> Nat]
  BY <1>1
<1>4. ASSUME NEW pods \in SUBSET active
      PROVE  /\ Autoscaling!Requests(pods) = SumFunctionOnSet(w, pods)
             /\ Autoscaling!SumFunction([p \in pods |-> Autoscaling!Peak(p)]) = SumFunctionOnSet(w, pods)
  <2> DEFINE needs == [p \in pods |-> Autoscaling!Peak(p)]
             asks == [p \in pods |-> Autoscaling!EffectivePodResources(p)]
  <2>1. asks = needs /\ needs \in [pods -> Nat] /\ DOMAIN needs = pods
    BY <1>1
  <2>2. Autoscaling!Requests(pods) = Autoscaling!SumFunction(asks)
    BY DEF Autoscaling!Requests
  <2>3. pods \in SUBSET (pods \cap active) /\ IsFiniteSet(pods) /\ \A x \in pods : needs[x] = w[x]
    BY <1>1, FS_Subset
  <2> HIDE DEF needs, asks, w, active
  <2>4. SumFunctionOnSet(needs, pods) = SumFunctionOnSet(w, pods)
    BY <1>3, <2>1, <2>3, SumOfEqual
  <2>5. Autoscaling!SumFunction(needs) = SumFunctionOnSet(w, pods)
    BY <2>1, <2>4, SumsAre
  <2> QED
    BY <2>1, <2>2, <2>5 DEF needs
<1>5. capacity.requests = SumFunctionOnSet(w, active)
  <2>1. capacity.requests = Autoscaling!Requests(active)
    BY DEF Autoscaling!CapacityFromInventory
  <2> HIDE DEF w, active, capacity
  <2> QED
    BY <1>4, <2>1
<1>6. Autoscaling!SumFunction([row \in capacity.workloads |-> row.requests]) = SumFunctionOnSet(w, active)
  <2> DEFINE of(x) == Autoscaling!PodsOf(found, x)
             Row(x) == [id |-> x, pods |-> Autoscaling!Cardinality(of(x)), requests |-> Autoscaling!Requests(of(x)),
                        autoscaled |-> Autoscaling!Autoscaled(found, x), pdbs |-> Autoscaling!Budgets(found, x)]
             ids == Autoscaling!Workloads(found)
             rows == {Row(x) : x \in ids}
             P == [row \in rows |-> of(row.id)]
             r == [row \in rows |-> row.requests]
             idOf == [p \in active |-> <<p.namespace, Autoscaling!PodOwner(found, p)>>]
             rowOf == [x \in ids |-> Row(x)]
  <2>1. capacity.workloads = rows
    BY DEF Autoscaling!CapacityFromInventory
  <2>2. ids = {idOf[p] : p \in active}
    BY DEF Autoscaling!Workloads
  <2>3. \A x : of(x) = {p \in active : idOf[p] = x}
    BY DEF Autoscaling!PodsOf
  <2>4. rows = {rowOf[x] : x \in ids}
    OBVIOUS
  <2>5. \A x : Row(x).id = x /\ Row(x).requests = Autoscaling!Requests(of(x))
    OBVIOUS
  <2>6. idOf = [p \in active |-> idOf[p]] /\ rowOf = [x \in ids |-> rowOf[x]] /\ r = [row \in rows |-> r[row]]
    OBVIOUS
  <2> HIDE DEF idOf, Row, of, active, w, capacity, ids
  <2>7. IsFiniteSet(ids)
    BY <1>1, <2>2, <2>6, ImageIsFinite
  <2>8. IsFiniteSet(rows)
    <3> HIDE DEF rowOf, rows
    <3> QED
      BY <2>4, <2>6, <2>7, ImageIsFinite
  <2>9. \A row \in rows : row.id \in ids /\ row = Row(row.id) /\ row.requests = Autoscaling!Requests(of(row.id))
    BY <2>5
  <2>10. \A x \in ids : Row(x) \in rows /\ P[Row(x)] = of(x)
    BY <2>5
  <2>11. P \in [rows -> SUBSET active] /\ (\A row \in rows : P[row] = of(row.id) /\ r[row] = row.requests)
    BY <2>3
  <2> HIDE DEF rows, P, r, rowOf
  <2>12. \A j, k \in rows : j # k => P[j] \cap P[k] = {}
    BY <2>3, <2>9, <2>11
  <2>13. \A k \in rows : r[k] = SumFunctionOnSet(w, P[k])
    BY <1>4, <2>9, <2>11
  <2>14. Splits(P, rows, active, {})
    <3>1. ASSUME NEW p \in active PROVE \E k \in rows : p \in P[k]
      <4>1. idOf[p] \in ids /\ p \in of(idOf[p])
        BY <2>2, <2>3
      <4> QED
        BY <2>10, <4>1
    <3> QED
      BY <2>11, <2>12, <3>1 DEF Splits
  <2>15. SumsOf(r, w, P, rows)
    BY <2>6, <2>13 DEF SumsOf
  <2>16. Autoscaling!SumFunction(r) + SumFunctionOnSet(w, {}) = SumFunctionOnSet(w, active)
    BY <1>1, <1>3, <2>8, <2>14, <2>15, RowsAddUp
  <2>17. Autoscaling!SumFunction(r) = SumFunctionOnSet(w, active)
    <3>1. SumFunctionOnSet(w, {}) = 0 /\ SumFunctionOnSet(w, active) \in Nat
      <4>1. active \in SUBSET active
        OBVIOUS
      <4> QED
        BY <1>1, <1>3, <4>1, SumProperties
    <3>2. Autoscaling!SumFunction(r) \in Nat
      <4>1. \A k \in rows : r[k] \in Nat
        <5> SUFFICES ASSUME NEW k \in rows PROVE r[k] \in Nat
          OBVIOUS
        <5> DEFINE part == P[k]
        <5>1. part \in SUBSET active /\ r[k] = SumFunctionOnSet(w, part)
          BY <2>11, <2>13
        <5> HIDE DEF part
        <5>2. SumFunctionOnSet(w, part) \in Nat
          BY <1>1, <1>3, <5>1, FS_Subset, SumProperties
        <5> QED
          BY <5>1, <5>2
      <4>2. r \in [rows -> Nat] /\ rows \in SUBSET rows /\ DOMAIN r = rows
        BY <4>1, <2>6 DEF r
      <4>3. SumFunctionOnSet(r, rows) \in Nat
        BY <2>8, <4>2, SumProperties
      <4> QED
        BY <4>2, <4>3, SumsAre
    <3> QED
      BY <2>16, <3>1, <3>2
  <2> QED
    BY <2>1, <2>17 DEF r
<1> DEFINE elsewhere == {p \in active : \A row \in capacity.perNode : p.node # row[1]}
<1>7. Autoscaling!SumFunction([row \in capacity.perNode |-> row[2]]) + SumFunctionOnSet(w, elsewhere)
          = SumFunctionOnSet(w, active)
  <2> DEFINE on(x) == {p \in active : p.node = x}
             nodes == Autoscaling!Range(found["nodes"])
             rowOf == [n \in nodes |-> <<n.name, Autoscaling!Requests(on(n.name))>>]
             rows == {<<n.name, Autoscaling!Requests(on(n.name))>> : n \in nodes}
             P == [row \in rows |-> on(row[1])]
             r == [row \in rows |-> row[2]]
  <2>1. capacity.perNode = rows
    BY DEF Autoscaling!CapacityFromInventory
  <2>2. rows = {rowOf[n] : n \in nodes} /\ rowOf = [n \in nodes |-> rowOf[n]] /\ r = [row \in rows |-> r[row]]
    OBVIOUS
  <2>3. ASSUME NEW row \in rows PROVE row[2] = Autoscaling!Requests(on(row[1])) /\ row = <<row[1], row[2]>>
    <3>1. PICK n \in nodes : row = <<n.name, Autoscaling!Requests(on(n.name))>>
      OBVIOUS
    <3> DEFINE x == n.name
               y == Autoscaling!Requests(on(x))
    <3>2. row = <<x, y>>
      BY <3>1
    <3> HIDE DEF x, y, rows, on
    <3>3. row[1] = x /\ row[2] = y /\ row = <<row[1], row[2]>>
      BY <3>2
    <3> QED
      BY <3>3 DEF y
  <2>4. \A x : on(x) = {p \in active : p.node = x}
    OBVIOUS
  <2>5. IsFiniteSet(nodes)
    <3>1. "nodes" \in Autoscaling!ListNames /\ cluster \in Clusters
      BY DEF AutoscalingInv, Autoscaling!TypeOK, Autoscaling!ListNames
    <3>2. o["nodes"] \in Autoscaling!Outcomes /\ Autoscaling!Possible(cluster, asked, "nodes", o["nodes"])
      BY <3>1, TroublesArePossible
    <3>3. found["nodes"] = Autoscaling!Items(cluster, asked, "nodes", o["nodes"])
      BY <3>1 DEF FoundBy
    <3> HIDE DEF found
    <3> QED
      BY <3>1, <3>2, <3>3, ItemsAre
  <2> HIDE DEF on, active, w, capacity, nodes, found
  <2>6. IsFiniteSet(rows)
    <3> HIDE DEF rowOf, rows
    <3> QED
      BY <2>2, <2>5, ImageIsFinite
  <2>7. P \in [rows -> SUBSET active] /\ (\A row \in rows : P[row] = on(row[1]) /\ r[row] = row[2]) /\ DOMAIN r = rows
    BY <2>4
  <2>8. elsewhere = {p \in active : \A row \in rows : p.node # row[1]}
    BY <2>1
  <2> HIDE DEF rows, P, r, rowOf, elsewhere
  <2>9. \A j, k \in rows : j # k => P[j] \cap P[k] = {}
    BY <2>3, <2>4, <2>7
  <2>10. \A k \in rows : r[k] = SumFunctionOnSet(w, P[k])
    <3>1. ASSUME NEW k \in rows PROVE r[k] = SumFunctionOnSet(w, P[k])
      <4>1. on(k[1]) \in SUBSET active
        BY <2>4
      <4>2. k[2] = Autoscaling!Requests(on(k[1]))
        BY <2>3
      <4> QED
        BY <1>4, <2>7, <4>1, <4>2
    <3> QED
      BY <3>1
  <2>11. Splits(P, rows, active, elsewhere)
    <3>1. \A k \in rows : P[k] = {p \in active : p.node = k[1]}
      BY <2>4, <2>7
    <3> QED
      BY <2>7, <2>8, <2>9, <3>1 DEF Splits
  <2>12. SumsOf(r, w, P, rows)
    BY <2>2, <2>7, <2>10 DEF SumsOf
  <2>13. Autoscaling!SumFunction(r) + SumFunctionOnSet(w, elsewhere) = SumFunctionOnSet(w, active)
    BY <1>1, <1>3, <2>6, <2>11, <2>12, RowsAddUp
  <2> QED
    BY <2>1, <2>13 DEF r
<1>8. active \in SUBSET active /\ elsewhere \in SUBSET active
  OBVIOUS
<1> HIDE DEF w, capacity
<1>9. /\ Autoscaling!SumFunction([p \in active |-> Autoscaling!Peak(p)]) = SumFunctionOnSet(w, active)
      /\ Autoscaling!SumFunction([p \in elsewhere |-> Autoscaling!Peak(p)]) = SumFunctionOnSet(w, elsewhere)
  <2> HIDE DEF active, elsewhere
  <2> QED
    BY <1>4, <1>8
<1> QED
  <2> DEFINE there == {p \in Autoscaling!There("pods") : ~p.done}
             away == {p \in there : \A n \in inventory.capacity.perNode : p.node # n[1]}
  <2>1. there = active /\ away = elsewhere
    BY <1>1, <1>2
  <2>2. /\ inventory.capacity.requests = Autoscaling!SumFunction([p \in there |-> Autoscaling!Peak(p)])
        /\ Autoscaling!SumFunction([x \in inventory.capacity.workloads |-> x.requests])
               = Autoscaling!SumFunction([p \in there |-> Autoscaling!Peak(p)])
        /\ Autoscaling!SumFunction([n \in inventory.capacity.perNode |-> n[2]])
               + Autoscaling!SumFunction([p \in away |-> Autoscaling!Peak(p)])
               = Autoscaling!SumFunction([p \in there |-> Autoscaling!Peak(p)])
    <3> HIDE DEF there, away, active, elsewhere, capacity, w
    <3> QED
      BY <1>2, <1>5, <1>6, <1>7, <1>9, <2>1
  <2> QED
    BY <2>2 DEF Autoscaling!CapacityAddsUp

LEMMA AutoscalingFacts == ASSUME AutoscalingInv PROVE Autoscaling!MissingIsMissing /\ Autoscaling!CapacityAddsUp
<1> SUFFICES ASSUME inventory # Autoscaling!None PROVE Autoscaling!MissingIsMissing /\ Autoscaling!CapacityAddsUp
  BY DEF Autoscaling!MissingIsMissing, Autoscaling!CapacityAddsUp
<1>1. PICK o \in Autoscaling!Troubled(cluster, asked), a \in {"available", "error"} : CollectedBy(o, a)
  BY DEF AutoscalingInv
<1>2. Autoscaling!MissingIsMissing
  BY <1>1, MissingIsSo, EmptyTabIsSo DEF Autoscaling!MissingIsMissing
<1> QED
  BY <1>1, <1>2, CapacityIsSo

-----------------------------------------------------------------------------
(* The Timeline database *)

StoreRows == [id : Identities, seq : Nat, occurred : 0..MaxClock]

\* At most one row per identity and per sequence number, none beyond the counter.
RowsFine(rows, seq) ==
    /\ rows \in SUBSET StoreRows /\ IsFiniteSet(rows)
    /\ \A a, b \in rows : a.id = b.id \/ a.seq = b.seq => a = b
    /\ \A r \in rows : 1 =< r.seq /\ r.seq =< seq

Metas == [seq : Nat, retention : Retentions, pruned : Nat]
Positions == [after : Int, tail : Nat, seen : SUBSET StoreRows]

\* Types; every row that was inserted is there or was counted as pruned.
StoreShape ==
    /\ clock \in 0..MaxClock
    /\ task = Store!Idle \/ task \in Store!Operations
    /\ left \subseteq Targets
    /\ events \in [Targets -> SUBSET StoreRows] /\ state \in [Targets -> -1..MaxClock]
    /\ meta \in [Targets -> Metas] /\ inserted \in [Targets -> Nat]
    /\ \A t \in Targets : /\ RowsFine(events[t], meta[t].seq) /\ meta[t].seq =< MaxSequence[t]
                          /\ meta[t].pruned + Cardinality(events[t]) = inserted[t]

\* What was written is enforced before the next operation begins: between two operations
\* no target is left.
StoreQuota == task = Store!Idle => Store!Enforced

\* A reader is not ahead of the counter.
StoreReaders ==
    /\ reader \in [DOMAIN Readers -> Positions]
    /\ \A r \in DOMAIN Readers : reader[r].after =< meta[Readers[r].target].seq
    /\ Store!ReaderMissesNothing

StoreInv == StoreShape /\ StoreQuota /\ StoreReaders

LEMMA StoreConstants ==
    /\ IsFiniteSet(Targets) /\ IsFiniteSet(Identities)
    /\ Retentions \subseteq Nat /\ \E longest \in Retentions : \A days \in Retentions : days =< longest
    /\ Limit \in Nat /\ Limit > 0 /\ MaxTargetRows \in Nat /\ MaxTotalRows \in Nat /\ MaxClock \in Nat
    /\ MaxSequence \in [Targets -> Nat]
    /\ Batches \in [Targets -> SUBSET Seq([id : Identities, occurred : Nat])]
    /\ \A r \in DOMAIN Readers : Readers[r].target \in Targets
<1>1. Store!StoreAssumption
  BY PartsAssumption
<1>2. \A S : Store!IsFiniteSet(S) <=> IsFiniteSet(S)
  BY DEF Store!IsFiniteSet, IsFiniteSet
<1> QED
  BY <1>1, <1>2 DEF Store!StoreAssumption

LEMMA StoreCount == \A S : Store!Cardinality(S) = Cardinality(S)
  BY DEF Store!Cardinality, Cardinality

LEMMA StoreMin == ASSUME NEW S \in SUBSET Nat, S # {} PROVE Store!Min(S) \in S /\ \A n \in S : Store!Min(S) =< n
<1>1. \E m \in S : \A n \in S : m =< n
  BY Smallest
<1> QED
  BY <1>1 DEF Store!Min

LEMMA StoreMax ==
    ASSUME NEW b \in Nat, NEW S \in SUBSET (0..b), S # {}
    PROVE  Store!Max(S) \in S /\ \A n \in S : Store!Max(S) >= n
<1> DEFINE T == {b - n : n \in S}
<1>1. T \in SUBSET Nat /\ T # {}
  <2>1. \A n \in S : n \in 0..b /\ b - n \in Nat
    OBVIOUS
  <2> QED
    BY <2>1
<1>2. PICK m \in T : \A n \in T : m =< n
  <2> HIDE DEF T
  <2> QED
    BY <1>1, Smallest
<1>3. PICK x \in S : m = b - x
  BY <1>2
<1>4. \A n \in S : x >= n
  <2> SUFFICES ASSUME NEW n \in S PROVE x >= n
    OBVIOUS
  <2>1. m =< b - n
    BY <1>2
  <2> QED
    BY <1>3, <2>1
<1> QED
  BY <1>3, <1>4 DEF Store!Max

-----------------------------------------------------------------------------
(* append: the rows after a batch *)

Appending(start, k) ==
    /\ k \in [rows : SUBSET StoreRows, seq : Nat, added : Nat]
    /\ RowsFine(k.rows, k.seq) /\ start.seq =< k.seq
    /\ \A r \in k.rows : r \in start.rows \/ r.seq > start.seq
    /\ Cardinality(k.rows) = Cardinality(start.rows) + k.added

LEMMA UpsertKeeps ==
    ASSUME NEW start, start.seq \in Nat, NEW k, Appending(start, k), IsFiniteSet(start.rows),
           NEW event \in [id : Identities, occurred : 0..MaxClock], NEW from \in Int
    PROVE  Appending(start, Store!Upsert(k, event, from))
<1> DEFINE known == {r \in k.rows : r.id = event.id}
           times == {event.occurred} \cup {r.occurred : r \in known}
           occurred == Store!Max(times)
           row == [id |-> event.id, seq |-> k.seq + 1, occurred |-> occurred]
           rows == (k.rows \ known) \cup {row}
           added == IF known = {} THEN k.added + 1 ELSE k.added
           after == [rows |-> rows, seq |-> k.seq + 1, added |-> added]
<1>1. k.rows \in SUBSET StoreRows /\ k.seq \in Nat /\ k.added \in Nat /\ IsFiniteSet(k.rows)
      /\ \A a, b \in k.rows : a.id = b.id \/ a.seq = b.seq => a = b
      /\ \A r \in k.rows : 1 =< r.seq /\ r.seq =< k.seq
  BY DEF Appending, RowsFine
<1>2. occurred \in 0..MaxClock
  <2>1. times \in SUBSET (0..MaxClock) /\ times # {}
    BY <1>1 DEF StoreRows
  <2> HIDE DEF times
  <2>2. Store!Max(times) \in times
    BY <2>1, StoreMax, StoreConstants
  <2> QED
    BY <2>1, <2>2
<1> HIDE DEF occurred
<1>3. row \in StoreRows /\ row.id = event.id /\ row.seq = k.seq + 1 /\ row.seq > k.seq /\ row.seq >= 1
  BY <1>1, <1>2 DEF StoreRows
<1>4. row \notin k.rows
  BY <1>1, <1>3
<1> HIDE DEF row
<1>5. known = {} \/ \E r \in k.rows : known = {r}
  BY <1>1
<1>6. IsFiniteSet(rows) /\ Cardinality(rows) + k.added = Cardinality(k.rows) + added /\ added \in Nat
  <2>1. Cardinality(k.rows) \in Nat
    BY <1>1, FS_CardinalityType
  <2>2. CASE known = {}
    <3>1. rows = k.rows \cup {row}
      BY <2>2
    <3>2. IsFiniteSet(k.rows \cup {row}) /\ Cardinality(k.rows \cup {row}) = Cardinality(k.rows) + 1
      BY <1>1, <1>4, FS_AddElement
    <3> HIDE DEF rows, known
    <3> QED
      BY <1>1, <2>1, <2>2, <3>1, <3>2
  <2>3. CASE known # {}
    <3>1. PICK r \in k.rows : known = {r}
      BY <1>5, <2>3
    <3>2. IsFiniteSet(k.rows \ {r}) /\ Cardinality(k.rows \ {r}) = Cardinality(k.rows) - 1
      BY <1>1, FS_RemoveElement
    <3>3. row \notin k.rows \ {r}
      BY <1>4
    <3>4. IsFiniteSet((k.rows \ {r}) \cup {row}) /\ Cardinality((k.rows \ {r}) \cup {row}) = Cardinality(k.rows \ {r}) + 1
      BY <3>2, <3>3, FS_AddElement
    <3>5. rows = (k.rows \ {r}) \cup {row}
      BY <3>1
    <3> HIDE DEF rows, known
    <3> QED
      BY <1>1, <2>1, <2>3, <3>2, <3>4, <3>5
  <2> QED
    BY <2>2, <2>3
<1>7. rows \in SUBSET StoreRows /\ (\A r \in rows : 1 =< r.seq /\ r.seq =< k.seq + 1)
  BY <1>1, <1>3 DEF StoreRows
<1>8. ASSUME NEW a \in rows, NEW b \in rows, a.id = b.id \/ a.seq = b.seq PROVE a = b
  BY <1>1, <1>3, <1>8
<1>9. \A r \in rows : r \in start.rows \/ r.seq > start.seq
  <2>1. start.seq =< k.seq /\ \A r \in k.rows : r \in start.rows \/ r.seq > start.seq
    BY DEF Appending
  <2> QED
    BY <1>1, <1>3, <2>1
<1>10. RowsFine(rows, k.seq + 1)
  BY <1>6, <1>7, <1>8 DEF RowsFine
<1>11. Cardinality(k.rows) = Cardinality(start.rows) + k.added /\ start.seq =< k.seq
       /\ Cardinality(start.rows) \in Nat /\ Cardinality(rows) \in Nat
  BY <1>6, FS_CardinalityType DEF Appending
<1> HIDE DEF rows, added
<1>12. after \in [rows : SUBSET StoreRows, seq : Nat, added : Nat]
  BY <1>1, <1>6, <1>7
<1>13. Appending(start, after)
  BY <1>1, <1>6, <1>9, <1>10, <1>11, <1>12 DEF Appending
<1>14. Store!Upsert(k, event, from) \in {k, after}
  BY DEF Store!Upsert, after, added, rows, row, occurred
<1> QED
  BY <1>13, <1>14

\* f is the recursive function of Kept, up to m.
KeptUpTo(start, batch, from, f, m) ==
    f = [i \in 0..m |-> IF i = 0 THEN start ELSE Store!Upsert(f[i - 1], batch[i], from)]

LEMMA KeptExists ==
    ASSUME NEW start, NEW batch, NEW from
    PROVE  \A m \in Nat : \E f : KeptUpTo(start, batch, from, f, m)
<1> DEFINE Good == {m \in Nat : \E f : KeptUpTo(start, batch, from, f, m)}
<1>1. 0 \in Good
  <2>1. KeptUpTo(start, batch, from, [i \in 0..0 |-> start], 0)
    BY DEF KeptUpTo
  <2> QED
    BY <2>1
<1>2. ASSUME NEW m \in Good PROVE m + 1 \in Good
  <2>1. PICK f : KeptUpTo(start, batch, from, f, m)
    OBVIOUS
  <2>2. m \in Nat
    OBVIOUS
  <2> DEFINE last == Store!Upsert(f[m], batch[m + 1], from)
             g == [i \in 0..(m + 1) |-> IF i = m + 1 THEN last ELSE f[i]]
  <2>3. ASSUME NEW i \in 0..(m + 1)
        PROVE  g[i] = IF i = 0 THEN start ELSE Store!Upsert(g[i - 1], batch[i], from)
    <3>1. CASE i = m + 1
      <4>1. m \in 0..(m+1) /\ g[m] = f[m] /\ i # 0 /\ i - 1 = m
        BY <3>1, <2>2
      <4>2. g[i] = last
        BY <3>1
      <4> QED
        BY <4>1, <4>2, <3>1
    <3>2. CASE i # m + 1
      <4>1. i \in 0..m /\ g[i] = f[i]
        BY <3>2, <2>2
      <4>2. f[i] = IF i = 0 THEN start ELSE Store!Upsert(f[i - 1], batch[i], from)
        BY <4>1, <2>1 DEF KeptUpTo
      <4>3. i # 0 => g[i - 1] = f[i - 1]
        BY <4>1, <2>2
      <4> QED
        BY <4>1, <4>2, <4>3
    <3> QED
      BY <3>1, <3>2
  <2>4. KeptUpTo(start, batch, from, g, m + 1)
    BY <2>3 DEF KeptUpTo
  <2> QED
    BY <2>4, <2>2
<1>3. Good = Nat
  <2> HIDE DEF Good
  <2>1. Good \in SUBSET Nat
    BY DEF Good
  <2> QED
    BY <1>1, <1>2, <2>1, AllNaturals
<1> QED
  BY <1>3

\* After a batch the rows still are one per identity and sequence number, new ones come
\* after all the old, and each that was added is counted.
LEMMA KeptKeeps ==
    ASSUME NEW start, start.seq \in Nat, Appending(start, start), IsFiniteSet(start.rows),
           NEW batch \in Seq([id : Identities, occurred : Nat]),
           \A i \in DOMAIN batch : batch[i].occurred =< MaxClock, NEW from \in Int
    PROVE  Appending(start, Store!Kept(start, batch, from))
<1> DEFINE n == Len(batch)
<1>1. n \in Nat
  BY LenProperties
<1>2. PICK f : KeptUpTo(start, batch, from, f, n)
  BY KeptExists, <1>1
<1> DEFINE F == CHOOSE F : F = [i \in 0..Len(batch) |-> IF i = 0 THEN start ELSE Store!Upsert(F[i - 1], batch[i], from)]
<1>3. KeptUpTo(start, batch, from, F, n)
  BY <1>2 DEF KeptUpTo
<1>4. Store!Kept(start, batch, from) = F[n]
  BY DEF Store!Kept
<1> HIDE DEF F
<1> DEFINE Good == {m \in Nat : m =< n => Appending(start, F[m])}
<1>5. 0 \in Good
  <2>1. F[0] = start
    BY <1>1, <1>3 DEF KeptUpTo
  <2> QED
    BY <2>1
<1>6. ASSUME NEW m \in Good PROVE m + 1 \in Good
  <2>1. SUFFICES ASSUME m + 1 =< n PROVE Appending(start, F[m + 1])
    OBVIOUS
  <2>2. m \in Nat /\ Appending(start, F[m]) /\ m + 1 \in 0..n /\ (m + 1) - 1 = m /\ m + 1 # 0
    BY <1>1, <2>1
  <2>3. F[m + 1] = Store!Upsert(F[m], batch[m + 1], from)
    BY <1>3, <2>2 DEF KeptUpTo
  <2>4. m + 1 \in DOMAIN batch /\ batch[m + 1] \in [id : Identities, occurred : Nat]
    <3> DEFINE E == [id : Identities, occurred : Nat]
    <3>1. DOMAIN batch = 1..n /\ \A i \in 1..n : batch[i] \in E
      <4>1. batch \in Seq(E)
        OBVIOUS
      <4> HIDE DEF E
      <4> QED
        BY <4>1, LenProperties, ElementOfSeq
    <3>2. m + 1 \in 1..n
      BY <1>1, <2>1, <2>2
    <3> QED
      BY <3>1, <3>2
  <2>5. batch[m + 1].occurred =< MaxClock /\ MaxClock \in Nat
    BY <2>4, StoreConstants
  <2>6. batch[m + 1] \in [id : Identities, occurred : 0..MaxClock]
    BY <2>4, <2>5
  <2> QED
    BY <2>2, <2>3, <2>6, UpsertKeeps
<1>7. Good = Nat
  <2> HIDE DEF Good
  <2>1. Good \in SUBSET Nat
    BY DEF Good
  <2> QED
    BY <1>5, <1>6, <2>1, AllNaturals
<1> QED
  BY <1>1, <1>4, <1>7

-----------------------------------------------------------------------------
(* The steps of the database *)

LEMMA StoreInit == ASSUME Store!Init PROVE StoreInv
<1>1. Store!Max(Retentions) \in Retentions
  BY StoreConstants DEF Store!Max
<1>2. StoreShape
  <2>1. IsFiniteSet({}) /\ Cardinality({}) = 0
    BY FS_EmptySet
  <2>2. Store!Enforcing \in Store!Operations
    BY DEF Store!Operations
  <2>3. \A t \in Targets : RowsFine({}, 0)
    BY <2>1 DEF RowsFine
  <2> QED
    BY <1>1, <2>1, <2>2, <2>3, StoreConstants DEF Store!Init, StoreShape, Metas
<1>3. StoreQuota
  BY DEF Store!Init, StoreQuota, Store!Idle, Store!Enforcing
<1>4. StoreReaders
  <2>1. \A r \in DOMAIN Readers : Store!Matching(r) = {}
    BY StoreConstants DEF Store!Init, Store!Matching
  <2> QED
    BY <2>1, StoreConstants DEF Store!Init, StoreReaders, Positions, Store!ReaderMissesNothing
<1> QED
  BY <1>2, <1>3, <1>4 DEF StoreInv

LEMMA WorkingIsNotIdle ==
    /\ Store!Enforcing # Store!Idle
    /\ \A o \in {"newest", "newer", "older"}, r \in DOMAIN Readers : [op |-> o, reader |-> r] # Store!Idle
    /\ \A operation \in Store!Operations : operation # Store!Idle
  BY DEF Store!Enforcing, Store!Idle, Store!Operations

\* Readers miss nothing as long as rows that come are newer than all that were there.
LEMMA ReadersKept ==
    ASSUME StoreShape, StoreReaders, reader' = reader,
           \A t \in Targets : /\ events'[t] \subseteq StoreRows
                              /\ meta'[t].seq \in Nat /\ meta[t].seq =< meta'[t].seq
                              /\ \A e \in events'[t] : e \in events[t] \/ e.seq > meta[t].seq
    PROVE  StoreReaders'
<1>1. ASSUME NEW r \in DOMAIN Readers
      PROVE  /\ reader[r].after \in Int /\ reader[r].after =< meta[Readers[r].target].seq
             /\ meta[Readers[r].target].seq \in Nat /\ Readers[r].target \in Targets
  BY StoreConstants DEF StoreShape, Metas, StoreReaders, Positions
<1>2. ASSUME NEW r \in DOMAIN Readers PROVE reader[r].after =< meta'[Readers[r].target].seq
  BY <1>1
<1>3. ASSUME NEW r \in DOMAIN Readers, reader[r].after >= 0, NEW e \in Store!Matching(r)',
             reader[r].tail =< e.seq, e.seq =< reader[r].after
      PROVE  e \in reader[r].seen
  <2>1. e \in events'[Readers[r].target] /\ Readers[r].namespace \in {Store!Everywhere, NamespaceOf[e.id]}
    BY <1>3 DEF Store!Matching
  <2>2. e.seq \in Nat
    BY <1>1, <2>1 DEF StoreRows
  <2>3. e \in events[Readers[r].target]
    BY <1>1, <1>3, <2>1, <2>2
  <2>4. e \in Store!Matching(r)
    BY <2>1, <2>3 DEF Store!Matching
  <2> QED
    BY <1>3, <2>4 DEF StoreReaders, Store!ReaderMissesNothing
<1> QED
  BY <1>2, <1>3 DEF StoreReaders, Store!ReaderMissesNothing

\* Rows that are removed are counted, and nothing else changes but the baseline.
LEMMA RowsRemoved ==
    ASSUME StoreShape, StoreReaders, NEW t \in Targets, NEW rows \in SUBSET events[t], Store!RemoveRows(t, rows),
           UNCHANGED <<clock, task, inserted, reader>>, left' \subseteq Targets, state' \in [Targets -> -1..MaxClock]
    PROVE  StoreShape' /\ StoreReaders'
<1>1. events' = [events EXCEPT ![t] = @ \ rows] /\ meta' = [meta EXCEPT ![t].pruned = @ + Cardinality(rows)]
  BY StoreCount DEF Store!RemoveRows
<1>2. events \in [Targets -> SUBSET StoreRows] /\ meta \in [Targets -> Metas]
  BY DEF StoreShape
<1>3. events'[t] = events[t] \ rows /\ \A u \in Targets : u # t => events'[u] = events[u]
  BY <1>1, <1>2
<1>4. IsFiniteSet(events[t]) /\ IsFiniteSet(rows) /\ IsFiniteSet(events[t] \ rows)
      /\ Cardinality(events[t] \ rows) = Cardinality(events[t]) - Cardinality(rows)
  <2>1. IsFiniteSet(events[t])
    BY DEF StoreShape, RowsFine
  <2>2. IsFiniteSet(rows)
    BY <2>1, FS_Subset
  <2>3. events[t] \cap rows = rows
    OBVIOUS
  <2> QED
    BY <2>1, <2>2, <2>3, FS_Difference
<1>5. Cardinality(rows) \in Nat /\ Cardinality(events[t]) \in Nat
  BY <1>4, FS_CardinalityType
<1> DEFINE after == [seq |-> meta[t].seq, retention |-> meta[t].retention, pruned |-> meta[t].pruned + Cardinality(rows)]
<1>6. meta[t] = [seq |-> meta[t].seq, retention |-> meta[t].retention, pruned |-> meta[t].pruned]
      /\ meta[t].seq \in Nat /\ meta[t].retention \in Retentions /\ meta[t].pruned \in Nat
  BY <1>2 DEF Metas
<1>7. meta' = [meta EXCEPT ![t] = after] /\ after \in Metas /\ after.seq = meta[t].seq
      /\ after.pruned = meta[t].pruned + Cardinality(rows)
  <2>1. [meta[t] EXCEPT !.pruned = @ + Cardinality(rows)] = after
    BY <1>6
  <2>2. meta' = [meta EXCEPT ![t] = [meta[t] EXCEPT !.pruned = @ + Cardinality(rows)]]
    BY <1>1, <1>2
  <2>3. after \in Metas
    BY <1>5, <1>6 DEF Metas
  <2>4. after.seq = meta[t].seq /\ after.pruned = meta[t].pruned + Cardinality(rows)
    OBVIOUS
  <2> HIDE DEF after
  <2> QED
    BY <2>1, <2>2, <2>3, <2>4
<1> HIDE DEF after
<1>8. meta' \in [Targets -> Metas] /\ meta'[t] = after /\ \A u \in Targets : u # t => meta'[u] = meta[u]
  BY <1>2, <1>7
<1>9. events' \in [Targets -> SUBSET StoreRows]
  BY <1>1, <1>2
<1>10. ASSUME NEW u \in Targets
       PROVE  /\ RowsFine(events'[u], meta'[u].seq) /\ meta'[u].seq =< MaxSequence[u]
              /\ meta'[u].pruned + Cardinality(events'[u]) = inserted[u]
              /\ events'[u] \subseteq events[u] /\ meta'[u].seq = meta[u].seq /\ meta[u].seq \in Nat
  <2>1. /\ RowsFine(events[u], meta[u].seq) /\ meta[u].seq =< MaxSequence[u]
        /\ meta[u].pruned + Cardinality(events[u]) = inserted[u] /\ meta[u].seq \in Nat
    BY <1>2 DEF StoreShape, Metas
  <2>2. CASE u # t
    BY <1>3, <1>8, <2>1, <2>2
  <2>3. CASE u = t
    <3>1. RowsFine(events[t] \ rows, meta[t].seq)
      BY <1>4, <2>1, <2>3 DEF RowsFine
    <3>2. events'[u] = events[t] \ rows /\ meta'[u].seq = meta[u].seq
      BY <1>3, <1>7, <1>8, <2>3
    <3>3. meta'[u].pruned = meta[t].pruned + Cardinality(rows)
      BY <1>7, <1>8, <2>3
    <3>4. meta'[u].pruned + Cardinality(events'[u]) = inserted[u]
      BY <1>4, <1>5, <1>6, <2>1, <2>3, <3>2, <3>3
    <3> QED
      BY <2>1, <2>3, <3>1, <3>2, <3>4
  <2> QED
    BY <2>2, <2>3
<1>11. StoreShape'
  BY <1>8, <1>9, <1>10 DEF StoreShape, Store!Operations, Store!Enforcing
<1>12. ASSUME NEW u \in Targets
       PROVE  /\ events'[u] \subseteq StoreRows /\ meta'[u].seq \in Nat /\ meta[u].seq =< meta'[u].seq
              /\ \A e \in events'[u] : e \in events[u] \/ e.seq > meta[u].seq
  BY <1>2, <1>10
<1>13. StoreReaders'
  BY <1>12, ReadersKept
<1> QED
  BY <1>11, <1>13

\* Rows are as many as before, and the baseline is there or not.
LEMMA EnforcedKept ==
    ASSUME UNCHANGED <<events, state, left>>, Store!Enforced PROVE Store!Enforced'
<1>1. \A t \in Targets : Store!Size(t)' = Store!Size(t)
  BY DEF Store!Size, Store!StateRows
<1>2. [t \in Targets |-> Store!Size(t)]' = [t \in Targets |-> Store!Size(t)]
  BY <1>1
<1>3. Store!Total' = Store!Total
  BY <1>2 DEF Store!Total
<1> QED
  BY <1>1, <1>3 DEF Store!Enforced, Store!InQuota

LEMMA TickStep == ASSUME StoreInv, Store!Tick \/ UNCHANGED Store!vars PROVE StoreInv'
<1>1. UNCHANGED <<events, state, meta, inserted, task, left, reader>> /\ clock' \in 0..MaxClock
  BY StoreConstants DEF Store!Tick, Store!vars, Store!data, StoreInv, StoreShape
<1>2. StoreShape'
  BY <1>1 DEF StoreInv, StoreShape
<1>3. StoreQuota'
  BY <1>1, EnforcedKept DEF StoreInv, StoreQuota
<1>4. StoreReaders'
  BY <1>1 DEF StoreInv, StoreReaders, Store!ReaderMissesNothing, Store!Matching
<1> QED
  BY <1>2, <1>3, <1>4 DEF StoreInv

LEMMA CrashStep == ASSUME StoreInv, Store!Crash PROVE StoreInv'
<1>1. UNCHANGED <<clock, events, state, meta, inserted, reader>> /\ left' = Targets /\ task' = Store!Enforcing
  BY DEF Store!Crash, Store!data
<1>2. StoreShape'
  BY <1>1 DEF StoreInv, StoreShape, Store!Operations
<1>3. StoreQuota'
  BY <1>1, WorkingIsNotIdle DEF StoreQuota
<1>4. StoreReaders'
  BY <1>1 DEF StoreInv, StoreReaders, Store!ReaderMissesNothing, Store!Matching
<1> QED
  BY <1>2, <1>3, <1>4 DEF StoreInv

LEMMA BeginStep ==
    ASSUME StoreInv, NEW operation \in Store!Operations, Store!Begin(operation), UNCHANGED <<events, inserted>>,
           state' \in [Targets -> -1..MaxClock], meta' \in [Targets -> Metas],
           \A t \in Targets : meta'[t].seq = meta[t].seq /\ meta'[t].pruned = meta[t].pruned
    PROVE  StoreInv'
<1>1. UNCHANGED <<clock, reader>> /\ left' = Targets /\ task' = operation
  BY DEF Store!Begin
<1>2. StoreShape'
  BY <1>1 DEF StoreInv, StoreShape
<1>3. StoreQuota'
  BY <1>1, WorkingIsNotIdle DEF StoreQuota
<1>4. ASSUME NEW t \in Targets
      PROVE  /\ events'[t] \subseteq StoreRows /\ meta'[t].seq \in Nat /\ meta[t].seq =< meta'[t].seq
             /\ \A e \in events'[t] : e \in events[t] \/ e.seq > meta[t].seq
  BY DEF StoreInv, StoreShape, Metas
<1>5. StoreReaders'
  BY <1>1, <1>4, ReadersKept DEF StoreInv
<1> QED
  BY <1>2, <1>3, <1>5 DEF StoreInv

LEMMA WriteStep ==
    ASSUME StoreInv, NEW t \in Targets, Store!SaveState(t) \/ Store!Prune(t) PROVE StoreInv'
<1>1. StoreShape /\ Store!Enforcing \in Store!Operations
  BY DEF StoreInv, Store!Operations
<1>2. CASE Store!SaveState(t)
  <2>1. state' = [state EXCEPT ![t] = clock] /\ UNCHANGED <<events, meta, inserted>> /\ Store!Begin(Store!Enforcing)
    BY <1>2 DEF Store!SaveState
  <2>2. clock \in -1..MaxClock /\ state' \in [Targets -> -1..MaxClock] /\ meta' \in [Targets -> Metas]
    BY <1>1, <2>1, StoreConstants DEF StoreShape
  <2> QED
    BY <1>1, <2>1, <2>2, BeginStep
<1>3. CASE Store!Prune(t)
  <2>1. PICK days \in Retentions : meta' = [meta EXCEPT ![t].retention = days]
    BY <1>3 DEF Store!Prune
  <2>2. UNCHANGED <<events, state, inserted>> /\ Store!Begin(Store!Enforcing)
    BY <1>3 DEF Store!Prune
  <2>3. meta \in [Targets -> Metas] /\ state \in [Targets -> -1..MaxClock]
    BY <1>1 DEF StoreShape
  <2>4. meta' \in [Targets -> Metas] /\ \A u \in Targets : meta'[u].seq = meta[u].seq /\ meta'[u].pruned = meta[u].pruned
    BY <2>1, <2>3 DEF Metas
  <2> QED
    BY <1>1, <2>2, <2>3, <2>4, BeginStep
<1> QED
  BY <1>2, <1>3

LEMMA LookStep == ASSUME StoreInv, Store!Look \/ \E r \in DOMAIN Readers : Store!List(r) PROVE StoreInv'
<1>1. UNCHANGED <<events, state, meta, inserted>> /\ \E operation \in Store!Operations : Store!Begin(operation)
  BY DEF Store!Look, Store!List, Store!data, Store!Operations
<1>2. state \in [Targets -> -1..MaxClock] /\ meta \in [Targets -> Metas]
  BY DEF StoreInv, StoreShape
<1> QED
  BY <1>1, <1>2, BeginStep

LEMMA AppendStep == ASSUME StoreInv, NEW t \in Targets, Store!AppendBatch(t) PROVE StoreInv'
<1> DEFINE start == [rows |-> events[t], seq |-> meta[t].seq, added |-> 0]
<1>1. PICK batch \in Batches[t] :
         LET kept == Store!Kept(start, batch, Store!Cutoff(t))
         IN /\ kept.seq =< MaxSequence[t]
            /\ \A i \in DOMAIN batch : batch[i].occurred =< clock
            /\ Store!Begin(Store!Enforcing)
            /\ events' = [events EXCEPT ![t] = kept.rows]
            /\ meta' = [meta EXCEPT ![t].seq = kept.seq]
            /\ inserted' = [inserted EXCEPT ![t] = @ + kept.added]
            /\ UNCHANGED state
  BY DEF Store!AppendBatch
<1> DEFINE kept == Store!Kept(start, batch, Store!Cutoff(t))
<1>2. /\ clock \in 0..MaxClock /\ events \in [Targets -> SUBSET StoreRows] /\ meta \in [Targets -> Metas]
      /\ inserted \in [Targets -> Nat] /\ state \in [Targets -> -1..MaxClock]
      /\ \A u \in Targets : /\ RowsFine(events[u], meta[u].seq) /\ meta[u].seq =< MaxSequence[u]
                            /\ meta[u].pruned + Cardinality(events[u]) = inserted[u]
  BY DEF StoreInv, StoreShape
<1>3. /\ meta[t] = [seq |-> meta[t].seq, retention |-> meta[t].retention, pruned |-> meta[t].pruned]
      /\ meta[t].seq \in Nat /\ meta[t].retention \in Retentions /\ meta[t].pruned \in Nat
  BY <1>2 DEF Metas
<1>4. start.seq \in Nat /\ start.rows = events[t] /\ start.seq = meta[t].seq /\ IsFiniteSet(start.rows)
      /\ Appending(start, start)
  <2>1. IsFiniteSet(events[t]) /\ Cardinality(events[t]) \in Nat
    BY <1>2, FS_CardinalityType DEF RowsFine
  <2>2. start \in [rows : SUBSET StoreRows, seq : Nat, added : Nat] /\ RowsFine(start.rows, start.seq)
    BY <1>2, <1>3
  <2>3. start.added = 0 /\ start.rows = events[t] /\ start.seq = meta[t].seq
    OBVIOUS
  <2> HIDE DEF start
  <2> QED
    BY <1>3, <2>1, <2>2, <2>3 DEF Appending
<1>5. Store!Cutoff(t) \in Int
  BY <1>2, <1>3, StoreConstants DEF Store!Cutoff
<1>6. batch \in Seq([id : Identities, occurred : Nat]) /\ \A i \in DOMAIN batch : batch[i].occurred =< MaxClock
  <2>1. batch \in Seq([id : Identities, occurred : Nat])
    BY StoreConstants
  <2>2. ASSUME NEW i \in DOMAIN batch PROVE batch[i].occurred =< MaxClock
    <3>1. batch[i] \in [id : Identities, occurred : Nat]
      BY <2>1, LenProperties, ElementOfSeq
    <3>2. batch[i].occurred \in Nat /\ batch[i].occurred =< clock
      BY <1>1, <3>1
    <3> QED
      BY <1>2, <3>2, StoreConstants
  <2> QED
    BY <2>1, <2>2
<1> HIDE DEF start
<1>7. Appending(start, kept)
  BY <1>4, <1>5, <1>6, KeptKeeps
<1> HIDE DEF kept
<1>8. /\ kept.seq =< MaxSequence[t] /\ Store!Begin(Store!Enforcing)
      /\ events' = [events EXCEPT ![t] = kept.rows] /\ meta' = [meta EXCEPT ![t].seq = kept.seq]
      /\ inserted' = [inserted EXCEPT ![t] = @ + kept.added] /\ UNCHANGED state
  BY <1>1 DEF kept
<1>9. /\ kept.rows \in SUBSET StoreRows /\ kept.seq \in Nat /\ kept.added \in Nat
      /\ RowsFine(kept.rows, kept.seq) /\ meta[t].seq =< kept.seq
      /\ \A r \in kept.rows : r \in events[t] \/ r.seq > meta[t].seq
      /\ Cardinality(kept.rows) = Cardinality(events[t]) + kept.added
  BY <1>4, <1>7 DEF Appending
<1> DEFINE after == [seq |-> kept.seq, retention |-> meta[t].retention, pruned |-> meta[t].pruned]
<1>10. meta' = [meta EXCEPT ![t] = after] /\ after \in Metas /\ after.seq = kept.seq /\ after.pruned = meta[t].pruned
  <2>1. [meta[t] EXCEPT !.seq = kept.seq] = after
    BY <1>3
  <2>2. meta' = [meta EXCEPT ![t] = [meta[t] EXCEPT !.seq = kept.seq]]
    BY <1>2, <1>8
  <2>3. after \in Metas
    BY <1>3, <1>9 DEF Metas
  <2>4. after.seq = kept.seq /\ after.pruned = meta[t].pruned
    OBVIOUS
  <2> HIDE DEF after
  <2> QED
    BY <2>1, <2>2, <2>3, <2>4
<1> HIDE DEF after
<1>11. /\ events' \in [Targets -> SUBSET StoreRows] /\ meta' \in [Targets -> Metas] /\ inserted' \in [Targets -> Nat]
       /\ events'[t] = kept.rows /\ meta'[t] = after /\ inserted'[t] = inserted[t] + kept.added
       /\ \A u \in Targets : u # t => events'[u] = events[u] /\ meta'[u] = meta[u] /\ inserted'[u] = inserted[u]
  BY <1>2, <1>8, <1>9, <1>10
<1>12. ASSUME NEW u \in Targets
       PROVE  /\ RowsFine(events'[u], meta'[u].seq) /\ meta'[u].seq =< MaxSequence[u]
              /\ meta'[u].pruned + Cardinality(events'[u]) = inserted'[u]
              /\ events'[u] \subseteq StoreRows /\ meta'[u].seq \in Nat /\ meta[u].seq =< meta'[u].seq
              /\ \A e \in events'[u] : e \in events[u] \/ e.seq > meta[u].seq
  <2>1. CASE u # t
    <3>1. meta[u].seq \in Nat /\ events[u] \subseteq StoreRows
      BY <1>2 DEF Metas
    <3> QED
      BY <1>2, <1>11, <2>1, <3>1
  <2>2. CASE u = t
    <3>1. Cardinality(events[t]) \in Nat /\ meta[t].pruned + Cardinality(events[t]) = inserted[t]
      BY <1>2, FS_CardinalityType DEF RowsFine
    <3>2. meta'[u].pruned + Cardinality(events'[u]) = inserted'[u]
      BY <1>3, <1>9, <1>10, <1>11, <2>2, <3>1
    <3> QED
      BY <1>8, <1>9, <1>10, <1>11, <2>2, <3>2
  <2> QED
    BY <2>1, <2>2
<1>13. UNCHANGED <<clock, reader>> /\ left' = Targets /\ task' = Store!Enforcing
  BY <1>8 DEF Store!Begin
<1>14. StoreShape'
  BY <1>2, <1>8, <1>11, <1>12, <1>13 DEF StoreShape, Store!Operations
<1>15. StoreQuota'
  BY <1>13, WorkingIsNotIdle DEF StoreQuota
<1>16. StoreReaders'
  BY <1>12, <1>13, ReadersKept DEF StoreInv
<1> QED
  BY <1>14, <1>15, <1>16 DEF StoreInv

LEMMA ExpireStep == ASSUME StoreInv, NEW t \in Targets, Store!Expire(t) PROVE StoreInv'
<1> DEFINE rows == {r \in events[t] : r.occurred < Store!Cutoff(t)}
<1>1. /\ t \in left /\ left' = left \ {t} /\ Store!RemoveRows(t, rows)
      /\ state' = [state EXCEPT ![t] = IF @ < Store!Cutoff(t) THEN -1 ELSE @]
      /\ UNCHANGED <<clock, task, inserted, reader>>
  BY DEF Store!Expire
<1>2. state' \in [Targets -> -1..MaxClock] /\ left' \subseteq Targets
  BY <1>1, StoreConstants DEF StoreInv, StoreShape
<1>3. rows \in SUBSET events[t]
  OBVIOUS
<1> HIDE DEF rows
<1>4. StoreShape' /\ StoreReaders'
  BY <1>1, <1>2, <1>3, RowsRemoved DEF StoreInv
<1>5. task # Store!Idle
  BY <1>1 DEF StoreInv, StoreQuota, Store!Enforced
<1> QED
  BY <1>1, <1>4, <1>5 DEF StoreInv, StoreQuota

\* An oldest event: the first of those that occurred first.
LEMMA OldestExists ==
    ASSUME StoreShape, NEW t \in Targets, events[t] # {}
    PROVE  /\ Store!OldestEvent(t) \in events[t]
           /\ \A other \in events[t] : Store!OldestEvent(t).occurred =< other.occurred
<1>1. \A r \in events[t] : r.occurred \in Nat /\ r.seq \in Nat
  BY StoreConstants DEF StoreShape, StoreRows
<1> DEFINE times == {r.occurred : r \in events[t]}
<1>2. PICK first \in times : \A n \in times : first =< n
  <2>1. times \in SUBSET Nat /\ times # {}
    BY <1>1
  <2> HIDE DEF times
  <2> QED
    BY <2>1, Smallest
<1> DEFINE seqs == {r.seq : r \in {r \in events[t] : r.occurred = first}}
<1>3. PICK least \in seqs : \A n \in seqs : least =< n
  <2>1. seqs \in SUBSET Nat /\ seqs # {}
    BY <1>1, <1>2
  <2> HIDE DEF seqs
  <2> QED
    BY <2>1, Smallest
<1>4. PICK r \in events[t] : r.occurred = first /\ r.seq = least
  BY <1>3
<1>5. \A other \in events[t] : r.occurred < other.occurred \/ (r.occurred = other.occurred /\ r.seq =< other.seq)
  <2> SUFFICES ASSUME NEW other \in events[t]
               PROVE  r.occurred < other.occurred \/ (r.occurred = other.occurred /\ r.seq =< other.seq)
    OBVIOUS
  <2>1. first =< other.occurred
    BY <1>2
  <2>2. other.occurred = first => least =< other.seq
    BY <1>3
  <2> QED
    BY <1>1, <1>4, <2>1, <2>2
<1> DEFINE o == Store!OldestEvent(t)
<1>6. o \in events[t] /\ \A other \in events[t] : o.occurred < other.occurred
                                                  \/ (o.occurred = other.occurred /\ o.seq =< other.seq)
  BY <1>4, <1>5 DEF Store!OldestEvent
<1> QED
  BY <1>1, <1>6

\* What an eviction takes: the baseline, or the oldest event of a target that has one.
LEMMA EvictTakes ==
    ASSUME StoreShape, NEW t \in Targets, Store!Size(t) > 0, Store!Evict(t)
    PROVE  /\ UNCHANGED <<clock, task, left, inserted, reader>>
           /\ \/ /\ Store!StateIsOldest(t) /\ state' = [state EXCEPT ![t] = -1] /\ UNCHANGED <<events, meta>>
              \/ /\ ~Store!StateIsOldest(t) /\ events[t] # {} /\ UNCHANGED state
                 /\ Store!RemoveRows(t, {Store!OldestEvent(t)})
<1>1. CASE Store!StateIsOldest(t)
  BY <1>1 DEF Store!Evict
<1>2. CASE ~Store!StateIsOldest(t)
  <2>1. events[t] # {}
    <3> SUFFICES ASSUME events[t] = {} PROVE FALSE
      OBVIOUS
    <3>1. Store!Cardinality(events[t]) = 0
      BY FS_EmptySet, StoreCount
    <3>2. ~(state[t] >= 0)
      BY <1>2 DEF Store!StateIsOldest
    <3>3. Store!Size(t) = 0
      BY <3>1, <3>2 DEF Store!Size, Store!StateRows
    <3> QED
      BY <3>3
  <2> QED
    BY <1>2, <2>1 DEF Store!Evict
<1> QED
  BY <1>1, <1>2

LEMMA EvictStep ==
    ASSUME StoreInv, NEW t \in Targets, Store!EvictOverTarget(t) \/ Store!EvictOverTotal(t)
    PROVE  StoreInv' /\ Store!Size(t) > 0 /\ Store!Evict(t)
<1>1. task # Store!Idle /\ Store!Size(t) > 0 /\ Store!Evict(t)
  <2>1. Store!Size(t) \in Nat
    <3>1. Cardinality(events[t]) \in Nat
      BY FS_CardinalityType DEF StoreInv, StoreShape, RowsFine
    <3> QED
      BY <3>1, StoreCount DEF Store!Size, Store!StateRows
  <2> QED
    BY <2>1, StoreConstants DEF Store!EvictOverTarget, Store!EvictOverTotal
<1>2. StoreShape /\ StoreReaders
  BY DEF StoreInv
<1>3. UNCHANGED <<clock, task, left, inserted, reader>>
  BY <1>1, <1>2, EvictTakes
<1>4. StoreShape' /\ StoreReaders'
  <2>1. CASE Store!StateIsOldest(t) /\ state' = [state EXCEPT ![t] = -1] /\ UNCHANGED <<events, meta>>
    <3>1. state' \in [Targets -> -1..MaxClock]
      BY <1>2, <2>1, StoreConstants DEF StoreShape
    <3>2. StoreShape'
      BY <1>2, <1>3, <2>1, <3>1 DEF StoreShape
    <3>3. StoreReaders'
      BY <1>2, <1>3, <2>1 DEF StoreReaders, Store!ReaderMissesNothing, Store!Matching
    <3> QED
      BY <3>2, <3>3
  <2>2. CASE events[t] # {} /\ UNCHANGED state /\ Store!RemoveRows(t, {Store!OldestEvent(t)})
    <3>1. {Store!OldestEvent(t)} \in SUBSET events[t]
      BY <1>2, <2>2, OldestExists
    <3>2. state' \in [Targets -> -1..MaxClock] /\ left' \subseteq Targets
      BY <1>2, <1>3, <2>2 DEF StoreShape
    <3> QED
      BY <1>2, <1>3, <2>2, <3>1, <3>2, RowsRemoved
  <2> QED
    BY <1>1, <1>2, <2>1, <2>2, EvictTakes
<1>5. StoreQuota'
  BY <1>1, <1>3 DEF StoreQuota
<1> QED
  BY <1>1, <1>4, <1>5 DEF StoreInv

-----------------------------------------------------------------------------
(* The answers: what a page leaves out lies beyond it *)

LEMMA PagesFine ==
    ASSUME NEW s \in Nat, NEW rows, RowsFine(rows, s)
    PROVE  /\ Store!LastRows(rows) \subseteq rows /\ Store!FirstRows(rows) \subseteq rows
           /\ rows # {} => Store!LastRows(rows) # {} /\ Store!FirstRows(rows) # {}
           /\ \A d \in Store!LastRows(rows), e \in rows : d.seq =< e.seq => e \in Store!LastRows(rows)
           /\ \A d \in Store!FirstRows(rows), e \in rows : e.seq =< d.seq => e \in Store!FirstRows(rows)
<1> DEFINE after(e) == {d \in rows : d.seq > e.seq}
           before(e) == {d \in rows : d.seq < e.seq}
           seqs == {e.seq : e \in rows}
<1>1. /\ Store!LastRows(rows) = {e \in rows : Cardinality(after(e)) < Limit}
      /\ Store!FirstRows(rows) = {e \in rows : Cardinality(before(e)) < Limit}
  BY StoreCount DEF Store!LastRows, Store!FirstRows
<1>2. \A e \in rows : e.seq \in 0..s /\ e.seq \in Nat
  BY DEF RowsFine, StoreRows
<1>3. \A e \in rows : IsFiniteSet(after(e)) /\ IsFiniteSet(before(e))
  BY FS_Subset DEF RowsFine
<1>4. ASSUME NEW d \in rows, NEW e \in rows
      PROVE  /\ d.seq =< e.seq => Cardinality(after(e)) =< Cardinality(after(d))
             /\ e.seq =< d.seq => Cardinality(before(e)) =< Cardinality(before(d))
  <2>1. d.seq =< e.seq => after(e) \in SUBSET after(d)
    BY <1>2
  <2>2. e.seq =< d.seq => before(e) \in SUBSET before(d)
    BY <1>2
  <2> HIDE DEF after, before
  <2> QED
    BY <1>3, <2>1, <2>2, FS_Subset
<1>5. \A e \in rows : Cardinality(after(e)) \in Nat /\ Cardinality(before(e)) \in Nat
  <2> HIDE DEF after, before
  <2> QED
    BY <1>3, FS_CardinalityType
<1>6. ASSUME rows # {} PROVE Store!LastRows(rows) # {} /\ Store!FirstRows(rows) # {}
  <2>1. seqs \in SUBSET (0..s) /\ seqs \in SUBSET Nat /\ seqs # {}
    BY <1>2, <1>6
  <2>2. PICK top \in seqs : \A n \in seqs : top >= n
    <3> HIDE DEF seqs
    <3> QED
      BY <2>1, StoreMax
  <2>3. PICK low \in seqs : \A n \in seqs : low =< n
    <3> HIDE DEF seqs
    <3> QED
      BY <2>1, Smallest
  <2>4. PICK e \in rows : e.seq = top
    BY <2>2
  <2>5. PICK d \in rows : d.seq = low
    BY <2>3
  <2>6. after(e) = {} /\ before(d) = {}
    <3>1. \A x \in rows : x.seq \in seqs
      OBVIOUS
    <3>2. \A x \in rows : ~(x.seq > e.seq) /\ ~(x.seq < d.seq)
      <4> HIDE DEF seqs
      <4> QED
        BY <1>2, <2>1, <2>2, <2>3, <2>4, <2>5, <3>1
    <3> QED
      BY <3>2
  <2> HIDE DEF after, before
  <2> QED
    BY <1>1, <2>4, <2>5, <2>6, FS_EmptySet, StoreConstants
<1> HIDE DEF after, before
<1>7. ASSUME NEW d \in Store!LastRows(rows), NEW e \in rows, d.seq =< e.seq PROVE e \in Store!LastRows(rows)
  BY <1>1, <1>4, <1>5, <1>7, StoreConstants
<1>8. ASSUME NEW d \in Store!FirstRows(rows), NEW e \in rows, e.seq =< d.seq PROVE e \in Store!FirstRows(rows)
  BY <1>1, <1>4, <1>5, <1>8, StoreConstants
<1> QED
  BY <1>1, <1>6, <1>7, <1>8

LEMMA TailFine ==
    ASSUME NEW s \in Nat, NEW rows, RowsFine(rows, s)
    PROVE  LET tail == Store!NextTail(rows, Store!LastRows(rows))
           IN  tail \in Nat /\ \A e \in rows : tail =< e.seq => e \in Store!LastRows(rows)
<1> DEFINE items == Store!LastRows(rows)
           tail == Store!NextTail(rows, items)
<1>1. /\ items \subseteq rows /\ (rows # {} => items # {})
      /\ \A d \in items, e \in rows : d.seq =< e.seq => e \in items
  BY PagesFine
<1> HIDE DEF items
<1>2. CASE rows = items
  BY <1>2 DEF Store!NextTail, items
<1>3. CASE rows # items
  <2>1. Store!Seqs(items) \in SUBSET Nat /\ Store!Seqs(items) # {}
    BY <1>1, <1>3 DEF RowsFine, StoreRows, Store!Seqs
  <2>2. Store!Min(Store!Seqs(items)) \in Store!Seqs(items)
    BY <2>1, StoreMin
  <2>3. tail \in Store!Seqs(items) /\ tail \in Nat
    BY <1>3, <2>1, <2>2 DEF Store!NextTail
  <2>4. PICK d \in items : d.seq = tail
    BY <2>3 DEF Store!Seqs
  <2> HIDE DEF tail
  <2> QED
    BY <1>1, <2>3, <2>4 DEF tail, items
<1> QED
  BY <1>2, <1>3 DEF items

LEMMA AfterFine ==
    ASSUME NEW s \in Nat, NEW rows, RowsFine(rows, s)
    PROVE  LET after == Store!NextAfter(rows, Store!FirstRows(rows), s)
           IN  after \in Nat /\ after =< s /\ \A e \in rows : e.seq =< after => e \in Store!FirstRows(rows)
<1> DEFINE items == Store!FirstRows(rows)
           after == Store!NextAfter(rows, items, s)
<1>1. /\ items \subseteq rows /\ (rows # {} => items # {})
      /\ \A d \in items, e \in rows : e.seq =< d.seq => e \in items
  BY PagesFine
<1> HIDE DEF items
<1>2. CASE rows = items
  BY <1>2 DEF Store!NextAfter, items
<1>3. CASE rows # items
  <2>1. Store!Seqs(items) \in SUBSET (0..s) /\ Store!Seqs(items) # {}
    BY <1>1, <1>3 DEF RowsFine, StoreRows, Store!Seqs
  <2>2. Store!Max(Store!Seqs(items)) \in Store!Seqs(items)
    BY <2>1, StoreMax
  <2>3. after \in Store!Seqs(items) /\ after \in 0..s
    BY <1>3, <2>1, <2>2 DEF Store!NextAfter
  <2>4. PICK d \in items : d.seq = after
    BY <2>3 DEF Store!Seqs
  <2> HIDE DEF after
  <2> QED
    BY <1>1, <2>3, <2>4 DEF after, items
<1> QED
  BY <1>2, <1>3 DEF items

LEMMA ReaderMoves ==
    ASSUME StoreShape, StoreReaders, UNCHANGED <<events, meta>>, NEW r \in DOMAIN Readers, NEW next \in Positions,
           reader' = [reader EXCEPT ![r] = next], next.after =< meta[Readers[r].target].seq,
           \A e \in Store!Matching(r) : next.tail =< e.seq /\ e.seq =< next.after => e \in next.seen
    PROVE  StoreReaders'
<1>1. reader \in [DOMAIN Readers -> Positions]
  BY DEF StoreReaders
<1>2. reader' \in [DOMAIN Readers -> Positions] /\ reader'[r] = next
        /\ \A q \in DOMAIN Readers : q # r => reader'[q] = reader[q]
  BY <1>1
<1>3. \A q \in DOMAIN Readers : Store!Matching(q)' = Store!Matching(q)
  BY DEF Store!Matching
<1>4. ASSUME NEW q \in DOMAIN Readers
      PROVE  /\ reader'[q].after =< meta[Readers[q].target].seq
             /\ reader'[q].after >= 0 =>
                   \A e \in Store!Matching(q) : reader'[q].tail =< e.seq /\ e.seq =< reader'[q].after =>
                        e \in reader'[q].seen
  <2>1. CASE q = r
    BY <1>2, <2>1
  <2>2. CASE q # r
    BY <1>2, <2>2 DEF StoreReaders, Store!ReaderMissesNothing
  <2> QED
    BY <2>1, <2>2
<1> QED
  BY <1>2, <1>3, <1>4 DEF StoreReaders, Store!ReaderMissesNothing

\* The rows of a filter, and of a part of it.
LEMMA MatchingFine ==
    ASSUME StoreShape, NEW r \in DOMAIN Readers, NEW rows, rows \subseteq Store!Matching(r)
    PROVE  meta[Readers[r].target].seq \in Nat /\ RowsFine(rows, meta[Readers[r].target].seq)
<1>1. RowsFine(events[Readers[r].target], meta[Readers[r].target].seq) /\ meta[Readers[r].target].seq \in Nat
  BY StoreConstants DEF StoreShape, Metas
<1>2. rows \in SUBSET events[Readers[r].target]
  BY DEF Store!Matching
<1>3. IsFiniteSet(rows)
  BY <1>1, <1>2, FS_Subset DEF RowsFine
<1> QED
  BY <1>1, <1>2, <1>3 DEF RowsFine

LEMMA NewestStep ==
    ASSUME StoreShape, StoreReaders, UNCHANGED <<events, meta>>, NEW r \in DOMAIN Readers, Store!Newest(r)
    PROVE  StoreReaders'
<1> DEFINE rows == Store!Matching(r)
           items == Store!LastRows(rows)
           tail == Store!NextTail(rows, items)
           seq == meta[Readers[r].target].seq
           next == [after |-> seq, tail |-> tail, seen |-> items]
<1>1. seq \in Nat /\ RowsFine(rows, seq)
  BY MatchingFine
<1>2. items \subseteq rows /\ rows \in SUBSET StoreRows
  BY <1>1, PagesFine DEF RowsFine
<1>3. tail \in Nat /\ \A e \in rows : tail =< e.seq => e \in items
  BY <1>1, TailFine
<1>4. reader' = [reader EXCEPT ![r] = next]
  BY DEF Store!Newest
<1> HIDE DEF rows, items, tail, seq
<1>5. next \in Positions
  BY <1>1, <1>2, <1>3 DEF Positions
<1>6. next.after = seq /\ next.tail = tail /\ next.seen = items
  OBVIOUS
<1>7. next.after =< seq
  BY <1>1, <1>6
<1> HIDE DEF next
<1> QED
  BY <1>3, <1>4, <1>5, <1>6, <1>7, ReaderMoves DEF rows, seq

LEMMA NewerStep ==
    ASSUME StoreShape, StoreReaders, UNCHANGED <<events, meta>>, NEW r \in DOMAIN Readers, Store!Newer(r)
    PROVE  StoreReaders'
<1> DEFINE seq == meta[Readers[r].target].seq
           all == Store!Matching(r)
           rows == {e \in all : e.seq > reader[r].after}
           items == Store!FirstRows(rows)
           after == Store!NextAfter(rows, items, seq)
           next == [after |-> after, tail |-> reader[r].tail, seen |-> reader[r].seen \cup items]
<1>1. rows \subseteq all
  OBVIOUS
<1>2. seq \in Nat /\ RowsFine(rows, seq) /\ RowsFine(all, seq)
  <2> HIDE DEF rows
  <2> QED
    BY <1>1, MatchingFine
<1>3. items \subseteq rows /\ rows \in SUBSET StoreRows
  BY <1>2, PagesFine DEF RowsFine
<1>4. after \in Nat /\ after =< seq /\ \A e \in rows : e.seq =< after => e \in items
  BY <1>2, AfterFine
<1>5. reader \in [DOMAIN Readers -> Positions] /\ reader[r].after \in Int /\ reader[r].tail \in Nat
      /\ reader[r].seen \in SUBSET StoreRows
      /\ reader[r] = [after |-> reader[r].after, tail |-> reader[r].tail, seen |-> reader[r].seen]
  BY DEF StoreReaders, Positions
<1>6. ASSUME NEW e \in all, reader[r].tail =< e.seq, e.seq =< after PROVE e \in reader[r].seen \cup items
  <2>1. e.seq \in Nat /\ e.seq >= 1
    BY <1>2 DEF RowsFine, StoreRows
  <2>2. CASE e.seq > reader[r].after
    BY <1>4, <1>6, <2>2
  <2>3. CASE e.seq =< reader[r].after
    <3>1. reader[r].after >= 0
      BY <1>5, <2>1, <2>3
    <3> QED
      BY <1>6, <2>3, <3>1 DEF StoreReaders, Store!ReaderMissesNothing
  <2> QED
    BY <1>5, <2>1, <2>2, <2>3
<1>7. reader' = [reader EXCEPT ![r] = next]
  BY DEF Store!Newer
<1> HIDE DEF rows, items, after, seq, all
<1>9. next \in Positions
  BY <1>3, <1>4, <1>5 DEF Positions
<1>10. next.after = after /\ next.tail = reader[r].tail /\ next.seen = reader[r].seen \cup items
  OBVIOUS
<1> HIDE DEF next
<1> QED
  BY <1>4, <1>6, <1>7, <1>9, <1>10, ReaderMoves DEF all, seq

LEMMA OlderStep ==
    ASSUME StoreShape, StoreReaders, UNCHANGED <<events, meta>>, NEW r \in DOMAIN Readers, Store!Older(r)
    PROVE  StoreReaders'
<1> DEFINE seq == meta[Readers[r].target].seq
           all == Store!Matching(r)
           rows == {e \in all : e.seq < reader[r].tail}
           items == Store!LastRows(rows)
           tail == Store!NextTail(rows, items)
           next == [after |-> reader[r].after, tail |-> tail, seen |-> reader[r].seen \cup items]
<1>1. rows \subseteq all
  OBVIOUS
<1>2. seq \in Nat /\ RowsFine(rows, seq) /\ RowsFine(all, seq)
  <2> HIDE DEF rows
  <2> QED
    BY <1>1, MatchingFine
<1>3. items \subseteq rows /\ rows \in SUBSET StoreRows
  BY <1>2, PagesFine DEF RowsFine
<1>4. tail \in Nat /\ \A e \in rows : tail =< e.seq => e \in items
  BY <1>2, TailFine
<1>5. reader \in [DOMAIN Readers -> Positions] /\ reader[r].after \in Int /\ reader[r].tail \in Nat
      /\ reader[r].seen \in SUBSET StoreRows /\ reader[r].after =< seq
      /\ reader[r] = [after |-> reader[r].after, tail |-> reader[r].tail, seen |-> reader[r].seen]
  BY DEF StoreReaders, Positions
<1>6. ASSUME NEW e \in all, tail =< e.seq, e.seq =< reader[r].after PROVE e \in reader[r].seen \cup items
  <2>1. e.seq \in Nat /\ e.seq >= 1
    BY <1>2 DEF RowsFine, StoreRows
  <2>2. CASE e.seq < reader[r].tail
    BY <1>4, <1>6, <2>2
  <2>3. CASE reader[r].tail =< e.seq
    <3>1. reader[r].after >= 0
      BY <1>5, <1>6, <2>1
    <3> QED
      BY <1>6, <2>3, <3>1 DEF StoreReaders, Store!ReaderMissesNothing
  <2> QED
    BY <1>5, <2>1, <2>2, <2>3
<1>7. reader' = [reader EXCEPT ![r] = next]
  BY DEF Store!Older
<1> HIDE DEF rows, items, tail, seq, all
<1>9. next \in Positions
  BY <1>3, <1>4, <1>5 DEF Positions
<1>10. next.after = reader[r].after /\ next.tail = tail /\ next.seen = reader[r].seen \cup items
  OBVIOUS
<1> HIDE DEF next
<1> QED
  BY <1>5, <1>6, <1>7, <1>9, <1>10, ReaderMoves DEF all, seq

LEMMA AnswerStep == ASSUME StoreInv, Store!Answer PROVE StoreInv'
<1>1. /\ task # Store!Idle /\ Store!Enforced /\ task' = Store!Idle
      /\ UNCHANGED <<clock, events, state, meta, inserted, left>>
      /\ \/ \E r \in DOMAIN Readers : Store!Newest(r) \/ Store!Newer(r) \/ Store!Older(r)
         \/ UNCHANGED reader
  <2>1. \A operation \in Store!Operations : operation = Store!Enforcing \/ operation.reader \in DOMAIN Readers
    BY DEF Store!Operations
  <2>2. task # Store!Idle /\ task \in Store!Operations
    BY DEF Store!Answer, StoreInv, StoreShape
  <2>3. Store!Enforcing.op = "enforce"
    BY DEF Store!Enforcing
  <2> QED
    BY <2>1, <2>2, <2>3 DEF Store!Answer, Store!data
<1>2. StoreShape /\ StoreReaders
  BY DEF StoreInv
<1>3. StoreShape'
  BY <1>1, <1>2 DEF StoreShape
<1>4. StoreQuota'
  BY <1>1, EnforcedKept DEF StoreQuota
<1>5. StoreReaders'
  <2>1. CASE UNCHANGED reader
    BY <1>1, <1>2, <2>1 DEF StoreReaders, Store!ReaderMissesNothing, Store!Matching
  <2>2. CASE \E r \in DOMAIN Readers : Store!Newest(r) \/ Store!Newer(r) \/ Store!Older(r)
    BY <1>1, <1>2, <2>2, NewestStep, NewerStep, OlderStep
  <2> QED
    BY <1>1, <2>1, <2>2
<1> QED
  BY <1>3, <1>4, <1>5 DEF StoreInv

LEMMA StoreStep == StoreInv /\ [Store!Next]_(Store!vars) => StoreInv'
  BY AppendStep, WriteStep, ExpireStep, EvictStep, LookStep, AnswerStep, CrashStep, TickStep DEF Store!Next

LEMMA StoreCorrect == Store!Init /\ [][Store!Next]_(Store!vars) => []StoreInv
  BY StoreInit, StoreStep, PTL

LEMMA StoreFacts == ASSUME StoreInv PROVE Store!TypeOK /\ Store!QuotaHolds /\ Store!ReaderMissesNothing
<1>1. ASSUME NEW t \in Targets
      PROVE  /\ events[t] \subseteq Store!Row(t)
             /\ \A a, b \in events[t] : a.id = b.id \/ a.seq = b.seq => a = b
             /\ \A r \in events[t] : r.seq =< meta[t].seq
             /\ state[t] \in -1..MaxClock /\ meta[t].retention \in Retentions
             /\ meta[t].pruned + Store!Cardinality(events[t]) = inserted[t]
  <2>1. /\ RowsFine(events[t], meta[t].seq) /\ meta[t].seq =< MaxSequence[t] /\ meta[t] \in Metas
        /\ state[t] \in -1..MaxClock /\ meta[t].pruned + Cardinality(events[t]) = inserted[t]
    BY DEF StoreInv, StoreShape
  <2>2. ASSUME NEW r \in events[t] PROVE r \in Store!Row(t)
    <3>1. r \in StoreRows /\ 1 =< r.seq /\ r.seq =< meta[t].seq /\ meta[t].seq \in Nat /\ MaxSequence[t] \in Nat
      BY <2>1, StoreConstants DEF RowsFine, Metas
    <3>2. r.seq \in 1..MaxSequence[t]
      BY <2>1, <3>1 DEF StoreRows
    <3> QED
      BY <3>1, <3>2 DEF StoreRows, Store!Row
  <2> QED
    BY <2>1, <2>2, StoreCount DEF RowsFine, Metas
<1>2. Store!TypeOK
  BY <1>1 DEF StoreInv, StoreShape, Store!TypeOK
<1> QED
  BY <1>2 DEF StoreInv, StoreQuota, StoreReaders, Store!QuotaHolds, Store!Enforced

-----------------------------------------------------------------------------
(* What goes first *)

\* What a step takes away from a target is not newer than what it leaves.
Ordered(t) ==
    /\ \A gone \in events[t] \ events'[t], kept \in events'[t] : gone.occurred =< kept.occurred
    /\ state[t] >= 0 /\ state'[t] < 0 => \A kept \in events'[t] : state[t] =< kept.occurred
    /\ events[t] # events'[t] /\ state'[t] >= 0 =>
          \A gone \in events[t] \ events'[t] : gone.occurred =< state'[t]

LEMMA SameOrdered == ASSUME NEW t, events'[t] = events[t], state'[t] = state[t], state[t] \in Int PROVE Ordered(t)
  BY DEF Ordered

LEMMA ExpireOrdered == ASSUME StoreInv, NEW t \in Targets, NEW u \in Targets, Store!Expire(u) PROVE Ordered(t)
<1>1. StoreShape
  BY DEF StoreInv
<1>2. /\ events' = [events EXCEPT ![u] = @ \ {r \in events[u] : r.occurred < Store!Cutoff(u)}]
      /\ state' = [state EXCEPT ![u] = IF @ < Store!Cutoff(u) THEN -1 ELSE @]
  BY DEF Store!Expire, Store!RemoveRows
<1>3. events \in [Targets -> SUBSET StoreRows] /\ state \in [Targets -> -1..MaxClock] /\ MaxClock \in Nat
  BY <1>1, StoreConstants DEF StoreShape
<1>4. CASE t # u
  BY <1>2, <1>3, <1>4, SameOrdered
<1>5. CASE t = u
  <2> DEFINE cutoff == Store!Cutoff(u)
  <2>1. cutoff \in Int
    <3>1. meta[u] \in Metas /\ clock \in 0..MaxClock
      BY <1>1 DEF StoreShape
    <3>2. meta[u].retention \in Nat
      BY <3>1, StoreConstants DEF Metas
    <3> QED
      BY <3>1, <3>2, StoreConstants DEF Store!Cutoff
  <2> HIDE DEF cutoff
  <2>2. events'[t] = events[t] \ {r \in events[t] : r.occurred < cutoff}
    BY <1>2, <1>3, <1>5 DEF cutoff
  <2>3. state'[t] = IF state[t] < cutoff THEN -1 ELSE state[t]
    BY <1>2, <1>3, <1>5 DEF cutoff
  <2>4. \A r \in events[t] : r.occurred \in Nat
    BY <1>3 DEF StoreRows
  <2>5. state[t] \in Int
    BY <1>3
  <2> QED
    BY <2>1, <2>2, <2>3, <2>4, <2>5 DEF Ordered
<1> QED
  BY <1>4, <1>5

LEMMA EvictOrdered ==
    ASSUME StoreInv, NEW t \in Targets, NEW u \in Targets, Store!Size(u) > 0, Store!Evict(u) PROVE Ordered(t)
<1>1. StoreShape
  BY DEF StoreInv
<1>2. events \in [Targets -> SUBSET StoreRows] /\ state \in [Targets -> -1..MaxClock] /\ MaxClock \in Nat
  BY <1>1, StoreConstants DEF StoreShape
<1>3. \A r \in events[t] : r.occurred \in Nat
  BY <1>2 DEF StoreRows
<1>4. state[t] \in Int
  BY <1>2
<1>5. CASE Store!StateIsOldest(u) /\ state' = [state EXCEPT ![u] = -1] /\ UNCHANGED <<events, meta>>
  <2>1. CASE t # u
    BY <1>2, <1>4, <1>5, <2>1, SameOrdered
  <2>2. CASE t = u
    <3>1. state'[t] = -1 /\ events'[t] = events[t]
      BY <1>2, <1>5, <2>2
    <3>2. ASSUME NEW kept \in events[t] PROVE state[t] =< kept.occurred
      <4>1. state[t] < Store!OldestEvent(t).occurred
        BY <1>5, <2>2 DEF Store!StateIsOldest
      <4>2. Store!OldestEvent(t) \in events[t] /\ Store!OldestEvent(t).occurred =< kept.occurred
        BY <1>1, OldestExists
      <4> QED
        BY <1>3, <1>4, <4>1, <4>2
    <3> QED
      BY <3>1, <3>2 DEF Ordered
  <2> QED
    BY <2>1, <2>2
<1>6. CASE /\ ~Store!StateIsOldest(u) /\ events[u] # {} /\ UNCHANGED state
           /\ Store!RemoveRows(u, {Store!OldestEvent(u)})
  <2>1. events' = [events EXCEPT ![u] = @ \ {Store!OldestEvent(u)}]
    BY <1>6 DEF Store!RemoveRows
  <2>2. CASE t # u
    BY <1>2, <1>4, <1>6, <2>1, <2>2, SameOrdered
  <2>3. CASE t = u
    <3> DEFINE o == Store!OldestEvent(t)
    <3>1. events'[t] = events[t] \ {o} /\ state'[t] = state[t]
      BY <1>2, <1>6, <2>1, <2>3
    <3>2. o \in events[t] /\ \A other \in events[t] : o.occurred =< other.occurred
      BY <1>1, <1>6, <2>3, OldestExists
    <3>3. state[t] >= 0 => o.occurred =< state[t]
      <4>1. ~(state[t] >= 0 /\ state[t] < o.occurred)
        BY <1>6, <2>3 DEF Store!StateIsOldest
      <4> HIDE DEF o
      <4> QED
        BY <1>3, <1>4, <3>2, <4>1
    <3> HIDE DEF o
    <3> QED
      BY <1>4, <3>1, <3>2, <3>3 DEF Ordered
  <2> QED
    BY <2>2, <2>3
<1> QED
  BY <1>1, <1>5, <1>6, EvictTakes

LEMMA StoreOrdered ==
    ASSUME StoreInv, [Store!Next]_(Store!vars), NEW t \in Targets, left' \subseteq left, task = task' PROVE Ordered(t)
<1>1. state[t] \in Int
  BY StoreConstants DEF StoreInv, StoreShape
<1>2. ASSUME NEW operation, Store!Begin(operation), operation \in Store!Operations PROVE FALSE
  BY <1>2, WorkingIsNotIdle DEF Store!Begin
<1>3. Store!Enforcing \in Store!Operations
  BY DEF Store!Operations
<1>4. CASE \E u \in Targets : Store!AppendBatch(u) \/ Store!SaveState(u) \/ Store!Prune(u)
  BY <1>2, <1>3, <1>4 DEF Store!AppendBatch, Store!SaveState, Store!Prune
<1>5. CASE Store!Look \/ \E r \in DOMAIN Readers : Store!List(r)
  BY <1>1, <1>5, SameOrdered DEF Store!Look, Store!List, Store!data
<1>6. CASE Store!Answer \/ Store!Crash \/ Store!Tick \/ UNCHANGED Store!vars
  BY <1>1, <1>6, SameOrdered DEF Store!Answer, Store!Crash, Store!Tick, Store!vars, Store!data
<1>7. CASE \E u \in Targets : Store!Expire(u)
  BY <1>7, ExpireOrdered
<1>8. CASE \E u \in Targets : Store!EvictOverTarget(u) \/ Store!EvictOverTotal(u)
  BY <1>8, EvictStep, EvictOrdered
<1> QED
  BY <1>4, <1>5, <1>6, <1>7, <1>8 DEF Store!Next

-----------------------------------------------------------------------------
(* The Timeline's reducers *)

Aspects(k) == DOMAIN Events!First[k]

\* The API server counts up, a Job's conditions stay, a rollout is told by known reasons;
\* a poll has seen the object as it was once.
ObjectGrows ==
    /\ kind = "pod" => {object.restarts, baseline.restarts} \subseteq Nat /\ baseline.restarts =< object.restarts
    /\ kind = "event" => /\ {object.count, baseline.count} \subseteq Nat /\ baseline.count =< object.count
                         /\ object.time = object.count /\ baseline.time = baseline.count
    /\ kind = "job" => \A a \in Aspects("job") : /\ {object[a], baseline[a]} \subseteq {"none", "True"}
                                                 /\ baseline[a] = "True" => object[a] = "True"
    /\ kind = "workload" => {object.Progressing, baseline.Progressing} \subseteq Events!Values.Progressing

EventsShape ==
    /\ kind \in Events!Kinds
    /\ object = [a \in Aspects(kind) |-> object[a]] /\ baseline = [a \in Aspects(kind) |-> baseline[a]]
    /\ DOMAIN shown = DOMAIN Events!Known(kind, Events!First[kind])

EventsInv == EventsShape /\ ObjectGrows /\ Events!ChangesAreTold

LEMMA KindsAre ==
    /\ Events!Kinds = {"pod", "node", "workload", "volume", "cronjob", "job", "provider", "event"}
    /\ Aspects("pod") = {"state", "last", "ready", "restarts", "phase", "condition"}
    /\ Aspects("node") = {"Ready", "MemoryPressure", "unschedulable", "version"}
    /\ Aspects("workload") = {"images", "replicas", "revision", "Available", "Progressing"}
    /\ Aspects("volume") = {"phase"} /\ Aspects("cronjob") = {"suspend"}
    /\ Aspects("job") = {"Complete", "Failed", "FailureTarget"}
    /\ Aspects("provider") = {"phase", "revision", "ready", "error"} /\ Aspects("event") = {"count", "time"}
  BY DEF Events!Kinds, Aspects, Events!First

LEMMA KnownAspects ==
    /\ DOMAIN Events!Known("pod", Events!First["pod"]) = {"restarts", "killed", "problem", "phase", "condition"}
    /\ DOMAIN Events!Known("provider", Events!First["provider"]) = {"status"}
    /\ DOMAIN Events!Known("event", Events!First["event"]) = {"occurrence"}
    /\ \A k \in Events!Kinds \ {"pod", "provider", "event"} : DOMAIN Events!Known(k, Events!First[k]) = Aspects(k)
  BY DEF Events!Known, Events!Sanitized, Aspects

LEMMA EventsInit == ASSUME Events!Init PROVE EventsInv
<1>1. kind \in Events!Kinds /\ object = Events!First[kind] /\ baseline = object /\ shown = Events!Known(kind, object)
  BY DEF Events!Init
<1>2. ASSUME NEW k \in Events!Kinds PROVE Events!First[k] = [a \in Aspects(k) |-> Events!First[k][a]]
  BY KindsAre DEF Events!First, Aspects
<1>3. EventsShape
  BY <1>1, <1>2 DEF EventsShape
<1>4. ObjectGrows
  <2>1. /\ Events!First["pod"].restarts = 0 /\ Events!First["event"].count = 0 /\ Events!First["event"].time = 0
        /\ \A a \in Aspects("job") : Events!First["job"][a] = "none"
        /\ Events!First["workload"].Progressing \in Events!Values.Progressing
    BY KindsAre DEF Events!First, Events!Values
  <2> QED
    BY <1>1, <2>1 DEF ObjectGrows
<1>5. Events!ChangesAreTold
  <2>1. CASE kind = "pod"
    BY <1>1, <2>1 DEF Events!ChangesAreTold, Events!Known
  <2>2. CASE kind = "job"
    <3>1. shown = Events!Sanitized(object) /\ object.FailureTarget = "none"
      BY <1>1, <2>2 DEF Events!Known, Events!First
    <3>2. \A a \in Aspects("job") : Events!Sanitized(object)[a] = object[a]
      BY <1>1, <2>2, KindsAre DEF Events!Sanitized, Aspects
    <3> QED
      BY <1>1, <2>2, <3>1, <3>2, KindsAre DEF Events!ChangesAreTold
  <2>3. CASE kind = "workload"
    <3>1. shown = Events!Sanitized(object) /\ DOMAIN object = Aspects("workload")
      BY <1>1, <2>3 DEF Events!Known, Aspects
    <3>2. "Progressing" \in DOMAIN object /\ Events!Sanitized(object).Progressing = object.Progressing
      BY <3>1, KindsAre DEF Events!Sanitized
    <3> QED
      BY <1>1, <2>3, <3>1, <3>2 DEF Events!ChangesAreTold
  <2>4. CASE kind \notin {"pod", "job", "workload"}
    BY <1>1, <2>4 DEF Events!ChangesAreTold
  <2> QED
    BY <2>1, <2>2, <2>3, <2>4
<1> QED
  BY <1>3, <1>4, <1>5 DEF EventsInv

\* An object that changes in some of its aspects.
LEMMA LiveStep == ASSUME EventsInv, Events!Live PROVE EventsInv'
<1>1. UNCHANGED <<kind, baseline, shown>> /\ kind \in Events!Kinds /\ object = [a \in Aspects(kind) |-> object[a]]
  BY DEF Events!Live, EventsInv, EventsShape
<1>2. Events!ChangesAreTold'
  BY <1>1 DEF EventsInv, Events!ChangesAreTold, Events!Problem
<1>3. object' = [a \in Aspects(kind) |-> object'[a]] /\ ObjectGrows'
  <2>1. CASE kind = "pod"
    <3>1. Events!PodLives /\ object = [a \in Aspects("pod") |-> object[a]]
      BY <1>1, <2>1 DEF Events!Live
    <3>2. "restarts" \in DOMAIN object /\ object.restarts \in Nat /\ baseline.restarts \in Nat
          /\ baseline.restarts =< object.restarts
      BY <2>1, <3>1, KindsAre DEF EventsInv, ObjectGrows
    <3>3. object' = [a \in Aspects("pod") |-> object'[a]] /\ object'.restarts \in {object.restarts, object.restarts + 1}
      BY <3>1, <3>2, KindsAre DEF Events!PodLives
    <3> QED
      BY <1>1, <2>1, <3>2, <3>3 DEF ObjectGrows
  <2>2. CASE kind = "job"
    <3>1. Events!JobLives /\ object = [a \in Aspects("job") |-> object[a]]
      BY <1>1, <2>2 DEF Events!Live
    <3>2. \E a \in Aspects("job") : object' = [object EXCEPT ![a] = "True"]
      BY <3>1, KindsAre DEF Events!JobLives
    <3>3. object' = [a \in Aspects("job") |-> object'[a]]
          /\ \A a \in Aspects("job") : object'[a] \in {object[a], "True"}
      BY <3>1, <3>2
    <3> QED
      BY <1>1, <2>2, <3>3 DEF ObjectGrows, EventsInv
  <2>3. CASE kind = "event"
    <3>1. Events!EventRepeats /\ object = [a \in Aspects("event") |-> object[a]]
      BY <1>1, <2>3 DEF Events!Live
    <3>2. object.count \in Nat /\ baseline.count \in Nat /\ baseline.count =< object.count
          /\ object.time = object.count /\ baseline.time = baseline.count
      BY <2>3 DEF EventsInv, ObjectGrows
    <3>3. object' = [a \in Aspects("event") |-> object'[a]] /\ object'.count = object.count + 1
          /\ object'.time = object.time + 1
      BY <3>1, KindsAre DEF Events!EventRepeats
    <3> QED
      BY <1>1, <2>3, <3>2, <3>3 DEF ObjectGrows
  <2>4. CASE kind \notin {"pod", "job", "event"}
    <3>1. PICK a \in DOMAIN object : \E value \in Events!Values[a] : object' = [object EXCEPT ![a] = value]
      BY <2>4 DEF Events!Live
    <3>2. object' = [b \in Aspects(kind) |-> object'[b]] /\ a \in Aspects(kind)
          /\ \A b \in Aspects(kind) : object'[b] = object[b] \/ (b = a /\ object'[b] \in Events!Values[a])
      BY <1>1, <3>1
    <3>3. kind = "workload" => object'.Progressing \in Events!Values.Progressing
      BY <3>2, KindsAre DEF EventsInv, ObjectGrows
    <3> QED
      BY <1>1, <2>4, <3>2, <3>3 DEF EventsInv, ObjectGrows
  <2> QED
    BY <2>1, <2>2, <2>3, <2>4
<1>4. EventsShape'
  BY <1>1, <1>3 DEF EventsInv, EventsShape
<1> QED
  BY <1>2, <1>3, <1>4 DEF EventsInv

LEMMA AfterFacts ==
    ASSUME NEW known, NEW told, DOMAIN told \subseteq DOMAIN known
    PROVE  /\ DOMAIN Events!After(known, told) = DOMAIN known
           /\ \A a \in DOMAIN known :
                 Events!After(known, told)[a] = IF a \in DOMAIN told THEN told[a] ELSE known[a]
  BY DEF Events!After

\* A poll of each kind: what was told agrees with what it saw.
LEMMA PodPoll ==
    ASSUME EventsInv, Events!Poll, kind = "pod" PROVE DOMAIN shown' = DOMAIN shown /\ Events!ChangesAreTold'
<1> DEFINE o == baseline
           n == object
           told == Events!ReducePod(o, n)
           killed == Events!Restarted(o, n) /\ Events!Cause(n) = "OOMKilled"
           all == {"restarts", "killed", "problem", "phase", "condition"}
<1>1. /\ baseline' = n /\ kind' = kind /\ shown' = Events!After(shown, told) /\ DOMAIN shown = all
      /\ n.restarts \in Nat /\ o.restarts \in Nat /\ o.restarts =< n.restarts
  BY KnownAspects DEF Events!Poll, Events!ReduceObject, EventsInv, EventsShape, ObjectGrows
<1>2. /\ DOMAIN told \subseteq all
      /\ "restarts" \in DOMAIN told <=> Events!Restarted(o, n)
      /\ "problem" \in DOMAIN told <=> Events!ProblemTold(o, n)
      /\ "killed" \in DOMAIN told <=> Events!ProblemTold(o, n) \/ killed
      /\ "phase" \in DOMAIN told <=> o.phase # n.phase
      /\ "condition" \in DOMAIN told <=> o.condition # n.condition
  BY DEF Events!ReducePod
<1>3. /\ "restarts" \in DOMAIN told => told.restarts = n.restarts
      /\ "phase" \in DOMAIN told => told.phase = n.phase
      /\ "condition" \in DOMAIN told => told.condition = n.condition
      /\ "killed" \in DOMAIN told => told.killed = killed
      /\ "problem" \in DOMAIN told /\ Events!Problem(n) # "none" => told.problem = Events!Problem(n)
  BY DEF Events!ReducePod
<1> HIDE DEF told
<1>4. DOMAIN shown' = all /\ \A a \in all : shown'[a] = IF a \in DOMAIN told THEN told[a] ELSE shown[a]
  BY <1>1, <1>2, AfterFacts
<1>5. /\ shown.restarts = o.restarts /\ shown.phase = o.phase /\ shown.condition = o.condition
      /\ Events!Problem(o) # "none" => shown.problem = Events!Problem(o)
                                       \/ (shown.killed /\ Events!Problem(o) = "OOMKilled")
  BY DEF EventsInv, Events!ChangesAreTold
<1>6. shown'.restarts = n.restarts /\ shown'.phase = n.phase /\ shown'.condition = n.condition
  BY <1>1, <1>2, <1>3, <1>4, <1>5 DEF Events!Restarted
<1>7. ASSUME Events!Problem(n) # "none"
      PROVE  shown'.problem = Events!Problem(n) \/ (shown'.killed /\ Events!Problem(n) = "OOMKilled")
  <2>1. CASE Events!ProblemTold(o, n)
    BY <1>2, <1>3, <1>4, <1>7, <2>1
  <2>2. CASE ~Events!ProblemTold(o, n) /\ Events!Problem(n) = Events!Problem(o)
    <3>1. shown'.problem = shown.problem /\ (shown.killed => shown'.killed)
      <4> HIDE DEF killed
      <4>1. "killed" \in DOMAIN told => killed
        BY <1>2, <2>2
      <4>2. CASE "killed" \in DOMAIN told
        BY <1>2, <1>3, <1>4, <2>2, <4>1, <4>2
      <4>3. CASE "killed" \notin DOMAIN told
        BY <1>2, <1>4, <2>2, <4>3
      <4> QED
        BY <4>2, <4>3
    <3> QED
      BY <1>5, <1>7, <2>2, <3>1
  <2>3. CASE ~Events!ProblemTold(o, n) /\ Events!Problem(n) # Events!Problem(o)
    <3>1. killed /\ Events!Problem(n) = "OOMKilled"
      BY <1>7, <2>3 DEF Events!ProblemTold
    <3>2. "killed" \in DOMAIN told
      BY <1>2, <3>1
    <3>3. shown'.killed = killed
      BY <1>3, <1>4, <3>2
    <3> QED
      BY <3>1, <3>3
  <2> QED
    BY <2>1, <2>2, <2>3
<1> QED
  BY <1>1, <1>4, <1>6, <1>7 DEF Events!ChangesAreTold, Events!Problem

\* The other kinds are told aspect by aspect.
LEMMA AspectPoll ==
    ASSUME EventsInv, Events!Poll, kind \in {"node", "volume", "cronjob", "workload"}
    PROVE  DOMAIN shown' = DOMAIN shown /\ Events!ChangesAreTold'
<1> DEFINE o == baseline
           n == object
           before == Events!Sanitized(o)
           after == Events!Sanitized(n)
           told == Events!ReduceAspects(o, n, DOMAIN n)
           D == Aspects(kind)
<1>1. /\ baseline' = n /\ kind' = kind /\ shown' = Events!After(shown, told) /\ DOMAIN shown = D
      /\ n = [a \in D |-> n[a]] /\ o = [a \in D |-> o[a]] /\ DOMAIN n = D /\ DOMAIN o = D
  BY KnownAspects DEF Events!Poll, Events!ReduceObject, EventsInv, EventsShape
<1>0. /\ after = [a \in D |-> after[a]] /\ before = [a \in D |-> before[a]]
      /\ \A a \in D \ {"images", "revision"} : after[a] = n[a] /\ before[a] = o[a]
  BY <1>1 DEF Events!Sanitized
<1> HIDE DEF before, after
<1>2. DOMAIN told \subseteq D /\ \A a \in DOMAIN told : told[a] = after[a]
  BY <1>1 DEF Events!ReduceAspects, before, after
<1>3. /\ \A a \in D \ {"Progressing"} : a \notin DOMAIN told => after[a] = before[a]
      /\ "Progressing" \in D \ DOMAIN told =>
            /\ before.Progressing[1] = after.Progressing[1]
            /\ after.Progressing = <<"True", "NewReplicaSetAvailable">> => before.Progressing = after.Progressing
  BY <1>1 DEF Events!ReduceAspects, before, after
<1> HIDE DEF told
<1>4. DOMAIN shown' = D /\ \A a \in D : shown'[a] = IF a \in DOMAIN told THEN after[a] ELSE shown[a]
  BY <1>1, <1>2, AfterFacts
<1>5. CASE kind = "workload"
  <2>0. "Progressing" \in D \ {"images", "revision"}
    BY <1>5, KindsAre
  <2>1. /\ \A a \in D \ {"Progressing"} : shown[a] = before[a]
        /\ shown.Progressing[1] = o.Progressing[1]
        /\ o.Progressing[2] = "NewReplicaSetAvailable" => shown.Progressing = o.Progressing
    BY <1>1, <1>5 DEF EventsInv, Events!ChangesAreTold, before
  <2>2. \A a \in D \ {"Progressing"} : shown'[a] = after[a]
    BY <1>3, <1>4, <2>1
  <2>3. "Progressing" \in D /\ n.Progressing \in Events!Values.Progressing
    BY <1>5, KindsAre DEF EventsInv, ObjectGrows
  <2>4. n.Progressing[2] = "NewReplicaSetAvailable" => n.Progressing = <<"True", "NewReplicaSetAvailable">>
    BY <2>3 DEF Events!Values
  <2>5. shown'.Progressing[1] = n.Progressing[1]
        /\ (n.Progressing[2] = "NewReplicaSetAvailable" => shown'.Progressing = n.Progressing)
    <3>1. CASE "Progressing" \in DOMAIN told
      BY <1>0, <1>4, <2>0, <2>3, <3>1
    <3>2. CASE "Progressing" \notin DOMAIN told
      <4>1. shown'.Progressing = shown.Progressing
        BY <1>4, <2>3, <3>2
      <4>2. n.Progressing[2] = "NewReplicaSetAvailable" => o.Progressing = n.Progressing
        BY <1>0, <1>3, <2>0, <2>3, <2>4, <3>2
      <4> QED
        BY <1>0, <1>3, <2>0, <2>1, <2>3, <3>2, <4>1, <4>2
    <3> QED
      BY <3>1, <3>2
  <2> QED
    BY <1>1, <1>4, <1>5, <2>2, <2>5 DEF Events!ChangesAreTold, after
<1>6. CASE kind # "workload"
  <2>1. "Progressing" \notin D
    BY <1>6, KindsAre
  <2>2. shown = before
    BY <1>6 DEF EventsInv, Events!ChangesAreTold, Events!Known, before
  <2>3. \A a \in D : shown'[a] = after[a]
    BY <1>3, <1>4, <2>1, <2>2
  <2>4. shown' = [a \in D |-> shown'[a]]
    BY <1>1, <1>2, AfterFacts DEF Events!After
  <2>5. shown' = after
    BY <1>0, <2>3, <2>4
  <2> QED
    BY <1>1, <1>4, <1>6, <2>5 DEF Events!ChangesAreTold, Events!Known, after
<1> QED
  BY <1>5, <1>6

LEMMA JobPoll ==
    ASSUME EventsInv, Events!Poll, kind = "job" PROVE DOMAIN shown' = DOMAIN shown /\ Events!ChangesAreTold'
<1> DEFINE o == baseline
           n == object
           told == Events!ReduceJob(o, n)
           D == {"Complete", "Failed", "FailureTarget"}
<1>1. /\ baseline' = n /\ kind' = kind /\ shown' = Events!After(shown, told) /\ DOMAIN shown = D /\ DOMAIN n = D
      /\ \A a \in D : {n[a], o[a]} \subseteq {"none", "True"} /\ (o[a] = "True" => n[a] = "True")
  BY KindsAre, KnownAspects DEF Events!Poll, Events!ReduceObject, EventsInv, EventsShape, ObjectGrows
<1>2. /\ DOMAIN told = {a \in D : n[a] = "True" /\ o[a] # "True" /\ ~(a = "FailureTarget" /\ n.Failed = "True")}
      /\ \A a \in DOMAIN told : told[a] = n[a]
  BY <1>1 DEF Events!ReduceJob
<1> HIDE DEF told
<1>3. DOMAIN shown' = D /\ \A a \in D : shown'[a] = IF a \in DOMAIN told THEN n[a] ELSE shown[a]
  BY <1>1, <1>2, AfterFacts
<1>4. /\ shown.Complete = o.Complete /\ shown.Failed = o.Failed
      /\ o.FailureTarget = "True" => "True" \in {shown.FailureTarget, shown.Failed}
  BY DEF EventsInv, Events!ChangesAreTold
<1>5. shown'.Complete = n.Complete /\ shown'.Failed = n.Failed
  BY <1>1, <1>2, <1>3, <1>4
<1>6. n.FailureTarget = "True" => "True" \in {shown'.FailureTarget, shown'.Failed}
  BY <1>1, <1>2, <1>3, <1>4, <1>5
<1> QED
  BY <1>1, <1>3, <1>5, <1>6 DEF Events!ChangesAreTold

LEMMA WholePoll ==
    ASSUME EventsInv, Events!Poll, kind \in {"provider", "event"}
    PROVE  DOMAIN shown' = DOMAIN shown /\ Events!ChangesAreTold'
<1>1. baseline' = object /\ kind' = kind /\ shown = Events!Known(kind, baseline)
  BY DEF Events!Poll, EventsInv, Events!ChangesAreTold
<1>2. CASE kind = "provider"
  <2>1. /\ shown' = Events!After(shown, Events!ReduceProvider(baseline, object))
        /\ shown = [status |-> Events!Sanitized(baseline)]
    BY <1>1, <1>2 DEF Events!Poll, Events!ReduceObject, Events!Known
  <2>2. shown' = [status |-> Events!Sanitized(object)]
    BY <2>1 DEF Events!After, Events!ReduceProvider
  <2> QED
    BY <1>1, <1>2, <2>1, <2>2 DEF Events!ChangesAreTold, Events!Known
<1>3. CASE kind = "event"
  <2>1. shown' = Events!After(shown, Events!ReduceKubernetesEvent(baseline, object)) /\ shown = [occurrence |-> baseline]
    BY <1>1, <1>3 DEF Events!Poll, Events!ReduceObject, Events!Known
  <2>2. /\ object.count \in Nat /\ baseline.count \in Nat /\ baseline.count =< object.count
        /\ object.time = object.count /\ baseline.time = baseline.count
        /\ object = [a \in Aspects("event") |-> object[a]] /\ baseline = [a \in Aspects("event") |-> baseline[a]]
    BY <1>3 DEF EventsInv, EventsShape, ObjectGrows
  <2>3. object.count = baseline.count => object = baseline
    BY <2>2, KindsAre
  <2>4. shown' = [occurrence |-> object]
    <3>1. CASE object = baseline
      <4>1. Events!ReduceKubernetesEvent(baseline, object) = [a \in {} |-> object]
        BY <2>2, <3>1 DEF Events!ReduceKubernetesEvent
      <4> QED
        BY <2>1, <3>1, <4>1 DEF Events!After
    <3>2. CASE object # baseline
      <4>1. object.count > baseline.count
        BY <2>2, <2>3, <3>2
      <4>2. Events!ReduceKubernetesEvent(baseline, object) = [a \in {"occurrence"} |-> object]
        BY <2>2, <3>2, <4>1 DEF Events!ReduceKubernetesEvent
      <4> QED
        BY <2>1, <4>2 DEF Events!After
    <3> QED
      BY <3>1, <3>2
  <2> QED
    BY <1>1, <1>3, <2>1, <2>4 DEF Events!ChangesAreTold, Events!Known
<1> QED
  BY <1>2, <1>3

LEMMA EventsStep == EventsInv /\ [Events!Next]_(Events!vars) => EventsInv'
<1> SUFFICES ASSUME EventsInv, [Events!Next]_(Events!vars) PROVE EventsInv'
  OBVIOUS
<1>1. CASE UNCHANGED Events!vars
  BY <1>1 DEF Events!vars, EventsInv, EventsShape, ObjectGrows, Events!ChangesAreTold
<1>2. CASE Events!Poll
  <2>1. UNCHANGED <<kind, object>> /\ baseline' = object /\ kind \in Events!Kinds
    BY <1>2 DEF Events!Poll, EventsInv, EventsShape
  <2>2. DOMAIN shown' = DOMAIN shown /\ Events!ChangesAreTold'
    BY <1>2, <2>1, PodPoll, AspectPoll, JobPoll, WholePoll, KindsAre
  <2>3. EventsShape'
    BY <2>1, <2>2 DEF EventsInv, EventsShape
  <2>4. ObjectGrows'
    BY <2>1 DEF EventsInv, ObjectGrows
  <2> QED
    BY <2>2, <2>3, <2>4 DEF EventsInv
<1> QED
  BY <1>1, <1>2, LiveStep DEF Events!Next

LEMMA EventsCorrect == Events!Init /\ [][Events!Next]_(Events!vars) => []EventsInv
  BY EventsInit, EventsStep, PTL

LEMMA EventsFacts == ASSUME EventsInv PROVE Events!TypeOK /\ Events!ChangesAreTold
  BY DEF EventsInv, EventsShape, Events!TypeOK, Aspects

-----------------------------------------------------------------------------
(* Network policies *)

NetworkInv ==
    /\ policies \subseteq Policies
    /\ posture = Network!AnalyzeNetworkPosture(policies)

LEMMA NetworkCount == \A S : Network!Cardinality(S) = Cardinality(S)
  BY DEF Network!Cardinality, Cardinality

LEMMA NetworkFinite == \A S : Network!IsFiniteSet(S) <=> IsFiniteSet(S)
  BY DEF Network!IsFiniteSet, IsFiniteSet

LEMMA NetworkConstants ==
    /\ IsFiniteSet(DOMAIN Pods) /\ \A p \in DOMAIN Pods : Pods[p].namespace \in Namespaces
    /\ Policies \subseteq [namespace : Namespaces, pods : SUBSET DOMAIN Pods, types : SUBSET Network!Directions,
                           ingress : SUBSET Network!Rules, egress : SUBSET Network!Rules]
  BY PartsAssumption, NetworkFinite DEF Network!NetworkAssumption

LEMMA NetworkInit == ASSUME Network!Init PROVE NetworkInv
  BY DEF Network!Init, NetworkInv

LEMMA NetworkStep == ASSUME NetworkInv, [Network!Next]_(Network!vars) PROVE NetworkInv'
<1>1. CASE Network!Analyze
  BY <1>1 DEF Network!Analyze, NetworkInv
<1>2. CASE UNCHANGED Network!vars
  BY <1>2 DEF NetworkInv, Network!vars
<1> QED
  BY <1>1, <1>2 DEF Network!Next

\* Who selects a pod in a direction is who isolates it.
LEMMA SelectingIsIsolating ==
    ASSUME NetworkInv, NEW p \in Network!ActivePods, NEW d \in Network!Directions
    PROVE  /\ posture.items[p][d] = Network!Coverage(policies, p, d)
           /\ {policy \in policies : p \in Network!Selected(policy) /\ d \in Network!PolicyDirections(policy)}
                 = Network!Isolating(p, d)
           /\ \A policy \in policies : d \in Network!PolicyDirections(policy) <=>
                 d \in policy.types \/ (policy.types = {} /\ (d = "ingress" \/ policy[d] # {}))
<1>1. ASSUME NEW policy \in policies
      PROVE  d \in Network!PolicyDirections(policy) <=>
                d \in policy.types \/ (policy.types = {} /\ (d = "ingress" \/ policy[d] # {}))
  <2>1. CASE d = "ingress"
    BY <2>1 DEF Network!PolicyDirections
  <2>2. CASE d = "egress"
    BY <2>2 DEF Network!PolicyDirections
  <2> QED
    BY <2>1, <2>2 DEF Network!Directions
<1>2. posture.items[p][d] = Network!Coverage(policies, p, d)
  BY DEF NetworkInv, Network!AnalyzeNetworkPosture
<1> QED
  BY <1>1, <1>2 DEF Network!Selected, Network!Isolating

\* What an unrestricted rule allows, and that no other does.
LEMMA UnrestrictedAllows ==
    ASSUME NEW rule \in Network!Rules
    PROVE  Network!UnrestrictedRule(rule) <=> \A t \in Network!Traffic : Network!RuleMatches(rule, t)
<1>1. ASSUME Network!UnrestrictedRule(rule), NEW t \in Network!Traffic PROVE Network!RuleMatches(rule, t)
  BY <1>1 DEF Network!UnrestrictedRule, Network!RuleMatches, Network!PeerMatches
<1>2. ASSUME \A t \in Network!Traffic : Network!RuleMatches(rule, t) PROVE Network!UnrestrictedRule(rule)
  <2> DEFINE far == [end |-> "v6", port |-> "udp53"]
  <2>1. far \in Network!Traffic
    BY DEF Network!Traffic
  <2>2. Network!RuleMatches(rule, far)
    BY <1>2, <2>1
  <2>3. \A peer \in Network!Peers : Network!PeerMatches(peer, "v6") <=> peer = "anything"
    BY DEF Network!Peers, Network!PeerMatches
  <2> QED
    BY <2>2, <2>3 DEF Network!RuleMatches, Network!UnrestrictedRule, Network!Rules
<1> QED
  BY <1>1, <1>2

LEMMA CoverageIsTrue ==
    ASSUME NetworkInv, NEW p \in Network!ActivePods, NEW d \in Network!Directions
    PROVE  LET item == posture.items[p][d] IN
           /\ item.covered <=> Network!Isolating(p, d) # {}
           /\ ~item.covered \/ item.allowAll => Network!Allowed(p, d) = Network!Traffic
           /\ \A rule \in Network!Rules :
                 UNION {policy[d] : policy \in Network!Isolating(p, d)} = {rule} =>
                 (item.allowAll <=> Network!Allowed(p, d) = Network!Traffic)
<1> DEFINE I == Network!Isolating(p, d)
           item == posture.items[p][d]
<1>1. /\ item.covered <=> I # {}
      /\ item.allowAll <=> \E policy \in I : Network!AllowAll(policy, d)
  <2> DEFINE selecting == {policy \in policies : p \in Network!Selected(policy) /\ d \in Network!PolicyDirections(policy)}
  <2>1. selecting = I /\ item = Network!Coverage(policies, p, d)
    BY SelectingIsIsolating
  <2>2. Network!Coverage(policies, p, d) =
           [covered |-> selecting # {}, allowAll |-> \E policy \in selecting : Network!AllowAll(policy, d)]
    BY DEF Network!Coverage
  <2> HIDE DEF selecting, I
  <2>3. item.covered = (selecting # {}) /\ item.allowAll = (\E policy \in selecting : Network!AllowAll(policy, d))
    BY <2>1, <2>2
  <2> QED
    BY <2>1, <2>3
<1>2. \A policy \in I : /\ policy \in policies /\ d \in Network!PolicyDirections(policy)
                        /\ policy[d] \subseteq Network!Rules
  <2>1. \A policy \in policies : policy[d] \subseteq Network!Rules
    BY NetworkConstants DEF NetworkInv, Network!Directions
  <2> QED
    BY <2>1, SelectingIsIsolating
<1>3. item.allowAll <=> \E policy \in I : \E rule \in policy[d] : Network!UnrestrictedRule(rule)
  BY <1>1, <1>2 DEF Network!AllowAll
<1>4. ASSUME NEW policy \in I, NEW rule \in policy[d], Network!UnrestrictedRule(rule)
      PROVE  Network!Allowed(p, d) = Network!Traffic
  BY <1>2, <1>4, UnrestrictedAllows DEF Network!Allowed
<1>5. ~item.covered => Network!Allowed(p, d) = Network!Traffic
  BY <1>1 DEF Network!Allowed
<1>6. ASSUME NEW rule \in Network!Rules, UNION {policy[d] : policy \in I} = {rule},
             Network!Allowed(p, d) = Network!Traffic
      PROVE  item.allowAll
  <2>1. PICK policy \in I : rule \in policy[d]
    BY <1>6
  <2>2. \A other \in I : \A o \in other[d] : o = rule
    BY <1>6
  <2>3. \A t \in Network!Traffic : Network!RuleMatches(rule, t)
    BY <1>6, <2>1, <2>2 DEF Network!Allowed
  <2> QED
    BY <1>3, <2>1, <2>3, UnrestrictedAllows
<1> QED
  BY <1>1, <1>3, <1>4, <1>5, <1>6

LEMMA CountsAgree ==
    ASSUME NetworkInv
    PROVE  /\ posture.coverage.bothCoveredPods + posture.coverage.uncoveredPods = posture.coverage.totalPods
           /\ posture.coverage.ingressCoveredPods + posture.coverage.egressCoveredPods
                 =< posture.coverage.totalPods + posture.coverage.bothCoveredPods
<1> DEFINE active == Network!ActivePods
           into == Network!Covered(policies, "ingress")
           out == Network!Covered(policies, "egress")
           un == {p \in active : \E d \in Network!Directions : ~Network!Coverage(policies, p, d).covered}
<1>1. /\ posture.coverage.totalPods = Cardinality(active)
      /\ posture.coverage.ingressCoveredPods = Cardinality(into)
      /\ posture.coverage.egressCoveredPods = Cardinality(out)
      /\ posture.coverage.bothCoveredPods = Cardinality(into \cap out)
      /\ posture.coverage.uncoveredPods = Cardinality(un)
  BY NetworkCount DEF NetworkInv, Network!AnalyzeNetworkPosture
<1>2. into \subseteq active /\ out \subseteq active /\ un = active \ (into \cap out)
  BY DEF Network!Covered, Network!Directions
<1>3. IsFiniteSet(active)
  <2>1. active \in SUBSET DOMAIN Pods
    BY DEF Network!ActivePods
  <2> QED
    BY <2>1, FS_Subset, NetworkConstants
<1> HIDE DEF active, into, out, un
<1>4. IsFiniteSet(into) /\ IsFiniteSet(out) /\ IsFiniteSet(into \cap out) /\ IsFiniteSet(into \cup out)
      /\ Cardinality(into \cup out) =< Cardinality(active)
  <2>1. into \in SUBSET active /\ out \in SUBSET active /\ into \cap out \in SUBSET active
        /\ into \cup out \in SUBSET active
    BY <1>2
  <2> QED
    BY <1>3, <2>1, FS_Subset
<1>5. /\ Cardinality(active) \in Nat /\ Cardinality(into) \in Nat /\ Cardinality(out) \in Nat
      /\ Cardinality(into \cap out) \in Nat
  BY <1>3, <1>4, FS_CardinalityType
<1>6. Cardinality(into \cup out) = Cardinality(into) + Cardinality(out) - Cardinality(into \cap out)
  BY <1>4, FS_Union
<1>7. Cardinality(un) = Cardinality(active) - Cardinality(into \cap out)
  <2>1. active \cap (into \cap out) = into \cap out
    BY <1>2
  <2>2. Cardinality(active \ (into \cap out)) = Cardinality(active) - Cardinality(active \cap (into \cap out))
    BY <1>3, FS_Difference
  <2> QED
    BY <1>2, <2>1, <2>2
<1> QED
  BY <1>1, <1>4, <1>5, <1>6, <1>7

LEMMA NetworkFacts == ASSUME NetworkInv PROVE Network!TypeOK /\ Network!PostureIsTrue
<1>1. Network!TypeOK
  BY DEF NetworkInv, Network!TypeOK, Network!AnalyzeNetworkPosture
<1>2. ASSUME NEW p \in Network!ActivePods, NEW d \in Network!Directions, ~posture.items[p][d].covered
      PROVE  p \in posture.pods.missingCoverage
  <2>1. ~Network!Coverage(policies, p, d).covered
    BY <1>2, SelectingIsIsolating
  <2>2. p \notin Network!Covered(policies, "ingress") \cap Network!Covered(policies, "egress")
    BY <2>1 DEF Network!Covered, Network!Directions
  <2>3. posture.pods.missingCoverage =
           Network!ActivePods \ (Network!Covered(policies, "ingress") \cap Network!Covered(policies, "egress"))
    BY DEF NetworkInv, Network!AnalyzeNetworkPosture, Network!PodFindings
  <2> QED
    BY <2>2, <2>3
<1>3. ASSUME NEW policy \in posture.policies.unmatchedSelector, NEW p \in Network!ActivePods,
             NEW d \in Network!Directions, policy \in Network!Isolating(p, d)
      PROVE  FALSE
  <2>1. Network!Selected(policy) = {}
    BY <1>3 DEF NetworkInv, Network!AnalyzeNetworkPosture, Network!PolicyFindings
  <2> QED
    BY <1>3, <2>1, SelectingIsIsolating
<1> QED
  BY <1>1, <1>2, <1>3, CoverageIsTrue, CountsAgree DEF Network!PostureIsTrue

-----------------------------------------------------------------------------
(* Storage backends *)

BackendInv ==
    /\ agent \in Backend!Setups
    /\ storage \in UNION {Backend!Backends(driver) : driver \in Backend!Drivers}
    /\ storage.driver # "vitastor" => \A i \in DOMAIN agent.profiles : agent.profiles[i].cluster = ""
    /\ \/ overview = Backend!NoOverview
       \/ (overview = Backend!OverviewOf(storage.driver) /\ storage.driver # "other")

LEMMA BackendConstants ==
    /\ ClusterOf \in [DOMAIN ClusterOf -> {"here", "there"}]
    /\ Discovered \in Seq(DOMAIN ClusterOf) /\ \A i \in DOMAIN Discovered : ClusterOf[Discovered[i]] = "here"
    /\ \A profiles \in Profiles : DOMAIN profiles \subseteq Nat /\ \A i \in DOMAIN profiles :
           /\ profiles[i].endpoints \in Seq(DOMAIN ClusterOf)
           /\ profiles[i].cluster = "here" \/ (profiles[i].cluster = "" /\ profiles[i].context = "here") =>
                 \A k \in DOMAIN profiles[i].endpoints : ClusterOf[profiles[i].endpoints[k]] = "here"
    /\ MaxCandidates \in Nat \ {0}
<1>1. Backend!DriverAssumption
  BY PartsAssumption
<1>2. ASSUME NEW profiles \in Profiles
      PROVE  DOMAIN profiles \subseteq Nat /\ \A i \in DOMAIN profiles : profiles[i].endpoints \in Seq(DOMAIN ClusterOf)
  <2> DEFINE Profile == [cluster : {"", "here", "there"}, context : {"*", "here", "there"},
                         endpoints : Seq(DOMAIN ClusterOf)]
  <2>1. profiles \in Seq(Profile)
    BY <1>1, <1>2 DEF Backend!DriverAssumption
  <2>2. \A profile \in Profile : profile.endpoints \in Seq(DOMAIN ClusterOf)
    OBVIOUS
  <2> HIDE DEF Profile
  <2> QED
    BY <2>1, <2>2
<1> QED
  BY <1>1, <1>2 DEF Backend!DriverAssumption

LEMMA FirstIs ==
    ASSUME NEW indices \in SUBSET Nat, indices # {} PROVE Backend!First(indices) \in indices
<1>1. \E i \in indices : \A j \in indices : i =< j
  BY Smallest
<1> QED
  BY <1>1 DEF Backend!First

\* The verdicts, and what is not shown when the verdict is that all is well.
LEMMA StatusIs ==
    ASSUME NEW rules, DOMAIN rules \subseteq Nat, \A i \in DOMAIN rules : rules[i][2] \in {"warning", "critical"},
           NEW evident, NEW detected
    PROVE  /\ Backend!StatusOf(rules, evident, detected) \in {"unknown", "healthy", "warning", "critical"}
           /\ Backend!StatusOf(rules, evident, detected) = "healthy" =>
                 \A i \in DOMAIN rules : rules[i][1] \cap evident = {}
<1> DEFINE applying == {i \in DOMAIN rules : rules[i][1] \cap evident # {}}
<1>1. CASE applying # {}
  <2>1. Backend!First(applying) \in applying
    BY <1>1, FirstIs
  <2>2. Backend!StatusOf(rules, evident, detected) = rules[Backend!First(applying)][2]
    BY <1>1 DEF Backend!StatusOf
  <2> QED
    BY <2>1, <2>2
<1>2. CASE applying = {}
  <2>1. Backend!StatusOf(rules, evident, detected) \in {"unknown", "healthy"}
    BY <1>2 DEF Backend!StatusOf
  <2> QED
    BY <1>2, <2>1
<1> QED
  BY <1>1, <1>2

\* The rules of a backend name every fault that its sources show.
Judged(rules, faults) ==
    \A evident, detected :
        /\ Backend!StatusOf(rules, evident, detected) \in {"unknown", "healthy", "warning", "critical"}
        /\ Backend!StatusOf(rules, evident, detected) = "healthy" => faults \cap evident = {}

LEMMA JudgedByTwo ==
    ASSUME NEW A, NEW B, NEW faults, faults \subseteq A \cup B
    PROVE  Judged(<<<<A, "critical">>, <<B, "warning">>>>, faults)
<1> DEFINE rules == <<<<A, "critical">>, <<B, "warning">>>>
<1>1. DOMAIN rules = 1..2 /\ rules[1][1] = A /\ rules[2][1] = B /\ rules[1][2] = "critical" /\ rules[2][2] = "warning"
  OBVIOUS
<1> HIDE DEF rules
<1>2. DOMAIN rules \subseteq Nat /\ \A i \in DOMAIN rules : rules[i][2] \in {"warning", "critical"}
  BY <1>1
<1> QED
  BY <1>1, <1>2, StatusIs DEF Judged

LEMMA JudgedByFour ==
    ASSUME NEW A, NEW B, NEW C, NEW D, NEW c, NEW d, {c, d} \subseteq {"warning", "critical"},
           NEW faults, faults \subseteq A \cup B \cup C \cup D
    PROVE  Judged(<<<<A, "critical">>, <<B, "warning">>, <<C, c>>, <<D, d>>>>, faults)
<1> DEFINE rules == <<<<A, "critical">>, <<B, "warning">>, <<C, c>>, <<D, d>>>>
<1>1. DOMAIN rules = 1..4 /\ rules[1][1] = A /\ rules[2][1] = B /\ rules[3][1] = C /\ rules[4][1] = D
      /\ rules[1][2] = "critical" /\ rules[2][2] = "warning" /\ rules[3][2] = c /\ rules[4][2] = d
  OBVIOUS
<1> HIDE DEF rules
<1>2. DOMAIN rules \subseteq Nat /\ \A i \in DOMAIN rules : rules[i][2] \in {"warning", "critical"}
  BY <1>1
<1> QED
  BY <1>1, <1>2, StatusIs DEF Judged

LEMMA AllAreJudged ==
    /\ Judged(Backend!CliRules, Backend!Shows.vitastor.status) /\ Judged(Backend!EtcdRules, Backend!EtcdShows)
    /\ Judged(Backend!CephRules, Backend!CephShows.clusters)
    /\ Judged(Backend!LonghornRules,
              UNION {Backend!LonghornShows[l] : l \in DOMAIN Backend!LonghornShows})
    /\ Judged(Backend!OpenEbsRules, Backend!OpenEbsExports
                \cup UNION {Backend!OpenEbsShows[l] : l \in DOMAIN Backend!OpenEbsShows})
    /\ Judged(Backend!PortworxRules, Backend!PortworxExports
                \cup UNION {Backend!PortworxShows[l] : l \in DOMAIN Backend!PortworxShows})
<1>1. Judged(Backend!CliRules, Backend!Shows.vitastor.status)
  <2> DEFINE A == {"osd down", "incomplete"}
             B == {"degraded", "etcd down", "pool inactive"}
  <2>1. Backend!Shows.vitastor.status \subseteq A \cup B
    BY DEF Backend!Shows, Backend!CliShows
  <2>2. Backend!CliRules = <<<<A, "critical">>, <<B, "warning">>>>
    BY DEF Backend!CliRules
  <2> HIDE DEF A, B
  <2> QED
    BY <2>1, <2>2, JudgedByTwo
<1>2. Judged(Backend!EtcdRules, Backend!EtcdShows)
  <2> DEFINE A == {"osd down", "incomplete"}
             B == {"monitor down", "degraded"}
  <2>1. Backend!EtcdShows \subseteq A \cup B
    BY DEF Backend!EtcdShows
  <2>2. Backend!EtcdRules = <<<<A, "critical">>, <<B, "warning">>>>
    BY DEF Backend!EtcdRules
  <2> HIDE DEF A, B
  <2> QED
    BY <2>1, <2>2, JudgedByTwo
<1>3. Judged(Backend!CephRules, Backend!CephShows.clusters)
  BY JudgedByTwo DEF Backend!CephRules, Backend!CephShows
<1>4. Judged(Backend!LonghornRules, UNION {Backend!LonghornShows[l] : l \in DOMAIN Backend!LonghornShows})
  <2> DEFINE A == {"volume faulted"}
             B == {"volume degraded", "node down", "disk down"}
  <2>1. /\ DOMAIN Backend!LonghornShows = {"nodes", "volumes", "replicas"}
        /\ Backend!LonghornShows["nodes"] \subseteq A \cup B
        /\ Backend!LonghornShows["volumes"] \subseteq A \cup B
        /\ Backend!LonghornShows["replicas"] \subseteq A \cup B
    BY DEF Backend!LonghornShows
  <2>2. Backend!LonghornRules = <<<<A, "critical">>, <<B, "warning">>>>
    BY DEF Backend!LonghornRules
  <2> HIDE DEF A, B
  <2>3. UNION {Backend!LonghornShows[l] : l \in DOMAIN Backend!LonghornShows} \subseteq A \cup B
    BY <2>1
  <2> QED
    BY <2>2, <2>3, JudgedByTwo
<1>5. Judged(Backend!OpenEbsRules, Backend!OpenEbsExports
                \cup UNION {Backend!OpenEbsShows[l] : l \in DOMAIN Backend!OpenEbsShows})
  <2> DEFINE A == {"pool faulted"}
             B == {"pool degraded"}
             C == {"node down"}
             D == {"volume faulted"}
             all == A \cup B \cup C \cup D
  <2>1. /\ DOMAIN Backend!OpenEbsShows = {"diskpools", "nodes", "volumes", "storageclasses"}
        /\ Backend!OpenEbsShows["diskpools"] \subseteq all
        /\ Backend!OpenEbsShows["nodes"] \subseteq all
        /\ Backend!OpenEbsShows["volumes"] \subseteq all
        /\ Backend!OpenEbsShows["storageclasses"] \subseteq all
        /\ Backend!OpenEbsExports \subseteq all
    BY DEF Backend!OpenEbsShows, Backend!OpenEbsExports
  <2>2. Backend!OpenEbsRules = <<<<A, "critical">>, <<B, "warning">>, <<C, "warning">>, <<D, "critical">>>>
    BY DEF Backend!OpenEbsRules
  <2> HIDE DEF all
  <2>3. Backend!OpenEbsExports \cup UNION {Backend!OpenEbsShows[l] : l \in DOMAIN Backend!OpenEbsShows}
           \subseteq all
    BY <2>1
  <2> HIDE DEF A, B, C, D
  <2> QED
    BY <2>2, <2>3, JudgedByFour DEF all
<1>6. Judged(Backend!PortworxRules, Backend!PortworxExports
                \cup UNION {Backend!PortworxShows[l] : l \in DOMAIN Backend!PortworxShows})
  <2> DEFINE A == {"storage down", "pool offline", "volume without quorum"}
             B == {"node offline", "pool degraded", "volume resyncing", "path down"}
             C == {"cluster error"}
             D == {"node error"}
             all == A \cup B \cup C \cup D
  <2>1. /\ DOMAIN Backend!PortworxShows = {"clusters", "nodes"}
        /\ Backend!PortworxShows["clusters"] \subseteq all /\ Backend!PortworxShows["nodes"] \subseteq all
        /\ Backend!PortworxExports \subseteq all
    BY DEF Backend!PortworxShows, Backend!PortworxExports
  <2>2. Backend!PortworxRules = <<<<A, "critical">>, <<B, "warning">>, <<C, "critical">>, <<D, "warning">>>>
    BY DEF Backend!PortworxRules
  <2> HIDE DEF all
  <2>3. Backend!PortworxExports \cup UNION {Backend!PortworxShows[l] : l \in DOMAIN Backend!PortworxShows}
           \subseteq all
    BY <2>1
  <2> HIDE DEF A, B, C, D
  <2> QED
    BY <2>2, <2>3, JudgedByFour DEF all
<1> QED
  BY <1>1, <1>2, <1>3, <1>4, <1>5, <1>6

\* A profile that is selected is one of those configured, and of the kind that was looked for.
LEMMA SelectedIs ==
    ASSUME NEW profiles, DOMAIN profiles \subseteq Nat, NEW indices \in SUBSET DOMAIN profiles
    PROVE  \/ indices = {} /\ Backend!Selected(profiles, indices) = Backend!NoProfile
           \/ \E i \in indices : Backend!Selected(profiles, indices) = profiles[i]
  BY FirstIs DEF Backend!Selected

\* Of the backend's own cluster, or of what a profile for any context says.
OfOwn(profile, place) ==
    place = "here"
                 \/ (Backend!ForAny(profile) /\ \E k \in DOMAIN profile.endpoints : place = ClusterOf[profile.endpoints[k]])

TheProfile ==
    IF storage.driver = "vitastor" THEN Backend!VitastorProfile(agent.profiles)
    ELSE Backend!MetricsProfile(agent.profiles)

LEMMA ProfileIs ==
    ASSUME BackendInv
    PROVE  /\ TheProfile.endpoints \in Seq(DOMAIN ClusterOf)
           /\ ~Backend!ForAny(TheProfile) =>
                 \A k \in DOMAIN TheProfile.endpoints : ClusterOf[TheProfile.endpoints[k]] = "here"
<1> DEFINE profiles == agent.profiles
<1>1. profiles \in Profiles
  <2>1. \A a \in Backend!Setups : a.profiles \in Profiles
    BY DEF Backend!Setups
  <2> QED
    BY <2>1 DEF BackendInv
<1>2. DOMAIN profiles \subseteq Nat
  BY <1>1, BackendConstants
<1>3. ASSUME TheProfile = Backend!NoProfile
      PROVE  /\ TheProfile.endpoints \in Seq(DOMAIN ClusterOf)
             /\ ~Backend!ForAny(TheProfile) =>
                   \A k \in DOMAIN TheProfile.endpoints : ClusterOf[TheProfile.endpoints[k]] = "here"
  <2>1. TheProfile.endpoints = <<>>
    BY <1>3 DEF Backend!NoProfile
  <2>2. <<>> \in Seq(DOMAIN ClusterOf) /\ DOMAIN <<>> = {}
    OBVIOUS
  <2> QED
    BY <2>1, <2>2
<1>4. ASSUME NEW i \in DOMAIN profiles, TheProfile = profiles[i],
             profiles[i].cluster = "here" \/ (profiles[i].cluster = "" /\ profiles[i].context \in {"here", "*"})
      PROVE  /\ TheProfile.endpoints \in Seq(DOMAIN ClusterOf)
             /\ ~Backend!ForAny(TheProfile) =>
                   \A k \in DOMAIN TheProfile.endpoints : ClusterOf[TheProfile.endpoints[k]] = "here"
  BY <1>1, <1>4, BackendConstants DEF Backend!ForAny
<1>5. \/ TheProfile = Backend!NoProfile
      \/ \E i \in DOMAIN profiles :
            /\ TheProfile = profiles[i]
            /\ profiles[i].cluster = "here" \/ (profiles[i].cluster = "" /\ profiles[i].context \in {"here", "*"})
  <2> DEFINE named == {i \in DOMAIN profiles : profiles[i].cluster = "here"}
             here == Backend!ForContext(profiles, "here")
             any == Backend!ForContext(profiles, "*")
  <2>1. /\ named \in SUBSET DOMAIN profiles /\ here \in SUBSET DOMAIN profiles /\ any \in SUBSET DOMAIN profiles
        /\ \A i \in named : profiles[i].cluster = "here"
        /\ \A i \in here : profiles[i].cluster = "" /\ profiles[i].context = "here"
        /\ \A i \in any : profiles[i].cluster = "" /\ profiles[i].context = "*"
    BY DEF Backend!ForContext
  <2>2. \E S \in {named, here, any} : TheProfile = Backend!Selected(profiles, S)
    BY DEF TheProfile, Backend!VitastorProfile, Backend!MetricsProfile
  <2> HIDE DEF named, here, any, profiles
  <2>3. PICK S \in {named, here, any} : TheProfile = Backend!Selected(profiles, S)
    BY <2>2
  <2>4. S \in SUBSET DOMAIN profiles
    BY <2>1, <2>3
  <2>5. TheProfile = Backend!NoProfile \/ \E i \in S : TheProfile = profiles[i]
    BY <1>2, <2>3, <2>4, SelectedIs
  <2> QED
    BY <2>1, <2>3, <2>4, <2>5
<1> QED
  BY <1>3, <1>4, <1>5

\* Whoever is asked with a profile is of the backend's own cluster, or of what the profile says.
LEMMA EndpointsAreOwn ==
    ASSUME BackendInv
    PROVE  LET asked1 == Backend!EndpointsWith(TheProfile)
           IN  asked1 \in Seq(DOMAIN ClusterOf) /\ \A i \in DOMAIN asked1 : OfOwn(TheProfile, ClusterOf[asked1[i]])
<1> DEFINE mine == TheProfile.endpoints
           found == IF Backend!Up("services") THEN Discovered ELSE <<>>
<1>1. mine \in Seq(DOMAIN ClusterOf) /\ \A k \in DOMAIN mine : OfOwn(TheProfile, ClusterOf[mine[k]])
  <2>1. /\ mine \in Seq(DOMAIN ClusterOf)
        /\ ~Backend!ForAny(TheProfile) => \A k \in DOMAIN mine : ClusterOf[mine[k]] = "here"
    BY ProfileIs
  <2> QED
    BY <2>1 DEF OfOwn
<1>2. found \in Seq(DOMAIN ClusterOf) /\ \A k \in DOMAIN found : ClusterOf[found[k]] = "here"
  <2>1. CASE Backend!Up("services")
    BY <2>1, BackendConstants
  <2>2. CASE ~Backend!Up("services")
    <3>1. found = <<>>
      BY <2>2
    <3>2. <<>> \in Seq(DOMAIN ClusterOf) /\ DOMAIN <<>> = {}
      OBVIOUS
    <3> HIDE DEF found
    <3> QED
      BY <3>1, <3>2
  <2> QED
    BY <2>1, <2>2
<1>3. Backend!EndpointsWith(TheProfile) = mine \o found
  BY DEF Backend!EndpointsWith
<1> HIDE DEF mine, found
<1>4. \A i \in DOMAIN (mine \o found) :
         (i \in DOMAIN mine /\ (mine \o found)[i] = mine[i]) \/ \E k \in DOMAIN found : (mine \o found)[i] = found[k]
  BY <1>1, <1>2
<1>5. mine \o found \in Seq(DOMAIN ClusterOf)
  BY <1>1, <1>2
<1> QED
  BY <1>1, <1>2, <1>3, <1>4, <1>5 DEF OfOwn

\* What is shown is well judged, of the backend's own cluster, and healthy only if that was looked at.
OverviewFine == Backend!TypeOK /\ Backend!OwnBackendOnly /\ Backend!HealthyIsSo

LEMMA SetupIs ==
    ASSUME BackendInv
    PROVE  /\ agent \in Backend!Setups /\ agent.host \in {"here", "there"} /\ agent.host \in agent.contexts
           /\ agent.contexts \in {{"here"}, {"here", "there"}}
<1>1. \A a \in Backend!Setups :
         a.host \in {"here", "there"} /\ a.host \in a.contexts /\ a.contexts \in {{"here"}, {"here", "there"}}
  BY DEF Backend!Setups
<1> QED
  BY <1>1 DEF BackendInv

LEMMA NothingShown == ASSUME BackendInv, overview.status = "unknown", overview.partial \in BOOLEAN, overview.of = {},
                             overview.from = "nothing" PROVE OverviewFine
<1>1. Backend!TypeOK
  BY SetupIs DEF Backend!TypeOK
<1> QED
  BY <1>1 DEF OverviewFine, Backend!OwnBackendOnly, Backend!HealthyIsSo

LEMMA FirstAnsweringIs ==
    ASSUME BackendInv, storage.driver = "vitastor", Backend!Answering # {}
    PROVE  /\ ClusterOf[Backend!FirstAnswering] \in {"here", "there"}
           /\ OfOwn(TheProfile, ClusterOf[Backend!FirstAnswering])
<1> DEFINE all == Backend!EndpointsWith(TheProfile)
<1>1. all = Backend!EtcdEndpoints
  BY DEF TheProfile, Backend!EtcdEndpoints
<1>2. all \in Seq(DOMAIN ClusterOf) /\ \A i \in DOMAIN all : OfOwn(TheProfile, ClusterOf[all[i]])
  BY EndpointsAreOwn
<1> HIDE DEF all
<1>3. Backend!Answering \in SUBSET DOMAIN all /\ Backend!Answering \in SUBSET Nat
  BY <1>1, <1>2 DEF Backend!Answering
<1>4. Backend!First(Backend!Answering) \in DOMAIN all
  BY <1>3, FirstIs
<1>5. all[Backend!First(Backend!Answering)] \in DOMAIN ClusterOf
  BY <1>2, <1>4
<1> QED
  BY <1>1, <1>2, <1>4, <1>5, BackendConstants DEF Backend!FirstAnswering

\* What a profile says of the place of its endpoints, as OwnBackendOnly counts it.
LEMMA OwnIsSaid ==
    ASSUME BackendInv, NEW place, OfOwn(TheProfile, place)
    PROVE  place = "here" \/ (/\ TheProfile # Backend!NoProfile /\ Backend!ForAny(TheProfile)
                              /\ place \in {ClusterOf[e] : e \in Backend!Range(TheProfile.endpoints)})
<1>1. ~Backend!ForAny(Backend!NoProfile)
  BY DEF Backend!ForAny, Backend!NoProfile
<1>2. \A k \in DOMAIN TheProfile.endpoints : TheProfile.endpoints[k] \in Backend!Range(TheProfile.endpoints)
  BY DEF Backend!Range
<1> QED
  BY <1>1, <1>2 DEF OfOwn

LEMMA OwnFrom ==
    ASSUME BackendInv, \A place \in overview.of : OfOwn(TheProfile, place) PROVE Backend!OwnBackendOnly
<1>1. ASSUME NEW place \in overview.of
      PROVE  place = "here" \/ (/\ TheProfile # Backend!NoProfile /\ Backend!ForAny(TheProfile)
                                /\ place \in {ClusterOf[e] : e \in Backend!Range(TheProfile.endpoints)})
  BY OwnIsSaid
<1> HIDE DEF OfOwn
<1> QED
  BY <1>1 DEF Backend!OwnBackendOnly, TheProfile

LEMMA CliFine ==
    ASSUME BackendInv, storage.driver = "vitastor", Backend!MayUseCli, overview = Backend!FromCli PROVE OverviewFine
<1> DEFINE rest == IF Backend!Answering = {} THEN {} ELSE {ClusterOf[Backend!FirstAnswering]}
           shown1 == Backend!FaultsAt(agent.host) \cap Backend!Shows.vitastor.status
<1>1. /\ overview.status = Backend!StatusOf(Backend!CliRules, shown1, TRUE) /\ overview.partial = FALSE
      /\ overview.of = {agent.host} \cup rest /\ overview.from = "cli"
  BY DEF Backend!FromCli, Backend!NoOverview
<1>2. \A place \in rest : place \in {"here", "there"} /\ OfOwn(TheProfile, place)
  BY FirstAnsweringIs
<1> HIDE DEF shown1
<1>0. /\ overview.status \in {"unknown", "healthy", "warning", "critical"}
      /\ overview.status = "healthy" => Backend!Shows.vitastor.status \cap shown1 = {}
  <2>1. Judged(Backend!CliRules, Backend!Shows.vitastor.status)
    BY AllAreJudged
  <2> QED
    BY <1>1, <2>1 DEF Judged
<1>3. Backend!TypeOK
  BY <1>1, <1>2, <1>0, SetupIs DEF Backend!TypeOK
<1>4. Backend!OwnBackendOnly
  <2>1. CASE TheProfile # Backend!NoProfile /\ ~Backend!ForAny(TheProfile)
    <3>1. \A place \in rest : place = "here"
      BY <1>2, <2>1 DEF OfOwn
    <3> QED
      BY <1>1, <2>1, <3>1 DEF Backend!OwnBackendOnly, TheProfile
  <2>2. CASE TheProfile = Backend!NoProfile \/ Backend!ForAny(TheProfile)
    <3>1. ~Backend!Exact(Backend!VitastorProfile(agent.profiles))
      BY <2>2 DEF Backend!Exact, TheProfile
    <3>2. Backend!Cardinality(agent.contexts) =< 1
      BY <3>1 DEF Backend!MayUseCli
    <3>3. agent.contexts = {"here"}
      <4>1. Cardinality({"here", "there"}) = 2
        <5>1. IsFiniteSet({"here"}) /\ Cardinality({"here"}) = 1
          BY FS_Singleton
        <5>2. {"here", "there"} = {"here"} \cup {"there"} /\ "there" \notin {"here"}
          OBVIOUS
        <5>3. Cardinality({"here"} \cup {"there"}) = Cardinality({"here"}) + 1
          BY <5>1, <5>2, FS_AddElement
        <5> QED
          BY <5>1, <5>2, <5>3
      <4>2. Backend!Cardinality({"here", "there"}) = 2
        BY <4>1 DEF Backend!Cardinality, Cardinality
      <4> QED
        BY <3>2, <4>2, SetupIs
    <3>4. agent.host = "here"
      BY <3>3, SetupIs
    <3>5. \A place \in overview.of : OfOwn(TheProfile, place)
      BY <1>1, <1>2, <3>4 DEF OfOwn
    <3> QED
      BY <3>5, OwnFrom
  <2> QED
    BY <2>1, <2>2
<1>5. Backend!HealthyIsSo
  <2> SUFFICES ASSUME overview.status = "healthy", overview.of = {"here"}
               PROVE  storage.faults \cap Backend!Shows.vitastor.status = {}
    BY <1>1 DEF Backend!HealthyIsSo
  <2>1. agent.host = "here"
    BY <1>1
  <2> QED
    BY <1>0, <2>1 DEF Backend!FaultsAt, shown1
<1> QED
  BY <1>3, <1>4, <1>5 DEF OverviewFine

LEMMA EtcdFine ==
    ASSUME BackendInv, storage.driver = "vitastor", Backend!Answering # {}, overview = Backend!FromEtcd
    PROVE  OverviewFine
<1> DEFINE place == ClusterOf[Backend!FirstAnswering]
           shown1 == Backend!FaultsAt(place) \cap Backend!EtcdShows
<1>1. /\ overview.status = Backend!StatusOf(Backend!EtcdRules, shown1, TRUE) /\ overview.partial \in BOOLEAN
      /\ overview.of = {place} /\ overview.from = "etcd"
  BY DEF Backend!FromEtcd, Backend!NoOverview
<1>2. place \in {"here", "there"} /\ OfOwn(TheProfile, place)
  BY FirstAnsweringIs
<1> HIDE DEF place
<1> HIDE DEF shown1
<1>0. /\ overview.status \in {"unknown", "healthy", "warning", "critical"}
      /\ overview.status = "healthy" => Backend!EtcdShows \cap shown1 = {}
  <2>1. Judged(Backend!EtcdRules, Backend!EtcdShows)
    BY AllAreJudged
  <2>2. LET verdict == Backend!StatusOf(Backend!EtcdRules, shown1, TRUE)
        IN  /\ verdict \in {"unknown", "healthy", "warning", "critical"}
            /\ verdict = "healthy" => Backend!EtcdShows \cap shown1 = {}
    BY <2>1 DEF Judged
  <2> QED
    BY <1>1, <2>2
<1>3. Backend!TypeOK
  BY <1>1, <1>2, <1>0, SetupIs DEF Backend!TypeOK
<1>4. Backend!OwnBackendOnly
  BY <1>1, <1>2, OwnFrom
<1>5. Backend!HealthyIsSo
  <2> SUFFICES ASSUME overview.status = "healthy", overview.of = {"here"}
               PROVE  storage.faults \cap Backend!EtcdShows = {}
    BY <1>1 DEF Backend!HealthyIsSo
  <2>1. place = "here"
    BY <1>1
  <2> QED
    BY <1>0, <2>1 DEF Backend!FaultsAt, shown1
<1> QED
  BY <1>3, <1>4, <1>5 DEF OverviewFine

LEMMA VitastorFine ==
    ASSUME BackendInv, storage.driver = "vitastor", overview = Backend!Vitastor PROVE OverviewFine
<1> DEFINE nothing == [Backend!NoOverview EXCEPT
             !.partial = Backend!MayUseCli \/ Backend!EtcdEndpoints # <<>>,
             !.errors = (IF Backend!MayUseCli THEN {"cli"} ELSE {})
                        \cup (Backend!Range(Backend!EtcdEndpoints) \cap storage.down)]
<1>1. \/ Backend!MayUseCli /\ overview = Backend!FromCli
      \/ Backend!Answering # {} /\ overview = Backend!FromEtcd
      \/ overview = nothing
  BY DEF Backend!Vitastor
<1>2. nothing.status = "unknown" /\ nothing.partial \in BOOLEAN /\ nothing.of = {} /\ nothing.from = "nothing"
  BY DEF Backend!NoOverview
<1> HIDE DEF nothing
<1> QED
  BY <1>1, <1>2, CliFine, EtcdFine, NothingShown

LEMMA ListsReadAre ==
    Backend!ListsRead = {s \in DOMAIN Backend!Shows[storage.driver] : s \notin storage.down}
  BY DEF Backend!ListsRead, Backend!Up

LEMMA CandidatesAre ==
    ASSUME BackendInv, storage.driver # "vitastor"
    PROVE  /\ DOMAIN Backend!Candidates \subseteq Nat
           /\ \A i \in DOMAIN Backend!Candidates :
                 /\ Backend!Candidates[i] \in DOMAIN ClusterOf
                 /\ OfOwn(TheProfile, ClusterOf[Backend!Candidates[i]])
<1> DEFINE all == Backend!EndpointsWith(TheProfile)
           most == IF Len(all) < MaxCandidates THEN Len(all) ELSE MaxCandidates
<1>1. all \in Seq(DOMAIN ClusterOf) /\ \A i \in DOMAIN all : OfOwn(TheProfile, ClusterOf[all[i]])
  BY EndpointsAreOwn
<1>2. Backend!Candidates = SubSeq(all, 1, most)
  BY DEF TheProfile, Backend!Candidates
<1> HIDE DEF all
<1>3. most \in Nat /\ most =< Len(all) /\ Len(all) \in Nat /\ DOMAIN all = 1..Len(all)
  <2>1. Len(all) \in Nat /\ DOMAIN all = 1..Len(all) /\ MaxCandidates \in Nat
    <3>1. all \in Seq(DOMAIN ClusterOf)
      BY <1>1
    <3>2. MaxCandidates \in Nat
      BY BackendConstants
    <3> QED
      BY <3>1, <3>2, LenProperties
  <2> DEFINE n == Len(all)
  <2>2. n \in Nat /\ most = IF n < MaxCandidates THEN n ELSE MaxCandidates
    BY <2>1
  <2> HIDE DEF n, most
  <2>3. most \in Nat /\ most =< n
    BY <2>1, <2>2
  <2> QED
    BY <2>1, <2>3 DEF n
<1> HIDE DEF most
<1>4. DOMAIN SubSeq(all, 1, most) = 1..most /\ \A i \in 1..most : SubSeq(all, 1, most)[i] = all[i]
  BY <1>1, <1>3
<1>5. \A i \in 1..most : i \in DOMAIN all /\ all[i] \in DOMAIN ClusterOf
  BY <1>1, <1>3
<1> QED
  BY <1>1, <1>2, <1>3, <1>4, <1>5

LEMMA MetricsReadAre ==
    ASSUME BackendInv, storage.driver # "vitastor"
    PROVE  /\ \A e \in Backend!MetricsRead :
                 ClusterOf[e] \in {"here", "there"} /\ OfOwn(TheProfile, ClusterOf[e])
           /\ Backend!Aggregate =>
                 \A e \in Backend!Range(Backend!Candidates) \ storage.down : e \in Backend!MetricsRead
<1> DEFINE answers == {i \in DOMAIN Backend!Candidates : Backend!Up(Backend!Candidates[i])}
<1>1. answers \in SUBSET Nat /\ answers \subseteq DOMAIN Backend!Candidates
  BY CandidatesAre
<1>2. answers # {} => Backend!First(answers) \in answers
  BY <1>1, FirstIs
<1>3. Backend!MetricsRead =
         {Backend!Candidates[i] : i \in IF Backend!Aggregate \/ answers = {} THEN answers ELSE {Backend!First(answers)}}
  BY DEF Backend!MetricsRead
<1>4. ASSUME NEW e \in Backend!MetricsRead PROVE ClusterOf[e] \in {"here", "there"} /\ OfOwn(TheProfile, ClusterOf[e])
  <2> HIDE DEF answers
  <2>1. PICK i \in DOMAIN Backend!Candidates : e = Backend!Candidates[i]
    BY <1>1, <1>2, <1>3
  <2> QED
    BY <2>1, CandidatesAre, BackendConstants
<1>5. ASSUME Backend!Aggregate, NEW e \in Backend!Range(Backend!Candidates), e \notin storage.down
      PROVE  e \in Backend!MetricsRead
  <2>1. PICK i \in DOMAIN Backend!Candidates : e = Backend!Candidates[i]
    BY <1>5 DEF Backend!Range
  <2>2. i \in answers
    BY <1>5, <2>1 DEF Backend!Up
  <2> HIDE DEF answers
  <2> QED
    BY <1>3, <1>5, <2>1, <2>2
<1> QED
  BY <1>4, <1>5

\* What an adapter's verdict must know: its lists, and the exporters it asks one by one.
Known ==
    (UNION {Backend!Shows[storage.driver][s] : s \in DOMAIN Backend!Shows[storage.driver]})
        \cup (IF Backend!Aggregate THEN Backend!Exported[storage.driver] ELSE {})

LEMMA AdapterFine ==
    ASSUME BackendInv, storage.driver # "vitastor", NEW rules, Judged(rules, Known), NEW part \in BOOLEAN, NEW errors,
           overview = Backend!Adapter(rules, part, errors)
    PROVE  OverviewFine
<1> DEFINE all == Backend!ShownByLists \cup Backend!ShownByMetrics
           places == {ClusterOf[e] : e \in Backend!MetricsRead} \cup (IF Backend!ListsRead = {} THEN {} ELSE {"here"})
<1>1. /\ overview.status = Backend!StatusOf(rules, all, Backend!Detected) /\ overview.partial = part
      /\ overview.of = places /\ overview.from \in {"exporter", "lists"}
  BY DEF Backend!Adapter, Backend!NoOverview
<1>2. \A place \in places : place \in {"here", "there"} /\ OfOwn(TheProfile, place)
  <2>1. OfOwn(TheProfile, "here")
    BY DEF OfOwn
  <2> QED
    BY <2>1, MetricsReadAre
<1> HIDE DEF all
<1>3. /\ overview.status \in {"unknown", "healthy", "warning", "critical"}
      /\ overview.status = "healthy" => Known \cap all = {}
  BY <1>1 DEF Judged
<1>4. Backend!TypeOK
  <2> HIDE DEF places
  <2> QED
    BY <1>1, <1>2, <1>3, SetupIs DEF Backend!TypeOK
<1>5. Backend!OwnBackendOnly
  <2> HIDE DEF places
  <2> QED
    BY <1>1, <1>2, OwnFrom
<1>6. Backend!HealthyIsSo
  <2> DEFINE shows == Backend!Shows[storage.driver]
             exported == Backend!Exported[storage.driver]
             named == UNION {shows[s] : s \in DOMAIN shows \ storage.down}
             told == IF Backend!Aggregate
                     THEN UNION {PartOf[e] \cap exported : e \in Backend!Range(Backend!Candidates) \ storage.down}
                     ELSE {}
  <2>0. overview.from # "cli" /\ overview.from # "etcd"
    BY <1>1
  <2>h. Backend!HealthyIsSo <=>
           (overview.status = "healthy" /\ overview.of = {"here"} => storage.faults \cap (named \cup told) = {})
    BY <2>0, Zenon DEF Backend!HealthyIsSo
  <2> SUFFICES ASSUME overview.status = "healthy", overview.of = {"here"}, NEW x \in storage.faults, x \in named \cup told
               PROVE  FALSE
    <3> HIDE DEF named, told
    <3> QED
      BY <2>h
  <2>1. x \notin named
    <3> SUFFICES ASSUME x \in named PROVE FALSE
      OBVIOUS
    <3>0. PICK s \in DOMAIN shows \ storage.down : x \in shows[s]
      OBVIOUS
    <3>3. s \in Backend!ListsRead
      BY <3>0, ListsReadAre
    <3>1. x \in Backend!ShownByLists
      BY <3>0, <3>3 DEF Backend!ShownByLists
    <3>2. x \in Known
      BY DEF Known
    <3> QED
      BY <1>3, <3>1, <3>2 DEF all
  <2>2. x \notin told
    <3> SUFFICES ASSUME Backend!Aggregate, NEW e \in Backend!Range(Backend!Candidates) \ storage.down,
                        x \in PartOf[e], x \in exported
                 PROVE  FALSE
      OBVIOUS
    <3>1. e \in Backend!MetricsRead
      BY MetricsReadAre
    <3>2. ClusterOf[e] = "here"
      BY <1>1, <3>1
    <3>5. x \in Backend!FaultsAt(ClusterOf[e]) \cap PartOf[e]
      BY <3>2 DEF Backend!FaultsAt
    <3>3. x \in Backend!ShownByMetrics
      BY <3>1, <3>5 DEF Backend!ShownByMetrics
    <3>6. Backend!Exported[storage.driver] \subseteq Known
      BY DEF Known
    <3>4. x \in Known
      BY <3>6
    <3> QED
      BY <1>3, <3>3, <3>4 DEF all
  <2> QED
    BY <2>1, <2>2
<1> QED
  BY <1>4, <1>5, <1>6 DEF OverviewFine

LEMMA AdaptersFine ==
    ASSUME BackendInv, storage.driver \in {"ceph", "longhorn", "openebs", "portworx"},
           overview = Backend!OverviewOf(storage.driver)
    PROVE  OverviewFine
<1>1. CASE storage.driver = "ceph"
  <2>1. Known = Backend!CephShows.clusters
    BY <1>1 DEF Known, Backend!Shows, Backend!Aggregate, Backend!CephShows
  <2>2. overview = Backend!Adapter(Backend!CephRules, FALSE, {})
    BY <1>1 DEF Backend!OverviewOf, Backend!Ceph
  <2> QED
    BY <1>1, <2>1, <2>2, AllAreJudged, AdapterFine
<1>2. CASE storage.driver = "longhorn"
  <2>1. Known = UNION {Backend!LonghornShows[l] : l \in DOMAIN Backend!LonghornShows}
    BY <1>2 DEF Known, Backend!Shows, Backend!Aggregate
  <2>2. overview = Backend!Adapter(Backend!LonghornRules, FALSE, {})
    BY <1>2 DEF Backend!OverviewOf, Backend!Longhorn
  <2> QED
    BY <1>2, <2>1, <2>2, AllAreJudged, AdapterFine
<1> DEFINE part == Backend!MetricsFailed # {} /\ Backend!MetricsRead = {} /\ Backend!ListsRead # {}
<1>3. CASE storage.driver = "openebs"
  <2>1. Known = Backend!OpenEbsExports \cup (UNION {Backend!OpenEbsShows[l] : l \in DOMAIN Backend!OpenEbsShows})
    <3>1. Backend!Shows["openebs"] = Backend!OpenEbsShows /\ Backend!Exported["openebs"] = Backend!OpenEbsExports
      BY DEF Backend!Shows, Backend!Exported
    <3>2. Backend!Aggregate
      BY <1>3 DEF Backend!Aggregate
    <3> QED
      BY <1>3, <3>1, <3>2 DEF Known
  <2>2. overview = Backend!Adapter(Backend!OpenEbsRules, part, Backend!MetricsFailed)
    BY <1>3 DEF Backend!OverviewOf, Backend!OpenEbs
  <2>3. part \in BOOLEAN
    OBVIOUS
  <2> QED
    BY <1>3, <2>1, <2>2, <2>3, AllAreJudged, AdapterFine
<1>4. CASE storage.driver = "portworx"
  <2>1. Known = Backend!PortworxExports \cup UNION {Backend!PortworxShows[l] : l \in DOMAIN Backend!PortworxShows}
    <3>1. Backend!Shows["portworx"] = Backend!PortworxShows /\ Backend!Exported["portworx"] = Backend!PortworxExports
      BY DEF Backend!Shows, Backend!Exported
    <3>2. Backend!Aggregate
      BY <1>4 DEF Backend!Aggregate
    <3> QED
      BY <1>4, <3>1, <3>2 DEF Known
  <2>2. overview = Backend!Adapter(Backend!PortworxRules, part, Backend!MetricsFailed)
    BY <1>4 DEF Backend!OverviewOf, Backend!Portworx
  <2>3. part \in BOOLEAN
    OBVIOUS
  <2> QED
    BY <1>4, <2>1, <2>2, <2>3, AllAreJudged, AdapterFine
<1> QED
  BY <1>1, <1>2, <1>3, <1>4

LEMMA BackendInit == ASSUME Backend!Init PROVE BackendInv
<1>1. agent \in Backend!Setups /\ overview = Backend!NoOverview
      /\ storage \in UNION {Backend!Backends(driver) : driver \in Backend!Drivers}
  BY DEF Backend!Init
<1>2. storage.driver # "vitastor" => \A i \in DOMAIN agent.profiles : agent.profiles[i].cluster = ""
  BY DEF Backend!Init
<1> QED
  BY <1>1, <1>2 DEF BackendInv

LEMMA BackendStep == ASSUME BackendInv, [Backend!Next]_(Backend!vars) PROVE BackendInv'
<1>1. UNCHANGED <<agent, storage>>
  BY DEF Backend!Next, Backend!Overview, Backend!vars
<1>2. overview' = overview \/ overview' = Backend!NoOverview
      \/ (overview' = Backend!OverviewOf(storage.driver) /\ storage.driver # "other")
  BY DEF Backend!Next, Backend!Overview, Backend!vars
<1>3. Backend!OverviewOf(storage.driver)' = Backend!OverviewOf(storage.driver)
  BY <1>1 DEF Backend!OverviewOf, Backend!Vitastor, Backend!FromCli, Backend!FromEtcd, Backend!MayUseCli, Backend!Up,
       Backend!Answering, Backend!EtcdEndpoints, Backend!EndpointsWith, Backend!FirstAnswering,
       Backend!FailedBefore, Backend!FaultsAt, Backend!Ceph, Backend!Longhorn, Backend!OpenEbs,
       Backend!Portworx, Backend!Adapter, Backend!ShownByLists, Backend!ShownByMetrics, Backend!ListsRead,
       Backend!MetricsRead, Backend!MetricsFailed, Backend!Candidates, Backend!Aggregate, Backend!Detected
<1>4. overview' = Backend!NoOverview
      \/ (overview' = Backend!OverviewOf(storage.driver)' /\ storage'.driver # "other")
  BY <1>1, <1>2, <1>3 DEF BackendInv
<1>5. agent' \in Backend!Setups /\ storage' \in UNION {Backend!Backends(driver) : driver \in Backend!Drivers}
      /\ (storage'.driver # "vitastor" => \A i \in DOMAIN agent'.profiles : agent'.profiles[i].cluster = "")
  BY <1>1 DEF BackendInv
<1> QED
  BY <1>4, <1>5 DEF BackendInv

LEMMA BackendFacts == ASSUME BackendInv PROVE Backend!TypeOK /\ Backend!OwnBackendOnly /\ Backend!HealthyIsSo
<1>1. storage.driver \in Backend!Drivers
  <2>1. \A driver \in Backend!Drivers : \A s \in Backend!Backends(driver) : s.driver = driver
    BY DEF Backend!Backends
  <2> QED
    BY <2>1 DEF BackendInv
<1>2. CASE overview = Backend!NoOverview
  BY <1>2, NothingShown DEF Backend!NoOverview, OverviewFine
<1>3. CASE overview = Backend!OverviewOf(storage.driver) /\ storage.driver # "other"
  <2>1. CASE storage.driver = "vitastor"
    BY <1>3, <2>1, VitastorFine DEF OverviewFine, Backend!OverviewOf
  <2>2. CASE storage.driver # "vitastor"
    BY <1>1, <1>3, <2>2, AdaptersFine DEF OverviewFine, Backend!Drivers
  <2> QED
    BY <2>1, <2>2
<1> QED
  BY <1>2, <1>3 DEF BackendInv

-----------------------------------------------------------------------------
(* Side by side *)

\* A part that does not look at the clock takes its own steps, or rests.
LEMMA PartsRun ==
    Spec => /\ Exporter!Init /\ [][Exporter!Next]_(Exporter!vars)
            /\ Transport!Init /\ [][Transport!Next]_(Transport!vars)
            /\ Posture!Init /\ [][Posture!Next]_(Posture!vars)
            /\ Loaders!Init /\ [][Loaders!Next]_(Loaders!vars)
            /\ Ci!Init /\ [][Ci!Next]_(Ci!vars)
            /\ Events!Init /\ [][Events!Next]_(Events!vars)
            /\ Network!Init /\ [][Network!Next]_(Network!vars)
            /\ Autoscaling!Init /\ [][Autoscaling!Next]_(Autoscaling!vars)
<1>1. Init => /\ Exporter!Init /\ Transport!Init /\ Posture!Init /\ Loaders!Init /\ Ci!Init /\ Events!Init
              /\ Network!Init /\ Autoscaling!Init
  BY DEF Init
<1>2. ASSUME [Next]_vars
      PROVE  /\ [Exporter!Next]_(Exporter!vars) /\ [Transport!Next]_(Transport!vars)
             /\ [Posture!Next]_(Posture!vars) /\ [Loaders!Next]_(Loaders!vars) /\ [Ci!Next]_(Ci!vars)
             /\ [Events!Next]_(Events!vars) /\ [Network!Next]_(Network!vars)
             /\ [Autoscaling!Next]_(Autoscaling!vars)
  <2>1. /\ Exporter!Next \/ UNCHANGED exVars
        /\ Transport!Next \/ UNCHANGED trVars
        /\ Posture!Next \/ UNCHANGED poVars
        /\ Loaders!Next \/ UNCHANGED inVars
        /\ Ci!Next \/ UNCHANGED ciVars
    BY <1>2 DEF Next, vars
  <2>2. /\ Events!Next \/ UNCHANGED evVars
        /\ Network!Next \/ UNCHANGED neVars
        /\ Autoscaling!Next \/ UNCHANGED auVars
    BY <1>2 DEF Next, vars, derived
  <2>3. /\ UNCHANGED exVars => UNCHANGED Exporter!vars
        /\ UNCHANGED trVars => UNCHANGED Transport!vars
        /\ UNCHANGED poVars => UNCHANGED Posture!vars
        /\ UNCHANGED inVars => UNCHANGED Loaders!vars
    BY DEF exVars, trVars, poVars, inVars, Exporter!vars, Transport!vars, Posture!vars, Loaders!vars
  <2>4. UNCHANGED ciVars => UNCHANGED Ci!vars
    BY DEF ciVars, Ci!vars
  <2>5. /\ UNCHANGED evVars => UNCHANGED Events!vars
        /\ UNCHANGED neVars => UNCHANGED Network!vars
        /\ UNCHANGED auVars => UNCHANGED Autoscaling!vars
    BY DEF evVars, neVars, auVars, Events!vars, Network!vars, Autoscaling!vars
  <2> QED
    BY <2>1, <2>2, <2>3, <2>4, <2>5
<1> QED
  BY <1>1, <1>2, PTL DEF Spec

\* The other parts are followed while they are in focus; what the store holds of each
\* target's state is a number also when it rests.
FocusedInv ==
    /\ focus = "selection" => SelectionInv
    /\ focus = "store" => StoreInv
    /\ focus = "storage" => BackendInv
    /\ \A t \in Targets : state[t] \in Int

LEMMA FocusedInit == Init => FocusedInv
<1> SUFFICES ASSUME Init PROVE FocusedInv
  OBVIOUS
<1>1. Selection!Init /\ Store!Init /\ (focus = "storage" => Backend!Init)
  BY DEF Init
<1>2. \A t \in Targets : state[t] \in Int
  BY <1>1 DEF Store!Init
<1> QED
  BY <1>1, <1>2, SelectionInit, StoreInit, BackendInit DEF FocusedInv

LEMMA FocusedSteps ==
    ASSUME [Next]_vars
    PROVE  /\ focus' = focus
           /\ focus = "selection" => [Selection!Next]_(Selection!vars)
           /\ focus = "storage" => [Backend!Next]_(Backend!vars)
           /\ IF focus = "store" THEN [Store!Next]_(Store!vars) ELSE UNCHANGED stVars
<1>1. CASE UNCHANGED vars
  <2>1. UNCHANGED <<focus, clock, coVars, stVars, drVars>>
    BY <1>1 DEF vars, derived
  <2> QED
    BY <2>1 DEF coVars, stVars, drVars, Selection!vars, Backend!vars, Store!vars
<1>2. CASE Next
  <2>1. focus' = focus /\ (focus = "selection" => Selection!Next) /\ (focus = "storage" => Backend!Next)
        /\ (focus = "store" => Store!Next)
    BY <1>2 DEF Next
  <2>2. focus # "store" => UNCHANGED stVars
    BY <1>2 DEF Next
  <2> QED
    BY <2>1, <2>2
<1> QED
  BY <1>1, <1>2

LEMMA FocusedStep == FocusedInv /\ [Next]_vars => FocusedInv'
<1> SUFFICES ASSUME FocusedInv, [Next]_vars PROVE FocusedInv'
  OBVIOUS
<1>1. focus' = "selection" => SelectionInv'
  BY FocusedSteps, SelectionStep DEF FocusedInv
<1>2. focus' = "storage" => BackendInv'
  BY FocusedSteps, BackendStep DEF FocusedInv
<1>3. CASE focus = "store"
  <2>1. StoreInv'
    BY <1>3, FocusedSteps, StoreStep DEF FocusedInv
  <2>2. \A t \in Targets : state'[t] \in Int
    BY <2>1, StoreConstants DEF StoreInv, StoreShape
  <2> QED
    BY <1>1, <1>2, <2>1, <2>2 DEF FocusedInv
<1>4. CASE focus # "store"
  <2>1. focus' # "store" /\ state' = state
    BY <1>4, FocusedSteps DEF stVars
  <2> QED
    BY <1>1, <1>2, <2>1 DEF FocusedInv
<1> QED
  BY <1>3, <1>4

LEMMA PartsCorrect ==
    Spec => /\ []ExporterInv /\ []TransportInv /\ []PostureInv /\ []LoadersInv /\ []CiInv /\ []EventsInv
            /\ []NetworkInv /\ []AutoscalingInv /\ []FocusedInv
<1>1. Spec => []FocusedInv
  BY FocusedInit, FocusedStep, PTL DEF Spec
<1>2. /\ Network!Init => NetworkInv
      /\ NetworkInv /\ [Network!Next]_(Network!vars) => NetworkInv'
  BY NetworkInit, NetworkStep
<1>3. Network!Init /\ [][Network!Next]_(Network!vars) => []NetworkInv
  BY <1>2, PTL
<1> QED
  BY <1>1, <1>3, PartsRun, ExporterCorrect, TransportCorrect, PostureCorrect, LoadersCorrect, CiCorrect,
     EventsCorrect, AutoscalingCorrect, PTL

\* For any cluster, provider, store, load and configuration, every part's state has its
\* types while it reads (metrics-exporter.js, kube.js, policy-posture.js,
\* ci/*.js, timeline/store-worker.js, timeline/events.js, policy-posture-network.js,
\* autoscaling-capacity.js, storage-drivers.js).
THEOREM AllTypesCorrect == Spec => []AllTypeOK
<1>1. ASSUME FocusedInv PROVE (focus = "store" => Store!TypeOK) /\ (focus = "storage" => Backend!TypeOK)
  BY <1>1, StoreFacts, BackendFacts DEF FocusedInv
<1>2. ASSUME ExporterInv, TransportInv, PostureInv, LoadersInv, CiInv, EventsInv, NetworkInv, AutoscalingInv,
             FocusedInv
      PROVE  AllTypeOK
  <2>1. Exporter!TypeOK /\ Transport!TypeOK /\ Posture!TypeOK /\ Loaders!TypeOK /\ Ci!TypeOK /\ Events!TypeOK
        /\ Network!TypeOK /\ Autoscaling!TypeOK
    BY <1>2, ExporterFacts, TransportFacts, PostureFacts, LoadersFacts, CiFacts, EventsFacts, NetworkFacts
       DEF AutoscalingInv
  <2> QED
    BY <1>1, <1>2, <2>1 DEF AllTypeOK
<1> QED
  BY <1>2, PartsCorrect, PTL

\* For any places, selectors and documents, and any edits: a request is given the cluster its
\* session was authorized for, with the credentials the sources hold now, and no other source
\* disagrees, also when its config is one validated before (kube.js:1225-1330).
THEOREM SelectionIsAuthorizedCorrect == Spec => []SelectionIsAuthorized
<1>1. FocusedInv => SelectionIsAuthorized
  BY DEF FocusedInv, SelectionInv, SelectionIsAuthorized
<1> QED
  BY <1>1, PartsCorrect, PTL

\* For any outcome of the lists: the cleanup view, asked for every namespace, reports no
\* object that is used from where the collectors look (kube.js:3324-3337).
THEOREM CleanupIsVerifiedCorrect == Spec => []CleanupIsVerified
<1>1. LoadersInv => CleanupIsVerified
  BY LoadersFacts DEF CleanupIsVerified
<1> QED
  BY <1>1, PartsCorrect, PTL

\* For any pages, byte limit and number of chunks: a request that is over leaves no timer,
\* listener or open response (kube.js:100-326).
THEOREM NothingLeftBehindCorrect == Spec => []NothingLeftBehind
<1>1. TransportInv => NothingLeftBehind
  BY TransportFacts DEF NothingLeftBehind
<1> QED
  BY <1>1, PartsCorrect, PTL

\* For any contexts, pages, lanes, loads, projects and clusters: what the exporter, a list, a
\* posture, the loaders or the autoscaling give without a word of what is missing lacks
\* nothing of what they had to list; a GitHub repository given so lacks no run unless one of
\* its runs was loaded twice (github-actions.js:184).
THEOREM NeverCleanWhenCutCorrect == Spec => []NeverCleanWhenCut
<1>1. ASSUME ExporterInv, TransportInv, PostureInv, LoadersInv, CiInv, AutoscalingInv PROVE NeverCleanWhenCut
  BY <1>1, ExporterFacts, TransportFacts, PostureFacts, LoadersFacts, CiFacts
     DEF AutoscalingInv, NeverCleanWhenCut
<1> QED
  BY <1>1, PartsCorrect, PTL

\* For any limits of the code: a policy posture reads no more bytes than its budget and has
\* no more requests open than lanes, a CI load makes no more requests, keeps no more runs
\* and contacts no other host than it may, and an answer of the Timeline store leaves its
\* files within their quotas (policy-posture.js, ci/*.js, store-worker.js).
THEOREM CollectionIsBoundedCorrect == Spec => []CollectionIsBounded
<1>1. FocusedInv => (focus = "store" => Store!QuotaHolds)
  BY StoreFacts DEF FocusedInv
<1>2. ASSUME PostureInv, CiInv, FocusedInv PROVE CollectionIsBounded
  BY <1>1, <1>2, PostureFacts, CiFacts DEF CollectionIsBounded
<1> QED
  BY <1>2, PartsCorrect, PTL

\* For any targets, retentions, batches and page limit: who pages through the Timeline of a
\* target, also while rows are appended, upserted, evicted and expired, has seen every row
\* up to its position that still exists; and for any history of an object, who follows the
\* told changes knows it as the last poll saw it, its images and revisions as their
\* sanitized texts (store-worker.js, timeline/events.js).
THEOREM ReaderMissesNothingCorrect == Spec => []ReaderMissesNothing
<1>1. FocusedInv => (focus = "store" => Store!ReaderMissesNothing)
  BY StoreFacts DEF FocusedInv
<1>2. FocusedInv /\ EventsInv => ReaderMissesNothing
  BY <1>1, EventsFacts DEF ReaderMissesNothing
<1> QED
  BY <1>2, PartsCorrect, PTL

\* For any targets, quotas and retentions: what enforcing a limit of the Timeline store
\* removes is not newer than anything it leaves of that target, the target's own state
\* goes before a newer row, and no row goes before an older state (enforceLimits,
\* store-worker.js).
THEOREM OldestGoFirstCorrect == Spec => OldestGoFirst
<1>1. ASSUME FocusedInv, [Next]_vars, NEW t \in Targets, left' \subseteq left, task = task' PROVE Ordered(t)
  <2>1. CASE focus = "store"
    BY <1>1, <2>1, FocusedSteps, StoreOrdered DEF FocusedInv
  <2>2. CASE focus # "store"
    <3>1. events' = events /\ state' = state /\ state[t] \in Int
      BY <1>1, <2>2, FocusedSteps DEF FocusedInv, stVars
    <3> QED
      BY <3>1, SameOrdered
  <2> QED
    BY <2>1, <2>2
<1>2. ASSUME FocusedInv, [Next]_vars
      PROVE  [\A t \in Targets : left' \subseteq left /\ task = task' => Ordered(t)]_(Store!vars)
  BY <1>1, <1>2
<1>3. FocusedInv /\ [Next]_vars =>
          [\A t \in Targets : left' \subseteq left /\ task = task' =>
             /\ \A gone \in events[t] \ events'[t], kept \in events'[t] :
                    gone.occurred =< kept.occurred
             /\ state[t] >= 0 /\ state'[t] < 0 =>
                    \A kept \in events'[t] : state[t] =< kept.occurred
             /\ events[t] # events'[t] /\ state'[t] >= 0 =>
                    \A gone \in events[t] \ events'[t] : gone.occurred =< state'[t]]_(Store!vars)
  BY <1>2 DEF Ordered
<1> QED
  BY <1>3, PartsCorrect, PTL DEF Spec, OldestGoFirst, Store!OldestGoFirst

\* What is derived agrees with what there is, whatever could be read.  For any pods and
\* policies: whom the network posture says a pod may talk to, and who may talk to it, agrees
\* with the policies that select it.  For any cluster whose objects have distinct names, any
\* namespace asked for and any lists that failed or were cut: a ScaledObject said to have no
\* autoscaler has none in the cluster, a trigger's missing authentication is missing, an
\* empty tab hides nothing it could not read, and the requests of the workloads and of the
\* nodes add up to those of the pods.  For any profiles and faults: an overview shows no
\* other cluster's storage unless a profile for every context has its endpoint or a profile
\* lets the host's CLI speak for this one, and none with a fault as healthy.
\* (policy-posture-network.js, autoscaling-capacity.js:300, :443, :615, storage-drivers.js)
THEOREM ReportsAreTrueCorrect == Spec => []ReportsAreTrue
<1>1. NetworkInv => (focus = "network" => Network!PostureIsTrue)
  BY NetworkFacts
<1>2. AutoscalingInv => (focus = "autoscaling" => Autoscaling!MissingIsMissing /\ Autoscaling!CapacityAddsUp)
  BY AutoscalingFacts
<1>3. FocusedInv => (focus = "storage" => Backend!OwnBackendOnly /\ Backend!HealthyIsSo)
  BY BackendFacts DEF FocusedInv
<1>4. NetworkInv /\ AutoscalingInv /\ FocusedInv => ReportsAreTrue
  BY <1>1, <1>2, <1>3 DEF ReportsAreTrue
<1> QED
  BY <1>4, PartsCorrect, PTL

=============================================================================
