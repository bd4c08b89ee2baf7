--------------------------- MODULE KubeTransport ---------------------------
(***************************************************************************)
(* Reading one Kubernetes list, agent/src/kube.js: fetchKubeList asks page *)
(* by page, requestKubeApi settles one request among its deadline, an      *)
(* abort, the errors of the transport, the byte limit and the end of the   *)
(* body.  Under Bun the agent's own fetch does the same with less.         *)
(***************************************************************************)
EXTENDS Naturals

CONSTANTS
    MaxPages,   \* of a list
    MaxBytes,   \* options.maxBytes, when the caller limits the body
    MaxChunks   \* bound: the longest body the server sends

\* What is asked of the constants; who instances the module assumes it.
BoundAssumption == {MaxPages, MaxBytes, MaxChunks} \subseteq Nat \ {0}

VARIABLES
    options,  \* what the caller asked for: limited, allowMissing; and native (fetch or node:https)
    pages,    \* how many pages the list has in the cluster
    list,     \* the progress of fetchKubeList
    request   \* the request in flight, or the last one

vars == <<options, pages, list, request>>

NoRequest == [phase |-> "none", incoming |-> FALSE, status |-> 0, sent |-> 0, chunks |-> 0,
              bytes |-> 0, timer |-> FALSE, listener |-> FALSE]

Init ==
    /\ options \in [limited : BOOLEAN, allowMissing : BOOLEAN, native : BOOLEAN]
    /\ pages \in 1..(MaxPages + 1)
    /\ list = [phase |-> "asking", read |-> 0, truncated |-> FALSE, missing |-> FALSE, garbled |-> FALSE]
    /\ request = NoRequest

\* The deadline and the caller's abort are armed before anything is sent.
Send ==
    /\ list.phase = "asking" /\ request.phase = "none"
    /\ request' = [NoRequest EXCEPT !.phase = "open", !.timer = TRUE, !.listener = TRUE]
    /\ UNCHANGED <<options, pages, list>>

Headers ==
    /\ request.phase = "open" /\ ~request.incoming
    /\ \E status \in {200, 404, 500} :
          request' = [request EXCEPT !.incoming = TRUE, !.status = status]
    /\ UNCHANGED <<options, pages, list>>

\* fail: once, and with everything let go.
Failed == [request EXCEPT !.phase = "rejected", !.timer = FALSE, !.listener = FALSE, !.chunks = 0]

\* The deadline, while it is armed; the signal, while it is listened to; an error of
\* the request or the response, an abort or an early close.
Fail ==
    /\ request.phase = "open"
    /\ request' = Failed
    /\ UNCHANGED <<options, pages, list>>

\* Mutant: data that comes after the request was settled is kept.
DataKept ==
    /\ request.incoming /\ request.sent < MaxChunks
    /\ request' = [request EXCEPT !.sent = @ + 1, !.bytes = @ + 1, !.chunks = @ + 1]
    /\ UNCHANGED <<options, pages, list>>

\* A destroyed response may still deliver what it had; it is not kept.
Data ==
    /\ request.incoming /\ request.sent < MaxChunks
    /\ \/ /\ request.phase = "open"
          /\ request' = IF options.limited /\ request.bytes + 1 > MaxBytes THEN Failed
                        ELSE [request EXCEPT !.sent = @ + 1, !.bytes = @ + 1, !.chunks = @ + 1]
       \/ /\ request.phase # "open" /\ ~options.native
          /\ request' = [request EXCEPT !.sent = @ + 1]
    /\ UNCHANGED <<options, pages, list>>

\* The body is complete.
End ==
    /\ request.phase = "open" /\ request.incoming
    /\ request' = [request EXCEPT !.phase = "resolved", !.timer = FALSE, !.listener = FALSE, !.chunks = 0]
    /\ UNCHANGED <<options, pages, list>>

Rejects == list' = [list EXCEPT !.phase = "failed"]

\* fetchKubeJson: a status other than 2xx is an error; a 404 may mean that the
\* resource is not installed, on whatever page it comes.
Status ==
    /\ request.phase = "resolved" /\ request.status # 200 /\ list.phase = "asking"
    /\ IF options.allowMissing /\ request.status = 404
       THEN list' = [list EXCEPT !.phase = "done", !.missing = TRUE]
       ELSE Rejects
    /\ UNCHANGED <<options, pages, request>>

RequestFailed ==
    /\ request.phase = "rejected" /\ list.phase = "asking"
    /\ Rejects
    /\ UNCHANGED <<options, pages, request>>

\* A body that is no JSON is an error for a caller with a byte limit; for the others it
\* is an empty object, which reads like an empty last page.
Garbled ==
    /\ request.phase = "resolved" /\ request.status = 200 /\ list.phase = "asking"
    /\ IF options.limited THEN Rejects
       ELSE list' = [list EXCEPT !.phase = "done", !.garbled = TRUE]
    /\ UNCHANGED <<options, pages, request>>

CutAtLimit(read) == read < pages

\* A page is added; without a continue token the list is complete, at the page limit
\* it is truncated.
NextPage ==
    /\ request.phase = "resolved" /\ request.status = 200 /\ list.phase = "asking"
    /\ LET read == list.read + 1
       IN  IF read = pages \/ read = MaxPages
           THEN /\ list' = [list EXCEPT !.phase = "done", !.read = read, !.truncated = CutAtLimit(read)]
                /\ UNCHANGED request
           ELSE list' = [list EXCEPT !.read = read] /\ request' = NoRequest
    /\ UNCHANGED <<options, pages>>

Next ==
    \/ Send \/ Headers \/ Fail \/ Data \/ End
    \/ Status \/ RequestFailed \/ Garbled \/ NextPage

Spec == Init /\ [][Next]_vars

-----------------------------------------------------------------------------
TypeOK ==
    /\ options \in [limited : BOOLEAN, allowMissing : BOOLEAN, native : BOOLEAN]
    /\ pages \in 1..(MaxPages + 1)
    /\ list \in [phase : {"asking", "done", "failed"}, read : 0..MaxPages,
                 truncated : BOOLEAN, missing : BOOLEAN, garbled : BOOLEAN]
    /\ request \in [phase : {"none", "open", "resolved", "rejected"}, incoming : BOOLEAN,
                    status : {0, 200, 404, 500}, sent : 0..MaxChunks, chunks : 0..MaxChunks,
                    bytes : 0..MaxChunks, timer : BOOLEAN, listener : BOOLEAN]

\* A settled request holds no timer, no listener and no byte of the body, also when the
\* response goes on after the deadline, an abort or the byte limit ("the promise would
\* never settle and would retain the request and its buffered body", kube.js:191).
NothingLeftBehind ==
    request.phase \in {"resolved", "rejected"} =>
        ~request.timer /\ ~request.listener /\ request.chunks = 0

\* A list that is given as complete has every page of the cluster, unless a body was no
\* JSON; what callers say is partial rests on this (fetchKubeList, kube.js:290-326).
NeverCleanWhenCut ==
    list.phase = "done" /\ ~list.truncated /\ ~list.missing /\ ~list.garbled => list.read = pages
=============================================================================
