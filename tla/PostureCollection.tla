------------------------- MODULE PostureCollection -------------------------
(***************************************************************************)
(* One posture collection, collectInventory of src/shared/policy-posture.js.*)
(* A few lanes read the sources of a stage page by page; all lanes draw on *)
(* one byte budget, one deadline, and one count of outstanding requests    *)
(* that a timed-out request keeps occupied until the transport lets go.    *)
(***************************************************************************)
EXTENDS Integers, Sequences, FiniteSets, Functions

CONSTANTS
    Stages,       \* sequence of sets of sources: the core kinds, discovery, the policy APIs
    Lists,        \* the sources that are lists; the others are single objects
    Length,       \* source -> the number of its pages in the cluster
    Sizes,        \* the sizes of a page
    Lanes,        \* CONCURRENCY lanes of mapBounded
    MaxPages,     \* MAX_PAGES
    MaxBytes,     \* MAX_BYTES, the budget
    MaxReadBytes  \* MAX_READ_BYTES

Sources == UNION Range(Stages)

\* What is asked of the constants; who instances the module assumes it.
BoundAssumption ==
    /\ Stages \in Seq(SUBSET Sources) /\ Stages # <<>> /\ IsFiniteSet(Lanes)
    /\ Length \in [Sources -> Nat \ {0}]
    /\ Sizes \subseteq Nat \ {0} /\ Lists \subseteq Sources
    /\ {MaxPages, MaxBytes, MaxReadBytes} \subseteq Nat \ {0}

VARIABLES
    stage,    \* the stage being read
    lane,     \* lane -> the source it reads and the pages it has, or Idle
    pending,  \* the outstanding requests: the lane, or Abandoned ones by number
    budget,
    overdue,  \* the collection deadline has passed
    report,   \* source -> what is said of it, Unread
    accepted  \* observation: the bytes of all pages used

vars == <<stage, lane, pending, budget, overdue, report, accepted>>

Idle == [source |-> "none", pages |-> 0, asking |-> FALSE]
Unread == [status |-> "unread", partial |-> FALSE, pages |-> 0]

Init ==
    /\ stage = 1
    /\ lane = [l \in Lanes |-> Idle]
    /\ pending = [asked |-> {}, abandoned |-> 0]
    /\ budget = MaxBytes
    /\ overdue = FALSE
    /\ report = [s \in Sources |-> Unread]
    /\ accepted = 0

Outstanding == Cardinality(pending.asked) + pending.abandoned

Reading == {lane[l].source : l \in Lanes}

\* mapBounded: an idle lane takes the next source of the stage.
Take(l) == \E s \in Stages[stage] :
    /\ lane[l] = Idle /\ report[s] = Unread /\ s \notin Reading
    /\ lane' = [lane EXCEPT ![l] = [source |-> s, pages |-> 0, asking |-> FALSE]]
    /\ UNCHANGED <<stage, pending, budget, overdue, report, accepted>>

NextStage ==
    /\ stage < Len(Stages)
    /\ \A s \in Stages[stage] : report[s] # Unread
    /\ stage' = stage + 1
    /\ UNCHANGED <<lane, pending, budget, overdue, report, accepted>>

\* The read of a source is over.
Report(l, status, partial, pages) ==
    /\ report' = [report EXCEPT ![lane[l].source] =
                    [status |-> status, partial |-> partial, pages |-> pages]]
    /\ lane' = [lane EXCEPT ![l] = Idle]

\* Mutant: the limit of outstanding requests is not looked at.
MayAskAnyway == budget > 0 /\ ~overdue

MayAsk == budget > 0 /\ ~overdue /\ Outstanding < Cardinality(Lanes)

Ask(l) ==
    /\ lane[l] # Idle /\ ~lane[l].asking
    /\ IF MayAsk
       THEN /\ lane' = [lane EXCEPT ![l].asking = TRUE]
            /\ pending' = [pending EXCEPT !.asked = @ \cup {l}]
            /\ UNCHANGED report
       ELSE Report(l, "error", TRUE, lane[l].pages) /\ UNCHANGED pending
    /\ UNCHANGED <<stage, budget, overdue, accepted>>

Answered(l) == pending' = [pending EXCEPT !.asked = @ \ {l}]

\* The budget is read again after the wait: other lanes have spent from it.
Spent(size) == budget - size < 0

\* A page arrives.  The last one ends the read, and so does the page limit.
Page(l) == \E size \in Sizes :
    LET s == lane[l].source
        pages == lane[l].pages + 1
    IN  /\ lane[l].asking
        /\ Answered(l)
        /\ budget' = budget - size
        /\ IF size > MaxReadBytes \/ Spent(size)
           THEN Report(l, "error", TRUE, lane[l].pages) /\ UNCHANGED accepted
           ELSE /\ accepted' = accepted + size
                /\ IF s \notin Lists \/ pages = Length[s] \/ pages = MaxPages
                   THEN Report(l, "available", s \in Lists /\ pages < Length[s], pages)
                   ELSE /\ lane' = [lane EXCEPT ![l].pages = pages, ![l].asking = FALSE]
                        /\ UNCHANGED report
        /\ UNCHANGED <<stage, overdue>>

\* The request is refused or its answer is no list: the pages so far are kept, and a
\* 404 is reported as absent, on a later page as on the first.
Refused(l) == \E status \in {"denied", "absent", "error"} :
    /\ lane[l].asking
    /\ Answered(l)
    /\ Report(l, status, TRUE, lane[l].pages)
    /\ UNCHANGED <<stage, budget, overdue, accepted>>

\* The five seconds of a read, or what the collection has left, are over; the
\* transport may not have let go yet.
GiveUp(l) ==
    /\ lane[l].asking
    /\ pending' = [asked |-> pending.asked \ {l}, abandoned |-> pending.abandoned + 1]
    /\ Report(l, "error", TRUE, lane[l].pages)
    /\ UNCHANGED <<stage, budget, overdue, accepted>>

LetGo ==
    /\ pending.abandoned > 0
    /\ pending' = [pending EXCEPT !.abandoned = @ - 1]
    /\ UNCHANGED <<stage, lane, budget, overdue, report, accepted>>

Deadline ==
    /\ ~overdue
    /\ overdue' = TRUE
    /\ UNCHANGED <<stage, lane, pending, budget, report, accepted>>

Next ==
    \/ NextStage \/ LetGo \/ Deadline
    \/ \E l \in Lanes : Take(l) \/ Ask(l) \/ Page(l) \/ Refused(l) \/ GiveUp(l)

Spec == Init /\ [][Next]_vars

Finished == \A s \in Sources : report[s] # Unread

-----------------------------------------------------------------------------
\* complete(id): what absence findings and the tabs rely on.
Complete(s) == report[s].status = "available" /\ ~report[s].partial

\* The summary says it is partial.
SummaryPartial == \E s \in Sources : report[s].status \in {"denied", "error"} \/ report[s].partial

TypeOK ==
    /\ stage \in DOMAIN Stages
    /\ lane \in [Lanes -> [source : Sources \cup {"none"}, pages : 0..MaxPages, asking : BOOLEAN]]
    /\ pending \in [asked : SUBSET Lanes, abandoned : 0..Cardinality(Lanes)]
    /\ budget \in Int /\ overdue \in BOOLEAN
    /\ report \in [Sources -> [status : {"unread", "available", "denied", "absent", "error"},
                               partial : BOOLEAN, pages : 0..MaxPages]]

\* "Reaching a limit or losing permissions is explicit partial coverage, never a clean
\* result" (docs/policy-posture.md:63): a finished summary that is not partial has every
\* page of every source, and no source that lacks a page counts as complete.
NeverCleanWhenCut ==
    /\ \A s \in Lists : Complete(s) => report[s].pages = Length[s]
    /\ Finished /\ ~SummaryPartial => \A s \in Lists : report[s].pages = Length[s]

\* The lanes together never use more than the budget, although each looks at it before
\* it waits, and never have more requests outstanding than lanes, the abandoned ones
\* included (boundedRequest, policy-posture.js:129-151).
CollectionIsBounded ==
    /\ accepted =< MaxBytes
    /\ Outstanding =< Cardinality(Lanes)
=============================================================================
