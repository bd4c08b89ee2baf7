---------------------------- MODULE CiProviders ----------------------------
(***************************************************************************)
(* One load of a CI instance through its provider client: the adapters     *)
(* github-actions.js, gitlab-ci.js and jenkins.js of src/agent/src/ci and  *)
(* the HTTP client of http.js below them.  The runs of a project are       *)
(* numbered from the newest, 1, and a page is a window of those numbers:   *)
(* what the adapters compute is which windows they ask for, when they stop *)
(* and what they say is missing.                                           *)
(***************************************************************************)
EXTENDS Integers, Sequences, FiniteSets, Functions

CONSTANTS
    Providers,    \* some of "github", "gitlab", "jenkins"
    Projects,     \* sequence: the configured repositories, projects or job roots
    Children,     \* job -> the sequence of the jobs below it
    Histories,    \* the numbers of runs a project may have
    PageSize, MaxRuns, MaxPages, MaxDetails, MaxJobs, MaxDepth,
    Places        \* where a redirect may lead: "inside", "outside"

Jobs == DOMAIN Children

\* What is asked of the constants; who instances the module assumes it.
LimitAssumption ==
    /\ {PageSize, MaxRuns, MaxPages, MaxJobs} \subseteq Nat \ {0}
    /\ {MaxDetails, MaxDepth} \subseteq Nat /\ Histories \subseteq Nat
    /\ Providers \subseteq {"github", "gitlab", "jenkins"}
    /\ Projects \in Seq(Jobs) /\ Children \in [Jobs -> Seq(Jobs)]

VARIABLES
    provider,
    history,    \* project -> the number of runs it has
    todo,       \* the projects still to read, [job, depth], the next one first
    now,        \* the project being read and its pages, or NoJob
    loaded,     \* project -> the runs pushed, in the order pushed
    queued,     \* the queue items pushed (Jenkins)
    issues,     \* what is reported as missing: projects, "details", "queue", "jobs", "runs"
    visited,    \* the Jenkins jobs seen
    details,    \* remainingDetails
    call,       \* the request outstanding: the place it goes to and its hops, or AtRest
    phase,      \* "reading", "queue", "done"
    requests,   \* observation: the requests made, redirects left out
    contacted   \* observation: the places a request was sent to

vars == <<provider, history, todo, now, loaded, queued, issues, visited, details,
          call, phase, requests, contacted>>
settings == <<provider, history>>

NoJob == [job |-> "none"]
AtRest == [place |-> "none", hops |-> 0]

Min2(a, b) == IF a < b THEN a ELSE b

Pushed == UNION {{j} \X DOMAIN loaded[j] : j \in Jobs}
Count == Cardinality(Pushed) + queued
Room == MaxRuns - Count

Init ==
    /\ provider \in Providers
    /\ history \in [Jobs -> Histories]
    /\ todo = [i \in 1..Len(Projects) |-> [job |-> Projects[i], depth |-> 0]]
    /\ now = NoJob /\ call = AtRest /\ phase = "reading"
    /\ loaded = [j \in Jobs |-> <<>>] /\ queued = 0
    /\ issues = {} /\ visited = {} /\ details = MaxDetails
    /\ requests = 0 /\ contacted = {}

\* A project's share of the runs: GitHub divides what is left over the repositories left.
Budget == IF provider = "github" THEN (Room + Len(todo) - 1) \div Len(todo) ELSE Room

\* The adapter turns to its next project; a Jenkins job is visited once and within the limits.
Take ==
    /\ phase = "reading" /\ now = NoJob /\ todo # <<>>
    /\ provider = "github" \/ Room > 0
    /\ provider = "jenkins" => Cardinality(visited) < MaxJobs
    /\ todo' = Tail(todo)
    /\ LET next == Head(todo) IN
       IF provider = "github" /\ Budget = 0
       THEN /\ issues' = issues \cup {next.job}
            /\ UNCHANGED <<now, visited>>
       ELSE IF provider = "jenkins" /\ next.job \in visited
       THEN UNCHANGED <<now, issues, visited>>
       ELSE /\ now' = [job |-> next.job, depth |-> next.depth, page |-> 1, budget |-> Budget,
                       first |-> Min2(PageSize, Budget), offset |-> 0]
            /\ visited' = IF provider = "jenkins" THEN visited \cup {next.job} ELSE visited
            /\ UNCHANGED issues
    /\ UNCHANGED <<settings, loaded, queued, details, call, phase, requests, contacted>>

\* A limit ends the loop over the projects.  A Jenkins limit met among the children of a job
\* is reported; the loops over the GitLab projects and the Jenkins roots just stop.
LimitReached ==
    /\ phase = "reading" /\ now = NoJob /\ todo # <<>> /\ provider # "github"
    /\ Room <= 0 \/ (provider = "jenkins" /\ Cardinality(visited) >= MaxJobs)
    /\ todo' = <<>>
    /\ issues' = IF \E i \in DOMAIN todo : todo[i].depth > 0
                 THEN issues \cup (IF Room <= 0 THEN {"runs"} ELSE {})
                             \cup (IF Cardinality(visited) >= MaxJobs THEN {"jobs"} ELSE {})
                 ELSE issues
    /\ UNCHANGED <<settings, now, loaded, queued, visited, details, call, phase,
                   requests, contacted>>

ProjectsDone ==
    /\ phase = "reading" /\ now = NoJob /\ todo = <<>>
    /\ phase' = IF provider = "jenkins" /\ Room > 0 THEN "queue" ELSE "done"
    /\ UNCHANGED <<settings, todo, now, loaded, queued, issues, visited, details, call,
                   requests, contacted>>

\* client.get: the request for the next page, or for the queue, goes inside the base path.
Request ==
    /\ call = AtRest
    /\ now # NoJob \/ phase = "queue"
    /\ call' = [place |-> "inside", hops |-> 0]
    /\ requests' = requests + 1
    /\ contacted' = contacted \cup {"inside"}
    /\ UNCHANGED <<settings, todo, now, loaded, queued, issues, visited, details, phase>>

\* As if only the hops were counted: a redirect of any target is followed.
FollowsAnywhere(place) == call.hops < 1

\* requestJson: whether a redirect is followed; one that is not rejects the request.
Follows(place) == call.hops < 1 /\ place = "inside"

Redirected == \E place \in Places :
    /\ call # AtRest /\ Follows(place)
    /\ call' = [place |-> place, hops |-> call.hops + 1]
    /\ contacted' = contacted \cup {place}
    /\ UNCHANGED <<settings, todo, now, loaded, queued, issues, visited, details, phase, requests>>

\* The size asked for: what the budget leaves, within the page size.
Asked == IF provider = "github" THEN Min2(PageSize, now.budget - Len(loaded[now.job]))
                                ELSE Min2(PageSize, Room)

\* The runs a page returns: the service counts pages in the size of this request,
\* Jenkins takes an offset.
Window ==
    LET start == IF provider = "jenkins" THEN now.offset ELSE (now.page - 1) * Asked
    IN  [i \in 1..(Min2(start + Asked, history[now.job]) - Min2(start, history[now.job]))
            |-> start + i]

\* Whether another page is asked for after one with these runs.
MorePages(runs, count, room) ==
    /\ now.page < MaxPages /\ room > 0
    /\ CASE provider = "github"  -> Len(runs) = Asked /\ count < Min2(history[now.job], now.budget)
         [] provider = "gitlab"  -> Len(runs) >= Asked
         [] provider = "jenkins" -> Len(runs) = now.first

\* What a Jenkins job adds to the traversal: its children, or the note that they are too deep.
Below == IF provider # "jenkins" THEN <<>>
         ELSE IF now.depth >= MaxDepth THEN <<>>
         ELSE [i \in DOMAIN Children[now.job] |->
                  [job |-> Children[now.job][i], depth |-> now.depth + 1]]
TooDeep == provider = "jenkins" /\ now.depth >= MaxDepth /\ Children[now.job] # <<>>

\* As if only a project whose last allowed page was full were reported.
MissingIfFull(runs, count) ==
    IF Len(runs) = now.first /\ now.page >= MaxPages THEN {now.job} ELSE {}

\* What a project that ended with these runs says is missing.
Missing(runs, count) ==
    (IF provider = "github" /\ count < history[now.job] THEN {now.job} ELSE {})
    \cup (IF provider = "jenkins" /\ Len(runs) = now.first /\ now.page >= MaxPages
          THEN {"runs"} ELSE {})
    \cup (IF TooDeep THEN {"jobs"} ELSE {})

\* The page arrives.  GitLab then reads the details of runs of a first page, some of which
\* may fail.
PageRead ==
    /\ phase = "reading" /\ now # NoJob /\ call # AtRest
    /\ LET runs  == Window
           count == Len(loaded[now.job]) + Len(runs)
           more  == MorePages(runs, count, Room - Len(runs))
       IN  \E wanted \in 0..(IF provider = "gitlab" /\ now.page = 1
                             THEN Min2(details, Len(runs)) ELSE 0) :
           \E failed \in {FALSE} \cup {wanted > 0} :
           /\ loaded' = [loaded EXCEPT ![now.job] = @ \o runs]
           /\ details' = details - wanted
           /\ requests' = requests + wanted
           /\ now' = IF more THEN [now EXCEPT !.page = @ + 1, !.offset = @ + Asked] ELSE NoJob
           /\ todo' = IF more THEN todo ELSE Below \o todo
           /\ issues' = issues \cup (IF failed THEN {"details"} ELSE {})
                               \cup (IF more THEN {} ELSE Missing(runs, count))
    /\ call' = AtRest
    /\ UNCHANGED <<settings, queued, visited, phase, contacted>>

\* The request fails: a status, a timeout, too large or no JSON, a redirect not followed.
\* The project ends with what it has and is reported; the children of a Jenkins job are
\* known once its first page was read.
PageFails ==
    /\ phase = "reading" /\ now # NoJob /\ call # AtRest
    /\ issues' = issues \cup {now.job}
                        \cup (IF now.page > 1 /\ TooDeep THEN {"jobs"} ELSE {})
    /\ todo' = IF now.page > 1 THEN Below \o todo ELSE todo
    /\ now' = NoJob /\ call' = AtRest
    /\ UNCHANGED <<settings, loaded, queued, visited, details, phase, requests, contacted>>

\* The build queue fills the room that is left.
QueueRead == \E n \in Histories :
    /\ phase = "queue" /\ call # AtRest
    /\ queued' = Min2(n, Room)
    /\ issues' = IF n > Room THEN issues \cup {"runs"} ELSE issues
    /\ call' = AtRest /\ phase' = "done"
    /\ UNCHANGED <<settings, todo, now, loaded, visited, details, requests, contacted>>

QueueFails ==
    /\ phase = "queue" /\ call # AtRest
    /\ issues' = issues \cup {"queue"}
    /\ call' = AtRest /\ phase' = "done"
    /\ UNCHANGED <<settings, todo, now, loaded, queued, visited, details, requests, contacted>>

Next == Take \/ LimitReached \/ ProjectsDone \/ Request \/ Redirected \/ PageRead
        \/ PageFails \/ QueueRead \/ QueueFails

Spec == Init /\ [][Next]_vars

-----------------------------------------------------------------------------

TypeOK ==
    /\ history \in [Jobs -> Histories]
    /\ \A j \in Jobs : Range(loaded[j]) \subseteq 1..history[j]
    /\ queued \in Nat /\ details \in 0..MaxDetails
    /\ visited \subseteq Jobs /\ phase \in {"reading", "queue", "done"}

\* docs/ci-pipelines.md:84: a redirect is followed once and inside the base only, and the
\* requests, jobs and runs of a load stay within its limits, whatever the service holds and
\* however the three adapters page through it.
CollectionIsBounded ==
    /\ contacted \subseteq {"inside"}
    /\ Count <= MaxRuns
    /\ call.hops <= 1
    /\ Cardinality(visited) <= MaxJobs
    /\ requests <= (IF provider = "jenkins" THEN MaxJobs ELSE Len(Projects)) * MaxPages
                   + (IF provider = "gitlab" THEN MaxDetails ELSE 1)

\* The GitHub adapter does not call a repository complete (github-actions.js:184-214) without
\* having each of its runs, however the budget was divided and whichever page failed, unless
\* it loaded a run twice: it compares how many it loaded with the total, and a run loaded
\* again, which a last page smaller than the others brings, stands for one left out.
NeverCleanWhenCut ==
    \A i \in DOMAIN Projects :
        /\ phase = "done" /\ provider = "github" /\ Projects[i] \notin issues
        /\ IsInjective(loaded[Projects[i]])
        => Range(loaded[Projects[i]]) = 1..history[Projects[i]]
\* github-actions.js:191, "Only the newest ... workflow runs were loaded": what was loaded of
\* a project are its newest runs, each of them once.
NewestAreLoaded == \A j \in Jobs : Range(loaded[j]) = 1..Len(loaded[j])

=============================================================================
