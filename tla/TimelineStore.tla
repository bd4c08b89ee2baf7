---------------------------- MODULE TimelineStore ----------------------------
(***************************************************************************)
(* The database behind the Timeline, agent/src/timeline/store-worker.js.   *)
(* One file per target holds its events, its baseline (the state row) and  *)
(* the counters of the meta row.  An operation first writes, in one        *)
(* transaction, then enforces retention and quotas, one transaction for    *)
(* every expiry and eviction, then reads its answer.  The process may die  *)
(* between two transactions; the next one starts with an enforcement.      *)
(*                                                                         *)
(* Abstracted: the body of an event (what a merge does to its texts and    *)
(* counts), severity, category and search filters, SQLite's own overhead   *)
(* and VACUUM: a row takes one unit of the quotas.                         *)
(***************************************************************************)
EXTENDS Integers, Sequences, FiniteSetsExt

CONSTANTS
    Targets,
    Identities,   \* what dedup hashes: source and identity of an event
    NamespaceOf,  \* [Identities -> namespace]
    Readers,      \* [reader -> [target, namespace]]: who follows a target
    Batches,      \* per target, what append is called with: sequences of [id, occurred]
    Retentions,   \* retentionDays
    Limit,        \* of list
    MaxTargetRows, MaxTotalRows,  \* maxTargetBytes, maxTotalBytes
    MaxSequence,  \* bound on the sequence numbers of each target
    MaxClock      \* bound on the clock

Everywhere == "every namespace"
Idle == [op |-> "idle"]
\* An operation that only enforces, once it has written what it writes.
Enforcing == [op |-> "enforce"]

\* What is asked of the constants; who instances the module assumes it.
StoreAssumption ==
    /\ IsFiniteSet(Targets) /\ IsFiniteSet(Identities)
    /\ Retentions \subseteq Nat /\ \E longest \in Retentions : \A days \in Retentions : days =< longest
    /\ {Limit, MaxTargetRows, MaxTotalRows, MaxClock} \subseteq Nat
    /\ MaxSequence \in [Targets -> Nat]
    /\ Limit > 0
    /\ Batches \in [Targets -> SUBSET Seq([id : Identities, occurred : Nat])]
    /\ \A r \in DOMAIN Readers : Readers[r].target \in Targets

VARIABLES
    clock,
    events,    \* per target: its rows [id, seq, occurred]
    state,     \* per target: when its baseline was saved, or -1
    meta,      \* per target: [seq, retention, pruned]
    task,      \* the operation the worker is in, or Idle
    left,      \* targets this enforcement has not expired yet
    \* observations, read by no action of the worker
    inserted,  \* per target: rows ever inserted
    reader     \* per reader: [after, tail, seen]; tail is the place of its cursor
               \* to older rows, 0 when it has reached the end

vars == <<clock, events, state, meta, task, left, inserted, reader>>
data == <<events, state, meta, inserted>>

Operations == {Enforcing} \cup [op : {"newest", "newer", "older"}, reader : DOMAIN Readers]

Init ==
    /\ clock = 0
    /\ events = [t \in Targets |-> {}]
    /\ state = [t \in Targets |-> -1]
    /\ meta = [t \in Targets |-> [seq |-> 0, retention |-> Max(Retentions), pruned |-> 0]]
    /\ task = Enforcing /\ left = Targets
    /\ inserted = [t \in Targets |-> 0]
    /\ reader = [r \in DOMAIN Readers |-> [after |-> -1, tail |-> 0, seen |-> {}]]

Cutoff(t) == clock - meta[t].retention

Begin(operation) ==
    /\ task = Idle
    /\ task' = operation
    /\ left' = Targets
    /\ UNCHANGED <<clock, reader>>

\* One event of append: a known identity takes a new sequence number.  `kept' is
\* the transaction so far: [rows, seq, added].
Upsert(kept, event, from) ==
    LET known == {r \in kept.rows : r.id = event.id}
        occurred == Max({event.occurred} \cup {r.occurred : r \in known})
    IN IF occurred < from THEN kept
       ELSE [rows |-> (kept.rows \ known)
                      \cup {[id |-> event.id, seq |-> kept.seq + 1, occurred |-> occurred]},
             seq |-> kept.seq + 1,
             added |-> IF known = {} THEN kept.added + 1 ELSE kept.added]

\* The transaction after all events of a batch.  A recursive function, so that it can be
\* reasoned about.
Kept(start, batch, from) ==
    LET after[i \in 0..Len(batch)] == IF i = 0 THEN start ELSE Upsert(after[i - 1], batch[i], from)
    IN  after[Len(batch)]

\* append(): at most 100 events, refused as a whole when one is malformed.
AppendBatch(t) ==
    \E batch \in Batches[t] :
        LET kept == Kept([rows |-> events[t], seq |-> meta[t].seq, added |-> 0], batch, Cutoff(t))
        IN /\ kept.seq =< MaxSequence[t]
           /\ \A i \in DOMAIN batch : batch[i].occurred =< clock
           /\ Begin(Enforcing)
           /\ events' = [events EXCEPT ![t] = kept.rows]
           /\ meta' = [meta EXCEPT ![t].seq = kept.seq]
           /\ inserted' = [inserted EXCEPT ![t] = @ + kept.added]
           /\ UNCHANGED state

\* dispatch(): saveState and prune write one row, then enforce.
SaveState(t) ==
    /\ Begin(Enforcing)
    /\ state' = [state EXCEPT ![t] = clock]
    /\ UNCHANGED <<events, meta, inserted>>

Prune(t) ==
    \E days \in Retentions :
        /\ days # meta[t].retention
        /\ Begin(Enforcing)
        /\ meta' = [meta EXCEPT ![t].retention = days]
        /\ UNCHANGED <<events, state, inserted>>

\* stats, detail, status, getState: nothing but the enforcement changes anything.
Look == Begin(Enforcing) /\ UNCHANGED data

\* list(): the first page, what is new since `after', and what a cursor continues.
List(r) ==
    /\ \/ Begin([op |-> "newest", reader |-> r])
       \/ reader[r].after >= 0 /\ Begin([op |-> "newer", reader |-> r])
       \/ reader[r].tail > 0 /\ Begin([op |-> "older", reader |-> r])
    /\ UNCHANGED data

-----------------------------------------------------------------------------
(* enforce() *)

StateRows(t) == IF state[t] >= 0 THEN 1 ELSE 0
\* liveBytes()
Size(t) == Cardinality(events[t]) + StateRows(t)
Total == SumFunction([t \in Targets |-> Size(t)])
InQuota(ts) == \A t \in ts : Size(t) =< MaxTargetRows

RemoveRowsUncounted(t, rows) ==
    /\ events' = [events EXCEPT ![t] = @ \ rows]
    /\ UNCHANGED meta

\* removeEvents(): counted as pruned in the same transaction.
RemoveRows(t, rows) ==
    /\ events' = [events EXCEPT ![t] = @ \ rows]
    /\ meta' = [meta EXCEPT ![t].pruned = @ + Cardinality(rows)]

\* expire(), of the next target; the ones before it are within their quota.
Expire(t) ==
    /\ t \in left /\ InQuota(Targets \ left)
    /\ left' = left \ {t}
    /\ RemoveRows(t, {r \in events[t] : r.occurred < Cutoff(t)})
    /\ state' = [state EXCEPT ![t] = IF @ < Cutoff(t) THEN -1 ELSE @]
    /\ UNCHANGED <<clock, task, inserted, reader>>

OldestBySequence(t) ==
    CHOOSE r \in events[t] : \A other \in events[t] : r.seq =< other.seq

\* oldest(): an event or the baseline, the event if they are of the same time.
OldestEvent(t) ==
    CHOOSE r \in events[t] : \A other \in events[t] :
        \/ r.occurred < other.occurred
        \/ r.occurred = other.occurred /\ r.seq =< other.seq

StateIsOldest(t) ==
    state[t] >= 0 /\ (events[t] = {} \/ state[t] < OldestEvent(t).occurred)
OldestTime(t) == IF StateIsOldest(t) THEN state[t] ELSE OldestEvent(t).occurred

\* evict()
Evict(t) ==
    /\ IF StateIsOldest(t)
       THEN state' = [state EXCEPT ![t] = -1] /\ UNCHANGED <<events, meta>>
       ELSE RemoveRows(t, {OldestEvent(t)}) /\ UNCHANGED state
    /\ UNCHANGED <<clock, task, left, inserted, reader>>

EvictOverTarget(t) ==
    /\ task # Idle
    /\ t \notin left /\ Size(t) > MaxTargetRows
    /\ Evict(t)

EvictOverTotal(t) ==
    /\ task # Idle
    /\ left = {} /\ InQuota(Targets) /\ Total > MaxTotalRows
    /\ Size(t) > 0
    /\ \A other \in Targets : Size(other) > 0 => OldestTime(t) =< OldestTime(other)
    /\ Evict(t)

Enforced == left = {} /\ InQuota(Targets) /\ Total =< MaxTotalRows

-----------------------------------------------------------------------------
(* The answer, and what a reader makes of it *)

Matching(r) ==
    {e \in events[Readers[r].target] :
        Readers[r].namespace \in {Everywhere, NamespaceOf[e.id]}}
\* The first rows of `rows' in ascending or descending order of seq.
FirstRows(rows) == {e \in rows : Cardinality({d \in rows : d.seq < e.seq}) < Limit}
LastRows(rows) == {e \in rows : Cardinality({d \in rows : d.seq > e.seq}) < Limit}
Seqs(rows) == {e.seq : e \in rows}

NextAfterAlwaysNewest(rows, items, seq) == seq
\* `after' of an ascending page: where the next one starts.
NextAfter(rows, items, seq) == IF rows # items THEN Max(Seqs(items)) ELSE seq
\* The cursor of a descending page.
NextTail(rows, items) == IF rows # items THEN Min(Seqs(items)) ELSE 0

Newest(r) ==
    LET rows == Matching(r) items == LastRows(rows) IN
    reader' = [reader EXCEPT ![r] = [after |-> meta[Readers[r].target].seq,
                                     tail |-> NextTail(rows, items), seen |-> items]]
Newer(r) ==
    LET rows == {e \in Matching(r) : e.seq > reader[r].after} items == FirstRows(rows) IN
    reader' = [reader EXCEPT ![r] = [after |-> NextAfter(rows, items, meta[Readers[r].target].seq),
                                     tail |-> @.tail, seen |-> @.seen \cup items]]
Older(r) ==
    LET rows == {e \in Matching(r) : e.seq < reader[r].tail} items == LastRows(rows) IN
    reader' = [reader EXCEPT ![r] = [after |-> @.after, tail |-> NextTail(rows, items),
                                     seen |-> @.seen \cup items]]

Answer ==
    /\ task # Idle /\ Enforced
    /\ \/ task.op = "newest" /\ Newest(task.reader)
       \/ task.op = "newer" /\ Newer(task.reader)
       \/ task.op = "older" /\ Older(task.reader)
       \/ task = Enforcing /\ UNCHANGED reader
    /\ task' = Idle
    /\ UNCHANGED <<clock, data, left>>

\* The process dies between two transactions, and is started again.
Crash ==
    /\ task # Idle
    /\ task' = Enforcing /\ left' = Targets
    /\ UNCHANGED <<clock, data, reader>>

Tick ==
    /\ clock < MaxClock
    /\ clock' = clock + 1
    /\ UNCHANGED <<data, task, left, reader>>

Next ==
    \/ \E t \in Targets : \/ AppendBatch(t) \/ SaveState(t) \/ Prune(t)
                          \/ Expire(t) \/ EvictOverTarget(t) \/ EvictOverTotal(t)
    \/ \E r \in DOMAIN Readers : List(r)
    \/ Look \/ Answer \/ Crash \/ Tick

Spec == Init /\ [][Next]_vars

-----------------------------------------------------------------------------

Row(t) == [id : Identities, seq : 1..MaxSequence[t], occurred : 0..MaxClock]

\* Types: at most one row per identity and per sequence number, none beyond the
\* counter; every row that was inserted is there or was counted as pruned.
TypeOK ==
    /\ clock \in 0..MaxClock
    /\ task = Idle \/ task \in Operations
    /\ left \subseteq Targets
    /\ \A t \in Targets :
        /\ events[t] \subseteq Row(t)
        /\ \A a, b \in events[t] : a.id = b.id \/ a.seq = b.seq => a = b
        /\ \A r \in events[t] : r.seq =< meta[t].seq
        /\ state[t] \in -1..MaxClock
        /\ meta[t].retention \in Retentions
        /\ meta[t].pruned + Cardinality(events[t]) = inserted[t]

\* A reader that loads the newest page, follows `after' and pages back with the
\* cursor has every row of its filter that still exists between its two ends,
\* though rows are repeated (and move), expired and evicted between its calls.
ReaderMissesNothing ==
    \A r \in DOMAIN Readers : reader[r].after >= 0 =>
        \A e \in Matching(r) :
            reader[r].tail =< e.seq /\ e.seq =< reader[r].after => e \in reader[r].seen

\* What quotas and retention take away is never newer than what they leave, the
\* baseline included.
OldestGoFirst ==
    [][\A t \in Targets : left' \subseteq left /\ task = task' =>
         /\ \A gone \in events[t] \ events'[t], kept \in events'[t] :
                gone.occurred =< kept.occurred
         /\ state[t] >= 0 /\ state'[t] < 0 =>
                \A kept \in events'[t] : state[t] =< kept.occurred
         /\ events[t] # events'[t] /\ state'[t] >= 0 =>
                \A gone \in events[t] \ events'[t] : gone.occurred =< state'[t]]_vars

\* An answer leaves every file within the quotas.
QuotaHolds == task = Idle => InQuota(Targets) /\ Total =< MaxTotalRows
=============================================================================
