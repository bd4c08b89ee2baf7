---------------------------- MODULE TimelineProofs ----------------------------
(***************************************************************************)
(* Proofs about TimelineCollector for any objects, sources, versions and   *)
(* any number of overlapping collectors of the target.                     *)
(***************************************************************************)
EXTENDS TimelineCollector, FiniteSetTheorems, TLAPS


-----------------------------------------------------------------------------
(* Lemmas about polls and the events reduced from them                       *)

\* listSource sees every object of a source that fits into the window.
LEMMA VisibleIfFits ==
    ASSUME WindowSuffices, TypeOK, NEW o \in Objects
    PROVE  Visible(o) <=> Exists(o)
<1> DEFINE before  == {p \in Objects : SourceOf[p] = SourceOf[o] /\ p < o}
           existing == {p \in Objects : Exists(p) /\ SourceOf[p] = SourceOf[o] /\ p < o}
<1>1. IsFiniteSet(before) /\ existing \subseteq before
  BY ObjectAssumption, FS_Subset
<1>2. Cardinality(existing) =< Cardinality(before)
  BY <1>1, ObjectAssumption, FS_Subset
<1>3. Cardinality(existing) \in Nat /\ Cardinality(before) \in Nat
  BY <1>1, FS_Subset, FS_CardinalityType
<1>4. Cardinality(before) < Window
  BY DEF WindowSuffices
<1>5. QED
  BY <1>2, <1>3, <1>4, BoundAssumption DEF Visible

\* A poll maps every object to a mark.
LEMMA SnapshotType ==
    ASSUME TypeOK, NEW failed, NEW crds
    PROVE  Snapshot(failed, crds) \in Snapshots
  BY BoundAssumption DEF Snapshot, Snapshots, Marks, NoSource, Absent, Stripped, TypeOK, Visible, Exists

\* reduceTimelineSnapshot yields events.
LEMMA ReduceType ==
    ASSUME NEW before \in Snapshots, NEW now \in Snapshots
    PROVE  Reduce(before, now) \subseteq Events
<1> SUFFICES ASSUME NEW o \in Objects
             PROVE  Difference(o, before, now) \in Events
  BY DEF Reduce
<1>1. before[o] \in Marks /\ now[o] \in Marks
  BY DEF Snapshots
<1>2. QED
  BY <1>1 DEF Difference, Event, Events

\* sanitizeState yields a baseline.
LEMMA SanitizeType ==
    ASSUME NEW snapshot \in Snapshots
    PROVE  Sanitize(snapshot) \in Snapshots
  BY DEF Sanitize, Snapshots, Marks

LEMMA EmptyType == EmptyBaseline \in Snapshots
  BY DEF EmptyBaseline, Snapshots, Marks

-----------------------------------------------------------------------------
(* Types                                                                     *)

LEMMA TypeInit == Init => TypeOK
<1> SUFFICES ASSUME Init PROVE TypeOK
  OBVIOUS
<1>1. version \in [Objects -> 0..MaxVersion]
  BY BoundAssumption DEF Init
<1>2. QED
  BY <1>1, EmptyType DEF Init, TypeOK, Phases

\* The end of a collection leaves well-typed collectors.
LEMMA TypeStep == TypeOK /\ [Next]_vars => TypeOK'
<1> SUFFICES ASSUME TypeOK, [Next]_vars
             PROVE  TypeOK'
  OBVIOUS
<1> USE EmptyType DEF TypeOK, Phases, clusterVars, storeVars, collectorVars
<1>1. ASSUME NEW o \in Objects, Create(o) \/ Update(o) \/ Delete(o) PROVE TypeOK'
  BY <1>1, BoundAssumption DEF Create, Update, Delete, Exists
<1>2. ASSUME NEW c \in Collectors, Enable(c) \/ Heartbeat(c) \/ Disable(c) PROVE TypeOK'
  <2>1. CASE Enable(c)
    BY <1>2, <2>1 DEF Enable
  <2>2. CASE Heartbeat(c)
    BY <1>2, <2>2 DEF Heartbeat
  <2>3. CASE Disable(c)
    BY <1>2, <2>3 DEF Disable
  <2>4. QED
    BY <1>2, <2>1, <2>2, <2>3
<1>3. ASSUME NEW c \in Collectors, Restored(c) \/ RestoreFails(c) \/ TimerFires(c) PROVE TypeOK'
  <2>1. CASE Restored(c)
    BY <1>3, <2>1 DEF Restored
  <2>2. CASE RestoreFails(c)
    BY <1>3, <2>2 DEF RestoreFails
  <2>3. CASE TimerFires(c)
    BY <1>3, <2>3 DEF TimerFires, Running
  <2>4. QED
    BY <1>3, <2>1, <2>2, <2>3
<1>4. ASSUME NEW c \in Collectors, Listed(c) PROVE TypeOK'
  <2>1. PICK failed \in SUBSET Sources, crds \in BOOLEAN :
          LET now == Snapshot(failed, crds)
              events == Reduce(baseline[c], now)
          IN  /\ listed' = [listed EXCEPT ![c] = now]
              /\ pending' = [pending EXCEPT ![c] = events]
              /\ IF events = {} THEN Advance(c, now, {})
                 ELSE /\ phase' = [phase EXCEPT ![c] = "appending"]
                      /\ UNCHANGED <<baseline, settled>>
    BY <1>4 DEF Listed
  <2> DEFINE now == Snapshot(failed, crds)
             events == Reduce(baseline[c], now)
  <2>2. now \in Snapshots /\ events \subseteq Events
    BY SnapshotType, ReduceType
  <2> HIDE DEF now, events
  <2>3. CASE events = {}
    BY <1>4, <2>1, <2>2, <2>3 DEF Listed, Advance, now, events
  <2>4. CASE events # {}
    BY <1>4, <2>1, <2>2, <2>4 DEF Listed, now, events
  <2>5. QED
    BY <2>3, <2>4
<1>5. ASSUME NEW c \in Collectors, ListFails(c) PROVE TypeOK'
  BY <1>5 DEF ListFails, Finish
<1>6. ASSUME NEW c \in Collectors, Appended(c) PROVE TypeOK'
  <2>1. PICK batch \in Batches(c) :
          /\ recorded' = recorded \cup batch
          /\ pending' = [pending EXCEPT ![c] = @ \ batch]
          /\ IF batch = pending[c]
             THEN Advance(c, listed[c], Reduce(baseline[c], listed[c]))
             ELSE UNCHANGED <<phase, baseline, settled>>
    BY <1>6 DEF Appended
  <2>2. batch \subseteq pending[c] /\ pending[c] \subseteq Events
    BY DEF Batches
  <2>3. Reduce(baseline[c], listed[c]) \subseteq Events
    BY ReduceType
  <2>4. CASE batch = pending[c]
    BY <1>6, <2>1, <2>2, <2>3, <2>4 DEF Appended, Advance
  <2>5. CASE batch # pending[c]
    BY <1>6, <2>1, <2>2, <2>5 DEF Appended
  <2>6. QED
    BY <2>4, <2>5
<1>7. ASSUME NEW c \in Collectors, AppendFails(c) PROVE TypeOK'
  BY <1>7 DEF AppendFails, Finish, Batches
<1>8. ASSUME NEW c \in Collectors, Saved(c) \/ SaveFails(c) PROVE TypeOK'
  <2>1. persisted' \in Snapshots
    BY <1>8, SanitizeType DEF Saved, SaveFails
  <2>2. /\ phase[c] = "saving" /\ Finish(c)
        /\ UNCHANGED <<clusterVars, current, stopped, baseline, settled, recorded>>
    BY <1>8 DEF Saved, SaveFails
  <2>3. QED
    BY <2>1, <2>2 DEF Finish
<1>9. CASE BaselineExpires
  BY <1>9 DEF BaselineExpires
<1>10. CASE Restart
  BY <1>10 DEF Restart
<1>11. CASE UNCHANGED vars
  BY <1>11 DEF vars
<1>12. QED
  <2> HIDE DEF TypeOK, Phases, clusterVars, storeVars, collectorVars
  <2> QED
  BY <1>1, <1>2, <1>3, <1>4, <1>5, <1>6, <1>7, <1>8, <1>9, <1>10, <1>11
     DEF Next, Cluster, ApplyDesiredConfig, Collect

\* Every reachable state is well typed; events wait only while they are appended.
THEOREM TypeCorrect == Spec => []TypeOK
  BY TypeInit, TypeStep, PTL DEF Spec
-----------------------------------------------------------------------------
(* What is recorded is true                                                  *)

\* What a mark of a snapshot, however old, says of the object now.
MarkTrue(o, mark) ==
    /\ mark \in 1..MaxVersion => mark =< version[o]
    /\ Holds(mark) => version[o] > 0
    /\ mark = Stripped => \E v \in 1..version[o] : <<o, v>> \in Altered
    /\ mark = Absent /\ o \in Preexisting => o \in deleted

Faithful(snapshot) == snapshot \in Snapshots /\ \A o \in Objects : MarkTrue(o, snapshot[o])

\* What an event says of the object.
Truthful(e) ==
    /\ e.what = "deleted" => e.object \in deleted
    /\ e.what = "created" => e.object \notin Preexisting
    /\ e.what = "changed" =>
            \/ e.from \in 1..MaxVersion /\ e.from < e.to
            \/ e.from = Stripped /\ \E v \in 1..e.to : <<e.object, v>> \in Altered

PreexistingExists == \A o \in Preexisting : version[o] > 0

EventsTruthful ==
    /\ \A e \in recorded : Truthful(e)
    /\ \A c \in Collectors : \A e \in pending[c] : Truthful(e)

\* The invariant: the events alone are not inductive, since they are reduced from
\* baselines taken long before, by this process or an earlier one.
Truth ==
    /\ PreexistingExists
    /\ Faithful(persisted)
    /\ \A c \in Collectors : Faithful(baseline[c]) /\ Faithful(listed[c])
    /\ EventsTruthful

\* A poll is faithful to the cluster at the moment it is read.
LEMMA SnapshotFaithful ==
    ASSUME WindowSuffices, TypeOK, PreexistingExists, NEW failed, NEW crds
    PROVE  Faithful(Snapshot(failed, crds))
<1>1. Snapshot(failed, crds) \in Snapshots
  BY SnapshotType
<1>2. ASSUME NEW o \in Objects PROVE MarkTrue(o, Snapshot(failed, crds)[o])
  <2>1. Visible(o) <=> Exists(o)
    BY VisibleIfFits
  <2>2. \/ Snapshot(failed, crds)[o] = NoSource
        \/ Snapshot(failed, crds)[o] = version[o] /\ Exists(o)
        \/ Snapshot(failed, crds)[o] = Absent /\ ~Exists(o)
    BY <2>1 DEF Snapshot
  <2>3. QED
    BY <2>2, BoundAssumption
       DEF MarkTrue, Exists, PreexistingExists, TypeOK, Holds, NoSource, Absent, Stripped
<1>3. QED
  BY <1>1, <1>2 DEF Faithful

\* sanitizeState forgets a version only where it alters it.
LEMMA SanitizeFaithful ==
    ASSUME TypeOK, NEW snapshot, Faithful(snapshot)
    PROVE  Faithful(Sanitize(snapshot))
<1>1. Sanitize(snapshot) \in Snapshots
  BY SanitizeType DEF Faithful
<1>2. ASSUME NEW o \in Objects PROVE MarkTrue(o, Sanitize(snapshot)[o])
  <2>1. MarkTrue(o, snapshot[o]) /\ version[o] \in 0..MaxVersion
    BY DEF Faithful, TypeOK
  <2>2. CASE <<o, snapshot[o]>> \in Altered
    <3>1. snapshot[o] \in 1..MaxVersion
      BY <2>2, AlteredAssumption
    <3>2. snapshot[o] \in 1..version[o] /\ version[o] > 0
      BY <2>1, <3>1, BoundAssumption DEF MarkTrue
    <3>3. Sanitize(snapshot)[o] = Stripped
      BY <2>2 DEF Sanitize
    <3>4. QED
      BY <2>2, <3>2, <3>3, BoundAssumption DEF MarkTrue, Stripped, Absent
  <2>3. CASE <<o, snapshot[o]>> \notin Altered
    BY <2>1, <2>3 DEF Sanitize
  <2>4. QED
    BY <2>2, <2>3
<1>3. QED
  BY <1>1, <1>2 DEF Faithful

LEMMA EmptyFaithful == Faithful(EmptyBaseline)
  BY EmptyType DEF Faithful, MarkTrue, EmptyBaseline, Holds, NoSource, Absent, Stripped

\* The differences between a faithful baseline and a poll are true.
LEMMA ReduceTruthful ==
    ASSUME WindowSuffices, TypeOK, PreexistingExists, NEW before, Faithful(before),
           NEW failed, NEW crds, NEW e \in Reduce(before, Snapshot(failed, crds))
    PROVE  Truthful(e)
<1> DEFINE now == Snapshot(failed, crds)
<1>1. PICK o \in Objects : /\ before[o] # NoSource /\ now[o] # NoSource /\ before[o] # now[o]
                           /\ e = Difference(o, before, now)
  BY DEF Reduce
<1>2. \/ now[o] = version[o] /\ Exists(o)
      \/ now[o] = Absent /\ ~Exists(o)
  BY <1>1, VisibleIfFits DEF Snapshot
<1>3. before[o] \in Marks /\ MarkTrue(o, before[o])
  BY DEF Faithful, Snapshots
<1> HIDE DEF now
<1>4. CASE now[o] = Absent /\ ~Exists(o)
  BY <1>1, <1>3, <1>4, BoundAssumption
     DEF Truthful, Difference, Event, MarkTrue, Exists, Holds, Marks, NoSource, Absent, Stripped, TypeOK
<1>5. CASE now[o] = version[o] /\ Exists(o)
  BY <1>1, <1>3, <1>5, BoundAssumption
     DEF Truthful, Difference, Event, MarkTrue, Exists, Holds, Marks, NoSource, Absent, Stripped, TypeOK
<1>6. QED
  BY <1>2, <1>4, <1>5

\* Time only adds versions and deletions.
LEMMA ClusterGrows ==
    ASSUME TypeOK, [Next]_vars
    PROVE  /\ version' \in [Objects -> 0..MaxVersion]
           /\ \A o \in Objects : version[o] =< version'[o]
           /\ deleted \subseteq deleted'
<1>1. version' \in [Objects -> 0..MaxVersion]
  BY TypeStep DEF TypeOK
<1>2. ASSUME NEW o \in Objects, Create(o) \/ Update(o) \/ Delete(o)
      PROVE  (\A p \in Objects : version[p] =< version'[p]) /\ deleted \subseteq deleted'
  BY <1>2, BoundAssumption DEF Create, Update, Delete, TypeOK
<1>3. CASE UNCHANGED clusterVars
  BY <1>3 DEF clusterVars, TypeOK
<1>4. UNCHANGED clusterVars \/ \E o \in Objects : Create(o) \/ Update(o) \/ Delete(o)
  BY DEF Next, Cluster, ApplyDesiredConfig, Collect, vars, clusterVars, Enable, Heartbeat, Disable,
         Restored, RestoreFails, TimerFires, Listed, ListFails, Appended, AppendFails, Saved,
         SaveFails, BaselineExpires, Restart
<1>5. QED
  BY <1>1, <1>2, <1>3, <1>4
\* The same claims, made of the cluster after the step.
FaithfulLater(snapshot) ==
    /\ snapshot \in Snapshots
    /\ \A o \in Objects :
        /\ snapshot[o] \in 1..MaxVersion => snapshot[o] =< version'[o]
        /\ Holds(snapshot[o]) => version'[o] > 0
        /\ snapshot[o] = Stripped => \E v \in 1..version'[o] : <<o, v>> \in Altered
        /\ snapshot[o] = Absent /\ o \in Preexisting => o \in deleted'

TruthfulLater(e) ==
    /\ e.what = "deleted" => e.object \in deleted'
    /\ e.what = "created" => e.object \notin Preexisting
    /\ e.what = "changed" =>
            \/ e.from \in 1..MaxVersion /\ e.from < e.to
            \/ e.from = Stripped /\ \E v \in 1..e.to : <<e.object, v>> \in Altered

\* What was true of the cluster stays true.
LEMMA StaysTrue ==
    ASSUME TypeOK, [Next]_vars
    PROVE  /\ \A snapshot : Faithful(snapshot) => FaithfulLater(snapshot)
           /\ \A e : Truthful(e) => TruthfulLater(e)
<1>1. /\ version' \in [Objects -> 0..MaxVersion]
      /\ \A o \in Objects : version[o] =< version'[o]
      /\ deleted \subseteq deleted'
  BY ClusterGrows
<1>2. version \in [Objects -> 0..MaxVersion]
  BY DEF TypeOK
<1>3. ASSUME NEW snapshot, Faithful(snapshot) PROVE FaithfulLater(snapshot)
  BY <1>1, <1>2, <1>3, BoundAssumption DEF Faithful, FaithfulLater, MarkTrue
<1>4. ASSUME NEW e, Truthful(e) PROVE TruthfulLater(e)
  BY <1>1, <1>4 DEF Truthful, TruthfulLater
<1>5. QED
  BY <1>3, <1>4

LEMMA TruthInit == Init => Truth
  BY EmptyFaithful, ObjectAssumption DEF Init, Truth, PreexistingExists, EventsTruthful

LEMMA TruthStep ==
    ASSUME WindowSuffices, TypeOK, Truth, [Next]_vars
    PROVE  Truth'
<1> DEFINE SnapshotsLater == /\ FaithfulLater(persisted')
                             /\ \A c \in Collectors : /\ FaithfulLater(baseline'[c])
                                                      /\ FaithfulLater(listed'[c])
           EventsLater == /\ \A e \in recorded' : TruthfulLater(e)
                          /\ \A c \in Collectors : \A e \in pending'[c] : TruthfulLater(e)
           Later == SnapshotsLater /\ EventsLater
<1>1. PreexistingExists'
  BY ClusterGrows, ObjectAssumption, BoundAssumption DEF PreexistingExists, Truth, TypeOK
<1>2. /\ FaithfulLater(persisted) /\ FaithfulLater(EmptyBaseline)
      /\ \A c \in Collectors : /\ FaithfulLater(baseline[c]) /\ FaithfulLater(listed[c])
                               /\ FaithfulLater(Sanitize(baseline[c]))
  BY StaysTrue, EmptyFaithful, SanitizeFaithful DEF Truth
<1>3. /\ \A e \in recorded : TruthfulLater(e)
      /\ \A c \in Collectors : \A e \in pending[c] : TruthfulLater(e)
  BY StaysTrue DEF Truth, EventsTruthful
<1> USE DEF TypeOK, clusterVars, storeVars, collectorVars
<1>4. ASSUME NEW o \in Objects, Create(o) \/ Update(o) \/ Delete(o) PROVE Later
  BY <1>2, <1>3, <1>4 DEF Create, Update, Delete
<1>5. ASSUME NEW c \in Collectors, Enable(c) \/ Heartbeat(c) \/ Disable(c) PROVE Later
  BY <1>2, <1>3, <1>5 DEF Enable, Heartbeat, Disable
<1>6. ASSUME NEW c \in Collectors, Restored(c) \/ RestoreFails(c) \/ TimerFires(c) PROVE Later
  BY <1>2, <1>3, <1>6 DEF Restored, RestoreFails, TimerFires
<1>7. ASSUME NEW c \in Collectors, Listed(c) PROVE Later
  <2>1. PICK failed \in SUBSET Sources, crds \in BOOLEAN :
          LET now == Snapshot(failed, crds)
              events == Reduce(baseline[c], now)
          IN  /\ listed' = [listed EXCEPT ![c] = now]
              /\ pending' = [pending EXCEPT ![c] = events]
              /\ IF events = {} THEN Advance(c, now, {})
                 ELSE /\ phase' = [phase EXCEPT ![c] = "appending"]
                      /\ UNCHANGED <<baseline, settled>>
    BY <1>7 DEF Listed
  <2> DEFINE now == Snapshot(failed, crds)
             events == Reduce(baseline[c], now)
  <2>2. FaithfulLater(now)
    BY StaysTrue, SnapshotFaithful DEF Truth
  <2>3. \A e \in events : TruthfulLater(e)
    BY StaysTrue, ReduceTruthful DEF Truth
  <2> HIDE DEF now, events
  <2>4. /\ listed' = [listed EXCEPT ![c] = now]
        /\ pending' = [pending EXCEPT ![c] = events]
        /\ baseline' \in {baseline, [baseline EXCEPT ![c] = now]}
    BY <2>1 DEF Advance, now, events
  <2>5. UNCHANGED <<persisted, recorded>>
    BY <1>7 DEF Listed
  <2>6. QED
    BY <1>2, <1>3, <2>2, <2>3, <2>4, <2>5
<1>8. ASSUME NEW c \in Collectors, ListFails(c) PROVE Later
  BY <1>2, <1>3, <1>8 DEF ListFails, Finish
<1>9. ASSUME NEW c \in Collectors, Appended(c) PROVE Later
  <2>1. PICK batch \in Batches(c) :
          /\ recorded' = recorded \cup batch
          /\ pending' = [pending EXCEPT ![c] = @ \ batch]
          /\ IF batch = pending[c]
             THEN Advance(c, listed[c], Reduce(baseline[c], listed[c]))
             ELSE UNCHANGED <<phase, baseline, settled>>
    BY <1>9 DEF Appended
  <2>2. batch \subseteq pending[c]
    BY DEF Batches
  <2>3. baseline' \in {baseline, [baseline EXCEPT ![c] = listed[c]]}
    BY <2>1 DEF Advance
  <2>4. UNCHANGED <<persisted, listed>>
    BY <1>9 DEF Appended
  <2>5. QED
    BY <1>2, <1>3, <2>1, <2>2, <2>3, <2>4
<1>10. ASSUME NEW c \in Collectors, AppendFails(c) PROVE Later
  BY <1>2, <1>3, <1>10 DEF AppendFails, Finish, Batches
<1>11. ASSUME NEW c \in Collectors, Saved(c) \/ SaveFails(c) PROVE Later
  <2>1. persisted' \in {persisted, Sanitize(baseline[c])} /\ Finish(c) /\ UNCHANGED <<baseline, recorded>>
    BY <1>11 DEF Saved, SaveFails
  <2>2. QED
    BY <1>2, <1>3, <2>1 DEF Finish
<1>12. ASSUME BaselineExpires PROVE Later
  BY <1>2, <1>3, <1>12 DEF BaselineExpires
<1>13. ASSUME Restart PROVE Later
  BY <1>2, <1>3, <1>13 DEF Restart
<1>14. ASSUME UNCHANGED vars PROVE Later
  BY <1>2, <1>3, <1>14 DEF vars
<1>15. Later
  <2> HIDE DEF TypeOK, clusterVars, storeVars, collectorVars, Later
  <2> QED
    BY <1>4, <1>5, <1>6, <1>7, <1>8, <1>9, <1>10, <1>11, <1>12, <1>13, <1>14
       DEF Next, Cluster, ApplyDesiredConfig, Collect
<1>16. QED
  BY <1>1, <1>15 DEF Truth, Faithful, FaithfulLater, MarkTrue, EventsTruthful, Truthful, TruthfulLater

LEMMA TruthCorrect ==
    ASSUME WindowSuffices
    PROVE  Spec => [](TypeOK /\ Truth)
<1>1. Init => TypeOK /\ Truth
  BY TypeInit, TruthInit
<1>2. (TypeOK /\ Truth) /\ [Next]_vars => (TypeOK /\ Truth)'
  BY TypeStep, TruthStep
<1>3. QED
  BY <1>1, <1>2, PTL DEF Spec

\* While no source outgrows the window, whatever is recorded as deleted was deleted:
\* through failed sources, restarts on old baselines and overlapping collectors
\* (reduceTimelineSnapshot, lines 298-321).
THEOREM DeletionsCorrect ==
    ASSUME WindowSuffices
    PROVE  Spec => []DeletionsAreTrue
<1>1. Truth => DeletionsAreTrue
  BY DEF Truth, EventsTruthful, Truthful, DeletionsAreTrue
<1>2. QED
  BY <1>1, TruthCorrect, PTL

\* While no source outgrows the window, existing inventory never looks new.
THEOREM CreationsCorrect ==
    ASSUME WindowSuffices
    PROVE  Spec => []CreationsAreTrue
<1>1. Truth => CreationsAreTrue
  BY DEF Truth, EventsTruthful, Truthful, CreationsAreTrue
<1>2. QED
  BY <1>1, TruthCorrect, PTL

\* While no source outgrows the window, a recorded change is one from an earlier version
\* to a later, unless the store altered a version the object has had.
THEOREM KeptChangesCorrect ==
    ASSUME WindowSuffices
    PROVE  Spec => []KeptChangesAreTrue
<1>1. Truth => KeptChangesAreTrue
  BY DEF Truth, EventsTruthful, Truthful, KeptChangesAreTrue
<1>2. QED
  BY <1>1, TruthCorrect, PTL
-----------------------------------------------------------------------------
(* What is appended and what is not                                          *)

\* The poll in progress: what it found is still waiting or already in the store.
PollAccounted ==
    \A c \in Collectors : phase[c] = "appending" =>
        Reduce(baseline[c], listed[c]) \subseteq pending[c] \cup recorded

LEMMA PollAccountedStep ==
    ASSUME TypeOK, PollAccounted, [Next]_vars
    PROVE  PollAccounted'
<1> USE DEF TypeOK, PollAccounted, clusterVars, storeVars, collectorVars
<1>1. ASSUME NEW o \in Objects, Create(o) \/ Update(o) \/ Delete(o) PROVE PollAccounted'
  BY <1>1 DEF Create, Update, Delete
<1>2. ASSUME NEW c \in Collectors, Enable(c) \/ Heartbeat(c) \/ Disable(c) PROVE PollAccounted'
  BY <1>2 DEF Enable, Heartbeat, Disable
<1>3. ASSUME NEW c \in Collectors, Restored(c) \/ RestoreFails(c) \/ TimerFires(c)
      PROVE  PollAccounted'
  BY <1>3 DEF Restored, RestoreFails, TimerFires
<1>4. ASSUME NEW c \in Collectors, Listed(c) PROVE PollAccounted'
  <2>1. \/ phase'[c] = "saving"
        \/ /\ UNCHANGED baseline
           /\ pending'[c] = Reduce(baseline[c], listed'[c])
    BY <1>4 DEF Listed, Advance
  <2>2. \A d \in Collectors \ {c} : /\ phase'[d] = phase[d] /\ baseline'[d] = baseline[d]
                                    /\ listed'[d] = listed[d] /\ pending'[d] = pending[d]
    BY <1>4 DEF Listed, Advance
  <2>3. UNCHANGED recorded
    BY <1>4 DEF Listed
  <2>4. QED
    BY <2>1, <2>2, <2>3
<1>5. ASSUME NEW c \in Collectors, Finish(c), UNCHANGED baseline, recorded \subseteq recorded'
      PROVE  PollAccounted'
  BY <1>5 DEF Finish
<1>6. ASSUME NEW c \in Collectors, Appended(c) PROVE PollAccounted'
  <2>1. PICK batch \in Batches(c) :
          /\ recorded' = recorded \cup batch
          /\ pending' = [pending EXCEPT ![c] = @ \ batch]
          /\ IF batch = pending[c]
             THEN Advance(c, listed[c], Reduce(baseline[c], listed[c]))
             ELSE UNCHANGED <<phase, baseline, settled>>
    BY <1>6 DEF Appended
  <2>2. UNCHANGED listed
    BY <1>6 DEF Appended
  <2>3. CASE batch = pending[c]
    BY <2>1, <2>2, <2>3 DEF Advance
  <2>4. CASE batch # pending[c]
    BY <2>1, <2>2, <2>4
  <2>5. QED
    BY <2>3, <2>4
<1>7. CASE BaselineExpires \/ Restart \/ UNCHANGED vars
  BY <1>7 DEF BaselineExpires, Restart, vars
<1>8. ASSUME NEW c \in Collectors, ListFails(c) \/ AppendFails(c) \/ Saved(c) \/ SaveFails(c)
      PROVE  PollAccounted'
  BY <1>5, <1>8 DEF ListFails, AppendFails, Saved, SaveFails
<1>9. QED
  <2> HIDE DEF TypeOK, PollAccounted, clusterVars, storeVars, collectorVars
  <2> QED
    BY <1>1, <1>2, <1>3, <1>4, <1>6, <1>7, <1>8 DEF Next, Cluster, ApplyDesiredConfig, Collect

\* The baseline never passes a difference that is not in the store, for any batch
\* size, any failure and any number of collectors (appendEvents and line 428).
THEOREM RecordedBeforeAdvanceCorrect == Spec => RecordedBeforeAdvance
<1>1. Init => PollAccounted
  BY DEF Init, PollAccounted
<1>2. ASSUME NEW c \in Collectors, NEW before PROVE Reduce(before, before) = {}
  BY DEF Reduce
<1>3. ASSUME NEW before PROVE Reduce(before, EmptyBaseline) = {}
  BY DEF Reduce, EmptyBaseline, NoSource
<1>4. ASSUME TypeOK, PollAccounted, [Next]_vars, NEW c \in Collectors,
             phase[c] \in {"listing", "appending"}
      PROVE  Reduce(baseline[c], baseline'[c]) \subseteq recorded'
  <2>1. \/ baseline'[c] = baseline[c] \/ baseline'[c] = EmptyBaseline
        \/ Listed(c) \/ Appended(c)
    <3> USE DEF TypeOK, clusterVars, storeVars, collectorVars
    <3>1. ASSUME NEW d \in Collectors, Listed(d) \/ Appended(d), d # c PROVE baseline'[c] = baseline[c]
      <4>1. UNCHANGED baseline \/ \E snapshot : baseline' = [baseline EXCEPT ![d] = snapshot]
        <5>1. CASE Listed(d)
          BY <5>1 DEF Listed, Advance
        <5>2. CASE Appended(d)
          BY <5>2 DEF Appended, Advance
        <5>3. QED
          BY <3>1, <5>1, <5>2
      <4>2. QED
        BY <1>4, <3>1, <4>1
    <3>2. ASSUME NEW d \in Collectors, Enable(d) \/ Restored(d) PROVE baseline'[c] = baseline[c]
      <4>1. d # c
        BY <3>2, <1>4 DEF Enable, Restored
      <4>2. CASE Enable(d)
        BY <1>4, <4>1, <4>2 DEF Enable
      <4>3. CASE Restored(d)
        BY <1>4, <4>1, <4>3 DEF Restored
      <4>4. QED
        BY <3>2, <4>2, <4>3
    <3>3. CASE Restart
      BY <3>3 DEF Restart
    <3>4. CASE UNCHANGED baseline
      BY <3>4
    <3>5. CASE Cluster \/ BaselineExpires \/ UNCHANGED vars
      BY <3>5 DEF Cluster, Create, Update, Delete, BaselineExpires, vars
    <3>6. ASSUME NEW d \in Collectors, Heartbeat(d) \/ Disable(d) PROVE UNCHANGED baseline
      BY <3>6 DEF Heartbeat, Disable
    <3>7. ASSUME NEW d \in Collectors, \/ RestoreFails(d) \/ TimerFires(d) \/ ListFails(d)
                                       \/ AppendFails(d) \/ Saved(d) \/ SaveFails(d)
          PROVE  UNCHANGED baseline
      BY <3>7 DEF RestoreFails, TimerFires, ListFails, AppendFails, Saved, SaveFails
    <3> HIDE DEF TypeOK, clusterVars, storeVars, collectorVars
    <3>8. QED
      BY <1>4, <3>1, <3>2, <3>3, <3>4, <3>5, <3>6, <3>7
         DEF Next, ApplyDesiredConfig, Collect
  <2>2. CASE Listed(c)
    <3>1. PICK now : UNCHANGED baseline \/ /\ baseline' = [baseline EXCEPT ![c] = now]
                                            /\ Reduce(baseline[c], now) = {}
      BY <2>2 DEF Listed, Advance
    <3>2. QED
      BY <1>2, <1>4, <3>1 DEF TypeOK
  <2>3. CASE Appended(c)
    <3>1. PICK batch \in Batches(c) :
            /\ recorded' = recorded \cup batch
            /\ \/ UNCHANGED baseline
               \/ batch = pending[c] /\ baseline' = [baseline EXCEPT ![c] = listed[c]]
      BY <2>3 DEF Appended, Advance
    <3>2. CASE UNCHANGED baseline
      BY <1>2, <3>2
    <3>3. CASE batch = pending[c] /\ baseline' = [baseline EXCEPT ![c] = listed[c]]
      BY <1>4, <2>3, <3>1, <3>3 DEF TypeOK, PollAccounted, Appended
    <3>4. QED
      BY <3>1, <3>2, <3>3
  <2>4. QED
    BY <1>2, <1>3, <2>1, <2>2, <2>3
<1>5. TypeOK /\ PollAccounted /\ [Next]_vars =>
        [\A c \in Collectors : phase[c] \in {"listing", "appending"} =>
            Reduce(baseline[c], baseline'[c]) \subseteq recorded']_vars
  BY <1>4
<1>6. TypeOK /\ PollAccounted /\ [Next]_vars => PollAccounted'
  BY PollAccountedStep
<1>7. QED
  BY <1>1, <1>5, <1>6, TypeInit, TypeStep, PTL DEF Spec, RecordedBeforeAdvance, AdvanceIsRecorded
-----------------------------------------------------------------------------
(* A disabled collector dies out                                             *)

\* A stopped collector has no timer and is not the current one.
StoppedIsQuiet ==
    \A c \in Collectors : stopped[c] => ~timer[c] /\ current # c

LEMMA StoppedIsQuietStep ==
    ASSUME TypeOK, StoppedIsQuiet, [Next]_vars
    PROVE  StoppedIsQuiet'
<1> USE DEF TypeOK, StoppedIsQuiet, clusterVars, storeVars, collectorVars
<1>1. CASE UNCHANGED <<current, timer, stopped>>
  BY <1>1
<1>2. ASSUME NEW c \in Collectors, Enable(c) PROVE StoppedIsQuiet'
  BY <1>2 DEF Enable
<1>3. ASSUME NEW c \in Collectors, Heartbeat(c) PROVE StoppedIsQuiet'
  BY <1>3 DEF Heartbeat
<1>4. ASSUME NEW c \in Collectors, Disable(c) PROVE StoppedIsQuiet'
  BY <1>4, NoneAssumption DEF Disable
<1>5. ASSUME NEW c \in Collectors, TimerFires(c) PROVE StoppedIsQuiet'
  BY <1>5 DEF TimerFires
<1>6. ASSUME NEW c \in Collectors, Finish(c), UNCHANGED <<current, stopped>>
      PROVE  StoppedIsQuiet'
  BY <1>6 DEF Finish
<1>7. CASE Restart
  BY <1>7, NoneAssumption DEF Restart
<1>8. \/ UNCHANGED <<current, timer, stopped>> \/ Restart
      \/ \E c \in Collectors : \/ Enable(c) \/ Heartbeat(c) \/ Disable(c) \/ TimerFires(c)
                               \/ Finish(c) /\ UNCHANGED <<current, stopped>>
  <2>1. CASE Cluster \/ BaselineExpires \/ UNCHANGED vars
    BY <2>1 DEF Cluster, Create, Update, Delete, BaselineExpires, vars
  <2>2. ASSUME NEW c \in Collectors, Restored(c) \/ RestoreFails(c) \/ Listed(c) \/ Appended(c)
        PROVE  UNCHANGED <<current, timer, stopped>>
    BY <2>2 DEF Restored, RestoreFails, Listed, Appended
  <2>3. ASSUME NEW c \in Collectors, ListFails(c) \/ AppendFails(c) \/ Saved(c) \/ SaveFails(c)
        PROVE  Finish(c) /\ UNCHANGED <<current, stopped>>
    BY <2>3 DEF ListFails, AppendFails, Saved, SaveFails
  <2>4. QED
    BY <2>1, <2>2, <2>3 DEF Next, ApplyDesiredConfig, Collect
<1>9. QED
  <2> HIDE DEF TypeOK, StoppedIsQuiet, clusterVars, storeVars, collectorVars
  <2> QED
    BY <1>1, <1>2, <1>3, <1>4, <1>5, <1>6, <1>7, <1>8

\* stop() is enough: once a disabled collector is idle nothing starts it again
\* (schedule, lines 369-375, and the `finally' of collect).
THEOREM DisabledStaysIdleCorrect == Spec => DisabledStaysIdle
<1>1. Init => StoppedIsQuiet
  BY NoneAssumption DEF Init, StoppedIsQuiet
<1>2. TypeOK /\ StoppedIsQuiet /\ [Next]_vars => StoppedIsQuiet'
  BY StoppedIsQuietStep
<1>3. ASSUME TypeOK, StoppedIsQuiet, [Next]_vars, NEW c \in Collectors,
             stopped[c], stopped'[c], phase[c] = "idle"
      PROVE  phase'[c] = "idle"
  <2> USE <1>3 DEF TypeOK, clusterVars, storeVars, collectorVars
  <2>1. CASE Cluster \/ BaselineExpires \/ Restart \/ UNCHANGED vars
    BY <2>1 DEF Cluster, Create, Update, Delete, BaselineExpires, Restart, vars
  <2>2. ASSUME NEW d \in Collectors, Heartbeat(d) \/ Disable(d) PROVE phase'[c] = "idle"
    BY <2>2 DEF Heartbeat, Disable
  <2>3. ASSUME NEW d \in Collectors, Enable(d) PROVE phase'[c] = "idle"
    BY <2>3 DEF Enable
  <2>4. ASSUME NEW d \in Collectors, TimerFires(d) PROVE phase'[c] = "idle"
    BY <2>4 DEF TimerFires, StoppedIsQuiet
  <2>5. ASSUME NEW d \in Collectors, Restored(d) \/ RestoreFails(d) PROVE phase'[c] = "idle"
    BY <2>5 DEF Restored, RestoreFails
  <2>6. ASSUME NEW d \in Collectors, Listed(d) PROVE phase'[c] = "idle"
    BY <2>6 DEF Listed, Advance
  <2>7. ASSUME NEW d \in Collectors, Appended(d) PROVE phase'[c] = "idle"
    BY <2>7 DEF Appended, Advance
  <2>8. ASSUME NEW d \in Collectors, ListFails(d) \/ AppendFails(d) \/ Saved(d) \/ SaveFails(d)
        PROVE  phase'[c] = "idle"
    BY <2>8 DEF ListFails, AppendFails, Saved, SaveFails, Finish
  <2> HIDE DEF TypeOK, clusterVars, storeVars, collectorVars
  <2>9. QED
    BY <2>1, <2>2, <2>3, <2>4, <2>5, <2>6, <2>7, <2>8 DEF Next, ApplyDesiredConfig, Collect
<1>4. TypeOK /\ StoppedIsQuiet /\ [Next]_vars =>
        [\A c \in Collectors :
            stopped[c] /\ stopped'[c] /\ phase[c] = "idle" => phase'[c] = "idle"]_vars
  BY <1>3
<1>5. QED
  BY <1>1, <1>2, <1>4, TypeInit, TypeStep, PTL DEF Spec, DisabledStaysIdle, StoppedRests
-----------------------------------------------------------------------------
(* Nothing is replayed within a process                                      *)

\* A snapshot that can no longer lead to the event: the object is gone for good, or
\* the snapshot is at or behind the version the event led to.
Past(e, snapshot) ==
    /\ e.object \in Objects
    /\ \/ /\ e.to = Absent /\ e.from # Absent
          /\ e.object \in deleted
          /\ snapshot[e.object] \in {NoSource, Absent}
       \/ /\ e.to \in 1..MaxVersion /\ e.to =< version[e.object]
          /\ e.from \in {Absent, Stripped} \/ (e.from \in 1..MaxVersion /\ e.from < e.to)
          /\ \/ snapshot[e.object] = NoSource
             \/ snapshot[e.object] \in e.to..MaxVersion
             \/ snapshot[e.object] = Absent /\ e.object \in deleted

\* Before it has restored, a collector has finished nothing.
SettledIsPast ==
    \A c \in Collectors :
        /\ phase[c] = "restoring" => settled[c] = {}
        /\ \A e \in settled[c] : Past(e, baseline[c])
        /\ phase[c] = "appending" =>
            \A e \in settled[c] \cup Reduce(baseline[c], listed[c]) : Past(e, listed[c])

LEMMA PollMarks ==
    ASSUME WindowSuffices, TypeOK, NEW failed, NEW crds, NEW o \in Objects
    PROVE  LET mark == Snapshot(failed, crds)[o]
           IN  \/ mark = NoSource
               \/ mark = version[o] /\ version[o] \in 1..MaxVersion /\ o \notin deleted
               \/ mark = Absent /\ (version[o] = 0 \/ o \in deleted)
<1>1. Visible(o) <=> Exists(o)
  BY VisibleIfFits
<1>2. version[o] \in 0..MaxVersion
  BY DEF TypeOK
<1>3. QED
  BY <1>1, <1>2, BoundAssumption DEF Snapshot, Exists

\* What is past stays past in every later poll.
LEMMA PastInPoll ==
    ASSUME WindowSuffices, TypeOK, NEW e, NEW before, Past(e, before), NEW failed, NEW crds
    PROVE  Past(e, Snapshot(failed, crds))
<1> DEFINE now == Snapshot(failed, crds)
<1>1. e.object \in Objects
  BY DEF Past
<1>2. \/ now[e.object] = NoSource
      \/ /\ now[e.object] = version[e.object] /\ version[e.object] \in 1..MaxVersion
         /\ e.object \notin deleted
      \/ now[e.object] = Absent /\ (version[e.object] = 0 \/ e.object \in deleted)
  BY <1>1, PollMarks
<1> HIDE DEF now
<1>3. Past(e, now)
  BY <1>1, <1>2, BoundAssumption DEF Past, NoSource, Absent, Stripped
<1>4. QED
  BY <1>3 DEF now

\* What a poll finds is past in the poll itself.
LEMMA FoundIsPast ==
    ASSUME WindowSuffices, TypeOK, NEW before, Faithful(before), NEW failed, NEW crds,
           NEW e \in Reduce(before, Snapshot(failed, crds))
    PROVE  Past(e, Snapshot(failed, crds))
<1> DEFINE now == Snapshot(failed, crds)
<1>1. PICK o \in Objects : /\ before[o] # NoSource /\ now[o] # NoSource /\ before[o] # now[o]
                           /\ e = Difference(o, before, now)
  BY DEF Reduce
<1>2. \/ now[o] = version[o] /\ version[o] \in 1..MaxVersion /\ o \notin deleted
      \/ now[o] = Absent /\ (version[o] = 0 \/ o \in deleted)
  BY <1>1, PollMarks
<1>3. before[o] \in Marks /\ MarkTrue(o, before[o])
  BY DEF Faithful, Snapshots
<1> HIDE DEF now
<1>4. e.object = o /\ e.from = before[o] /\ e.to = now[o]
  BY <1>1 DEF Difference, Event
<1>5. Past(e, now)
  BY <1>1, <1>2, <1>3, <1>4, BoundAssumption
     DEF Past, MarkTrue, Holds, Marks, NoSource, Absent, Stripped
<1>6. QED
  BY <1>5 DEF now

\* What is past in the baseline is not found by a poll.
LEMMA PastNotFound ==
    ASSUME WindowSuffices, TypeOK, NEW before, NEW e, Past(e, before), NEW failed, NEW crds
    PROVE  e \notin Reduce(before, Snapshot(failed, crds))
<1> DEFINE now == Snapshot(failed, crds)
<1> SUFFICES ASSUME NEW o \in Objects, before[o] # NoSource, now[o] # NoSource,
                    before[o] # now[o], e = Difference(o, before, now)
             PROVE  FALSE
  BY DEF Reduce
<1>1. \/ now[o] = version[o] /\ version[o] \in 1..MaxVersion /\ o \notin deleted
      \/ now[o] = Absent /\ (version[o] = 0 \/ o \in deleted)
  BY PollMarks
<1> HIDE DEF now
<1>2. e.object = o /\ e.from = before[o] /\ e.to = now[o]
  BY DEF Difference, Event
<1>3. QED
  BY <1>1, <1>2, BoundAssumption DEF Past, NoSource, Absent, Stripped
\* The same claim, made of the cluster after the step.
PastLater(e, snapshot) ==
    /\ e.object \in Objects
    /\ \/ /\ e.to = Absent /\ e.from # Absent
          /\ e.object \in deleted'
          /\ snapshot[e.object] \in {NoSource, Absent}
       \/ /\ e.to \in 1..MaxVersion /\ e.to =< version'[e.object]
          /\ e.from \in {Absent, Stripped} \/ (e.from \in 1..MaxVersion /\ e.from < e.to)
          /\ \/ snapshot[e.object] = NoSource
             \/ snapshot[e.object] \in e.to..MaxVersion
             \/ snapshot[e.object] = Absent /\ e.object \in deleted'

LEMMA StaysPast ==
    ASSUME TypeOK, [Next]_vars, NEW e, NEW snapshot, Past(e, snapshot)
    PROVE  PastLater(e, snapshot)
<1>1. /\ version' \in [Objects -> 0..MaxVersion]
      /\ \A o \in Objects : version[o] =< version'[o]
      /\ deleted \subseteq deleted'
  BY ClusterGrows
<1>2. version \in [Objects -> 0..MaxVersion]
  BY DEF TypeOK
<1>3. QED
  BY <1>1, <1>2, BoundAssumption DEF Past, PastLater

LEMMA ReplayStep ==
    ASSUME WindowSuffices, TypeOK, Truth, SettledIsPast, NothingReplayed, [Next]_vars
    PROVE  SettledIsPast' /\ NothingReplayed'
<1> DEFINE Kept(c) ==
              /\ phase'[c] = "restoring" => settled'[c] = {}
              /\ \A e \in settled'[c] : PastLater(e, baseline'[c])
              /\ phase'[c] = "appending" =>
                  \A e \in settled'[c] \cup Reduce(baseline'[c], listed'[c]) : PastLater(e, listed'[c])
              /\ pending'[c] \cap settled'[c] = {}
           Same(c) == /\ settled'[c] = settled[c] /\ baseline'[c] = baseline[c]
                      /\ listed'[c] = listed[c] /\ pending'[c] \subseteq pending[c]
                      /\ phase'[c] = phase[c] \/ phase'[c] \notin {"restoring", "appending"}
           Fresh(c) == settled'[c] = {} /\ phase'[c] # "appending"
           Over(c) == /\ settled'[c] = settled[c] /\ baseline'[c] = baseline[c]
                      /\ pending'[c] = {} /\ phase'[c] = "idle"
<1>1. ASSUME NEW c \in Collectors
      PROVE  /\ phase[c] = "restoring" => settled[c] = {}
             /\ \A e \in settled[c] : PastLater(e, baseline[c])
             /\ phase[c] = "appending" =>
                 \A e \in settled[c] \cup Reduce(baseline[c], listed[c]) : PastLater(e, listed[c])
             /\ pending[c] \cap settled[c] = {}
  BY StaysPast DEF SettledIsPast, NothingReplayed
<1>2. ASSUME NEW c \in Collectors, Same(c) PROVE Kept(c)
  BY <1>1, <1>2
<1>3. ASSUME NEW c \in Collectors, Fresh(c) PROVE Kept(c)
  BY <1>3
<1>4. ASSUME NEW c \in Collectors, Over(c) PROVE Kept(c)
  BY <1>1, <1>4
<1>5. ASSUME NEW c \in Collectors, Listed(c) PROVE Kept(c)
  <2>1. PICK failed \in SUBSET Sources, crds \in BOOLEAN :
          LET now == Snapshot(failed, crds)
              events == Reduce(baseline[c], now)
          IN  /\ listed' = [listed EXCEPT ![c] = now]
              /\ pending' = [pending EXCEPT ![c] = events]
              /\ IF events = {} THEN Advance(c, now, {})
                 ELSE /\ phase' = [phase EXCEPT ![c] = "appending"]
                      /\ UNCHANGED <<baseline, settled>>
    BY <1>5 DEF Listed
  <2> DEFINE now == Snapshot(failed, crds)
             events == Reduce(baseline[c], now)
  <2>2. \A e \in settled[c] : PastLater(e, now) /\ e \notin events
    BY PastInPoll, PastNotFound, StaysPast DEF SettledIsPast
  <2>3. \A e \in events : PastLater(e, now)
    BY FoundIsPast, StaysPast DEF Truth
  <2> HIDE DEF now, events
  <2>4. listed'[c] = now /\ pending'[c] = events /\ settled'[c] = settled[c]
    BY <2>1 DEF now, events, Advance, TypeOK
  <2>5. \/ phase'[c] = "saving" /\ baseline'[c] = now
        \/ /\ phase'[c] = "appending" /\ baseline'[c] = baseline[c]
           /\ Reduce(baseline[c], now) = events
    BY <2>1 DEF now, events, Advance, TypeOK
  <2>6. QED
    BY <1>1, <2>2, <2>3, <2>4, <2>5
<1>6. ASSUME NEW c \in Collectors, Appended(c) PROVE Kept(c)
  <2>1. PICK batch \in Batches(c) :
          /\ recorded' = recorded \cup batch
          /\ pending' = [pending EXCEPT ![c] = @ \ batch]
          /\ IF batch = pending[c]
             THEN Advance(c, listed[c], Reduce(baseline[c], listed[c]))
             ELSE UNCHANGED <<phase, baseline, settled>>
    BY <1>6 DEF Appended
  <2>2. listed'[c] = listed[c] /\ pending'[c] = pending[c] \ batch /\ phase[c] = "appending"
    BY <1>6, <2>1 DEF Appended, TypeOK
  <2>3. CASE batch = pending[c]
    <3>1. /\ phase'[c] = "saving" /\ baseline'[c] = listed[c]
          /\ settled'[c] = settled[c] \cup Reduce(baseline[c], listed[c])
      BY <2>1, <2>3 DEF Advance, TypeOK
    <3>2. QED
      BY <1>1, <2>2, <2>3, <3>1
  <2>4. CASE batch # pending[c]
    BY <1>2, <2>1, <2>2, <2>4
  <2>5. QED
    BY <2>3, <2>4
<1>7. ASSUME NEW c \in Collectors PROVE Kept(c)
  <2> USE DEF TypeOK, clusterVars, storeVars, collectorVars
  <2>1. CASE Cluster \/ BaselineExpires \/ UNCHANGED vars
    <3>1. Same(c)
      BY <2>1 DEF Cluster, Create, Update, Delete, BaselineExpires, vars
    <3>2. QED
      BY <1>2, <3>1
  <2>2. CASE Restart
    <3>1. Fresh(c)
      BY <2>2 DEF Restart
    <3>2. QED
      BY <1>3, <3>1
  <2>3. ASSUME NEW d \in Collectors, Enable(d) PROVE Fresh(c) \/ Same(c)
    BY <2>3 DEF Enable
  <2>4. ASSUME NEW d \in Collectors, Heartbeat(d) \/ Disable(d) \/ TimerFires(d) \/ RestoreFails(d)
        PROVE  Same(c)
    BY <2>4 DEF Heartbeat, Disable, TimerFires, RestoreFails
  <2>5. ASSUME NEW d \in Collectors, Restored(d) PROVE Fresh(c) \/ Same(c)
    BY <1>1, <2>5 DEF Restored
  <2>6. ASSUME NEW d \in Collectors, ListFails(d) \/ AppendFails(d) \/ Saved(d) \/ SaveFails(d)
        PROVE  Over(c) \/ Same(c)
    <3>1. Finish(d) /\ UNCHANGED <<baseline, settled>>
      BY <2>6 DEF ListFails, AppendFails, Saved, SaveFails
    <3>2. QED
      BY <3>1 DEF Finish
  <2>7. ASSUME NEW d \in Collectors, Listed(d), d # c PROVE Same(c)
    <3>1. PICK failed \in SUBSET Sources, crds \in BOOLEAN :
            LET now == Snapshot(failed, crds)
                events == Reduce(baseline[d], now)
            IN  /\ listed' = [listed EXCEPT ![d] = now]
                /\ pending' = [pending EXCEPT ![d] = events]
                /\ IF events = {} THEN Advance(d, now, {})
                   ELSE /\ phase' = [phase EXCEPT ![d] = "appending"]
                        /\ UNCHANGED <<baseline, settled>>
      BY <2>7 DEF Listed
    <3> DEFINE now == Snapshot(failed, crds)
               events == Reduce(baseline[d], now)
    <3> HIDE DEF now, events
    <3>2. /\ listed' = [listed EXCEPT ![d] = now]
          /\ pending' = [pending EXCEPT ![d] = events]
          /\ phase' \in {[phase EXCEPT ![d] = "appending"], [phase EXCEPT ![d] = "saving"]}
          /\ baseline' \in {baseline, [baseline EXCEPT ![d] = now]}
          /\ settled' \in {settled, [settled EXCEPT ![d] = @ \cup {}]}
      BY <3>1 DEF now, events, Advance
    <3>3. QED
      BY <2>7, <3>2
  <2>8. ASSUME NEW d \in Collectors, Appended(d), d # c PROVE Same(c)
    <3>1. PICK batch :
            /\ pending' = [pending EXCEPT ![d] = @ \ batch]
            /\ IF batch = pending[d]
               THEN Advance(d, listed[d], Reduce(baseline[d], listed[d]))
               ELSE UNCHANGED <<phase, baseline, settled>>
      BY <2>8 DEF Appended
    <3>2. UNCHANGED listed
      BY <2>8 DEF Appended
    <3>3. \/ UNCHANGED <<phase, baseline, settled>>
          \/ /\ phase' = [phase EXCEPT ![d] = "saving"]
             /\ baseline' = [baseline EXCEPT ![d] = listed[d]]
             /\ settled' = [settled EXCEPT ![d] = @ \cup Reduce(baseline[d], listed[d])]
      BY <3>1 DEF Advance
    <3>4. QED
      BY <2>8, <3>1, <3>2, <3>3
  <2> HIDE DEF TypeOK, clusterVars, storeVars, collectorVars, Kept, Same, Fresh, Over
  <2>9. QED
    BY <1>2, <1>3, <1>4, <1>5, <1>6, <2>1, <2>2, <2>3, <2>4, <2>5, <2>6, <2>7, <2>8
       DEF Next, ApplyDesiredConfig, Collect
<1>8. QED
  BY <1>7 DEF SettledIsPast, NothingReplayed, Past, PastLater

\* While no source outgrows the window, a difference a collector has appended it
\* never finds again, saved or not (lines 428-439).
THEOREM NothingReplayedCorrect ==
    ASSUME WindowSuffices
    PROVE  Spec => []NothingReplayed
<1>1. Init => SettledIsPast /\ NothingReplayed
  BY DEF Init, SettledIsPast, NothingReplayed
<1> DEFINE Inv == TypeOK /\ Truth /\ SettledIsPast /\ NothingReplayed
<1>2. Inv /\ [Next]_vars => Inv'
  BY TypeStep, TruthStep, ReplayStep
<1>3. Init => Inv
  BY <1>1, TypeInit, TruthInit
<1>4. QED
  BY <1>2, <1>3, PTL DEF Spec
=============================================================================
