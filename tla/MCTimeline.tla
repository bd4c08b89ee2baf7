----------------------------- MODULE MCTimeline -----------------------------
(* TimelineCollector on a small instance for TLC: two objects, one of the    *)
(* core and one of a provider that was there before the agent, and two       *)
(* collectors that are alike.                                                *)
EXTENDS TimelineCollector, TLC

CONSTANTS First, Second

CoreAndProvider == <<"core", "provider">>

\* Of the core object the second version has a text the store redacts, of the provider
\* object the store keeps no status.
RedactedAndStripped == {<<1, 2>>, <<2, 1>>, <<2, 2>>}

Symmetry == Permutations(Collectors)

\* A collector that was not started since the process was.
Unused(c) == phase[c] = "idle" /\ stopped[c] /\ baseline[c] = EmptyBaseline

\* Nothing is known of the second object.
Unread ==
    /\ \A snapshot \in {persisted} \cup {baseline[c] : c \in Collectors} \cup {listed[c] : c \in Collectors} :
        snapshot[2] = NoSource
    /\ \A e \in recorded : e.object # 2

\* Bound: behaviours go on while one collector works alone over at most the creation of
\* the first and the deletion of the second object, or while the collectors overlap over
\* the first object only and have recorded at most two events of it.
Scenario ==
    \/ (\E c \in Collectors : Unused(c)) /\ version[1] =< 1 /\ version[2] = 1 /\ 1 \notin deleted
    \/ version[2] = 1 /\ 2 \notin deleted /\ Unread /\ Cardinality(recorded) =< 2
=============================================================================
