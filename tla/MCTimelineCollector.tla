------------------------ MODULE MCTimelineCollector ------------------------
(* TimelineCollector on small instances for TLC: which source lists each    *)
(* object, and which collectors are alike.                                  *)
EXTENDS TimelineCollector, TLC

CoreAndProvider == <<"core", "provider">>
BothCore        == <<"core", "core">>
OneProvider     == <<"provider">>

\* The store keeps no version of the first object as it is.
FirstAltered == {<<1, 1>>}

Symmetry == Permutations(Collectors)
=============================================================================
