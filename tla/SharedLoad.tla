----------------------------- MODULE SharedLoad -----------------------------
(***************************************************************************)
(* What every shared load of the agent promises: whoever needs a value     *)
(* that is being loaded waits for that load instead of starting another    *)
(* one, and when the load ends, well or badly, all who waited for it are   *)
(* released and nobody is left behind.  The CI cache, the introspections   *)
(* of the server, the posture cache and the agent's tasks implement it.  *)
(***************************************************************************)
EXTENDS FiniteSets

CONSTANTS Readers, Keys

VARIABLES
    loads,    \* the loads in flight, as a set of keys
    waiting   \* pairs <<reader, key>>

vars == <<loads, waiting>>

Init ==
    /\ loads = {}
    /\ waiting = {}

\* A reader starts the load of a key, or joins it.
Wait(r, k) ==
    /\ \A other \in Keys : <<r, other>> \notin waiting
    /\ loads' = loads \cup {k}
    /\ waiting' = waiting \cup {<<r, k>>}

\* The load of a key ends, and with it every wait for that key.
Finish(k) ==
    /\ k \in loads
    /\ loads' = loads \ {k}
    /\ waiting' = {w \in waiting : w[2] # k}

Next ==
    \/ \E r \in Readers, k \in Keys : Wait(r, k)
    \/ \E k \in Keys : Finish(k)

Spec == Init /\ [][Next]_vars

\* Nobody waits for a load that is not in flight.
NobodyIsLeft == \A w \in waiting : w[2] \in loads
=============================================================================
