------------------------------ MODULE MCRunning ------------------------------
(* What runs in the agent by itself, on small instances for TLC: one manager *)
(* with a channel, one context with two readers, two Timeline targets, and   *)
(* one collector of one object that was there before.                        *)
EXTENDS Running

\* A rule with a channel, and alerting switched off without one.
Saved == {[enabled |-> TRUE, on |-> <<"mail">>, cooldown |-> 2],
          [enabled |-> FALSE, on |-> <<>>, cooldown |-> 3]}

\* A scan may find two alerts of one fingerprint.
Found == {<<>>, <<"a", "a">>}

SourceOfObjects == <<"core">>
=============================================================================
