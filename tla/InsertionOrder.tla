--------------------------- MODULE InsertionOrder ---------------------------
(***************************************************************************)
(* The order in which a JavaScript Map holds its keys, a sequence without  *)
(* repetition: set() leaves a key that is there in its place and appends a *)
(* new one, delete() takes a key away, keys().next() is the oldest one.    *)
(***************************************************************************)
EXTENDS Integers, Sequences, Functions

\* The keys that are kept, in their order.  A recursive function, so that it can be
\* reasoned about.
Only(order, keys) ==
    LET kept[i \in 0..Len(order)] ==
            IF i = 0 THEN <<>>
            ELSE IF order[i] \in keys THEN Append(kept[i - 1], order[i])
            ELSE kept[i - 1]
    IN  kept[Len(order)]

Oldest(order, keys) == Head(Only(order, keys))

Placed(order, key) == IF key \in Range(order) THEN order ELSE Append(order, key)

\* The order of exactly these keys.
Orders(order, keys) == Range(order) = keys /\ IsInjective(order)
=============================================================================
