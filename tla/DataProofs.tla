------------------------------ MODULE DataProofs ------------------------------
(***************************************************************************)
(* Lemmas about data that the proofs of several components need: induction *)
(* over the naturals, the order of a Map's keys, sizes of finite sets.     *)
(***************************************************************************)
EXTENDS InsertionOrder, FiniteSets, FiniteSetTheorems, SequenceTheorems, WellFoundedInduction, TLAPS

-----------------------------------------------------------------------------
(* Induction, stated of a set instead of a predicate so that it can be used: *)
(* a smallest number outside the set would have a predecessor in it.         *)

Less == {pair \in Nat \X Nat : pair[1] < pair[2]}

LEMMA Smallest ==
    ASSUME NEW S \in SUBSET Nat, S # {}
    PROVE  \E m \in S : \A n \in S : m =< n
<1>1. IsWellFoundedOn(Less, Nat)
  BY NatLessThanWellFounded DEF OpToRel, Less
<1>2. S \subseteq Nat
  OBVIOUS
<1>3. \E m \in S : \A n \in S : <<n, m>> \notin Less
  BY <1>1, <1>2, WFMin, Zenon
<1>4. PICK m \in S : \A n \in S : <<n, m>> \notin Less
  BY <1>3
<1>5. ASSUME NEW n \in S PROVE m =< n
  <2>1. n \in Nat /\ m \in Nat /\ <<n, m>> \in Nat \X Nat
    OBVIOUS
  <2>2. ~(n < m)
    BY <1>4, <2>1 DEF Less
  <2> QED
    BY <2>1, <2>2
<1> QED
  BY <1>5

LEMMA AllNaturals ==
    ASSUME NEW S \in SUBSET Nat, 0 \in S, \A n \in S : n + 1 \in S
    PROVE  S = Nat
<1>1. SUFFICES ASSUME Nat \ S # {} PROVE FALSE
  OBVIOUS
<1>2. IsWellFoundedOn(Less, Nat)
  BY NatLessThanWellFounded DEF OpToRel, Less
<1>3. Nat \ S \subseteq Nat
  OBVIOUS
<1>4. \E x \in Nat \ S : \A y \in Nat \ S : <<y, x>> \notin Less
  BY <1>1, <1>2, <1>3, WFMin, Zenon
<1>5. PICK x \in Nat \ S : \A y \in Nat \ S : <<y, x>> \notin Less
  BY <1>4
<1>6. x \in Nat /\ x # 0
  BY <1>5
<1>7. x - 1 \in Nat
  BY <1>6
<1>8. x - 1 \in S
  <2>1. <<x - 1, x>> \in Less
    BY <1>6, <1>7 DEF Less
  <2> QED
    BY <1>5, <1>7, <2>1
<1>9. (x - 1) + 1 \in S
  BY <1>8
<1> QED
  BY <1>5, <1>6, <1>9

-----------------------------------------------------------------------------
(* Only: what is left of an order are the kept keys, each once.            *)

\* f is the recursive function of Only, up to m.
FiltersTo(order, keys, f, m) ==
    f = [i \in 0..m |-> IF i = 0 THEN <<>>
                        ELSE IF order[i] \in keys THEN Append(f[i - 1], order[i]) ELSE f[i - 1]]

LEMMA FilterExists ==
    ASSUME NEW order, NEW keys
    PROVE  \A m \in Nat : \E f : FiltersTo(order, keys, f, m)
<1> DEFINE Good == {m \in Nat : \E f : FiltersTo(order, keys, f, m)}
<1>1. 0 \in Good
  <2>1. FiltersTo(order, keys, [i \in 0..0 |-> <<>>], 0)
    BY DEF FiltersTo
  <2> QED
    BY <2>1
<1>2. ASSUME NEW m \in Good PROVE m + 1 \in Good
  <2>1. PICK f : FiltersTo(order, keys, f, m)
    OBVIOUS
  <2>2. m \in Nat
    OBVIOUS
  <2> DEFINE last == IF order[m + 1] \in keys THEN Append(f[m], order[m + 1]) ELSE f[m]
             g == [i \in 0..(m + 1) |-> IF i = m + 1 THEN last ELSE f[i]]
  <2>3. ASSUME NEW i \in 0..(m + 1)
        PROVE  g[i] = IF i = 0 THEN <<>>
                      ELSE IF order[i] \in keys THEN Append(g[i - 1], order[i]) ELSE g[i - 1]
    <3>1. CASE i = m + 1
      <4>1. m \in 0..(m+1) /\ g[m] = f[m] /\ i # 0 /\ i - 1 = m
        BY <3>1, <2>2
      <4>2. g[i] = last
        BY <3>1
      <4> QED
        BY <4>1, <4>2, <3>1
    <3>2. CASE i # m + 1
      <4>1. i \in 0..m /\ g[i] = f[i]
        BY <3>2, <2>2
      <4>2. f[i] = IF i = 0 THEN <<>>
                   ELSE IF order[i] \in keys THEN Append(f[i - 1], order[i]) ELSE f[i - 1]
        BY <4>1, <2>1 DEF FiltersTo
      <4>3. i # 0 => g[i - 1] = f[i - 1]
        BY <4>1, <2>2
      <4> QED
        BY <4>1, <4>2, <4>3
    <3> QED
      BY <3>1, <3>2
  <2>4. FiltersTo(order, keys, g, m + 1)
    BY <2>3 DEF FiltersTo
  <2> QED
    BY <2>4, <2>2
<1>3. Good = Nat
  <2> HIDE DEF Good
  <2>1. Good \in SUBSET Nat
    BY DEF Good
  <2> QED
    BY <1>1, <1>2, <2>1, AllNaturals
<1> QED
  BY <1>3

LEMMA OnlyIsFilter ==
    ASSUME NEW S, NEW order \in Seq(S), NEW keys
    PROVE  \E f : FiltersTo(order, keys, f, Len(order)) /\ Only(order, keys) = f[Len(order)]
<1>1. Len(order) \in Nat
  BY LenProperties
<1>2. PICK f : FiltersTo(order, keys, f, Len(order))
  BY FilterExists, <1>1
<1> DEFINE F == CHOOSE F : F = [i \in 0..Len(order) |-> IF i = 0 THEN <<>>
                        ELSE IF order[i] \in keys THEN Append(F[i - 1], order[i]) ELSE F[i - 1]]
<1>3. FiltersTo(order, keys, F, Len(order))
  BY <1>2 DEF FiltersTo
<1>4. Only(order, keys) = F[Len(order)]
  BY DEF Only
<1> QED
  BY <1>3, <1>4

\* What Only returns: a sequence of the kept keys that were there, each as often as before
\* at most.
LEMMA OnlyProperties ==
    ASSUME NEW S, NEW order \in Seq(S), NEW keys
    PROVE  /\ Only(order, keys) \in Seq(S)
           /\ Range(Only(order, keys)) = Range(order) \cap keys
           /\ IsInjective(order) => IsInjective(Only(order, keys))
<1>1. PICK f : FiltersTo(order, keys, f, Len(order)) /\ Only(order, keys) = f[Len(order)]
  BY OnlyIsFilter
<1> DEFINE n == Len(order)
           Fine(i) == /\ f[i] \in Seq(S)
                      /\ \A x : (\E k \in 1..Len(f[i]) : f[i][k] = x) <=> (x \in keys /\ \E j \in 1..i : order[j] = x)
                      /\ IsInjective(order) => \A k, l \in 1..Len(f[i]) : f[i][k] = f[i][l] => k = l
           Good == {i \in Nat : i =< n => Fine(i)}
<1>2. n \in Nat /\ DOMAIN order = 1..n /\ \A i \in 1..n : order[i] \in S
  BY LenProperties, ElementOfSeq
<1>3. f[0] = <<>> /\ \A i \in 1..n :
          f[i] = IF order[i] \in keys THEN Append(f[i - 1], order[i]) ELSE f[i - 1]
  <2>1. \A i \in 0..n : f[i] = IF i = 0 THEN <<>>
            ELSE IF order[i] \in keys THEN Append(f[i - 1], order[i]) ELSE f[i - 1]
    BY <1>1 DEF FiltersTo
  <2>2. 0 \in 0..n /\ \A i \in 1..n : i \in 0..n /\ i # 0
    BY <1>2
  <2> QED
    BY <2>1, <2>2
<1>4. 0 \in Good
  <2>1. <<>> \in Seq(S) /\ Len(<<>>) = 0 /\ 1..0 = {}
    BY EmptySeq
  <2> QED
    BY <1>3, <2>1
<1>5. ASSUME NEW i \in Good PROVE i + 1 \in Good
  <2>1. SUFFICES ASSUME i + 1 =< n PROVE Fine(i + 1)
    OBVIOUS
  <2>2. i \in Nat /\ i + 1 \in 1..n /\ Fine(i) /\ (i + 1) - 1 = i
    BY <2>1, <1>2
  <2>3. CASE order[i + 1] \notin keys
    <3>1. f[i + 1] = f[i]
      BY <2>2, <2>3, <1>3
    <3>2. \A x \in keys : (\E j \in 1..i : order[j] = x) <=> (\E j \in 1..(i + 1) : order[j] = x)
      BY <2>2, <2>3
    <3> QED
      BY <2>2, <3>1, <3>2
  <2>4. CASE order[i + 1] \in keys
    <3> DEFINE x == order[i + 1]
               s == f[i]
    <3>1. f[i + 1] = Append(s, x) /\ x \in S /\ s \in Seq(S)
      BY <2>2, <2>4, <1>2, <1>3
    <3> HIDE DEF x, s
    <3>2. /\ Append(s, x) \in Seq(S) /\ Len(Append(s, x)) = Len(s) + 1 /\ Len(s) \in Nat
          /\ \A k \in 1..Len(s) : Append(s, x)[k] = s[k]
          /\ Append(s, x)[Len(s) + 1] = x
      BY <3>1, AppendProperties, LenProperties
    <3>3. \A y : (\E k \in 1..(Len(s) + 1) : Append(s, x)[k] = y) <=> (y = x \/ \E k \in 1..Len(s) : s[k] = y)
      BY <3>2
    <3>4. \A y : (\E j \in 1..(i + 1) : order[j] = y) <=> (y = x \/ \E j \in 1..i : order[j] = y)
      BY <2>2 DEF x
    <3>5. \A y : (\E k \in 1..Len(f[i + 1]) : f[i + 1][k] = y) <=> (y \in keys /\ \E j \in 1..(i + 1) : order[j] = y)
      <4>1. \A y : (\E k \in 1..Len(s) : s[k] = y) <=> (y \in keys /\ \E j \in 1..i : order[j] = y)
        BY <2>2 DEF s
      <4>2. x \in keys
        BY <2>4 DEF x
      <4>3. Len(f[i + 1]) = Len(s) + 1 /\ f[i + 1] = Append(s, x)
        BY <3>1, <3>2
      <4>4. \A y : (\E k \in 1..(Len(s) + 1) : Append(s, x)[k] = y)
                     <=> (y \in keys /\ \E j \in 1..(i + 1) : order[j] = y)
        BY <3>3, <3>4, <4>1, <4>2
      <4> QED
        BY <4>3, <4>4
    <3>6. ASSUME IsInjective(order), NEW k \in 1..(Len(s) + 1), NEW l \in 1..(Len(s) + 1),
                 Append(s, x)[k] = Append(s, x)[l]
          PROVE  k = l
      <4>1. \A j \in 1..i : order[j] # x
        BY <1>2, <2>2, <3>6 DEF IsInjective, x
      <4>2. \A m \in 1..Len(s) : s[m] # x
        BY <4>1, <2>2 DEF s
      <4>3. \A a, b \in 1..Len(s) : s[a] = s[b] => a = b
        BY <2>2, <3>6 DEF s
      <4> QED
        BY <3>2, <3>6, <4>2, <4>3
    <3>7. \A k, l \in 1..(Len(s) + 1) : IsInjective(order) /\ Append(s, x)[k] = Append(s, x)[l] => k = l
      BY <3>6
    <3> QED
      BY <3>1, <3>2, <3>5, <3>7
  <2> QED
    BY <2>3, <2>4
<1>6. Fine(n)
  <2> HIDE DEF Good
  <2>1. Good \in SUBSET Nat
    BY DEF Good
  <2>2. n \in Good
    BY <1>2, <1>4, <1>5, <2>1, AllNaturals
  <2> QED
    BY <2>2, <1>2 DEF Good
<1> DEFINE r == Only(order, keys)
<1>7. r \in Seq(S) /\ DOMAIN r = 1..Len(r)
  BY <1>1, <1>6, LenProperties
<1>8. Range(r) = Range(order) \cap keys
  <2>1. \A x : x \in Range(r) <=> \E k \in 1..Len(r) : r[k] = x
    BY <1>7 DEF Range
  <2>2. \A x : x \in Range(order) <=> \E j \in 1..n : order[j] = x
    BY <1>2 DEF Range
  <2>3. \A x : (\E k \in 1..Len(r) : r[k] = x) <=> (x \in keys /\ \E j \in 1..n : order[j] = x)
    BY <1>1, <1>6
  <2> HIDE DEF r, n
  <2> QED
    BY <2>1, <2>2, <2>3
<1>9. IsInjective(order) => IsInjective(r)
  BY <1>1, <1>6, <1>7 DEF IsInjective
<1> QED
  BY <1>7, <1>8, <1>9

\* An order stays the order of the keys through any deletions and one insertion.
LEMMA PlacedOrders ==
    ASSUME NEW S, NEW order \in Seq(S), NEW present, Orders(order, present),
           NEW kept, kept \subseteq present, NEW key \in S
    PROVE  /\ Placed(Only(order, kept), key) \in Seq(S)
           /\ Orders(Placed(Only(order, kept), key), kept \cup {key})
<1> DEFINE r == Only(order, kept)
<1>1. r \in Seq(S) /\ Range(r) = kept /\ IsInjective(r)
  <2>1. r \in Seq(S) /\ Range(r) = Range(order) \cap kept /\ (IsInjective(order) => IsInjective(r))
    BY OnlyProperties
  <2>2. Range(order) = present /\ IsInjective(order)
    BY DEF Orders
  <2> HIDE DEF r
  <2> QED
    BY <2>1, <2>2
<1> HIDE DEF r
<1>2. DOMAIN r = 1..Len(r) /\ Len(r) \in Nat
  BY <1>1, LenProperties
<1>3. CASE key \in Range(r)
  BY <1>1, <1>3 DEF Placed, Orders, r
<1>4. CASE key \notin Range(r)
  <2> DEFINE a == Append(r, key)
  <2>1. /\ a \in Seq(S) /\ Len(a) = Len(r) + 1
        /\ \A i \in 1..Len(r) : a[i] = r[i]
        /\ a[Len(r) + 1] = key
    BY <1>1, AppendProperties
  <2> HIDE DEF a
  <2>2. DOMAIN a = 1..(Len(r) + 1)
    BY <2>1, LenProperties
  <2>3. Range(a) = kept \cup {key}
    BY <1>1, <1>2, <2>1, <2>2 DEF Range
  <2>4. IsInjective(a)
    BY <1>1, <1>2, <1>4, <2>1, <2>2 DEF Range, IsInjective
  <2>5. Placed(r, key) = a
    BY <1>4 DEF Placed, a
  <2> QED
    BY <2>1, <2>3, <2>4, <2>5 DEF Orders, r
<1> QED
  BY <1>3, <1>4

\* The oldest of some keys that are there is one of them.
LEMMA OldestIsOne ==
    ASSUME NEW S, NEW order \in Seq(S), NEW keys, keys \subseteq Range(order), keys # {}
    PROVE  Oldest(order, keys) \in keys
<1> DEFINE r == Only(order, keys)
<1>1. r \in Seq(S) /\ Range(r) = Range(order) \cap keys
  BY OnlyProperties
<1> HIDE DEF r
<1>2. Range(r) = keys
  BY <1>1
<1>3. DOMAIN r = 1..Len(r) /\ Len(r) \in Nat
  BY <1>1, LenProperties
<1>4. Len(r) # 0
  BY <1>2, <1>3 DEF Range
<1>5. Head(r) = r[1] /\ 1 \in DOMAIN r
  BY <1>1, <1>3, <1>4
<1> QED
  BY <1>2, <1>5 DEF Range, Oldest, r

-----------------------------------------------------------------------------
(* Induction over finite sets, stated of a set of sets for the same reason.  *)

\* What holds of a set when it holds of all sets with one element less holds of all
\* subsets of a finite set.
LEMMA AllSubsets ==
    ASSUME NEW S, IsFiniteSet(S), NEW G \in SUBSET SUBSET S,
           \A T \in SUBSET S : (\A x \in T : T \ {x} \in G) => T \in G
    PROVE  G = SUBSET S
<1> DEFINE Good == {n \in Nat : \A T \in SUBSET S : Cardinality(T) = n => T \in G}
<1>1. 0 \in Good
  <2>1. ASSUME NEW T \in SUBSET S, Cardinality(T) = 0 PROVE T \in G
    <3>1. IsFiniteSet(T)
      BY FS_Subset
    <3>2. T = {}
      BY <2>1, <3>1, FS_EmptySet
    <3> QED
      BY <3>2
  <2> QED
    BY <2>1
<1>2. ASSUME NEW n \in Good PROVE n + 1 \in Good
  <2>1. ASSUME NEW T \in SUBSET S, Cardinality(T) = n + 1 PROVE T \in G
    <3>1. IsFiniteSet(T) /\ n \in Nat
      BY FS_Subset
    <3>2. ASSUME NEW x \in T PROVE T \ {x} \in G
      <4>1. Cardinality(T \ {x}) = Cardinality(T) - 1
        BY <3>1, FS_RemoveElement
      <4>2. Cardinality(T \ {x}) = n /\ T \ {x} \in SUBSET S
        BY <4>1, <2>1, <3>1
      <4> QED
        BY <4>2, <1>2
    <3> QED
      BY <3>2
  <2> QED
    BY <2>1
<1>3. Good = Nat
  <2>1. Good \in SUBSET Nat
    OBVIOUS
  <2> HIDE DEF Good
  <2> QED
    BY <1>1, <1>2, <2>1, AllNaturals
<1>4. ASSUME NEW T \in SUBSET S PROVE T \in G
  <2>1. Cardinality(T) \in Nat
    BY FS_Subset, FS_CardinalityType
  <2> QED
    BY <2>1, <1>3
<1> QED
  BY <1>4

-----------------------------------------------------------------------------
(* Sums over finite sets.                                                    *)

One(s) == CHOOSE x \in s : TRUE

\* F is the recursive function of SumFunctionOnSet, on the subsets of S in D.
SumsUp(w, D, F) == F = [s \in D |-> IF s = {} THEN 0 ELSE w[One(s)] + F[s \ {One(s)}]]

LEMMA SumExists ==
    ASSUME NEW w, NEW S, IsFiniteSet(S)
    PROVE  \E F : SumsUp(w, SUBSET S, F)
<1> DEFINE Small(n) == {s \in SUBSET S : Cardinality(s) =< n}
           Good == {n \in Nat : \E F : SumsUp(w, Small(n), F)}
<1>0. ASSUME NEW s \in SUBSET S
      PROVE  /\ IsFiniteSet(s) /\ Cardinality(s) \in Nat
             /\ s # {} => /\ One(s) \in s /\ s \ {One(s)} \in SUBSET S /\ Cardinality(s) # 0
                          /\ Cardinality(s \ {One(s)}) = Cardinality(s) - 1
  <2>1. IsFiniteSet(s) /\ Cardinality(s) \in Nat
    BY FS_Subset, FS_CardinalityType
  <2>2. s # {} => One(s) \in s
    BY DEF One
  <2>3. s # {} => Cardinality(s) # 0
    BY <2>1, FS_EmptySet
  <2> QED
    BY <2>1, <2>2, <2>3, FS_RemoveElement
<1>1. 0 \in Good
  <2> DEFINE f == [s \in Small(0) |-> 0]
  <2>1. ASSUME NEW s \in Small(0) PROVE s = {}
    <3>1. s \in SUBSET S /\ Cardinality(s) =< 0
      OBVIOUS
    <3> HIDE DEF Small
    <3>2. Cardinality(s) \in Nat /\ (s # {} => Cardinality(s) # 0)
      BY <3>1, <1>0, Zenon
    <3> QED
      BY <3>1, <3>2
  <2>2. SumsUp(w, Small(0), f)
    BY <2>1 DEF SumsUp
  <2> QED
    BY <2>2
<1>2. ASSUME NEW n \in Good PROVE n + 1 \in Good
  <2>1. PICK f : SumsUp(w, Small(n), f)
    OBVIOUS
  <2>2. n \in Nat
    OBVIOUS
  <2> DEFINE g == [s \in Small(n + 1) |-> IF s \in Small(n) THEN f[s] ELSE w[One(s)] + f[s \ {One(s)}]]
  <2>3. ASSUME NEW s \in Small(n + 1)
        PROVE  g[s] = IF s = {} THEN 0 ELSE w[One(s)] + g[s \ {One(s)}]
    <3>1. s # {} => s \ {One(s)} \in Small(n) /\ s \ {One(s)} \in Small(n + 1)
      BY <1>0, <2>2
    <3>2. s # {} => g[s \ {One(s)}] = f[s \ {One(s)}]
      BY <3>1
    <3>3. CASE s \in Small(n)
      <4>1. f[s] = IF s = {} THEN 0 ELSE w[One(s)] + f[s \ {One(s)}]
        BY <2>1, <3>3 DEF SumsUp
      <4>2. g[s] = f[s]
        BY <3>3
      <4> HIDE DEF g
      <4> QED
        BY <3>2, <4>1, <4>2
    <3>4. CASE s \notin Small(n)
      <4>1. {} \in Small(n)
        BY FS_EmptySet, <2>2
      <4>2. s # {}
        BY <4>1, <3>4
      <4>3. g[s] = w[One(s)] + f[s \ {One(s)}]
        BY <3>4
      <4> HIDE DEF g
      <4> QED
        BY <3>2, <4>2, <4>3
    <3> QED
      BY <3>3, <3>4
  <2>4. SumsUp(w, Small(n + 1), g)
    <3>1. g = [s \in Small(n + 1) |-> g[s]]
      OBVIOUS
    <3> QED
      BY <2>3 DEF SumsUp
  <2>5. \E F : SumsUp(w, Small(n + 1), F)
    <3> HIDE DEF Small, g
    <3> QED
      BY <2>4
  <2> QED
    BY <2>5, <2>2
<1>3. Good = Nat
  <2>1. Good \in SUBSET Nat
    OBVIOUS
  <2> HIDE DEF Good
  <2> QED
    BY <1>1, <1>2, <2>1, AllNaturals
<1>4. Cardinality(S) \in Nat
  BY FS_CardinalityType
<1>5. Small(Cardinality(S)) = SUBSET S
  <2>1. \A s \in SUBSET S : Cardinality(s) =< Cardinality(S)
    BY FS_Subset
  <2> QED
    BY <2>1
<1>6. Cardinality(S) \in Good
  BY <1>3, <1>4
<1>7. \E F : SumsUp(w, Small(Cardinality(S)), F)
  BY <1>6
<1> QED
  BY <1>5, <1>7

LEMMA SumIsThat ==
    ASSUME NEW w, NEW S, IsFiniteSet(S)
    PROVE  \E F : SumsUp(w, SUBSET S, F) /\ SumFunctionOnSet(w, S) = F[S]
<1> DEFINE F == CHOOSE F : F = [s \in SUBSET S |-> IF s = {} THEN 0
                     ELSE w[CHOOSE x \in s : TRUE] + F[s \ {CHOOSE x \in s : TRUE}]]
<1>1. SumFunctionOnSet(w, S) = F[S]
  BY DEF SumFunctionOnSet, FoldFunctionOnSet, MapThenFoldSet
<1>2. PICK f : SumsUp(w, SUBSET S, f)
  BY SumExists
<1>3. SumsUp(w, SUBSET S, F)
  BY <1>2 DEF SumsUp, One
<1> QED
  BY <1>1, <1>3

\* A sum is that of one element and the others, whichever that is; it is natural.
LEMMA SumProperties ==
    ASSUME NEW A, NEW w \in [A -> Nat], NEW S \in SUBSET A, IsFiniteSet(S)
    PROVE  /\ SumFunctionOnSet(w, S) \in Nat
           /\ SumFunctionOnSet(w, {}) = 0
           /\ \A x \in S : SumFunctionOnSet(w, S) = w[x] + SumFunctionOnSet(w, S \ {x})
<1>1. PICK F : SumsUp(w, SUBSET S, F) /\ SumFunctionOnSet(w, S) = F[S]
  BY SumIsThat
<1>2. ASSUME NEW T \in SUBSET S PROVE SumFunctionOnSet(w, T) = F[T]
  <2>1. IsFiniteSet(T)
    BY FS_Subset
  <2>2. PICK H : SumsUp(w, SUBSET T, H) /\ SumFunctionOnSet(w, T) = H[T]
    BY <2>1, SumIsThat
  <2> DEFINE Same == {s \in SUBSET T : H[s] = F[s]}
  <2>3. ASSUME NEW s \in SUBSET T, \A x \in s : s \ {x} \in Same PROVE s \in Same
    <3>1. /\ F[s] = IF s = {} THEN 0 ELSE w[One(s)] + F[s \ {One(s)}]
          /\ H[s] = IF s = {} THEN 0 ELSE w[One(s)] + H[s \ {One(s)}]
      BY <1>1, <2>2 DEF SumsUp
    <3>2. s # {} => H[s \ {One(s)}] = F[s \ {One(s)}]
      BY <2>3 DEF One
    <3> QED
      BY <3>1, <3>2
  <2>4. Same = SUBSET T
    <3>1. Same \in SUBSET SUBSET T
      OBVIOUS
    <3> HIDE DEF Same
    <3> QED
      BY <2>1, <2>3, <3>1, AllSubsets
  <2> QED
    BY <2>2, <2>4
<1>3. \A s \in SUBSET S : F[s] \in Nat /\ \A x \in s : F[s] = w[x] + F[s \ {x}]
  <2>1. ASSUME NEW s \in SUBSET S
        PROVE  F[s] = IF s = {} THEN 0 ELSE w[One(s)] + F[s \ {One(s)}]
    BY <1>1 DEF SumsUp
  <2>2. ASSUME NEW s \in SUBSET S, s # {} PROVE One(s) \in s /\ w[One(s)] \in Nat
    BY <2>2 DEF One
  <2> DEFINE Natural == {s \in SUBSET S : F[s] \in Nat}
  <2>3. Natural = SUBSET S
    <3>1. ASSUME NEW s \in SUBSET S, \A x \in s : s \ {x} \in Natural PROVE s \in Natural
      <4>1. CASE s = {}
        <5>1. F[s] = 0
          BY <4>1, <2>1
        <5> QED
          BY <5>1
      <4>2. CASE s # {}
        <5>1. F[s \ {One(s)}] \in Nat
          BY <3>1, <2>2, <4>2
        <5> QED
          BY <2>1, <2>2, <4>2, <5>1
      <4> QED
        BY <4>1, <4>2
    <3>2. Natural \in SUBSET SUBSET S
      OBVIOUS
    <3> HIDE DEF Natural
    <3> QED
      BY <3>1, <3>2, AllSubsets
  <2> DEFINE Fine == {s \in SUBSET S : \A x \in s : F[s] = w[x] + F[s \ {x}]}
  <2>4. Fine = SUBSET S
    <3>1. ASSUME NEW s \in SUBSET S, \A x \in s : s \ {x} \in Fine, NEW x \in s
          PROVE  F[s] = w[x] + F[s \ {x}]
      <4> DEFINE c == One(s)
      <4>1. c \in s /\ F[s] = w[c] + F[s \ {c}]
        BY <2>1, <2>2
      <4> HIDE DEF c
      <4>2. CASE x = c
        BY <4>1, <4>2
      <4>3. CASE x # c
        <5> DEFINE both == (s \ {c}) \ {x}
        <5>1. x \in s \ {c} /\ c \in s \ {x} /\ both = (s \ {x}) \ {c} /\ both \in SUBSET S
          BY <4>1, <4>3
        <5>2. F[s \ {c}] = w[x] + F[both] /\ F[s \ {x}] = w[c] + F[both]
          BY <3>1, <4>1, <5>1
        <5>3. F[both] \in Nat /\ w[x] \in Nat /\ w[c] \in Nat
          BY <2>3, <4>1, <5>1
        <5> HIDE DEF both
        <5> QED
          BY <4>1, <5>2, <5>3
      <4> QED
        BY <4>2, <4>3
    <3>2. \A s \in SUBSET S : (\A x \in s : s \ {x} \in Fine) => s \in Fine
      BY <3>1
    <3>3. Fine \in SUBSET SUBSET S
      OBVIOUS
    <3> HIDE DEF Fine
    <3> QED
      BY <3>2, <3>3, AllSubsets
  <2> QED
    BY <2>3, <2>4
<1>4. F[{}] = 0
  BY <1>1 DEF SumsUp
<1> QED
  BY <1>2, <1>3, <1>4

\* A sum depends on the weights of its elements alone.
LEMMA SumOfEqual ==
    ASSUME NEW A, NEW w \in [A -> Nat], NEW B, NEW v \in [B -> Nat],
           NEW S \in SUBSET (A \cap B), IsFiniteSet(S), \A x \in S : w[x] = v[x]
    PROVE  SumFunctionOnSet(w, S) = SumFunctionOnSet(v, S)
<1> DEFINE Same == {s \in SUBSET S : SumFunctionOnSet(w, s) = SumFunctionOnSet(v, s)}
<1>1. ASSUME NEW s \in SUBSET S, \A x \in s : s \ {x} \in Same PROVE s \in Same
  <2>1. IsFiniteSet(s) /\ s \in SUBSET A /\ s \in SUBSET B
    BY FS_Subset
  <2>2. CASE s = {}
    BY <2>1, <2>2, SumProperties
  <2>3. CASE s # {}
    <3>1. PICK x : x \in s
      BY <2>3
    <3>2. SumFunctionOnSet(w, s) = w[x] + SumFunctionOnSet(w, s \ {x})
      BY <2>1, <3>1, SumProperties
    <3>3. SumFunctionOnSet(v, s) = v[x] + SumFunctionOnSet(v, s \ {x})
      BY <2>1, <3>1, SumProperties
    <3> QED
      BY <1>1, <3>1, <3>2, <3>3
  <2> QED
    BY <2>2, <2>3
<1>2. Same = SUBSET S
  <2>1. Same \in SUBSET SUBSET S
    OBVIOUS
  <2> HIDE DEF Same
  <2> QED
    BY <1>1, <2>1, AllSubsets
<1> QED
  BY <1>2

\* The sum over two disjoint sets.
LEMMA SumOfUnion ==
    ASSUME NEW A, NEW w \in [A -> Nat], NEW S \in SUBSET A, NEW T \in SUBSET A,
           IsFiniteSet(S), IsFiniteSet(T), S \cap T = {}
    PROVE  SumFunctionOnSet(w, S \cup T) = SumFunctionOnSet(w, S) + SumFunctionOnSet(w, T)
<1> DEFINE Good == {s \in SUBSET S : SumFunctionOnSet(w, s \cup T) = SumFunctionOnSet(w, s) + SumFunctionOnSet(w, T)}
<1>1. ASSUME NEW s \in SUBSET S, \A x \in s : s \ {x} \in Good PROVE s \in Good
  <2>1. IsFiniteSet(s) /\ s \in SUBSET A /\ IsFiniteSet(s \cup T) /\ s \cup T \in SUBSET A
    BY FS_Subset, FS_Union
  <2>2. CASE s = {}
    <3>1. SumFunctionOnSet(w, s) = 0 /\ SumFunctionOnSet(w, T) \in Nat
      BY <2>1, <2>2, SumProperties
    <3>2. s \cup T = T
      BY <2>2
    <3>3. SumFunctionOnSet(w, s \cup T) = SumFunctionOnSet(w, s) + SumFunctionOnSet(w, T)
      BY <3>1, <3>2
    <3> QED
      BY <3>3
  <2>3. CASE s # {}
    <3>1. PICK x : x \in s
      BY <2>3
    <3>2. SumFunctionOnSet(w, s) = w[x] + SumFunctionOnSet(w, s \ {x})
      BY <2>1, <3>1, SumProperties
    <3>3. SumFunctionOnSet(w, s \cup T) = w[x] + SumFunctionOnSet(w, (s \cup T) \ {x})
      BY <2>1, <3>1, SumProperties
    <3>4. (s \cup T) \ {x} = (s \ {x}) \cup T
      BY <3>1
    <3>5. SumFunctionOnSet(w, (s \ {x}) \cup T) = SumFunctionOnSet(w, s \ {x}) + SumFunctionOnSet(w, T)
      BY <1>1, <3>1
    <3>6. SumFunctionOnSet(w, s \ {x}) \in Nat /\ SumFunctionOnSet(w, T) \in Nat /\ w[x] \in Nat
      <4>1. IsFiniteSet(s \ {x}) /\ s \ {x} \in SUBSET A
        BY <2>1, FS_Subset
      <4> QED
        BY <4>1, <3>1, SumProperties
    <3> DEFINE a == SumFunctionOnSet(w, s \ {x})
               b == SumFunctionOnSet(w, T)
    <3>7. SumFunctionOnSet(w, s \cup T) = w[x] + (a + b) /\ SumFunctionOnSet(w, s) = w[x] + a
      BY <3>2, <3>3, <3>4, <3>5
    <3>8. a \in Nat /\ b \in Nat /\ w[x] \in Nat
      BY <3>6
    <3>9. w[x] + (a + b) = (w[x] + a) + b
      <4> HIDE DEF a, b
      <4> QED
        BY <3>8
    <3>10. SumFunctionOnSet(w, s \cup T) = SumFunctionOnSet(w, s) + b
      <4> HIDE DEF a, b
      <4> QED
        BY <3>7, <3>9
    <3> QED
      BY <3>10
  <2> QED
    BY <2>2, <2>3
<1>2. Good = SUBSET S
  <2>1. Good \in SUBSET SUBSET S
    OBVIOUS
  <2> HIDE DEF Good
  <2> QED
    BY <1>1, <2>1, AllSubsets
<1> QED
  BY <1>2

\* The sum over the parts of a set, each with the sum of its elements.
LEMMA SumOfParts ==
    ASSUME NEW A, NEW w \in [A -> Nat], IsFiniteSet(A), NEW K, IsFiniteSet(K), NEW P \in [K -> SUBSET A],
           \A j, k \in K : j # k => P[j] \cap P[k] = {},
           NEW r \in [K -> Nat], \A k \in K : r[k] = SumFunctionOnSet(w, P[k])
    PROVE  SumFunctionOnSet(r, K) = SumFunctionOnSet(w, UNION {P[k] : k \in K})
<1> DEFINE In(s) == UNION {P[k] : k \in s}
           Good == {s \in SUBSET K : SumFunctionOnSet(r, s) = SumFunctionOnSet(w, In(s))}
<1>1. ASSUME NEW s \in SUBSET K, \A x \in s : s \ {x} \in Good PROVE s \in Good
  <2>1. IsFiniteSet(s)
    BY FS_Subset
  <2>2. CASE s = {}
    <3>1. In(s) = {}
      BY <2>2
    <3>2. IsFiniteSet({})
      BY FS_EmptySet
    <3>3. SumFunctionOnSet(w, {}) = 0 /\ SumFunctionOnSet(r, {}) = 0
      BY <3>2, SumProperties
    <3> QED
      BY <3>1, <3>3, <2>2
  <2>3. CASE s # {}
    <3>1. PICK k : k \in s
      BY <2>3
    <3>2. SumFunctionOnSet(r, s) = r[k] + SumFunctionOnSet(r, s \ {k})
      <4> HIDE DEF Good, In
      <4>1. r \in [K -> Nat] /\ s \in SUBSET K /\ IsFiniteSet(s)
        BY <2>1
      <4> QED
        BY <4>1, <3>1, SumProperties
    <3>3. SumFunctionOnSet(r, s \ {k}) = SumFunctionOnSet(w, In(s \ {k}))
      BY <1>1, <3>1
    <3>4. In(s) = P[k] \cup In(s \ {k})
      BY <3>1
    <3>5. P[k] \cap In(s \ {k}) = {}
      BY <3>1
    <3>6. P[k] \in SUBSET A /\ In(s \ {k}) \in SUBSET A
      BY <3>1
    <3>7. IsFiniteSet(P[k]) /\ IsFiniteSet(In(s \ {k}))
      BY <3>6, FS_Subset
    <3>8. SumFunctionOnSet(w, P[k] \cup In(s \ {k})) = SumFunctionOnSet(w, P[k]) + SumFunctionOnSet(w, In(s \ {k}))
      <4> HIDE DEF Good, In
      <4> QED
        <5> DEFINE one == P[k]
                   rest == In(s \ {k})
        <5>1. /\ one \in SUBSET A /\ rest \in SUBSET A /\ one \cap rest = {}
              /\ IsFiniteSet(one) /\ IsFiniteSet(rest)
          BY <3>5, <3>6, <3>7
        <5> HIDE DEF one, rest
        <5>2. SumFunctionOnSet(w, one \cup rest) = SumFunctionOnSet(w, one) + SumFunctionOnSet(w, rest)
          BY <5>1, SumOfUnion
        <5> QED
          BY <5>2 DEF one, rest
    <3>9. SumFunctionOnSet(r, s) = SumFunctionOnSet(w, In(s))
      <4> HIDE DEF Good, In
      <4> QED
        BY <3>1, <3>2, <3>3, <3>4, <3>8
    <3> QED
      BY <3>9
  <2> QED
    BY <2>2, <2>3
<1>2. Good = SUBSET K
  <2>1. Good \in SUBSET SUBSET K
    OBVIOUS
  <2> HIDE DEF Good
  <2> QED
    BY <1>1, <2>1, AllSubsets
<1> QED
  BY <1>2

\* The sum of the first numbers, one further.
LEMMA SumOfFirst ==
    ASSUME NEW n \in Nat, NEW v \in [1..n -> Nat], NEW i \in 1..n
    PROVE  SumFunctionOnSet([j \in 1..i |-> v[j]], 1..i) = SumFunctionOnSet([j \in 1..(i - 1) |-> v[j]], 1..(i - 1)) + v[i]
<1> DEFINE A == 1..i
           B == 1..(i - 1)
           a == [j \in A |-> v[j]]
           b == [j \in B |-> v[j]]
<1>1. a \in [A -> Nat] /\ b \in [B -> Nat] /\ i \in A /\ a[i] = v[i] /\ v[i] \in Nat
  OBVIOUS
<1>2. IsFiniteSet(A) /\ IsFiniteSet(B)
  BY FS_Interval
<1>3. A \ {i} = B /\ B \in SUBSET (A \cap B) /\ A \in SUBSET A /\ B \in SUBSET B /\ B \in SUBSET A
  OBVIOUS
<1>4. \A j \in B : a[j] = b[j]
  OBVIOUS
<1> HIDE DEF A, B, a, b
<1>5. SumFunctionOnSet(a, A) = a[i] + SumFunctionOnSet(a, A \ {i})
  <2>1. a \in [A -> Nat] /\ A \in SUBSET A /\ IsFiniteSet(A)
    BY <1>1, <1>2
  <2>2. i \in A
    BY <1>1
  <2>3. \A x \in A : SumFunctionOnSet(a, A) = a[x] + SumFunctionOnSet(a, A \ {x})
    BY <2>1, SumProperties
  <2> QED
    BY <2>2, <2>3
<1>6. SumFunctionOnSet(a, B) = SumFunctionOnSet(b, B)
  <2>1. /\ a \in [A -> Nat] /\ b \in [B -> Nat] /\ B \in SUBSET (A \cap B)
        /\ IsFiniteSet(B) /\ \A j \in B : a[j] = b[j]
    BY <1>1, <1>2, <1>3, <1>4
  <2> QED
    BY <2>1, SumOfEqual, SMTT(60)
<1>7. SumFunctionOnSet(b, B) \in Nat
  <2>1. b \in [B -> Nat] /\ B \in SUBSET B /\ IsFiniteSet(B)
    BY <1>1, <1>2
  <2> QED
    BY <2>1, SumProperties
<1>8. SumFunctionOnSet(a, A) = SumFunctionOnSet(b, B) + v[i]
  <2>1. SumFunctionOnSet(a, A) = v[i] + SumFunctionOnSet(b, B)
    <3>1. A \ {i} = B /\ a[i] = v[i]
      BY <1>1, <1>3
    <3> QED
      BY <3>1, <1>5, <1>6
  <2> QED
    BY <2>1, <1>1, <1>7
<1> QED
  BY <1>8 DEF A, B, a, b

LEMMA ImageIsFinite ==
    ASSUME NEW S, IsFiniteSet(S), NEW f, f = [x \in S |-> f[x]]
    PROVE  IsFiniteSet({f[x] : x \in S})
<1>1. f \in Surjection(S, {f[x] : x \in S})
  BY DEF Surjection
<1> QED
  BY <1>1, FS_Surjection
=============================================================================
