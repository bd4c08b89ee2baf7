------------------------- MODULE UsageHistoryProofs -------------------------
(***************************************************************************)
(* Proofs about UsageHistory for any contexts, readers and number of reads. *)
(***************************************************************************)
EXTENDS UsageHistory, TLAPS

\* The types of the fields, by name.
Flag == BOOLEAN
Phases == {"idle", "waiting", "answered"}
Numbers == 0..MaxReads
Idle == 0..(IdleStop + 1)
Samples == 0..MaxSamples
SamplerType == [made : Flag, idle : Idle, inFlight : Flag, first : Flag, samples : Samples]
ReaderType == [phase : Phases, on : Numbers, samples : Samples]

Typed ==
    /\ reads \in Numbers
    /\ sampler \in [SamplerObjects -> SamplerType]
    /\ current \in [Contexts -> Numbers]
    /\ reader \in [Readers -> ReaderType]

\* The next sampler has a number nobody has, a first sample is under way until it ends,
\* and who waits, waits for a sampler.
Steady ==
    /\ \A c \in Contexts : current[c] =< reads
    /\ \A n \in SamplerObjects : sampler[n].first => sampler[n].inFlight
    /\ \A r \in Readers : reader[r].phase = "waiting" => reader[r].on \in SamplerObjects

Inv == Typed /\ Steady /\ NothingLeftBehind

LEMMA Members ==
    ASSUME BoundAssumption
    PROVE  /\ TRUE \in Flag /\ FALSE \in Flag /\ {"idle", "waiting", "answered"} \subseteq Phases
           /\ MaxReads \in Nat /\ Numbers \subseteq Nat /\ SamplerObjects \subseteq Numbers /\ 0 \in Numbers
           /\ \A m \in Numbers : m # 0 => m \in SamplerObjects
           /\ 0 \in Idle /\ 0 \in Samples /\ \A i \in Idle : i =< IdleStop => i + 1 \in Idle
  BY DEF Flag, Phases, Numbers, SamplerObjects, Idle, Samples, BoundAssumption

LEMMA SamplerFields ==
    ASSUME NEW s \in SamplerType
    PROVE  s.made \in Flag /\ s.idle \in Idle /\ s.inFlight \in Flag /\ s.first \in Flag /\ s.samples \in Samples
  BY DEF SamplerType

LEMMA ReadAgain ==
    ASSUME NEW s \in SamplerType, NEW i \in Idle
    PROVE  LET t == [s EXCEPT !.idle = i]
           IN  t \in SamplerType /\ t.first = s.first /\ t.inFlight = s.inFlight
  BY DEF SamplerType

LEMMA Begun ==
    ASSUME NEW s \in SamplerType, NEW f \in Flag
    PROVE  LET t == [s EXCEPT !.inFlight = f]
           IN  t \in SamplerType /\ t.first = s.first /\ t.inFlight = f
  BY DEF SamplerType

LEMMA Ended ==
    ASSUME NEW s \in SamplerType, NEW k \in Samples
    PROVE  LET t == [s EXCEPT !.inFlight = FALSE, !.first = FALSE, !.samples = k]
           IN  t \in SamplerType /\ t.first = FALSE /\ t.inFlight = FALSE
<1>1. FALSE \in Flag
  BY DEF Flag
<1> QED
  BY <1>1 DEF SamplerType

LEMMA Samplers ==
    ASSUME Inv
    PROVE  \A n \in SamplerObjects : sampler[n] \in SamplerType /\ (sampler[n].first => sampler[n].inFlight)
  BY DEF Inv, Typed, Steady

LEMMA InvInit == ASSUME Init, BoundAssumption PROVE Inv
<1>1. Unmade \in SamplerType /\ Unmade.first = FALSE
  BY Members DEF Unmade, SamplerType
<1>2. [phase |-> "idle", on |-> 0, samples |-> 0] \in ReaderType
  BY Members DEF ReaderType
<1> QED
  BY <1>1, <1>2, Members DEF Init, Inv, Typed, Steady, NothingLeftBehind

\* A reader finds a sampler, or makes one whose first sample is under way.
LEMMA ReadStep ==
    ASSUME Inv, BoundAssumption, NEW r \in Readers, NEW c \in Contexts, Read(r, c) PROVE Inv'
<1> DEFINE n == IF current[c] # 0 THEN current[c] ELSE reads + 1
           new == [Unmade EXCEPT !.made = TRUE, !.inFlight = TRUE, !.first = TRUE]
           s == IF current[c] # 0 THEN [sampler[n] EXCEPT !.idle = 0] ELSE new
           waits == s.samples = 0 /\ s.first
           given == [phase |-> IF waits THEN "waiting" ELSE "answered", on |-> n, samples |-> s.samples]
<1>1. /\ sampler' = [sampler EXCEPT ![n] = s] /\ current' = [current EXCEPT ![c] = n]
      /\ timers' = timers \cup {n} /\ reads' = reads + 1 /\ reads < MaxReads
      /\ reader' = [reader EXCEPT ![r] = [phase |-> IF sampler'[n].samples = 0 /\ sampler'[n].first
                                                    THEN "waiting" ELSE "answered",
                                          on |-> n, samples |-> sampler'[n].samples]]
  BY DEF Read, Ensure, Inv, Typed
<1>2. n \in SamplerObjects /\ n =< reads + 1 /\ reads + 1 \in Numbers
  BY <1>1 DEF Inv, Typed, Steady, Numbers, SamplerObjects, BoundAssumption
<1>3. new \in SamplerType /\ new.inFlight = TRUE /\ new.first = TRUE
  BY Members DEF Unmade, SamplerType
<1>4. s \in SamplerType /\ (s.first => s.inFlight) /\ (sampler[n].inFlight => s.inFlight)
  <2>1. CASE current[c] # 0
    <3>1. 0 \in Idle /\ sampler[n] \in SamplerType /\ (sampler[n].first => sampler[n].inFlight)
      BY <1>2, Samplers, Members
    <3>2. s = [sampler[n] EXCEPT !.idle = 0]
      BY <2>1
    <3> HIDE DEF n, s
    <3> QED
      BY <3>1, <3>2, ReadAgain
  <2>2. CASE current[c] = 0
    BY <1>3, <2>2
  <2> QED
    BY <2>1, <2>2 DEF Inv, Typed
<1>5. sampler'[n] = s /\ sampler' \in [SamplerObjects -> SamplerType]
      /\ \A m \in SamplerObjects : m # n => sampler'[m] = sampler[m]
  BY <1>1, <1>2, <1>4 DEF Inv, Typed
<1> HIDE DEF s
<1>6. reader' = [reader EXCEPT ![r] = given]
  BY <1>1, <1>5
<1>7. given \in ReaderType /\ given.on = n /\ (given.phase = "waiting" => s.first)
  BY <1>2, <1>4, Members, SamplerFields DEF ReaderType
<1> HIDE DEF given
<1>8. Typed'
  BY <1>1, <1>2, <1>5, <1>6, <1>7, Members DEF Inv, Typed
<1>9. Steady'
  BY <1>1, <1>2, <1>4, <1>5, <1>6, <1>7, Members DEF Inv, Typed, Steady, Numbers
<1>10. timers' = {current'[d] : d \in Contexts} \ {0}
       /\ \A d, e \in Contexts : current'[d] = current'[e] /\ current'[d] # 0 => d = e
  BY <1>1, <1>2, Members DEF Inv, Typed, Steady, NothingLeftBehind, Numbers, SamplerObjects
<1>11. \A q \in Readers : reader'[q].phase = "waiting" => sampler'[reader'[q].on].inFlight
  BY <1>4, <1>5, <1>6, <1>7 DEF Inv, Typed, Steady, NothingLeftBehind
<1> QED
  BY <1>8, <1>9, <1>10, <1>11 DEF Inv, NothingLeftBehind

\* A timer takes itself away, or begins a sample.
LEMMA TimerStep ==
    ASSUME Inv, BoundAssumption, NEW c \in Contexts, TimerFires(c) PROVE Inv'
<1>1. current[c] \in SamplerObjects /\ UNCHANGED <<reads, reader>>
  BY Members DEF TimerFires, Inv, Typed, NothingLeftBehind
<1>2. CASE Stop(c) /\ UNCHANGED sampler
  BY <1>1, <1>2, Members DEF Stop, Inv, Typed, Steady, NothingLeftBehind, Numbers
<1>3. CASE sampler' = [sampler EXCEPT ![current[c]].inFlight = TRUE] /\ UNCHANGED <<current, timers>>
  <2> DEFINE s == [sampler[current[c]] EXCEPT !.inFlight = TRUE]
  <2>1. s \in SamplerType /\ s.inFlight = TRUE
    <3>1. sampler[current[c]] \in SamplerType /\ TRUE \in Flag
      BY <1>1, Samplers, Members
    <3> QED
      BY <3>1, Begun
  <2>2. sampler' = [sampler EXCEPT ![current[c]] = s]
    BY <1>3
  <2> HIDE DEF s
  <2>3. sampler' \in [SamplerObjects -> SamplerType] /\ sampler'[current[c]] = s
        /\ \A m \in SamplerObjects : m # current[c] => sampler'[m] = sampler[m]
    BY <1>1, <2>1, <2>2 DEF Inv, Typed
  <2>4. Typed' /\ Steady'
    BY <1>1, <1>3, <2>1, <2>3 DEF Inv, Typed, Steady
  <2> QED
    BY <1>1, <1>3, <2>1, <2>3, <2>4 DEF Inv, Steady, NothingLeftBehind
<1> QED
  BY <1>2, <1>3 DEF TimerFires

\* The end of a sample answers all who waited for it, whatever became of its sampler.
LEMMA SampledStep ==
    ASSUME Inv, BoundAssumption, NEW n \in SamplerObjects, Sampled(n) PROVE Inv'
<1>1. PICK samples \in Samples :
          /\ sampler' = [sampler EXCEPT ![n].inFlight = FALSE, ![n].first = FALSE, ![n].samples = samples]
          /\ reader' = [r \in Readers |-> IF reader[r].phase = "waiting" /\ reader[r].on = n
                                          THEN [reader[r] EXCEPT !.phase = "answered", !.samples = samples]
                                          ELSE reader[r]]
          /\ UNCHANGED <<reads, current, timers>>
  <2>1. sampler[n].samples \in Samples
    BY Samplers, SamplerFields
  <2>2. PICK available \in BOOLEAN :
          LET samples == IF available /\ sampler[n].samples < MaxSamples
                         THEN sampler[n].samples + 1 ELSE sampler[n].samples
          IN  /\ sampler' = [sampler EXCEPT ![n].inFlight = FALSE, ![n].first = FALSE, ![n].samples = samples]
              /\ reader' = [r \in Readers |-> IF reader[r].phase = "waiting" /\ reader[r].on = n
                                              THEN [reader[r] EXCEPT !.phase = "answered", !.samples = samples]
                                              ELSE reader[r]]
              /\ UNCHANGED <<reads, current, timers>>
    BY DEF Sampled
  <2> DEFINE k == IF available /\ sampler[n].samples < MaxSamples
                  THEN sampler[n].samples + 1 ELSE sampler[n].samples
  <2>3. k \in Samples
    BY <2>1 DEF Samples, BoundAssumption
  <2>4. /\ sampler' = [sampler EXCEPT ![n].inFlight = FALSE, ![n].first = FALSE, ![n].samples = k]
        /\ reader' = [r \in Readers |-> IF reader[r].phase = "waiting" /\ reader[r].on = n
                                        THEN [reader[r] EXCEPT !.phase = "answered", !.samples = k]
                                        ELSE reader[r]]
        /\ UNCHANGED <<reads, current, timers>>
    BY <2>2
  <2> HIDE DEF k
  <2> QED
    BY <2>3, <2>4
<1> DEFINE s == [sampler[n] EXCEPT !.inFlight = FALSE, !.first = FALSE, !.samples = samples]
<1>2. s \in SamplerType /\ s.inFlight = FALSE /\ s.first = FALSE
  <2>1. sampler[n] \in SamplerType
    BY Samplers
  <2> QED
    BY <2>1, Ended
<1>3. sampler' = [sampler EXCEPT ![n] = s]
  BY <1>1
<1> HIDE DEF s
<1>4. reader' \in [Readers -> ReaderType]
      /\ \A r \in Readers : \/ reader'[r].phase = "answered"
                            \/ reader'[r] = reader[r] /\ ~(reader[r].phase = "waiting" /\ reader[r].on = n)
  BY <1>1, Members DEF Inv, Typed, ReaderType
<1>5. sampler' \in [SamplerObjects -> SamplerType] /\ sampler'[n] = s
      /\ \A m \in SamplerObjects : m # n => sampler'[m] = sampler[m]
  BY <1>2, <1>3 DEF Inv, Typed
<1>6. Typed'
  BY <1>1, <1>4, <1>5 DEF Inv, Typed
<1>7. timers' = {current'[c] : c \in Contexts} \ {0}
      /\ \A c, d \in Contexts : current'[c] = current'[d] /\ current'[c] # 0 => c = d
  <2>1. current' = current /\ timers' = timers
    BY <1>1
  <2> QED
    BY <2>1 DEF Inv, NothingLeftBehind
<1>8. \A r \in Readers : reader'[r].phase = "waiting" =>
          reader'[r].on \in SamplerObjects /\ reader'[r].on # n /\ sampler'[reader'[r].on].inFlight
  BY <1>4, <1>5 DEF Inv, Steady, NothingLeftBehind
<1>9. Steady'
  BY <1>1, <1>2, <1>5, <1>8 DEF Inv, Steady
<1> QED
  BY <1>6, <1>8, <1>9, <1>7 DEF Inv, NothingLeftBehind

\* Time goes by for samplers, whose samples go on.
LEMMA TickStep == ASSUME Inv, BoundAssumption, Tick PROVE Inv'
<1>1. UNCHANGED <<reads, current, timers, reader>>
  BY DEF Tick
<1>2. ASSUME NEW n \in SamplerObjects, sampler[n].idle =< IdleStop
      PROVE  LET t == [sampler[n] EXCEPT !.idle = @ + 1]
             IN  t \in SamplerType /\ t.first = sampler[n].first /\ t.inFlight = sampler[n].inFlight
  <2>1. sampler[n] \in SamplerType /\ sampler[n].idle + 1 \in Idle
    BY <1>2, Samplers, SamplerFields, Members
  <2> QED
    BY <2>1, ReadAgain
<1>3. sampler' \in [SamplerObjects -> SamplerType]
      /\ \A n \in SamplerObjects : sampler'[n].first = sampler[n].first /\ sampler'[n].inFlight = sampler[n].inFlight
  BY <1>2, Samplers DEF Tick
<1> QED
  BY <1>1, <1>3 DEF Inv, Typed, Steady, NothingLeftBehind

LEMMA CloseStep == ASSUME Inv, BoundAssumption, Close PROVE Inv'
  BY Members DEF Close, Inv, Typed, Steady, NothingLeftBehind, Numbers

LEMMA InvStep == ASSUME Inv, BoundAssumption, [Next]_vars PROVE Inv'
<1>1. CASE UNCHANGED vars
  BY <1>1 DEF vars, Inv, Typed, Steady, NothingLeftBehind
<1> QED
  BY <1>1, TickStep, CloseStep, ReadStep, TimerStep, SampledStep DEF Next

LEMMA InvTyped == ASSUME BoundAssumption PROVE Inv => TypeOK
<1> SUFFICES ASSUME Inv PROVE TypeOK
  OBVIOUS
<1>1. timers \subseteq SamplerObjects
  BY Members DEF Inv, Typed, NothingLeftBehind
<1> QED
  BY <1>1 DEF Inv, Typed, TypeOK, SamplerType, ReaderType, Flag, Phases, Numbers, Idle, Samples

\* For any contexts, readers and limits: every state has its types, a sampler holds no
\* more samples than it may and is idle no longer than it takes to stop it.
THEOREM TypeCorrect == ASSUME BoundAssumption PROVE Spec => []TypeOK
  BY InvTyped, InvInit, InvStep, PTL DEF Spec

\* For any contexts and readers: one sampler per context with its timer, no timer of one
\* that stopped, and who waits for a first sample waits for one under way, whenever
\* samplers stop, are closed and made again (ensure, stop, usage-history.js:96-150).
THEOREM NothingLeftBehindCorrect == ASSUME BoundAssumption PROVE Spec => []NothingLeftBehind
<1>1. Inv => NothingLeftBehind
  BY DEF Inv
<1> QED
  BY <1>1, InvInit, InvStep, PTL DEF Spec
=============================================================================
