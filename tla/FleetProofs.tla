----------------------------- MODULE FleetProofs -----------------------------
(***************************************************************************)
(* Proofs about the bot fleet.  Producer, for every capacity, batch size   *)
(* and number of events and faults: it is well typed, accounts for every   *)
(* event and keeps their order.  TestRegistry, for any tests, contestants  *)
(* and numbers of bots and runners: its types, that no runner trades out   *)
(* of reach, and that no test has two runners that trade.  CircuitBreaker, *)
(* for any bots, thresholds and outages: what a closed breaker trips on.   *)
(***************************************************************************)
EXTENDS Producer, TestRegistry, CircuitBreaker, SequenceTheorems, TLAPS

\* The proofs name primed values (u, m, ...) and hide the names, so that the
\* prover's arithmetic sees plain numbers.

\* Both at once: the lengths add up only where sequences are sequences.
Inv == TypeOK /\ NothingVanishes

\* A flush of any batch, of the right type, leaves an empty one, and what
\* was in it is in the topic or counted as lost (producer.go:57-67).
LEMMA FlushMoves ==
  ASSUME TypeOK, NEW events \in Seq(Nat), flush(events)
  PROVE  /\ batch' = <<>> /\ topic' \in Seq(Nat)
         /\ lost' \in Nat /\ faults' \in 0 .. MaxFaults
         /\ Len(topic') + lost' = Len(topic) + lost + Len(events)
<1>0. /\ topic \in Seq(Nat) /\ lost \in Nat /\ faults \in 0 .. MaxFaults
      /\ Len(topic) \in Nat /\ Len(events) \in Nat /\ batch' = <<>>
  BY DEF TypeOK, flush
<1>1. CASE events = <<>>
  <2>1. topic' = topic /\ lost' = lost /\ faults' = faults
    BY <1>1 DEF flush
  <2> QED BY <2>1, <1>0, <1>1
<1>2. CASE events # <<>>
  <2>1. WriteMessages(events)
    BY <1>2 DEF flush
  <2>2. CASE topic' = topic \o events /\ UNCHANGED <<lost, faults>>
    <3>1. Len(topic') = Len(topic) + Len(events) /\ topic' \in Seq(Nat)
      BY <2>2, <1>0
    <3> QED BY <3>1, <2>2, <1>0
  <2>3. CASE lost' = lost + Len(events) /\ UNCHANGED <<topic, faults>>
    BY <2>3, <1>0
  <2>4. CASE /\ faults < MaxFaults /\ lost' = lost + Len(events)
             /\ faults' = faults + 1 /\ UNCHANGED topic
    BY <2>4, <1>0, ProducerAssumption
  <2> QED BY <2>1, <2>2, <2>3, <2>4 DEF WriteMessages
<1> QED BY <1>1, <1>2

LEMMA ProducerStart == Init => Inv
<1> SUFFICES ASSUME Init PROVE TypeOK /\ NothingVanishes
  BY DEF Inv
<1>1. <<>> \in Seq(Nat) /\ Len(<<>>) = 0
  OBVIOUS
<1>a. loop \in BOOLEAN /\ done \in BOOLEAN /\ writer \in BOOLEAN
  BY DEF Init
<1>b. /\ channel = <<>> /\ batch = <<>> /\ topic = <<>>
      /\ accepted = 0 /\ dropped = 0 /\ lost = 0 /\ faults = 0
  BY DEF Init
<1>c. /\ accepted \in Nat /\ dropped \in Nat /\ lost \in Nat /\ faults \in 0 .. MaxFaults
      /\ Len(channel) <= Capacity /\ Len(batch) < BatchSize
  BY <1>1, <1>b, ProducerAssumption
<1>2. TypeOK
  BY <1>1, <1>a, <1>b, <1>c DEF TypeOK
<1>3. NothingVanishes
  BY <1>1 DEF Init, NothingVanishes
<1> QED BY <1>2, <1>3

LEMMA Step == Inv /\ [Next]_vars => Inv'
<1> SUFFICES ASSUME TypeOK, NothingVanishes, [Next]_vars PROVE TypeOK' /\ NothingVanishes'
  BY DEF Inv
<1>0. /\ channel \in Seq(Nat) /\ batch \in Seq(Nat) /\ topic \in Seq(Nat)
      /\ Len(channel) \in Nat /\ Len(batch) \in Nat /\ Len(topic) \in Nat
      /\ Len(batch) < BatchSize /\ Len(channel) <= Capacity
      /\ accepted \in Nat /\ dropped \in Nat /\ lost \in Nat
      /\ Capacity \in Nat /\ BatchSize \in Nat \ {0}
  BY ProducerAssumption DEF TypeOK
<1>1. CASE Emit(accepted + dropped + 1)
  <2>1. CASE Len(channel) < Capacity /\ channel' = Append(channel, accepted + dropped + 1)
             /\ accepted' = accepted + 1 /\ UNCHANGED dropped
    <3>1. channel' \in Seq(Nat) /\ Len(channel') = Len(channel) + 1
      BY <2>1, <1>0
    <3> QED BY <3>1, <2>1, <1>1, <1>0 DEF Emit, TypeOK, NothingVanishes
  <2>2. CASE dropped' = dropped + 1 /\ UNCHANGED <<channel, accepted>>
    BY <2>2, <1>1, <1>0 DEF Emit, TypeOK, NothingVanishes
  <2> QED BY <1>1, <2>1, <2>2 DEF Emit
<1>2. CASE Collect
  <2> DEFINE next == Append(batch, Head(channel))
  <2>1. /\ channel # <<>> /\ channel' = Tail(channel)
        /\ UNCHANGED <<accepted, dropped, loop, done, writer>>
    BY <1>2 DEF Collect
  <2>2. /\ channel' \in Seq(Nat) /\ Len(channel') = Len(channel) - 1
        /\ next \in Seq(Nat) /\ Len(next) = Len(batch) + 1
    BY <2>1, <1>0
  <2>3. CASE Len(next) >= BatchSize /\ flush(next)
    <3>1. /\ batch' = <<>> /\ topic' \in Seq(Nat) /\ lost' \in Nat /\ faults' \in 0 .. MaxFaults
          /\ Len(topic') + lost' = Len(topic) + lost + Len(next)
      BY <2>2, <2>3, FlushMoves
    <3>2. Len(topic') \in Nat /\ Len(batch') = 0 /\ batch' \in Seq(Nat)
      BY <3>1
    <3> HIDE DEF next
    <3>a. accepted' = accepted
      BY <2>1
    <3>b. accepted = Len(channel) + Len(batch) + Len(topic) + lost
      BY DEF NothingVanishes
    <3>c. accepted' = Len(channel') + 0 + Len(topic') + lost'
      <4>1. /\ lost' \in Nat /\ Len(channel') \in Nat /\ Len(next) \in Nat
            /\ Len(topic') + lost' = Len(topic) + lost + Len(next)
            /\ accepted = Len(channel') + Len(next) + Len(topic) + lost
        BY <3>1, <3>b, <2>2, <1>0
      <4> DEFINE u == Len(topic')  t == Len(topic)  b == Len(next)  c == Len(channel')
                 m == lost'
      <4>2. /\ u \in Nat /\ t \in Nat /\ b \in Nat /\ c \in Nat /\ lost \in Nat /\ m \in Nat
            /\ u + m = t + lost + b /\ accepted = c + b + t + lost
        BY <4>1, <3>2, <1>0
      <4> HIDE DEF u, t, b, c, m
      <4>3. accepted = c + 0 + u + m
        BY <4>2
      <4> QED BY <4>3, <3>a DEF u, c, m
    <3>3. NothingVanishes'
      BY <3>c, <3>2 DEF NothingVanishes
    <3>4. Len(channel') <= Capacity /\ Len(batch') < BatchSize
      BY <3>2, <2>2, <1>0
    <3>5. TypeOK'
      BY <3>1, <3>2, <3>4, <2>1, <2>2 DEF TypeOK
    <3> QED BY <3>3, <3>5
  <2>4. CASE Len(next) < BatchSize /\ batch' = next /\ UNCHANGED <<topic, lost, faults>>
    <3> HIDE DEF next
    <3> QED BY <2>4, <2>1, <2>2, <1>0 DEF TypeOK, NothingVanishes
  <2> QED
    <3>1. \/ Len(next) >= BatchSize /\ flush(next)
          \/ ~(Len(next) >= BatchSize) /\ batch' = next /\ UNCHANGED <<topic, lost, faults>>
      BY <1>2 DEF Collect
    <3>2. ~(Len(next) >= BatchSize) => Len(next) < BatchSize
      BY <2>2, <1>0
    <3> QED BY <3>1, <3>2, <2>3, <2>4
<1>3. CASE (Tick \/ Finish) /\ flush(batch)
  <2>1. /\ batch' = <<>> /\ topic' \in Seq(Nat) /\ lost' \in Nat /\ faults' \in 0 .. MaxFaults
        /\ Len(topic') + lost' = Len(topic) + lost + Len(batch)
    BY <1>0, <1>3, FlushMoves
  <2>2. /\ UNCHANGED <<channel, accepted, dropped, done, writer>> /\ loop' \in BOOLEAN
    BY <1>3 DEF Tick, Finish, TypeOK
  <2>3. Len(topic') \in Nat /\ Len(batch') = 0 /\ batch' \in Seq(Nat)
    BY <2>1
  <2>a. channel' = channel /\ accepted' = accepted
    BY <2>2
  <2>b. accepted = Len(channel) + Len(batch) + Len(topic) + lost
    BY DEF NothingVanishes
  <2>c. accepted' = Len(channel') + 0 + Len(topic') + lost'
    <3>1. lost' \in Nat /\ Len(topic') + lost' = Len(topic) + lost + Len(batch)
      BY <2>1
    <3> DEFINE u == Len(topic')  t == Len(topic)  b == Len(batch)  c == Len(channel)  m == lost'
    <3>2. /\ u \in Nat /\ t \in Nat /\ b \in Nat /\ c \in Nat /\ lost \in Nat /\ m \in Nat
          /\ u + m = t + lost + b /\ accepted = c + b + t + lost
      BY <3>1, <2>b, <2>3, <1>0
    <3>3. Len(channel') = c
      BY <2>a
    <3> HIDE DEF u, t, b, c, m
    <3>4. accepted = c + 0 + u + m
      BY <3>2
    <3> QED BY <3>3, <3>4, <2>a DEF u, m
  <2>4. NothingVanishes'
    BY <2>c, <2>3 DEF NothingVanishes
  <2>5. Len(channel') <= Capacity /\ Len(batch') < BatchSize
    BY <2>2, <2>3, <1>0
  <2>6. TypeOK'
    BY <2>1, <2>2, <2>3, <2>5 DEF TypeOK
  <2> QED BY <2>4, <2>6
<1>4. CASE CloseDone \/ CloseWriter
  BY <1>4 DEF CloseDone, CloseWriter, TypeOK, NothingVanishes
<1>5. CASE UNCHANGED vars
  BY <1>5 DEF vars, TypeOK, NothingVanishes
<1> QED
  <2>1. Tick \/ Finish => flush(batch)
    BY DEF Tick, Finish
  <2> QED BY <2>1, <1>1, <1>2, <1>3, <1>4, <1>5 DEF Next

\* The producer accounts for every event its bots handed it: each one Emit
\* accepted is in the channel, the batch or the topic, or was lost by the
\* writer, whatever the sizes and wherever Close falls (producer.go:45-95).
THEOREM EventsAreAccountedFor == Spec => []NothingVanishes
<1>1. Inv => NothingVanishes
  BY DEF Inv
<1> QED BY <1>1, ProducerStart, Step, PTL DEF Spec

\* The channel never outgrows its capacity, a batch never waits at its full
\* size, and every variable has its type (producer.go:28-83).
THEOREM ProducerTypeCorrect == Spec => []TypeOK
<1>1. Inv => TypeOK
  BY DEF Inv
<1> QED BY <1>1, ProducerStart, Step, PTL DEF Spec

-----------------------------------------------------------------------------
(* The order of events.  A sequence is taken apart into its elements and   *)
(* the fact that it rises, so that the steps need no index arithmetic.     *)

Elems(s) == {s[i] : i \in DOMAIN s}
Rising(s) == \A i, k \in DOMAIN s : i < k => s[i] < s[k]
Before(S, T) == \A x \in S, y \in T : x < y

LEMMA ElemsAreNumbers == \A s \in Seq(Nat) : Elems(s) \subseteq Nat
BY DEF Elems

LEMMA NothingRises == Rising(<<>>) /\ Elems(<<>>) = {}
BY DEF Rising, Elems

LEMMA AppendRises ==
  ASSUME NEW s \in Seq(Nat), NEW n \in Nat
  PROVE  /\ Elems(Append(s, n)) = Elems(s) \cup {n}
         /\ Rising(s) /\ Before(Elems(s), {n}) => Rising(Append(s, n))
<1>1. /\ DOMAIN s = 1 .. Len(s) /\ Len(s) \in Nat
      /\ DOMAIN Append(s, n) = 1 .. Len(s) + 1
      /\ Append(s, n)[Len(s) + 1] = n
      /\ \A i \in 1 .. Len(s) : Append(s, n)[i] = s[i]
  OBVIOUS
<1>2. Elems(Append(s, n)) = Elems(s) \cup {n}
  <2>1. ASSUME NEW i \in DOMAIN Append(s, n) PROVE Append(s, n)[i] \in Elems(s) \cup {n}
    BY <1>1 DEF Elems
  <2>2. ASSUME NEW i \in DOMAIN s PROVE s[i] \in Elems(Append(s, n))
    BY <1>1 DEF Elems
  <2>3. n \in Elems(Append(s, n))
    BY <1>1 DEF Elems
  <2> QED BY <2>1, <2>2, <2>3 DEF Elems
<1>3. ASSUME Rising(s), Before(Elems(s), {n}) PROVE Rising(Append(s, n))
  <2> SUFFICES ASSUME NEW i \in 1 .. Len(s) + 1, NEW k \in 1 .. Len(s) + 1, i < k
               PROVE  Append(s, n)[i] < Append(s, n)[k]
    BY <1>1 DEF Rising
  <2>0. i \in 1 .. Len(s)
    BY <1>1
  <2>1. CASE k = Len(s) + 1
    BY <2>0, <2>1, <1>1, <1>3 DEF Before, Elems
  <2>2. CASE k \in 1 .. Len(s)
    BY <2>0, <2>2, <1>1, <1>3 DEF Rising
  <2> QED BY <1>1, <2>1, <2>2
<1> QED BY <1>2, <1>3

LEMMA TailRises ==
  ASSUME NEW s \in Seq(Nat), s # <<>>, Rising(s)
  PROVE  /\ Head(s) \in Elems(s) /\ Elems(Tail(s)) \subseteq Elems(s)
         /\ Rising(Tail(s)) /\ Before({Head(s)}, Elems(Tail(s)))
<1>1. /\ DOMAIN s = 1 .. Len(s) /\ Len(s) \in Nat \ {0} /\ Head(s) = s[1]
      /\ DOMAIN Tail(s) = 1 .. Len(s) - 1
      /\ \A i \in 1 .. Len(s) - 1 : Tail(s)[i] = s[i + 1] /\ i + 1 \in DOMAIN s /\ 1 < i + 1
  OBVIOUS
<1>2. Head(s) \in Elems(s)
  BY <1>1 DEF Elems
<1>3. Elems(Tail(s)) \subseteq Elems(s)
  BY <1>1 DEF Elems
<1>4. Before({Head(s)}, Elems(Tail(s)))
  BY <1>1 DEF Before, Elems, Rising
<1>5. Rising(Tail(s))
  <2> SUFFICES ASSUME NEW i \in 1 .. Len(s) - 1, NEW k \in 1 .. Len(s) - 1, i < k
               PROVE  Tail(s)[i] < Tail(s)[k]
    BY <1>1 DEF Rising
  <2>1. i + 1 \in DOMAIN s /\ k + 1 \in DOMAIN s /\ i + 1 < k + 1
    BY <1>1
  <2> QED BY <2>1, <1>1 DEF Rising
<1> QED BY <1>2, <1>3, <1>4, <1>5

LEMMA JoinRises ==
  ASSUME NEW s \in Seq(Nat), NEW t \in Seq(Nat)
  PROVE  /\ Elems(s \o t) = Elems(s) \cup Elems(t)
         /\ Rising(s) /\ Rising(t) /\ Before(Elems(s), Elems(t)) => Rising(s \o t)
<1>1. /\ DOMAIN s = 1 .. Len(s) /\ DOMAIN t = 1 .. Len(t) /\ Len(s) \in Nat /\ Len(t) \in Nat
      /\ DOMAIN (s \o t) = 1 .. Len(s) + Len(t)
      /\ \A i \in 1 .. Len(s) : (s \o t)[i] = s[i]
      /\ \A i \in 1 .. Len(t) : (s \o t)[Len(s) + i] = t[i]
  OBVIOUS
<1>2. ASSUME NEW i \in 1 .. Len(s) + Len(t), i \notin 1 .. Len(s)
      PROVE  i - Len(s) \in 1 .. Len(t) /\ (s \o t)[i] = t[i - Len(s)]
  <2>1. i - Len(s) \in 1 .. Len(t) /\ Len(s) + (i - Len(s)) = i
    BY <1>1, <1>2
  <2> QED BY <2>1, <1>1
<1>3. Elems(s \o t) = Elems(s) \cup Elems(t)
  <2>1. ASSUME NEW i \in DOMAIN (s \o t) PROVE (s \o t)[i] \in Elems(s) \cup Elems(t)
    <3>1. CASE i \in 1 .. Len(s)
      BY <3>1, <1>1 DEF Elems
    <3>2. CASE i \notin 1 .. Len(s)
      BY <3>2, <1>1, <1>2 DEF Elems
    <3> QED BY <3>1, <3>2
  <2>2. ASSUME NEW i \in DOMAIN s PROVE s[i] \in Elems(s \o t)
    <3>1. i \in DOMAIN (s \o t) /\ (s \o t)[i] = s[i]
      BY <1>1
    <3> QED BY <3>1 DEF Elems
  <2>3. ASSUME NEW i \in DOMAIN t PROVE t[i] \in Elems(s \o t)
    <3>1. Len(s) + i \in DOMAIN (s \o t) /\ (s \o t)[Len(s) + i] = t[i]
      BY <1>1
    <3> QED BY <3>1 DEF Elems
  <2> QED BY <2>1, <2>2, <2>3 DEF Elems
<1>4. ASSUME Rising(s), Rising(t), Before(Elems(s), Elems(t)) PROVE Rising(s \o t)
  <2> SUFFICES ASSUME NEW i \in 1 .. Len(s) + Len(t), NEW k \in 1 .. Len(s) + Len(t), i < k
               PROVE  (s \o t)[i] < (s \o t)[k]
    BY <1>1 DEF Rising
  <2>1. CASE k \in 1 .. Len(s)
    <3>1. i \in 1 .. Len(s)
      BY <2>1, <1>1
    <3> QED BY <3>1, <2>1, <1>1, <1>4 DEF Rising
  <2>2. CASE k \notin 1 .. Len(s) /\ i \in 1 .. Len(s)
    BY <2>2, <1>1, <1>2, <1>4 DEF Before, Elems
  <2>3. CASE k \notin 1 .. Len(s) /\ i \notin 1 .. Len(s)
    <3>1. /\ i - Len(s) \in 1 .. Len(t) /\ (s \o t)[i] = t[i - Len(s)]
          /\ k - Len(s) \in 1 .. Len(t) /\ (s \o t)[k] = t[k - Len(s)]
      BY <2>3, <1>2
    <3>2. i - Len(s) < k - Len(s)
      BY <1>1
    <3> QED BY <3>1, <3>2, <1>1, <1>4 DEF Rising
  <2> QED BY <2>1, <2>2, <2>3
<1> QED BY <1>3, <1>4

\* The three places an event passes through rise, each is before the next,
\* and what Emit numbers next is after them all.
InOrder ==
  /\ Rising(topic) /\ Rising(batch) /\ Rising(channel)
  /\ Before(Elems(topic), Elems(batch))
  /\ Before(Elems(topic), Elems(channel))
  /\ Before(Elems(batch), Elems(channel))
  /\ Before(Elems(topic) \cup Elems(batch) \cup Elems(channel), {accepted + dropped + 1})

LEMMA OrderStart == Init => InOrder
BY NothingRises DEF Init, InOrder, Before

LEMMA FlushKeepsOrder ==
  ASSUME TypeOK, NEW events \in Seq(Nat), flush(events),
         Rising(topic), Rising(events), Before(Elems(topic), Elems(events))
  PROVE  batch' = <<>> /\ Rising(topic') /\ Elems(topic') \subseteq Elems(topic) \cup Elems(events)
<1>0. topic \in Seq(Nat) /\ batch' = <<>>
  BY DEF TypeOK, flush
<1>1. topic' = topic \/ topic' = topic \o events
  BY DEF flush, WriteMessages
<1> QED BY <1>0, <1>1, JoinRises

LEMMA OrderStep == TypeOK /\ InOrder /\ [Next]_vars => InOrder'
<1> SUFFICES ASSUME TypeOK, InOrder, [Next]_vars PROVE InOrder'
  OBVIOUS
<1>0. /\ channel \in Seq(Nat) /\ batch \in Seq(Nat) /\ topic \in Seq(Nat)
      /\ accepted \in Nat /\ dropped \in Nat
      /\ Elems(channel) \subseteq Nat /\ Elems(batch) \subseteq Nat /\ Elems(topic) \subseteq Nat
  BY ElemsAreNumbers DEF TypeOK
<1> DEFINE n == accepted + dropped + 1
<1>1. CASE Emit(n)
  <2>1. topic' = topic /\ batch' = batch /\ n \in Nat
    BY <1>0, <1>1 DEF Emit
  <2>2. CASE channel' = Append(channel, n) /\ accepted' = accepted + 1 /\ dropped' = dropped
    <3>1. Elems(channel') = Elems(channel) \cup {n} /\ Rising(channel')
      <4>1. Before(Elems(channel), {n})
        BY DEF InOrder, Before
      <4> QED BY <4>1, <2>1, <2>2, <1>0, AppendRises DEF InOrder
    <3>2. accepted' + dropped' + 1 = n + 1
      BY <2>2, <1>0
    <3> HIDE DEF n
    <3>3. Before(Elems(topic) \cup Elems(batch) \cup Elems(channel), {n})
      BY DEF InOrder, n
    <3>4. Before(Elems(topic) \cup Elems(batch) \cup Elems(channel'), {n + 1})
      BY <3>1, <3>3, <2>1, <1>0 DEF Before
    <3>5. Before(Elems(topic), Elems(channel')) /\ Before(Elems(batch), Elems(channel'))
      BY <3>1, <3>3 DEF InOrder, Before
    <3> QED BY <3>1, <3>2, <3>4, <3>5, <2>1 DEF InOrder
  <2>3. CASE channel' = channel /\ accepted' = accepted /\ dropped' = dropped + 1
    <3>1. accepted' + dropped' + 1 = n + 1
      BY <2>3, <1>0
    <3> HIDE DEF n
    <3>2. Before(Elems(topic) \cup Elems(batch) \cup Elems(channel), {n})
      BY DEF InOrder, n
    <3>3. Before(Elems(topic) \cup Elems(batch) \cup Elems(channel), {n + 1})
      BY <3>2, <2>1, <1>0 DEF Before
    <3> QED BY <3>1, <3>3, <2>1, <2>3 DEF InOrder
  <2> QED BY <1>1, <2>2, <2>3 DEF Emit
<1> HIDE DEF n
<1>2. CASE Collect
  <2> DEFINE next == Append(batch, Head(channel))
  <2>1. /\ channel # <<>> /\ channel' = Tail(channel) /\ accepted' = accepted /\ dropped' = dropped
    BY <1>2 DEF Collect
  <2>2. /\ Head(channel) \in Elems(channel) /\ Elems(channel') \subseteq Elems(channel)
        /\ Rising(channel') /\ Before({Head(channel)}, Elems(channel'))
    BY <2>1, <1>0, TailRises DEF InOrder
  <2>3. /\ next \in Seq(Nat) /\ Elems(next) = Elems(batch) \cup {Head(channel)} /\ Rising(next)
    <3>1. Before(Elems(batch), {Head(channel)}) /\ Head(channel) \in Nat
      BY <2>2, <1>0 DEF InOrder, Before
    <3> QED BY <3>1, <1>0, AppendRises DEF InOrder
  <2> HIDE DEF next
  <2>4. /\ Before(Elems(topic), Elems(next)) /\ Before(Elems(next), Elems(channel'))
        /\ Before(Elems(topic), Elems(channel'))
        /\ Before(Elems(topic) \cup Elems(next) \cup Elems(channel'), {n})
    BY <2>2, <2>3 DEF InOrder, Before, n
  <2>5. CASE flush(next)
    <3>1. batch' = <<>> /\ Rising(topic') /\ Elems(topic') \subseteq Elems(topic) \cup Elems(next)
      BY <2>3, <2>4, <2>5, FlushKeepsOrder DEF InOrder
    <3>2. Rising(batch') /\ Elems(batch') = {}
      BY <3>1, NothingRises
    <3>3. /\ Before(Elems(topic'), Elems(channel'))
          /\ Before(Elems(topic') \cup Elems(batch') \cup Elems(channel'), {n})
          /\ Before(Elems(topic'), Elems(batch')) /\ Before(Elems(batch'), Elems(channel'))
      BY <3>1, <3>2, <2>4 DEF Before
    <3> QED BY <3>1, <3>2, <3>3, <2>1, <2>2 DEF InOrder, n
  <2>6. CASE batch' = next /\ topic' = topic
    BY <2>6, <2>1, <2>2, <2>3, <2>4 DEF InOrder, n
  <2> QED BY <1>2, <2>5, <2>6 DEF Collect, next
<1>3. CASE (Tick \/ Finish) /\ flush(batch)
  <2>1. channel' = channel /\ accepted' = accepted /\ dropped' = dropped
    BY <1>3 DEF Tick, Finish
  <2>2. batch' = <<>> /\ Rising(topic') /\ Elems(topic') \subseteq Elems(topic) \cup Elems(batch)
    BY <1>0, <1>3, FlushKeepsOrder DEF InOrder
  <2>3. Rising(batch') /\ Elems(batch') = {}
    BY <2>2, NothingRises
  <2>4. /\ Before(Elems(topic'), Elems(channel))
        /\ Before(Elems(topic') \cup Elems(batch') \cup Elems(channel), {n})
        /\ Before(Elems(topic'), Elems(batch')) /\ Before(Elems(batch'), Elems(channel))
    BY <2>2, <2>3 DEF InOrder, Before, n
  <2> QED BY <2>1, <2>2, <2>3, <2>4 DEF InOrder, n
<1>4. CASE CloseDone \/ CloseWriter \/ UNCHANGED vars
  BY <1>4 DEF CloseDone, CloseWriter, vars, InOrder
<1> QED
  <2>1. Tick \/ Finish => flush(batch)
    BY DEF Tick, Finish
  <2> QED BY <2>1, <1>1, <1>2, <1>3, <1>4 DEF Next, n

LEMMA InOrderIsKept == TypeOK /\ InOrder => OrderIsKept
<1> SUFFICES ASSUME TypeOK, InOrder PROVE OrderIsKept
  OBVIOUS
<1>1. channel \in Seq(Nat) /\ batch \in Seq(Nat) /\ topic \in Seq(Nat)
  BY DEF TypeOK
<1>2. /\ topic \o batch \in Seq(Nat) /\ Rising(topic \o batch)
      /\ Elems(topic \o batch) = Elems(topic) \cup Elems(batch)
  BY <1>1, JoinRises DEF InOrder
<1>3. Before(Elems(topic \o batch), Elems(channel))
  BY <1>2 DEF InOrder, Before
<1>4. Rising((topic \o batch) \o channel)
  BY <1>1, <1>2, <1>3, JoinRises DEF InOrder
<1> QED BY <1>4 DEF OrderIsKept, Rising

\* Events keep the order of the Emit calls on the whole way, whatever the
\* sizes, the lost batches and the moment of Close (producer.go:57-81).
THEOREM OrderAlwaysKept == Spec => []OrderIsKept
<1>1. Init => Inv /\ InOrder
  BY ProducerStart, OrderStart
<1>2. Inv /\ InOrder /\ [Next]_vars => (Inv /\ InOrder)'
  BY Step, OrderStep DEF Inv
<1>3. Inv /\ InOrder => OrderIsKept
  BY InOrderIsKept DEF Inv
<1> QED BY <1>1, <1>2, <1>3, PTL DEF Spec

-----------------------------------------------------------------------------

USE RegistryAssumption

Runner == [test : Tests, ctx : {"none", "live", "cancelled"}, bots : 0 .. BotCount, timer : BOOLEAN]

\* The runner the consumer starts is one that has been made.
StartingIsMade == command \in {"starting", "resetting"} => starting \in DOMAIN runners

\* A runner put in the place of another leaves a sequence of runners.
LEMMA RunnerReplaced ==
  ASSUME NEW s \in Seq(Runner), NEW i \in DOMAIN s, NEW x \in Runner
  PROVE  [s EXCEPT ![i] = x] \in Seq(Runner) /\ Len([s EXCEPT ![i] = x]) = Len(s)
  BY ExceptSeq

TypesHold == FleetTypeOK /\ StartingIsMade

LEMMA RunnersAreTyped ==
  ASSUME TypesHold
  PROVE  /\ runners \in Seq(Runner) /\ DOMAIN runners = 1 .. Len(runners)
         /\ \A r \in DOMAIN runners : runners[r] \in Runner
         /\ \A t \in Tests : registry[t] # 0 => registry[t] \in DOMAIN runners
         /\ \A s \in Stoppers : hands[s] \in SUBSET DOMAIN runners
<1>1. runners \in Seq(Runner)  BY DEF TypesHold, FleetTypeOK, Runner
<1>2. DOMAIN runners = 1 .. Len(runners) /\ Len(runners) \in Nat  BY <1>1
<1> QED  BY <1>1, <1>2 DEF TypesHold, FleetTypeOK

LEMMA TypesAtInit == FleetInit => TypesHold
<1> SUFFICES ASSUME FleetInit PROVE TypesHold  OBVIOUS
<1> USE DEF FleetInit
<1>1. runners \in Seq(Runner) /\ Len(runners) = 0  OBVIOUS
<1>2. registry \in [Tests -> 0 .. Len(runners)] /\ starting \in 0 .. Len(runners)  BY <1>1
<1>3. /\ hands \in [Stoppers -> SUBSET (1 .. Len(runners))]
      /\ waiting \in [Stoppers -> 0 .. Len(runners)]
  BY <1>1
<1> QED  BY <1>1, <1>2, <1>3 DEF TypesHold, FleetTypeOK, StartingIsMade, Runner

-----------------------------------------------------------------------------
(* Every action keeps the types. *)

\* The consumer's commands.
LEMMA StartTestKeepsTypes == ASSUME TypesHold, NEW t \in Tests, startTest(t) PROVE TypesHold'
<1> USE DEF TypesHold, FleetTypeOK, StartingIsMade
<1>1. NewRunner(t) \in Runner  BY DEF NewRunner, Runner
<1>2. /\ runners' \in Seq(Runner) /\ Len(runners') = Len(runners) + 1
      /\ DOMAIN runners' = 1 .. Len(runners')
  BY <1>1 DEF startTest, Runner
<1> QED  BY <1>2 DEF startTest, hand, Runner

LEMMA StartKeepsTypes ==
  ASSUME TypesHold, Start \/ Spawn
  PROVE  TypesHold' /\ Len(runners') = Len(runners)
<1> USE DEF TypesHold, FleetTypeOK, StartingIsMade
<1>1. starting \in DOMAIN runners /\ runners \in Seq(Runner)  BY DEF Start, Spawn, Runner
<1>2. PICK x \in Runner : runners' = [runners EXCEPT ![starting] = x]
  <2>1. runners[starting] \in Runner  BY <1>1
  <2>2. CASE Start
    <3>1. [runners[starting] EXCEPT !.ctx = "live"] \in Runner  BY <2>1 DEF Runner
    <3> QED  BY <3>1, <2>2 DEF Start
  <2>3. CASE Spawn
    <3>1. PICK timed \in BOOLEAN :
            runners' = [runners EXCEPT ![starting].bots = BotCount, ![starting].timer = timed]
      BY <2>3 DEF Spawn
    <3>2. [runners[starting] EXCEPT !.bots = BotCount, !.timer = timed] \in Runner
      <4>1. BotCount \in 0 .. BotCount  OBVIOUS
      <4> HIDE DEF TypesHold
      <4> QED  BY <2>1, <3>1, <4>1 DEF Runner
    <3>3. runners' = [runners EXCEPT ![starting] =
                        [runners[starting] EXCEPT !.bots = BotCount, !.timer = timed]]
      BY <3>1, <1>1
    <3> QED  BY <3>2, <3>3
  <2> QED  BY <2>2, <2>3
<1>3. runners' \in Seq(Runner) /\ Len(runners') = Len(runners)  BY <1>1, <1>2, RunnerReplaced
<1>4. starting' \in 0 .. Len(runners)  BY DEF Start, Spawn
<1>5. command' \in {"resetting", "read"}  BY DEF Start, Spawn
<1>6. DOMAIN runners' = DOMAIN runners  BY <1>2
<1> QED  BY <1>1, <1>3, <1>4, <1>5, <1>6 DEF Start, Spawn, hand, Runner

LEMMA TakeOutKeepsTypes == ASSUME TypesHold, NEW ts \in SUBSET {t \in Tests : registry[t] # 0}, TakeOut(ts) PROVE TypesHold'
<1> USE DEF TypesHold, FleetTypeOK, StartingIsMade
<1>1. \A t \in ts : registry[t] \in 1 .. Len(runners)  OBVIOUS
<1>2. {registry[t] : t \in ts} \in SUBSET (1 .. Len(runners))  BY <1>1
<1>3. hands' \in [Stoppers -> SUBSET (1 .. Len(runners))]  BY <1>2 DEF TakeOut
<1>4. registry' \in [Tests -> 0 .. Len(runners)]  BY DEF TakeOut
<1> QED  BY <1>3, <1>4 DEF TakeOut

\* The stops, the timers and the bots that leave.
LEMMA StopKeepsTypes == ASSUME TypesHold, NEW s \in Stoppers, NEW r \in hands[s], Stop(s, r) PROVE TypesHold'
<1> USE DEF TypesHold, FleetTypeOK, StartingIsMade
<1>0. r \in 1 .. Len(runners) /\ r \in DOMAIN runners /\ runners \in Seq(Runner)  BY DEF Runner
<1>1. runners' \in Seq(Runner) /\ Len(runners') = Len(runners)
  <2>1. CASE UNCHANGED runners  BY <1>0, <2>1
  <2>2. CASE runners' = [runners EXCEPT ![r].ctx = "cancelled"]
    <3>1. runners[r] \in Runner  BY <1>0
    <3>2. [runners[r] EXCEPT !.ctx = "cancelled"] \in Runner  BY <3>1 DEF Runner
    <3>3. runners' = [runners EXCEPT ![r] = [runners[r] EXCEPT !.ctx = "cancelled"]]  BY <2>2
    <3> QED  BY <1>0, <3>2, <3>3, RunnerReplaced
  <2> QED  BY <2>1, <2>2 DEF Stop
<1>2. /\ hands' \in [Stoppers -> SUBSET (1 .. Len(runners))]
      /\ waiting' \in [Stoppers -> 0 .. Len(runners)]
  <2>1. CASE runners[r].ctx = "none"
    <3>1. hands' = [hands EXCEPT ![s] = @ \ {r}] /\ waiting' = waiting  BY <2>1 DEF Stop
    <3> QED  BY <3>1
  <2>2. CASE runners[r].ctx # "none"
    <3>1. waiting' = [waiting EXCEPT ![s] = r] /\ hands' = hands  BY <2>2 DEF Stop
    <3>2. r \in 0 .. Len(runners)  BY <1>0
    <3> QED  BY <3>1, <3>2
  <2> QED  BY <2>1, <2>2
<1>3. DOMAIN runners' = DOMAIN runners  BY <1>0, <1>1
<1> QED  BY <1>1, <1>2, <1>3 DEF Stop, Runner

LEMMA RunnerKeepsTypes == ASSUME TypesHold, NEW r \in DOMAIN runners, Elapse(r) \/ Leave(r) PROVE TypesHold'
<1> USE DEF TypesHold, FleetTypeOK, StartingIsMade
<1>0. runners \in Seq(Runner) /\ runners[r] \in Runner
  <2>1. runners \in Seq(Runner)  BY DEF Runner
  <2> QED  BY <2>1
<1>1. PICK x \in Runner : runners' = [runners EXCEPT ![r] = x]
  <2>1. CASE Elapse(r)
    <3>1. [runners[r] EXCEPT !.timer = FALSE, !.ctx = "cancelled"] \in Runner
      <4> HIDE DEF TypesHold
      <4> QED  BY <1>0 DEF Runner
    <3>2. runners' = [runners EXCEPT ![r] = [runners[r] EXCEPT !.timer = FALSE, !.ctx = "cancelled"]]
      BY <2>1 DEF Elapse
    <3> QED  BY <3>1, <3>2
  <2>2. CASE Leave(r)
    <3>1. [runners[r] EXCEPT !.bots = @ - 1] \in Runner  
      <4>1. runners[r].bots > 0 /\ runners[r].bots \in 0 .. BotCount  BY <1>0, <2>2 DEF Runner, Leave
      <4>2. runners[r].bots - 1 \in 0 .. BotCount  BY <4>1
      <4> HIDE DEF TypesHold
      <4> QED  BY <1>0, <4>2 DEF Runner
    <3>2. runners' = [runners EXCEPT ![r] = [runners[r] EXCEPT !.bots = @ - 1]]  BY <2>2 DEF Leave
    <3> QED  BY <3>1, <3>2
  <2> QED  BY <2>1, <2>2
<1>2. runners' \in Seq(Runner) /\ Len(runners') = Len(runners)  BY <1>0, <1>1, RunnerReplaced
<1>3. DOMAIN runners' = DOMAIN runners  BY <1>1
<1> QED  BY <1>2, <1>3 DEF Elapse, Leave, hand, Runner

LEMMA StepsKeepTypes == TypesHold /\ [FleetNext]_fleetVars => TypesHold'
<1> SUFFICES ASSUME TypesHold, [FleetNext]_fleetVars PROVE TypesHold'  OBVIOUS
<1>1. ASSUME NEW t \in Tests, stopTest(t) PROVE TypesHold'
  BY <1>1, TakeOutKeepsTypes DEF stopTest
<1>2. ASSUME NEW c, stopByContestant(c) PROVE TypesHold'
  <2>1. ofContestant(c) \in SUBSET {t \in Tests : registry[t] # 0}  BY DEF ofContestant
  <2> QED  BY <1>2, <2>1, TakeOutKeepsTypes DEF stopByContestant
<1>3. CASE EndCommand \/ EndRun \/ Sigterm \/ EndClose \/ UNCHANGED fleetVars
  BY <1>3 DEF TypesHold, FleetTypeOK, StartingIsMade, EndCommand, EndRun, Sigterm, EndClose, fleetVars, hand
<1>4. ASSUME NEW s \in Stoppers, EndStop(s) PROVE TypesHold'
  BY <1>4 DEF TypesHold, FleetTypeOK, StartingIsMade, EndStop
<1>5. CASE Close
  <2> USE DEF TypesHold, FleetTypeOK, StartingIsMade
  <2>1. registered \in SUBSET (1 .. Len(runners))  BY DEF registered
  <2>2. hands' \in [Stoppers -> SUBSET (1 .. Len(runners))]  BY <1>5, <2>1 DEF Close
  <2>3. registry' \in [Tests -> 0 .. Len(runners)]  BY <1>5 DEF Close
  <2> QED  BY <1>5, <2>2, <2>3 DEF Close
<1>6. ASSUME NEW s \in Stoppers, StopSome(s) PROVE TypesHold'
  BY <1>6, StopKeepsTypes DEF StopSome
<1> QED
  BY <1>1, <1>2, <1>3, <1>4, <1>5, <1>6, StartTestKeepsTypes, StartKeepsTypes, RunnerKeepsTypes
  DEF FleetNext

-----------------------------------------------------------------------------
(* Who may have to stop a runner. *)

\* While the process is not told to stop, main holds nothing; the registry
\* names a test's own runner; the runner being started is in the registry;
\* the consumer holds runners only while it obeys a stop, none of them with
\* an entry, no two of one test; and it waits for one only once its bots are
\* cancelled.
Held(r) == r \in hands["consumer"]

InReach ==
  /\ closing = "no" /\ hands["main"] = {}
  /\ \A t \in Tests : registry[t] # 0 => runners[registry[t]].test = t
  /\ command \in {"starting", "resetting"} => registry[runners[starting].test] = starting
  /\ \A r \in DOMAIN runners : live(r) => r \in registered \/ Held(r)
  /\ hands["consumer"] # {} => command = "stopping"
  /\ \A r \in hands["consumer"] : registry[runners[r].test] = 0
  /\ \A r, q \in hands["consumer"] : runners[r].test = runners[q].test => r = q
  /\ waiting["consumer"] # 0 => Held(waiting["consumer"]) /\ runners[waiting["consumer"]].ctx = "cancelled"

FleetInv == TypesHold /\ (parent => InReach)

LEMMA InvAtInit == FleetInit => FleetInv
<1> SUFFICES ASSUME FleetInit PROVE FleetInv  OBVIOUS
<1>1. InReach  BY DEF FleetInit, InReach, registered, live, Held, Stoppers
<1> QED  BY <1>1, TypesAtInit DEF FleetInv

\* A new runner of a test without one.
LEMMA StartTestKeepsReach ==
  ASSUME TypesHold, InReach, NEW t \in Tests, startTest(t) PROVE InReach'
<1> USE DEF TypesHold, FleetTypeOK
<1> DEFINE n == Len(runners) + 1
<1>0. \A r \in 1 .. n : r # n => r \in DOMAIN runners  BY RunnersAreTyped
<1>1. /\ Len(runners') = n /\ DOMAIN runners' = 1 .. n
      /\ runners'[n] = NewRunner(t)
      /\ \A r \in DOMAIN runners : r # n /\ runners'[r] = runners[r]
  BY DEF startTest
<1>2. registry' = [registry EXCEPT ![t] = n] /\ registry[t] = 0  BY <1>1 DEF startTest, duplicate
<1>3. hands["consumer"] = {} /\ waiting["consumer"] = 0  BY DEF InReach, startTest, Held
<1>4. UNCHANGED <<hands, waiting, closing>> /\ starting' = n /\ command' = "starting"
  BY <1>1 DEF startTest, hand
<1> HIDE DEF n
<1>5. registered \subseteq registered'
  BY <1>2 DEF registered
<1>6. \A u \in Tests : registry'[u] # 0 => runners'[registry'[u]].test = u
  BY <1>1, <1>2 DEF InReach, NewRunner
<1>7. \A r \in DOMAIN runners' : live(r)' => r \in registered'
  <2>1. SUFFICES ASSUME NEW r \in DOMAIN runners', live(r)' PROVE r \in registered'  OBVIOUS
  <2>2. r # n  BY <1>1, <2>1 DEF live, NewRunner
  <2>3. r \in DOMAIN runners  BY <1>0, <1>1, <2>1, <2>2
  <2>4. live(r)  BY <1>1, <2>1, <2>3 DEF live
  <2> QED  BY <1>3, <1>5, <2>3, <2>4 DEF InReach, Held
<1>8. registry'[runners'[starting'].test] = starting'
  BY <1>1, <1>2, <1>4 DEF NewRunner
<1> QED  BY <1>3, <1>4, <1>6, <1>7, <1>8 DEF InReach, Held

\* Its context is made, its bots are started: it is in the registry.
LEMMA StartKeepsReach ==
  ASSUME TypesHold, InReach, Start \/ Spawn PROVE InReach'
<1> USE DEF TypesHold, FleetTypeOK, StartingIsMade
<1>0. starting \in DOMAIN runners  BY DEF Start, Spawn
<1>1. /\ DOMAIN runners' = DOMAIN runners
      /\ \A r \in DOMAIN runners : runners'[r].test = runners[r].test
      /\ \A r \in DOMAIN runners : r # starting => runners'[r] = runners[r]
  <2>1. DOMAIN runners' = DOMAIN runners /\ (\A r \in DOMAIN runners : r # starting => runners'[r] = runners[r])
    BY DEF Start, Spawn
  <2>2. runners'[starting].test = runners[starting].test
    <3>1. runners[starting] \in Runner  BY <1>0, RunnersAreTyped
    <3>2. CASE Start  BY <1>0, <3>1, <3>2 DEF Start, Runner
    <3>3. CASE Spawn
      <4>1. PICK timed \in BOOLEAN :
              runners' = [runners EXCEPT ![starting].bots = BotCount, ![starting].timer = timed]
        BY <3>3 DEF Spawn
      <4>2. runners'[starting] = [runners[starting] EXCEPT !.bots = BotCount, !.timer = timed]
        BY <4>1, <1>0
      <4> HIDE DEF TypesHold
      <4> QED  BY <3>1, <4>2 DEF Runner
    <3> QED  BY <3>2, <3>3
  <2> QED  BY <2>1, <2>2
<1>2. hands["consumer"] = {} /\ waiting["consumer"] = 0  BY DEF InReach, Start, Spawn, Held
<1>3. UNCHANGED <<hands, waiting, closing, registry>>  BY DEF Start, Spawn, hand
<1>4. starting \in registered
  <2>1. runners[starting].test \in Tests  BY <1>0, RunnersAreTyped DEF Runner
  <2>2. registry[runners[starting].test] = starting  BY DEF InReach, Start, Spawn
  <2> QED  BY <1>0, <2>1, <2>2 DEF registered
<1>5. \A r \in DOMAIN runners' : live(r)' => r \in registered'
  BY <1>1, <1>2, <1>3, <1>4 DEF InReach, live, Held, registered
<1>6. \A t \in Tests : registry'[t] # 0 => runners'[registry'[t]].test = t
  BY <1>1, <1>3 DEF InReach
<1>7. command' \in {"starting", "resetting"} => registry'[runners'[starting'].test] = starting'
  BY <1>0, <1>1, <1>3 DEF InReach, Start, Spawn
<1> QED  BY <1>2, <1>3, <1>5, <1>6, <1>7 DEF InReach, Held

\* What leaves the registry comes into the consumer's hands.
LEMMA TakeOutKeepsReach ==
  ASSUME TypesHold, InReach, NEW ts \in SUBSET {t \in Tests : registry[t] # 0},
         command = "read", TakeOut(ts)
  PROVE  InReach'
<1> USE DEF TypesHold, FleetTypeOK
<1>1. hands["consumer"] = {} /\ waiting["consumer"] = 0  BY DEF InReach, Held
<1>2. /\ hands'["consumer"] = {registry[t] : t \in ts} /\ hands'["main"] = hands["main"]
      /\ command' = "stopping" /\ UNCHANGED <<runners, waiting, closing>>
  BY DEF TakeOut, Stoppers
<1>3. \A t \in Tests : registry'[t] = IF t \in ts THEN 0 ELSE registry[t]  BY DEF TakeOut
<1>4. \A r \in DOMAIN runners : r \in registered => r \in registered' \/ Held(r)'
  BY <1>2, <1>3 DEF registered, Held
<1>5. \A r \in DOMAIN runners' : live(r)' => r \in registered' \/ Held(r)'
  BY <1>1, <1>2, <1>4 DEF InReach, live, Held
<1>6. \A r \in hands'["consumer"] : registry'[runners'[r].test] = 0
  BY <1>2, <1>3 DEF InReach
<1>7. \A r, q \in hands'["consumer"] : runners'[r].test = runners'[q].test => r = q
  BY <1>2 DEF InReach
<1>8. \A t \in Tests : registry'[t] # 0 => runners'[registry'[t]].test = t
  BY <1>2, <1>3 DEF InReach
<1> QED  BY <1>1, <1>2, <1>5, <1>6, <1>7, <1>8 DEF InReach

\* A runner is cancelled, is waited for, is put down; nobody else's turn.
LEMMA StopKeepsReach ==
  ASSUME TypesHold, InReach, NEW s \in Stoppers, NEW r \in hands[s], Stop(s, r) PROVE InReach'
<1> USE DEF TypesHold, FleetTypeOK
<1>1. s = "consumer" /\ Held(r) /\ r \in DOMAIN runners
  BY RunnersAreTyped DEF InReach, Stoppers, Held
<1>2. /\ DOMAIN runners' = DOMAIN runners
      /\ \A q \in DOMAIN runners : runners'[q].test = runners[q].test /\ (live(q)' => live(q))
      /\ \A q \in DOMAIN runners : runners[q].ctx = "cancelled" => runners'[q].ctx = "cancelled"
  <2>1. CASE UNCHANGED runners  BY <2>1 DEF live
  <2>2. CASE runners' = [runners EXCEPT ![r].ctx = "cancelled"]
    <3>1. runners[r] \in Runner  BY <1>1, RunnersAreTyped
    <3>2. runners'[r] = [runners[r] EXCEPT !.ctx = "cancelled"]  BY <1>1, <2>2
    <3>3. runners'[r].test = runners[r].test /\ runners'[r].ctx = "cancelled"  BY <3>1, <3>2 DEF Runner
    <3> QED  BY <2>2, <3>3, <1>1 DEF live
  <2> QED  BY <2>1, <2>2 DEF Stop
<1>3. hands' = hands \/ (hands' = [hands EXCEPT !["consumer"] = @ \ {r}] /\ ~live(r))
  BY <1>1 DEF Stop, live
<1>4. \/ waiting' = [waiting EXCEPT !["consumer"] = r] /\ runners'[r].ctx = "cancelled" /\ hands' = hands
      \/ waiting' = waiting /\ waiting["consumer"] = 0
  BY <1>1, RunnersAreTyped DEF Stop, Runner
<1>5. UNCHANGED <<registry, command, starting, closing>>  BY DEF Stop
<1>6. hands'["main"] = {} /\ hands'["consumer"] \in SUBSET hands["consumer"]
  BY <1>3 DEF InReach, Stoppers
<1>7. \A q \in DOMAIN runners' : live(q)' => q \in registered' \/ Held(q)'
  BY <1>2, <1>3, <1>5 DEF InReach, Held, registered, Stoppers
<1>8. waiting'["consumer"] # 0 => waiting'["consumer"] \in hands'["consumer"] /\ runners'[waiting'["consumer"]].ctx = "cancelled"
  BY <1>1, <1>4 DEF Held, Stoppers
<1>9. hands'["consumer"] \in SUBSET DOMAIN runners'  BY <1>2, <1>6, RunnersAreTyped DEF Stoppers
<1>10. \A t \in Tests : registry'[t] # 0 => runners'[registry'[t]].test = t
  BY <1>2, <1>5, RunnersAreTyped DEF InReach
<1>11. command' \in {"starting", "resetting"} => registry'[runners'[starting'].test] = starting'
  BY <1>2, <1>5 DEF InReach, StartingIsMade
<1>12. /\ \A q \in hands'["consumer"] : registry'[runners'[q].test] = 0
       /\ \A p, q \in hands'["consumer"] : runners'[p].test = runners'[q].test => p = q
  BY <1>2, <1>5, <1>6, <1>9 DEF InReach
<1>13. closing' = "no" /\ (hands'["consumer"] # {} => command' = "stopping")  BY <1>5, <1>6 DEF InReach
<1> HIDE DEF TypesHold, FleetTypeOK
<1> QED  BY <1>6, <1>7, <1>8, <1>10, <1>11, <1>12, <1>13 DEF InReach, Held

LEMMA EndStopKeepsReach ==
  ASSUME TypesHold, InReach, NEW s \in Stoppers, EndStop(s) PROVE InReach'
<1> USE DEF TypesHold, FleetTypeOK, Stoppers
<1> DEFINE w == waiting["consumer"]
<1>1. UNCHANGED <<runners, registry, command, starting, closing>>  BY DEF EndStop
<1>2. CASE s = "main"
  <2>1. hands' = hands /\ waiting'["consumer"] = waiting["consumer"]  BY <1>2 DEF EndStop, InReach
  <2> QED  BY <1>1, <2>1 DEF InReach, live, registered, Held
<1>3. CASE s = "consumer"
  <2>1. hands' = [hands EXCEPT !["consumer"] = @ \ {w}] /\ waiting'["consumer"] = 0 /\ w # 0
    BY <1>3 DEF EndStop
  <2>2. ~live(w)  BY <2>1 DEF InReach, live
  <2>3. hands'["main"] = {} /\ hands'["consumer"] = hands["consumer"] \ {w}  BY <2>1 DEF InReach
  <2> HIDE DEF w
  <2>4. \A q \in DOMAIN runners' : live(q)' => q \in registered' \/ Held(q)'
    BY <1>1, <2>2, <2>3 DEF InReach, live, registered, Held
  <2> QED  BY <1>1, <2>1, <2>3, <2>4 DEF InReach
<1> QED  BY <1>2, <1>3

\* A timer cancels, a bot leaves.
LEMMA RunnerKeepsReach ==
  ASSUME TypesHold, InReach, NEW r \in DOMAIN runners, Elapse(r) \/ Leave(r) PROVE InReach'
<1> USE DEF TypesHold, FleetTypeOK, Stoppers
<1>1. /\ DOMAIN runners' = DOMAIN runners
      /\ \A q \in DOMAIN runners : runners'[q].test = runners[q].test /\ (live(q)' => live(q))
      /\ \A q \in DOMAIN runners : runners[q].ctx = "cancelled" => runners'[q].ctx = "cancelled"
  <2>1. runners[r] \in Runner  BY RunnersAreTyped
  <2>2. /\ runners'[r].test = runners[r].test
        /\ runners'[r].ctx \in {runners[r].ctx, "cancelled"}
    <3>1. CASE Elapse(r)
      <4>1. runners'[r] = [runners[r] EXCEPT !.timer = FALSE, !.ctx = "cancelled"]  BY <3>1 DEF Elapse
      <4> HIDE DEF TypesHold
      <4> QED  BY <2>1, <4>1 DEF Runner
    <3>2. CASE Leave(r)
      <4>1. runners'[r] = [runners[r] EXCEPT !.bots = @ - 1]  BY <3>2 DEF Leave
      <4> HIDE DEF TypesHold
      <4> QED  BY <2>1, <4>1 DEF Runner
    <3> QED  BY <3>1, <3>2
  <2>3. DOMAIN runners' = DOMAIN runners /\ \A q \in DOMAIN runners : q # r => runners'[q] = runners[q]
    BY DEF Elapse, Leave
  <2> QED  BY <2>2, <2>3 DEF live
<1>2. UNCHANGED <<registry, command, starting, hands, waiting, closing>>  BY DEF Elapse, Leave, hand
<1>3. \A q \in DOMAIN runners' : live(q)' => q \in registered' \/ Held(q)'
  BY <1>1, <1>2 DEF InReach, registered, Held
<1>4. \A q \in hands["consumer"] : q \in DOMAIN runners  BY RunnersAreTyped
<1>5. \A t \in Tests : registry'[t] # 0 => runners'[registry'[t]].test = t
  BY <1>1, <1>2, RunnersAreTyped DEF InReach
<1>6. command' \in {"starting", "resetting"} => registry'[runners'[starting'].test] = starting'
  BY <1>1, <1>2 DEF InReach, StartingIsMade
<1>7. /\ \A q \in hands'["consumer"] : registry'[runners'[q].test] = 0
      /\ \A p, q \in hands'["consumer"] : runners'[p].test = runners'[q].test => p = q
  BY <1>1, <1>2, <1>4 DEF InReach
<1>8. waiting'["consumer"] # 0 => waiting'["consumer"] \in hands'["consumer"] /\ runners'[waiting'["consumer"]].ctx = "cancelled"
  BY <1>1, <1>2, <1>4 DEF InReach, Held
<1>9. closing' = "no" /\ hands'["main"] = {} /\ (hands'["consumer"] # {} => command' = "stopping")
  BY <1>2 DEF InReach
<1> HIDE DEF TypesHold, FleetTypeOK
<1> QED  BY <1>3, <1>5, <1>6, <1>7, <1>8, <1>9 DEF InReach, Held

LEMMA StepsKeepInv == FleetInv /\ [FleetNext]_fleetVars => FleetInv'
<1> SUFFICES ASSUME FleetInv, [FleetNext]_fleetVars PROVE FleetInv'  OBVIOUS
<1>1. TypesHold /\ TypesHold'  BY StepsKeepTypes DEF FleetInv
<1> SUFFICES ASSUME parent' PROVE InReach'  BY <1>1 DEF FleetInv
<1>2. CASE parent
  <2>0. InReach  BY <1>2 DEF FleetInv
  <2>1. ASSUME NEW t \in Tests, stopTest(t) PROVE InReach'
    BY <1>1, <2>0, <2>1, TakeOutKeepsReach DEF stopTest
  <2>2. ASSUME NEW c, stopByContestant(c) PROVE InReach'
    <3>1. ofContestant(c) \in SUBSET {t \in Tests : registry[t] # 0}  BY DEF ofContestant
    <3> QED  BY <1>1, <2>0, <2>2, <3>1, TakeOutKeepsReach DEF stopByContestant
  <2>3. ASSUME NEW s \in Stoppers, StopSome(s) PROVE InReach'
    BY <1>1, <2>0, <2>3, StopKeepsReach DEF StopSome
  <2>4. CASE EndCommand
    BY <2>0, <2>4 DEF EndCommand, InReach, Held, live, registered, hand
  <2>6. CASE UNCHANGED fleetVars
    BY <2>0, <2>6 DEF InReach, Held, live, registered, fleetVars, hand
  <2>5. ~EndRun /\ ~Sigterm /\ ~Close /\ ~EndClose
    BY <1>2, <2>0 DEF EndRun, Sigterm, Close, EndClose, InReach
  <2> QED
    BY <1>1, <2>0, <2>1, <2>2, <2>3, <2>4, <2>5, <2>6, StartTestKeepsReach, StartKeepsReach,
       RunnerKeepsReach, EndStopKeepsReach DEF FleetNext
<1>3. CASE ~parent
  <2>1. parent' = parent
    BY <1>3 DEF FleetNext, startTest, stopTest, stopByContestant, TakeOut, Start, Spawn, EndCommand, EndRun,
       EndStop, StopSome, Stop, Elapse, Leave, Sigterm, Close, EndClose, fleetVars
  <2> QED  BY <1>3, <2>1
<1> QED  BY <1>2, <1>3

LEMMA InvHolds == FleetSpec => []FleetInv
<1>1. FleetInit => FleetInv  BY InvAtInit
<1>2. FleetInv /\ [FleetNext]_fleetVars => FleetInv'  BY StepsKeepInv
<1> QED  BY <1>1, <1>2, PTL DEF FleetSpec

\* The types of the registry and of its runners, for any numbers of both.
THEOREM FleetTypesHold == FleetSpec => []FleetTypeOK
<1>1. FleetInv => FleetTypeOK  BY DEF FleetInv, TypesHold
<1> QED  BY <1>1, InvHolds, PTL

\* Until SIGTERM every runner whose bots trade can be stopped by a command or
\* is being stopped, whatever commands came, in whatever order and however
\* often.
THEOREM NoRunnerRunsAway == FleetSpec => []NoRunaway
<1>1. FleetInv => NoRunaway  BY DEF FleetInv, InReach, NoRunaway, Held
<1> QED  BY <1>1, InvHolds, PTL

\* No test ever has two runners whose bots trade: two in the registry are of
\* different tests, so are two in hand, and one in hand has left the registry.
THEOREM OneRunnerTrades == FleetSpec => []OneRunnerPerTest
<1>1. FleetInv => OneRunnerPerTest
  <2> SUFFICES ASSUME FleetInv, parent, NEW r \in DOMAIN runners, NEW q \in DOMAIN runners,
                      live(r), live(q), runners[r].test = runners[q].test
               PROVE  r = q
    BY DEF OneRunnerPerTest
  <2>1. InReach /\ TypesHold  BY DEF FleetInv
  <2>2. r # 0 /\ q # 0  BY <2>1, RunnersAreTyped
  <2>3. \A p \in registered : registry[runners[p].test] = p
    BY <2>1 DEF InReach, registered
  <2> QED  BY <2>1, <2>2, <2>3 DEF InReach, Held
<1> QED  BY <1>1, InvHolds, PTL

-----------------------------------------------------------------------------
(* The circuit breaker. *)

\* The counts of the window are what was recorded since it began or since the
\* breaker closed, whichever state it went through meanwhile.
CountsAreHistory ==
  /\ good \in Nat /\ bad \in Nat
  /\ total = good + bad /\ failures = bad

LEMMA CountsAtInit == BreakerInit => CountsAreHistory
  BY DEF BreakerInit, CountsAreHistory

\* An outcome recorded, with an old window forgotten first.
LEMMA RecordKeepsCounts ==
  ASSUME CountsAreHistory, NEW success \in BOOLEAN, NEW t, NEW f,
         t = (IF stale THEN 0 ELSE total), f = (IF stale THEN 0 ELSE failures),
         Probe(success, t, f) \/ Count(success, t, f)
  PROVE  CountsAreHistory'
<1>1. /\ t = (IF stale THEN 0 ELSE good) + (IF stale THEN 0 ELSE bad)
      /\ f = (IF stale THEN 0 ELSE bad)
  BY DEF CountsAreHistory
<1>2. CASE Probe(success, t, f)
  BY <1>1, <1>2 DEF Probe, atClose, CountsAreHistory
<1>3. CASE Count(success, t, f)
  <2> DEFINE g == IF stale THEN 0 ELSE good
             b == IF stale THEN 0 ELSE bad
  <2>1. /\ total' = t + 1 /\ failures' = IF success THEN f ELSE f + 1
        /\ good' = g + (IF success THEN 1 ELSE 0) /\ bad' = b + (IF success THEN 0 ELSE 1)
    BY <1>3 DEF Count
  <2>2. g \in Nat /\ b \in Nat /\ t = g + b /\ f = b
    BY <1>1 DEF CountsAreHistory
  <2> HIDE DEF g, b
  <2>3. CASE success
    BY <2>1, <2>2, <2>3 DEF CountsAreHistory
  <2>4. CASE ~success
    BY <2>1, <2>2, <2>4 DEF CountsAreHistory
  <2> QED  BY <2>3, <2>4
<1> QED  BY <1>2, <1>3

\* What a step of a bot records.
LEMMA RecordRecords ==
  ASSUME NEW x \in Bot, Record(x)
  PROVE  \E success \in BOOLEAN :
           LET t == IF stale THEN 0 ELSE total
               f == IF stale THEN 0 ELSE failures
           IN  \/ state = "HalfOpen" /\ Probe(success, t, f)
               \/ state # "HalfOpen" /\ Count(success, t, f)
<1>1. (bot[x] = "success") \in BOOLEAN  OBVIOUS
<1> QED  BY <1>1 DEF Record

LEMMA BreakerKeepsCounts == CountsAreHistory /\ [BreakerNext]_breakerVars => CountsAreHistory'
<1> SUFFICES ASSUME CountsAreHistory, [BreakerNext]_breakerVars PROVE CountsAreHistory'
  OBVIOUS
<1>1. ASSUME NEW x \in Bot, Record(x) PROVE CountsAreHistory'
  BY <1>1, RecordRecords, RecordKeepsCounts
<1>2. ASSUME NEW x \in Bot, Allow(x) \/ Answer(x) PROVE CountsAreHistory'
  <2>1. UNCHANGED <<total, failures, good, bad>>
    BY <1>2 DEF Allow, Answer, breaker, history
  <2> QED  BY <2>1 DEF CountsAreHistory
<1>3. CASE Cool \/ AgeWindow \/ Fail \/ Recover \/ UNCHANGED breakerVars
  <2>1. UNCHANGED <<total, failures, good, bad>>
    BY <1>3 DEF Cool, AgeWindow, Fail, Recover, breaker, history, breakerVars
  <2> QED  BY <2>1 DEF CountsAreHistory
<1> QED  BY <1>1, <1>2, <1>3 DEF BreakerNext

\* What a bot has left of its round, and how far the probing is.
Rounds ==
  /\ bot \in [Bot -> {"idle", "sent", "success", "failure"}]
  /\ left \in [Bot -> 0 .. Round - 1]
  /\ \A b \in Bot : bot[b] = "idle" => left[b] = 0

Probing ==
  /\ state \in {"Closed", "Open", "HalfOpen"}
  /\ halfOpenOK \in 0 .. HalfOpenNeeded
  /\ state = "HalfOpen" => halfOpenOK < HalfOpenNeeded
  /\ outages \in 0 .. MaxOutages

Flags == cooled \in BOOLEAN /\ stale \in BOOLEAN /\ healthy \in BOOLEAN

LEMMA BreakerTypesAtInit == BreakerInit => Rounds /\ Probing /\ Flags
<1> SUFFICES ASSUME BreakerInit PROVE Rounds /\ Probing /\ Flags  OBVIOUS
<1> USE BreakerAssumption DEF BreakerInit
<1>1. Rounds  BY DEF Rounds
<1>2. Probing  BY DEF Probing
<1>3. Flags  BY DEF Flags
<1> QED  BY <1>1, <1>2, <1>3

LEMMA RoundsGoOn == Rounds /\ [BreakerNext]_breakerVars => Rounds'
<1> SUFFICES ASSUME Rounds, [BreakerNext]_breakerVars PROVE Rounds'  OBVIOUS
<1> USE BreakerAssumption DEF Rounds
<1>1. ASSUME NEW x \in Bot, Allow(x) PROVE Rounds'
  <2>1. CASE UNCHANGED <<bot, left>>  BY <2>1
  <2>2. CASE \E n \in 1 .. Round : /\ left' = [left EXCEPT ![x] = n - 1]
                                  /\ bot' = [bot EXCEPT ![x] = "sent"]
    <3>1. PICK n \in 1 .. Round : /\ left' = [left EXCEPT ![x] = n - 1]
                                 /\ bot' = [bot EXCEPT ![x] = "sent"]
      BY <2>2
    <3>2. n - 1 \in 0 .. Round - 1  OBVIOUS
    <3> QED  BY <3>1, <3>2
  <2> QED  BY <1>1, <2>1, <2>2 DEF Allow, bots
<1>2. ASSUME NEW x \in Bot, Answer(x) PROVE Rounds'  BY <1>2 DEF Answer
<1>3. ASSUME NEW x \in Bot, Record(x) PROVE Rounds'
  <2>1. /\ bot' = [bot EXCEPT ![x] = IF left[x] = 0 THEN "idle" ELSE "sent"]
        /\ left' = [left EXCEPT ![x] = IF left[x] = 0 THEN 0 ELSE left[x] - 1]
    BY <1>3 DEF Record
  <2>2. (IF left[x] = 0 THEN 0 ELSE left[x] - 1) \in 0 .. Round - 1  OBVIOUS
  <2> QED  BY <2>1, <2>2
<1>4. CASE Cool \/ AgeWindow \/ Fail \/ Recover \/ UNCHANGED breakerVars
  BY <1>4 DEF Cool, AgeWindow, Fail, Recover, bots, breakerVars
<1> QED  BY <1>1, <1>2, <1>3, <1>4 DEF BreakerNext

LEMMA ProbingGoesOn == Probing /\ [BreakerNext]_breakerVars => Probing'
<1> SUFFICES ASSUME Probing, [BreakerNext]_breakerVars PROVE Probing'  OBVIOUS
<1> USE BreakerAssumption DEF Probing
<1>1. ASSUME NEW x \in Bot, Allow(x) PROVE Probing'
  BY <1>1 DEF Allow, probing, environment
<1>2. ASSUME NEW x \in Bot, Answer(x) PROVE Probing'
  BY <1>2 DEF Answer, breaker, environment
<1>3. ASSUME NEW x \in Bot, Record(x) PROVE Probing'
  <2>0. PICK success \in BOOLEAN : \E t, f :
          \/ state = "HalfOpen" /\ Probe(success, t, f)
          \/ state # "HalfOpen" /\ Count(success, t, f)
    BY <1>3, RecordRecords
  <2>1. PICK t, f : \/ state = "HalfOpen" /\ Probe(success, t, f)
                    \/ state # "HalfOpen" /\ Count(success, t, f)
    BY <2>0
  <2>2. outages' = outages  BY <1>3 DEF Record, environment
  <2>3. CASE state = "HalfOpen" /\ Probe(success, t, f)
    <3>1. halfOpenOK \in 0 .. HalfOpenNeeded - 1  BY <2>3
    <3>2. CASE ~success
      BY <2>2, <2>3, <3>1, <3>2 DEF Probe, trip
    <3>3. CASE success /\ enough
      BY <2>2, <2>3, <3>1, <3>3 DEF Probe
    <3>4. CASE success /\ ~enough
      <4>1. halfOpenOK' = halfOpenOK + 1 /\ halfOpenOK + 1 < HalfOpenNeeded /\ state' = state
        BY <2>3, <3>1, <3>4 DEF Probe, enough
      <4> QED  BY <2>2, <3>1, <4>1
    <3> QED  BY <3>2, <3>3, <3>4
  <2>4. CASE state # "HalfOpen" /\ Count(success, t, f)
    BY <2>2, <2>4 DEF Count, trip
  <2> QED  BY <2>1, <2>3, <2>4
<1>4. CASE Fail
  BY <1>4 DEF Fail, breaker
<1>5. CASE Cool \/ AgeWindow \/ Recover \/ UNCHANGED breakerVars
  <2>1. UNCHANGED <<state, halfOpenOK, outages>>
    BY <1>5 DEF Cool, AgeWindow, Recover, breaker, environment, breakerVars
  <2> QED  BY <2>1
<1> QED  BY <1>1, <1>2, <1>3, <1>4, <1>5 DEF BreakerNext

LEMMA FlagsAreFlags == Flags /\ [BreakerNext]_breakerVars => Flags'
<1> SUFFICES ASSUME Flags, [BreakerNext]_breakerVars PROVE Flags'  OBVIOUS
<1> USE DEF Flags
<1>1. ASSUME NEW x \in Bot, Allow(x) PROVE Flags'
  BY <1>1 DEF Allow, environment
<1>2. ASSUME NEW x \in Bot, Answer(x) PROVE Flags'
  BY <1>2 DEF Answer, environment
<1>3. ASSUME NEW x \in Bot, Record(x) PROVE Flags'
  <2>0. PICK success \in BOOLEAN : \E t, f : Probe(success, t, f) \/ Count(success, t, f)
    BY <1>3, RecordRecords
  <2>1. PICK t, f : Probe(success, t, f) \/ Count(success, t, f)
    BY <2>0
  <2>2. cooled' = cooled \/ cooled' = FALSE  BY <2>1 DEF Probe, Count, trip
  <2> QED  BY <1>3, <2>2 DEF Record, environment
<1>4. CASE Cool \/ AgeWindow \/ Fail \/ Recover \/ UNCHANGED breakerVars
  BY <1>4 DEF Cool, AgeWindow, Fail, Recover, environment, breakerVars
<1> QED  BY <1>1, <1>2, <1>3, <1>4 DEF BreakerNext

\* Every variable of the breaker keeps its type; while it is half open it has
\* not seen the successes that close it (circuit_breaker.go:65-96).
THEOREM BreakerTypesHold == BreakerSpec => []BreakerTypeOK
<1>1. CountsAreHistory /\ Rounds /\ Probing /\ Flags => BreakerTypeOK
  BY DEF CountsAreHistory, Rounds, Probing, Flags, BreakerTypeOK
<1> QED
  BY <1>1, CountsAtInit, BreakerKeepsCounts, BreakerTypesAtInit, RoundsGoOn, ProbingGoesOn,
     FlagsAreFlags, PTL DEF BreakerSpec

LEMMA TripHasEvidence ==
  ASSUME CountsAreHistory, [BreakerNext]_breakerVars, state = "Closed", state' = "Open"
  PROVE  good' + bad' >= MinTraffic /\ bad' > good'
<1>1. CountsAreHistory'  BY BreakerKeepsCounts
<1>2. PICK x \in Bot : Record(x)
  <2>1. ASSUME NEW x \in Bot, Allow(x) PROVE FALSE
    BY <2>1 DEF Allow, probing
  <2>2. ASSUME NEW x \in Bot, Answer(x) PROVE FALSE
    BY <2>2 DEF Answer, breaker
  <2>3. ~(Cool \/ AgeWindow \/ Fail \/ Recover \/ UNCHANGED breakerVars)
    BY DEF Cool, AgeWindow, Fail, Recover, breaker, breakerVars
  <2> QED  BY <2>1, <2>2, <2>3 DEF BreakerNext
<1>3. total' >= MinTraffic /\ 2 * failures' > total'
  BY <1>2, RecordRecords DEF Count
<1>4. /\ good' \in Nat /\ bad' \in Nat /\ total' = good' + bad' /\ failures' = bad'
  BY <1>1 DEF CountsAreHistory
<1> DEFINE g == good'  b == bad'
<1>5. g \in Nat /\ b \in Nat /\ g + b >= MinTraffic /\ 2 * b > g + b
  BY <1>3, <1>4
<1> HIDE DEF g, b
<1>6. g + b >= MinTraffic /\ b > g  BY <1>5
<1> QED  BY <1>6 DEF g, b

\* A closed breaker trips only on enough outcomes, most of them failures, of
\* its own period and window, whatever late outcomes it was told while it was
\* open or probing (circuit_breaker.go:65-96).
THEOREM BreakerTripsOnEvidence == BreakerSpec => TripsOnEvidence
<1>1. CountsAreHistory /\ [BreakerNext]_breakerVars =>
        [state = "Closed" /\ state' = "Open" => good' + bad' >= MinTraffic /\ bad' > good']_breakerVars
  BY TripHasEvidence
<1> QED  BY <1>1, CountsAtInit, BreakerKeepsCounts, PTL DEF BreakerSpec, TripsOnEvidence
=============================================================================
