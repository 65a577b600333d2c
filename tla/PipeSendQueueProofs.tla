------------------------- MODULE PipeSendQueueProofs -------------------------
(***************************************************************************)
(* Proofs about the outbound send queue, for every number of turns, slots  *)
(* and queue places.                                                       *)
(***************************************************************************)
EXTENDS PipeSendQueueProps, FiniteSetTheorems, SequenceTheorems, TLAPS

(***************************************************************************)
(* A send that races has left both the immediates and the queue.           *)
(***************************************************************************)
RacingStarted ==
  /\ Started \in Nat
  /\ racing \subseteq 1..Started

IInv ==
  /\ TypeOK
  /\ SlotConservation
  /\ WorkConserving
  /\ QueueInOrder
  /\ RacingStarted

(***************************************************************************)
(* The sequences an accepted batch appends.                                *)
(***************************************************************************)
LEMMA RunOfNumbers ==
  ASSUME NEW base \in Nat, NEW n \in Nat, NEW top \in Nat, base + n <= top
  PROVE  /\ [i \in 1..n |-> base + i] \in Seq(1..top)
         /\ Len([i \in 1..n |-> base + i]) = n
<1> DEFINE f == [i \in 1..n |-> base + i]
<1>1. f \in [1..n -> 1..top]  OBVIOUS
<1>2. f \in Seq(1..top)  BY <1>1, SeqDef
<1>3. Len(f) = n  BY <1>1, <1>2, LenProperties
<1> QED BY <1>2, <1>3

\* A turn repeated is a sequence of turns.
LEMMA RunOfTurns ==
  ASSUME NEW t \in Turns, NEW n \in Nat
  PROVE  /\ [i \in 1..n |-> t] \in Seq(Turns)
         /\ Len([i \in 1..n |-> t]) = n
<1> DEFINE f == [i \in 1..n |-> t]
<1>1. f \in [1..n -> Turns]  OBVIOUS
<1>2. f \in Seq(Turns)  BY <1>1, SeqDef
<1>3. Len(f) = n  BY <1>1, <1>2, LenProperties
<1> QED BY <1>2, <1>3

(***************************************************************************)
(* ConcatProperties, for a sequence known to equal a concatenation.        *)
(***************************************************************************)
LEMMA ConcatFacts ==
  ASSUME NEW S, NEW a \in Seq(S), NEW b \in Seq(S), NEW c, c = a \o b
  PROVE  /\ c \in Seq(S)
         /\ Len(c) = Len(a) + Len(b)
         /\ \A i \in 1..(Len(a) + Len(b)) :
              c[i] = IF i <= Len(a) THEN a[i] ELSE b[i - Len(a)]
<1> QED BY ConcatProperties

(***************************************************************************)
(* A batch that passes the first check is taken whole by the loop.         *)
(***************************************************************************)
LEMMA TakesAll ==
  ASSUME TypeOK, NEW k \in Nat, ~WouldOverflow(k)
  PROVE  Takes(k) = k
<1> QED
  BY SendQueueAssumption, LenProperties
  DEF TypeOK, WouldOverflow, Takes, Least, FreeSlots, QueueRoom

\* Finitely many sends race.
LEMMA RacingIsFinite ==
  ASSUME TypeOK, RacingStarted
  PROVE  IsFiniteSet(racing) /\ Cardinality(racing) \in Nat
<1>1. IsFiniteSet(1..Started)  BY FS_Interval DEF RacingStarted
<1>2. IsFiniteSet(racing)  BY <1>1, FS_Subset DEF RacingStarted
<1> QED BY <1>2, FS_CardinalityType

\* The initial states satisfy the invariant.
LEMMA InitIInv == Init => IInv
<1> SUFFICES ASSUME Init PROVE IInv  OBVIOUS
<1> USE DEF Init
<1>1. TypeOK
  BY SendQueueAssumption DEF TypeOK, Sends
<1>2. SlotConservation
  BY FS_EmptySet DEF SlotConservation
<1>3. WorkConserving /\ QueueInOrder /\ RacingStarted
  BY DEF WorkConserving, QueueInOrder, RacingStarted, Started
<1> QED BY <1>1, <1>2, <1>3 DEF IInv

(***************************************************************************)
(* The actions that change a send, one lemma each.                         *)
(***************************************************************************)
LEMMA EnqueueIInv ==
  ASSUME IInv, NEW t \in Turns, NEW k \in Nat, ~WouldOverflow(k), Enqueue(t, k),
         UNCHANGED <<racing, unanswered, wire, turn, exposed>>,
         invokeStored' \in SUBSET Turns,
         lastCall' \in [asked : Nat, taken : Nat, ended : {"ok", "threw"}]
  PROVE  IInv' /\ Started' = Started
<1> DEFINE direct == Least(k, FreeSlots)
           base == Len(accepted)
           now == [i \in 1..direct |-> base + i]
           later == [i \in 1..(k - direct) |-> base + direct + i]
           turns == [i \in 1..k |-> t]
<1>0. TypeOK /\ SlotConservation /\ WorkConserving /\ QueueInOrder /\ RacingStarted
  BY DEF IInv
<1>1. base \in Nat /\ direct \in 0..k /\ direct <= FreeSlots /\ base = Len(accepted)
  BY <1>0, SendQueueAssumption, LenProperties DEF TypeOK, FreeSlots, Least
<1>2. /\ pendingSends' = pendingSends + direct
      /\ immediates' = immediates \o now
      /\ sendQueue' = sendQueue \o later
      /\ accepted' = accepted \o turns
  BY <1>0, TakesAll DEF Enqueue
<1>3. now \in Seq(1..(base + k)) /\ Len(now) = direct
  BY <1>1, RunOfNumbers
<1>4. later \in Seq(1..(base + k)) /\ Len(later) = k - direct
  <2>1. base + direct \in Nat /\ k - direct \in Nat /\ base + k \in Nat
        /\ (base + direct) + (k - direct) <= base + k
    BY <1>1
  <2> HIDE DEF direct, base
  <2> QED BY <2>1, RunOfNumbers
<1>5. turns \in Seq(Turns) /\ Len(turns) = k
  BY RunOfTurns
<1> HIDE DEF now, later, turns, direct, base
<1>6. accepted' \in Seq(Turns) /\ Len(accepted') = base + k
  <2>1. accepted \in Seq(Turns) /\ turns \in Seq(Turns) /\ accepted' = accepted \o turns
    BY <1>0, <1>2, <1>5 DEF TypeOK
  <2>2. accepted' \in Seq(Turns) /\ Len(accepted') = Len(accepted) + Len(turns)
    BY <2>1, ConcatFacts
  <2> QED BY <1>1, <1>5, <2>2
<1>7. immediates \in Seq(1..(base + k)) /\ sendQueue \in Seq(1..(base + k))
  <2>1. Sends \subseteq 1..(base + k)  BY <1>1 DEF Sends
  <2> QED BY <1>0, <2>1, SeqMonotonic DEF TypeOK
<1>8. /\ immediates' \in Seq(1..(base + k))
      /\ Len(immediates') = Len(immediates) + direct
      /\ \A i \in 1..(Len(immediates) + direct) :
           immediates'[i] = IF i <= Len(immediates) THEN immediates[i]
                                                    ELSE now[i - Len(immediates)]
  <2> DEFINE S == 1..(base + k)
  <2>1. immediates \in Seq(S) /\ now \in Seq(S) /\ immediates' = immediates \o now
    BY <1>2, <1>3, <1>7
  <2>2. /\ immediates' \in Seq(S)
        /\ Len(immediates') = Len(immediates) + Len(now)
        /\ \A i \in 1..(Len(immediates) + Len(now)) :
             immediates'[i] = IF i <= Len(immediates) THEN immediates[i] ELSE now[i - Len(immediates)]
    <3> HIDE DEF S
    <3> QED BY <2>1, ConcatFacts
  <2> QED BY <1>3, <2>2
<1>9. /\ sendQueue' \in Seq(1..(base + k))
      /\ Len(sendQueue') = Len(sendQueue) + (k - direct)
      /\ \A i \in 1..(Len(sendQueue) + (k - direct)) :
           sendQueue'[i] = IF i <= Len(sendQueue) THEN sendQueue[i]
                                                  ELSE later[i - Len(sendQueue)]
  <2> DEFINE S == 1..(base + k)
  <2>1. sendQueue \in Seq(S) /\ later \in Seq(S) /\ sendQueue' = sendQueue \o later
    BY <1>2, <1>4, <1>7
  <2>2. /\ sendQueue' \in Seq(S)
        /\ Len(sendQueue') = Len(sendQueue) + Len(later)
        /\ \A i \in 1..(Len(sendQueue) + Len(later)) :
             sendQueue'[i] = IF i <= Len(sendQueue) THEN sendQueue[i] ELSE later[i - Len(sendQueue)]
    <3> HIDE DEF S
    <3> QED BY <2>1, ConcatFacts
  <2> QED BY <1>4, <2>2
<1>10. Len(immediates) \in Nat /\ Len(sendQueue) \in Nat
  BY <1>7, LenProperties
<1>11. Started' = Started
  BY <1>1, <1>6, <1>8, <1>9, <1>10 DEF Started
<1>12. TypeOK'
  <2>1. pendingSends' \in 0..MaxConcurrent
    BY <1>0, <1>1, <1>2, SendQueueAssumption DEF TypeOK, FreeSlots
  <2>2. racing' \subseteq Sends' /\ unanswered' \subseteq Sends'
    BY <1>0, <1>1, <1>6 DEF TypeOK, Sends
  <2> QED BY <1>0, <1>6, <1>8, <1>9, <2>1, <2>2 DEF TypeOK, Sends
<1>13. SlotConservation'
  <2>1. Cardinality(racing) \in Nat  BY <1>0, RacingIsFinite
  <2>2. pendingSends = Len(immediates) + Cardinality(racing)
    BY <1>0 DEF SlotConservation
  <2> QED BY <1>1, <1>2, <1>8, <1>10, <2>1, <2>2 DEF SlotConservation
<1>14. WorkConserving'
  <2>1. pendingSends \in Nat /\ pendingSends <= MaxConcurrent /\ MaxConcurrent \in Nat
    BY <1>0, SendQueueAssumption DEF TypeOK
  <2>2. sendQueue' # <<>> => Len(sendQueue) # 0 \/ direct < k
    BY <1>1, <1>9, <1>10, EmptySeq
  <2>3. Len(sendQueue) # 0 => FreeSlots = 0
    BY <1>0, <2>1, EmptySeq DEF WorkConserving, FreeSlots
  <2>4. direct < k => direct = FreeSlots
    BY <1>1, <2>1 DEF direct, Least, FreeSlots
  <2>5. FreeSlots = 0 => direct = 0
    BY <1>1, <2>1 DEF FreeSlots
  <2> QED BY <1>1, <1>2, <2>1, <2>2, <2>3, <2>4, <2>5 DEF WorkConserving, FreeSlots
<1>15. QueueInOrder'
  <2>0. Started \in Nat /\ Len(accepted) = base
    BY <1>0, <1>1 DEF RacingStarted
  <2>1. ASSUME NEW i \in DOMAIN immediates'
        PROVE  immediates'[i] = Started' + i
    <3>1. i \in 1..(Len(immediates) + direct)  BY <1>8, LenProperties
    <3>2. CASE i <= Len(immediates)
      <4>1. i \in DOMAIN immediates  BY <1>7, <1>10, <3>1, <3>2, LenProperties
      <4> QED BY <1>0, <1>8, <1>11, <3>1, <3>2, <4>1 DEF QueueInOrder
    <3>3. CASE i > Len(immediates)
      <4>1. sendQueue = <<>>
        <5>1. direct > 0  BY <1>1, <1>10, <3>1, <3>3
        <5>2. pendingSends < MaxConcurrent
          BY <1>0, <1>1, <5>1, SendQueueAssumption DEF TypeOK, FreeSlots
        <5> QED BY <1>0, <5>2, SendQueueAssumption DEF WorkConserving, TypeOK
      <4>2. now[i - Len(immediates)] = base + (i - Len(immediates))
        BY <1>1, <1>10, <3>1, <3>3 DEF now
      <4>3. Started = base - Len(immediates)
        BY <1>1, <1>10, <4>1 DEF Started
      <4>4. ~(i <= Len(immediates))  BY <1>1, <1>10, <3>1, <3>3
      <4>5. immediates'[i] = now[i - Len(immediates)]  BY <1>8, <3>1, <4>4
      <4>6. base + (i - Len(immediates)) = Started + i
        BY <1>1, <1>10, <3>1, <4>3
      <4> QED BY <1>11, <4>2, <4>5, <4>6
    <3> QED BY <1>10, <3>1, <3>2, <3>3
  <2>2. ASSUME NEW j \in DOMAIN sendQueue'
        PROVE  sendQueue'[j] = (Started + Len(immediates) + j)'
    <3>1. j \in 1..(Len(sendQueue) + (k - direct))  BY <1>9, LenProperties
    <3>2. CASE j <= Len(sendQueue)
      <4>1. j \in DOMAIN sendQueue  BY <1>7, <1>10, <3>1, <3>2, LenProperties
      <4>2. direct = 0
        <5>1. sendQueue # <<>>  BY <1>10, <3>1, <3>2
        <5>2. FreeSlots = 0
          BY <1>0, <5>1, SendQueueAssumption DEF WorkConserving, FreeSlots, TypeOK
        <5> QED BY <1>1, <5>2
      <4> QED BY <1>0, <1>8, <1>9, <1>10, <1>11, <3>1, <3>2, <4>1, <4>2 DEF QueueInOrder
    <3>3. CASE j > Len(sendQueue)
      <4>1. later[j - Len(sendQueue)] = base + direct + (j - Len(sendQueue))
        BY <1>1, <1>10, <3>1, <3>3 DEF later
      <4>2. Started + Len(immediates) + Len(sendQueue) = base
        BY <1>1, <1>10 DEF Started
      <4>3. ~(j <= Len(sendQueue))  BY <1>1, <1>10, <3>1, <3>3
      <4>4. sendQueue'[j] = later[j - Len(sendQueue)]  BY <1>9, <3>1, <4>3
      <4>5. base + direct + (j - Len(sendQueue)) = Started + (Len(immediates) + direct) + j
        <5>1. direct \in Nat /\ j \in Nat  BY <1>1, <1>10, <3>1
        <5> QED BY <1>10, <2>0, <4>2, <5>1
      <4> QED BY <1>8, <1>11, <4>1, <4>4, <4>5
    <3> QED BY <1>10, <3>1, <3>2, <3>3
  <2> QED BY <2>1, <2>2 DEF QueueInOrder
<1>16. RacingStarted'
  BY <1>0, <1>11 DEF RacingStarted
<1> QED BY <1>11, <1>12, <1>13, <1>14, <1>15, <1>16 DEF IInv

\* A send that goes to the pipe keeps the invariant.
LEMMA DoSendIInv ==
  ASSUME IInv, DoSend
  PROVE  /\ IInv'
         /\ Started' = Started + 1 /\ Head(immediates) = Started + 1
<1> DEFINE s == Head(immediates)
<1>0. /\ TypeOK /\ SlotConservation /\ WorkConserving /\ QueueInOrder /\ RacingStarted
      /\ Len(accepted) \in Nat
  BY LenProperties DEF IInv, TypeOK
<1>1. /\ immediates # <<>> /\ immediates' = Tail(immediates)
      /\ racing' = racing \union {s} /\ unanswered' = unanswered \union {s}
      /\ JoinWire(s)
      /\ UNCHANGED <<pendingSends, sendQueue, accepted, turn, exposed, invokeStored, lastCall>>
  BY DEF DoSend
<1>2. /\ s \in Sends /\ s = immediates[1]
      /\ immediates' \in Seq(Sends) /\ Len(immediates') = Len(immediates) - 1
      /\ \A i \in 1..Len(immediates') : immediates'[i] = immediates[i + 1]
  BY <1>0, <1>1, HeadTailProperties DEF TypeOK
<1>3. /\ Len(immediates) \in Nat \ {0} /\ Len(sendQueue) \in Nat
      /\ DOMAIN immediates = 1..Len(immediates) /\ DOMAIN immediates' = 1..Len(immediates')
  BY <1>0, <1>1, <1>2, EmptySeq, LenProperties DEF TypeOK
<1>4. s = Started + 1 /\ Started \in Nat
  BY <1>0, <1>2, <1>3 DEF QueueInOrder, RacingStarted
<1>5. Started' = Started + 1
  <2>1. Started' = Len(accepted) - (Len(immediates) - 1) - Len(sendQueue)
    BY <1>1, <1>2 DEF Started
  <2> QED BY <1>0, <1>3, <2>1 DEF Started
<1> HIDE DEF s
<1>6. TypeOK'
  <2>1. Request(s) \in [frame : {"A", "B"}, turn : Turns, send : Nat]
    BY <1>0, <1>2 DEF TypeOK, Request, Sends
  <2>2. wire' \in Seq([frame : {"A", "B"}, turn : Turns, send : Nat])
    <3> DEFINE F == [frame : {"A", "B"}, turn : Turns, send : Nat]
    <3>1. wire \in Seq(F) /\ Request(s) \in F  BY <1>0, <2>1 DEF TypeOK
    <3>2. wire' = Append(wire, Request(s)) \/ wire' = wire  BY <1>1 DEF JoinWire
    <3> HIDE DEF F
    <3>3. wire' \in Seq(F)  BY <3>1, <3>2, AppendProperties
    <3> QED BY <3>3 DEF F
  <2> QED BY <1>0, <1>1, <1>2, <2>2 DEF TypeOK, Sends
<1>7. SlotConservation'
  <2>1. IsFiniteSet(racing) /\ Cardinality(racing) \in Nat  BY <1>0, RacingIsFinite
  <2>2. s \notin racing  BY <1>0, <1>4 DEF RacingStarted
  <2>3. Cardinality(racing') = Cardinality(racing) + 1
    BY <1>1, <2>1, <2>2, FS_AddElement
  <2> QED BY <1>0, <1>1, <1>2, <1>3, <2>1, <2>3 DEF SlotConservation
<1>8. WorkConserving'
  BY <1>0, <1>1 DEF WorkConserving
<1>9. QueueInOrder'
  <2>1. ASSUME NEW i \in DOMAIN immediates' PROVE immediates'[i] = Started' + i
    <3>1. i \in Nat /\ i + 1 \in DOMAIN immediates  BY <1>2, <1>3
    <3>2. immediates'[i] = Started + (i + 1)
      BY <1>0, <1>2, <1>3, <3>1 DEF QueueInOrder
    <3> QED BY <1>4, <1>5, <3>1, <3>2
  <2>2. ASSUME NEW j \in DOMAIN sendQueue'
        PROVE  sendQueue'[j] = (Started + Len(immediates) + j)'
    <3>1. sendQueue'[j] = Started + Len(immediates) + j
      BY <1>0, <1>1 DEF QueueInOrder
    <3>2. j \in Nat  BY <1>0, <1>1, LenProperties DEF TypeOK
    <3> QED BY <1>2, <1>3, <1>4, <1>5, <3>1, <3>2
  <2> QED BY <2>1, <2>2 DEF QueueInOrder
<1>10. RacingStarted'
  BY <1>0, <1>1, <1>4, <1>5 DEF RacingStarted
<1> QED BY <1>4, <1>5, <1>6, <1>7, <1>8, <1>9, <1>10 DEF IInv, s

(***************************************************************************)
(* A race that settles hands its slot on or frees it.                      *)
(***************************************************************************)
LEMMA SettleIInv ==
  ASSUME IInv, NEW s \in racing, Settle(s),
         unanswered' \in SUBSET Sends,
         UNCHANGED <<accepted, wire, turn, exposed, invokeStored, lastCall>>
  PROVE  IInv' /\ Started' = Started
<1>0. /\ TypeOK /\ SlotConservation /\ WorkConserving /\ QueueInOrder /\ RacingStarted
      /\ Len(accepted) \in Nat
  BY LenProperties DEF IInv, TypeOK
<1>1. racing' = racing \ {s} /\ ReleaseSlot
  BY DEF Settle
<1>2. /\ Len(immediates) \in Nat /\ Len(sendQueue) \in Nat
      /\ DOMAIN immediates = 1..Len(immediates) /\ DOMAIN sendQueue = 1..Len(sendQueue)
  BY <1>0, LenProperties DEF TypeOK
<1>3. /\ Cardinality(racing) \in Nat /\ Cardinality(racing') = Cardinality(racing) - 1
  BY <1>0, <1>1, RacingIsFinite, FS_RemoveElement
<1>4. CASE sendQueue # <<>>
  <2> DEFINE h == Head(sendQueue)
  <2>1. /\ immediates' = Append(immediates, h) /\ sendQueue' = Tail(sendQueue)
        /\ pendingSends' = pendingSends
    BY <1>1, <1>4 DEF ReleaseSlot
  <2>2. /\ h \in Sends /\ h = sendQueue[1]
        /\ sendQueue' \in Seq(Sends) /\ Len(sendQueue') = Len(sendQueue) - 1
        /\ \A j \in 1..Len(sendQueue') : sendQueue'[j] = sendQueue[j + 1]
        /\ Len(sendQueue) # 0
    BY <1>0, <1>4, <2>1, HeadTailProperties, EmptySeq DEF TypeOK
  <2>3. /\ immediates' \in Seq(Sends) /\ Len(immediates') = Len(immediates) + 1
        /\ \A i \in 1..Len(immediates) : immediates'[i] = immediates[i]
        /\ immediates'[Len(immediates) + 1] = h
    BY <1>0, <2>1, <2>2, AppendProperties DEF TypeOK
  <2> HIDE DEF h
  <2>4. /\ DOMAIN immediates' = 1..(Len(immediates) + 1)
        /\ DOMAIN sendQueue' = 1..(Len(sendQueue) - 1)
    BY <2>2, <2>3, LenProperties
  <2>5. Started' = Started /\ Started \in Nat
    BY <1>0, <1>2, <2>2, <2>3 DEF Started, RacingStarted
  <2>6. TypeOK'
    BY <1>0, <1>1, <2>1, <2>2, <2>3 DEF TypeOK, Sends
  <2>7. SlotConservation'
    BY <1>0, <1>2, <1>3, <2>1, <2>3 DEF SlotConservation
  <2>8. WorkConserving'
    BY <1>0, <1>4, <2>1 DEF WorkConserving
  <2>9. QueueInOrder'
    <3>1. ASSUME NEW i \in DOMAIN immediates' PROVE immediates'[i] = Started' + i
      <4>1. CASE i \in 1..Len(immediates)
        BY <1>0, <1>2, <2>3, <2>5, <4>1 DEF QueueInOrder
      <4>2. CASE i = Len(immediates) + 1
        <5>1. 1 \in DOMAIN sendQueue  BY <1>2, <2>2
        <5>2. h = Started + Len(immediates) + 1
          BY <1>0, <2>2, <5>1 DEF QueueInOrder
        <5> QED BY <1>2, <2>3, <2>5, <4>2, <5>2
      <4> QED BY <1>2, <2>4, <4>1, <4>2
    <3>2. ASSUME NEW j \in DOMAIN sendQueue'
          PROVE  sendQueue'[j] = (Started + Len(immediates) + j)'
      <4>1. j \in Nat /\ j \in 1..Len(sendQueue') /\ j + 1 \in DOMAIN sendQueue
        BY <1>2, <2>2, <2>4
      <4>2. sendQueue'[j] = Started + Len(immediates) + (j + 1)
        BY <1>0, <2>2, <4>1 DEF QueueInOrder
      <4> QED BY <1>2, <2>3, <2>5, <4>1, <4>2
    <3> QED BY <3>1, <3>2 DEF QueueInOrder
  <2>10. RacingStarted'
    BY <1>0, <1>1, <2>5 DEF RacingStarted
  <2> QED BY <2>5, <2>6, <2>7, <2>8, <2>9, <2>10 DEF IInv
<1>5. CASE sendQueue = <<>>
  <2>1. pendingSends' = pendingSends - 1 /\ UNCHANGED <<immediates, sendQueue>>
    BY <1>1, <1>5 DEF ReleaseSlot
  <2>2. Started' = Started
    BY <2>1 DEF Started
  <2>3. Cardinality(racing) # 0
    BY <1>0, RacingIsFinite, FS_EmptySet
  <2>4. pendingSends - 1 \in 0..MaxConcurrent
    BY <1>0, <1>2, <1>3, <2>3, SendQueueAssumption DEF TypeOK, SlotConservation
  <2>5. TypeOK'
    BY <1>0, <1>1, <2>1, <2>4 DEF TypeOK, Sends
  <2>6. SlotConservation'
    BY <1>0, <1>2, <1>3, <2>1 DEF SlotConservation
  <2>7. WorkConserving' /\ QueueInOrder' /\ RacingStarted'
    BY <1>0, <1>1, <1>5, <2>1, <2>2 DEF WorkConserving, QueueInOrder, RacingStarted
  <2> QED BY <2>2, <2>5, <2>6, <2>7 DEF IInv
<1> QED BY <1>4, <1>5

(***************************************************************************)
(* Steps that leave the sends alone keep the invariant if the rest of the  *)
(* state keeps its type.                                                   *)
(***************************************************************************)
LEMMA SendsUntouched ==
  ASSUME IInv, UNCHANGED sendVars, TypeOK'
  PROVE  IInv'
<1> QED
  BY DEF IInv, sendVars, SlotConservation, WorkConserving, QueueInOrder, RacingStarted, Started

\* What a turn does between its sends leaves them alone.
LEMMA TurnStepType ==
  ASSUME TypeOK, NEW t \in Turns,
         BeginTurn(t) \/ AwaitIO(t) \/ ResumeTurn(t) \/ EndTurn(t)
  PROVE  TypeOK' /\ UNCHANGED sendVars
<1>1. CASE BeginTurn(t)
  BY <1>1 DEF TypeOK, BeginTurn, sendVars, Sends
<1>2. CASE AwaitIO(t)
  BY <1>2 DEF TypeOK, AwaitIO, sendVars, Sends
<1>3. CASE ResumeTurn(t)
  BY <1>3 DEF TypeOK, ResumeTurn, sendVars, Sends
<1>4. CASE EndTurn(t)
  <2>1. Response(t) \in [frame : {"A", "B"}, turn : Turns, send : Nat]
    BY DEF Response
  <2>2. wire' \in Seq([frame : {"A", "B"}, turn : Turns, send : Nat])
    BY <1>4, <2>1, AppendProperties DEF TypeOK, EndTurn
  <2> QED BY <1>4, <2>2 DEF TypeOK, EndTurn, sendVars, Sends
<1> QED BY <1>1, <1>2, <1>3, <1>4

\* A call that sends activities keeps the invariant.
LEMMA SendActivitiesIInv ==
  ASSUME IInv, NEW t \in Turns, NEW k \in 0..MaxBatch, NEW invoke \in BOOLEAN,
         SendActivities(t, k, invoke)
  PROVE  IInv' /\ Started' = Started
<1>0. TypeOK /\ k \in Nat
  BY SendQueueAssumption DEF IInv
<1>1. CASE WouldOverflow(k)
  <2>1. /\ lastCall' = [asked |-> k, taken |-> 0, ended |-> "threw"]
        /\ UNCHANGED <<sendVars, invokeStored, wire, turn, exposed>>
    BY <1>1 DEF SendActivities
  <2>2. TypeOK'
    BY <1>0, <2>1 DEF TypeOK, sendVars, Sends
  <2> QED BY <2>1, <2>2, SendsUntouched DEF sendVars, Started
<1>2. CASE ~WouldOverflow(k)
  <2>0. Takes(k) = k /\ ~(Takes(k) < k)
    BY <1>0, <1>2, TakesAll
  <2>1. /\ Enqueue(t, k)
        /\ lastCall' = [asked |-> k, taken |-> k, ended |-> "ok"]
        /\ invokeStored' = IF invoke THEN invokeStored \union {t} ELSE invokeStored
        /\ UNCHANGED <<racing, unanswered, wire, turn, exposed>>
    BY <1>2, <2>0 DEF SendActivities
  <2>2. /\ lastCall' \in [asked : Nat, taken : Nat, ended : {"ok", "threw"}]
        /\ invokeStored' \in SUBSET Turns
    BY <1>0, <2>1 DEF TypeOK
  <2> QED BY <1>0, <1>2, <2>1, <2>2, EnqueueIInv
<1> QED BY <1>1, <1>2

\* Every step keeps the invariant.
LEMMA NextIInv == IInv /\ [Next]_vars => IInv'
<1> SUFFICES ASSUME IInv, [Next]_vars PROVE IInv'  OBVIOUS
<1>0. TypeOK
  BY DEF IInv
<1>1. ASSUME NEW t \in Turns, BeginTurn(t) \/ AwaitIO(t) \/ ResumeTurn(t) \/ EndTurn(t)
      PROVE  IInv'
  BY <1>0, <1>1, TurnStepType, SendsUntouched
<1>2. ASSUME NEW t \in Turns, NEW k \in 0..MaxBatch, NEW invoke \in BOOLEAN,
             SendActivities(t, k, invoke)
      PROVE  IInv'
  BY <1>2, SendActivitiesIInv
<1>3. CASE DoSend
  BY <1>3, DoSendIInv
<1>4. ASSUME NEW s \in Sends, Answer(s)
      PROVE  IInv'
  <2>1. unanswered' \in SUBSET Sends
    BY <1>0, <1>4 DEF Answer, TypeOK
  <2>2. CASE s \in racing
    <3>1. Settle(s) /\ UNCHANGED <<accepted, wire, turn, exposed, invokeStored, lastCall>>
      BY <1>4, <2>2 DEF Answer
    <3> QED BY <2>1, <2>2, <3>1, SettleIInv
  <2>3. CASE s \notin racing
    <3>1. UNCHANGED <<pendingSends, sendQueue, immediates, racing, accepted, wire, turn,
                      exposed, invokeStored, lastCall>>
      BY <1>4, <2>3 DEF Answer
    <3> QED
      BY <2>1, <3>1
      DEF IInv, TypeOK, Sends, SlotConservation, WorkConserving, QueueInOrder,
          RacingStarted, Started
  <2> QED BY <2>2, <2>3
<1>5. ASSUME NEW s \in Sends, SendTimeout(s)
      PROVE  IInv'
  <2>1. /\ s \in racing /\ Settle(s) /\ unanswered' \in SUBSET Sends
        /\ UNCHANGED <<accepted, wire, turn, exposed, invokeStored, lastCall>>
    BY <1>0, <1>5 DEF SendTimeout, TypeOK
  <2> QED BY <2>1, SettleIInv
<1>6. CASE UNCHANGED vars
  <2>1. UNCHANGED sendVars /\ TypeOK'
    BY <1>0, <1>6 DEF vars, sendVars, TypeOK, Sends
  <2> QED BY <2>1, SendsUntouched
<1> QED BY <1>1, <1>2, <1>3, <1>4, <1>5, <1>6 DEF Next

(***************************************************************************)
(* Every reachable state of the send queue satisfies the inductive         *)
(* invariant, for every number of slots, queue places and turns.           *)
(***************************************************************************)
THEOREM SendQueueInvariant == Spec => []IInv
<1> QED BY InitIInv, NextIInv, PTL DEF Spec

(***************************************************************************)
(* pendingSends stays within MAX_CONCURRENT_SENDS and every queued number  *)
(* is an accepted send.                                                    *)
(***************************************************************************)
THEOREM SendQueueTypeOK == Spec => []TypeOK
<1>1. IInv => TypeOK  BY DEF IInv
<1> QED BY <1>1, SendQueueInvariant, PTL

(***************************************************************************)
(* No slot leaks and none is freed twice, however send timers and late     *)
(* answers interleave.                                                     *)
(***************************************************************************)
THEOREM SlotsAreConserved == Spec => []SlotConservation
<1>1. IInv => SlotConservation  BY DEF IInv
<1> QED BY <1>1, SendQueueInvariant, PTL

(***************************************************************************)
(* A queued send is never stranded beside a free slot.                     *)
(***************************************************************************)
THEOREM QueueIsWorkConserving == Spec => []WorkConserving
<1>1. IInv => WorkConserving  BY DEF IInv
<1> QED BY <1>1, SendQueueInvariant, PTL

(***************************************************************************)
(* Every slot is held by one send, and all are while a send is queued.     *)
(***************************************************************************)
THEOREM SlotsAreWellUsed == Spec => []SlotsAreUsed
<1>1. SlotConservation /\ WorkConserving => SlotsAreUsed  BY DEF SlotsAreUsed
<1> QED BY <1>1, SlotsAreConserved, QueueIsWorkConserving, PTL

(***************************************************************************)
(* The limit check inside the loop of sendActivities is unreachable once   *)
(* the check of the whole batch has passed.                                *)
(***************************************************************************)
THEOREM BatchesAreAllOrNothing == Spec => []AllOrNothing
<1>1. Init => AllOrNothing
  BY DEF Init, AllOrNothing
<1>2. IInv /\ AllOrNothing /\ [Next]_vars => AllOrNothing'
  <2> SUFFICES ASSUME IInv, AllOrNothing, [Next]_vars PROVE AllOrNothing'  OBVIOUS
  <2>1. ASSUME NEW t \in Turns, NEW k \in 0..MaxBatch, NEW invoke \in BOOLEAN,
               SendActivities(t, k, invoke)
        PROVE  AllOrNothing'
    <3>1. TypeOK /\ k \in Nat  BY SendQueueAssumption DEF IInv
    <3>2. ~WouldOverflow(k) => Takes(k) = k /\ ~(Takes(k) < k)  BY <3>1, TakesAll
    <3>3. \/ lastCall' = [asked |-> k, taken |-> 0, ended |-> "threw"]
          \/ lastCall' = [asked |-> k, taken |-> k, ended |-> "ok"]
      BY <2>1, <3>2 DEF SendActivities
    <3> QED BY <3>3 DEF AllOrNothing
  <2>2. CASE UNCHANGED lastCall
    BY <2>2 DEF AllOrNothing
  <2> QED
    BY <2>1, <2>2
    DEF Next, vars, BeginTurn, AwaitIO, ResumeTurn, EndTurn, DoSend, Answer, SendTimeout
<1> QED BY <1>1, <1>2, SendQueueInvariant, PTL DEF Spec

-----------------------------------------------------------------------------
(***************************************************************************)
(* Why setImmediate puts the response first: when doSend runs, every turn  *)
(* with a send is either done, its response queued, or was exposed.        *)
(***************************************************************************)
Acknowledged(t) == \E j \in DOMAIN wire : wire[j] = Response(t)

DoneIsAcknowledged == \A t \in Turns : turn[t] = "done" => Acknowledged(t)

SendersAreVisible ==
  \A s \in Sends : \/ turn[accepted[s]] \in {"running", "resumed", "done"}
                   \/ accepted[s] \in exposed

AckInv == DoneIsAcknowledged /\ SendersAreVisible /\ AckFirstIfNoYield

(***************************************************************************)
(* A frame that joins the wire keeps AckFirst if it is a response, or if   *)
(* its turn is exposed or acknowledged.                                    *)
(***************************************************************************)
LEMMA AppendKeepsAck ==
  ASSUME TypeOK, AckFirstIfNoYield, NEW t \in Turns,
         NEW f \in [frame : {"A", "B"}, turn : Turns, send : Nat],
         wire' = Append(wire, f), exposed \subseteq exposed',
         f.frame = "A" => f.turn \in exposed \/ Acknowledged(f.turn)
  PROVE  AckFirstIfNoYield' /\ \A u \in Turns : Acknowledged(u) => Acknowledged(u)'
<1>1. /\ Len(wire) \in Nat /\ DOMAIN wire = 1..Len(wire)
      /\ DOMAIN wire' = 1..(Len(wire) + 1)
      /\ \A i \in 1..Len(wire) : wire'[i] = wire[i]
      /\ wire'[Len(wire) + 1] = f
  <2>1. wire \in Seq([frame : {"A", "B"}, turn : Turns, send : Nat])  BY DEF TypeOK
  <2>2. Len(wire') = Len(wire) + 1 /\ wire' \in Seq([frame : {"A", "B"}, turn : Turns, send : Nat])
    BY <2>1, AppendProperties
  <2> QED BY <2>1, <2>2, AppendProperties, LenProperties
<1>2. ASSUME NEW u \in Turns, Acknowledged(u) PROVE Acknowledged(u)'
  <2>1. PICK j \in 1..Len(wire) : wire[j] = Response(u)
    BY <1>1, <1>2 DEF Acknowledged
  <2>2. j \in DOMAIN wire' /\ wire'[j] = Response(u)  BY <1>1, <2>1
  <2> QED BY <2>2 DEF Acknowledged, Response
<1>3. ASSUME NEW u \in Turns, u \notin exposed', NEW i \in DOMAIN wire',
             wire'[i].frame = "A", wire'[i].turn = u
      PROVE  \E j \in 1..(i - 1) : wire'[j] = Response(u)
  <2>0. u \notin exposed  BY <1>3
  <2>1. CASE i \in 1..Len(wire)
    <3>1. PICK j \in 1..(i - 1) : wire[j] = Response(u)
      BY <1>1, <1>3, <2>0, <2>1 DEF AckFirstIfNoYield, AckFirst
    <3>2. j \in 1..Len(wire)  BY <1>1, <2>1
    <3> QED BY <1>1, <3>1, <3>2
  <2>2. CASE i = Len(wire) + 1
    <3>1. f.frame = "A" /\ f.turn = u  BY <1>1, <1>3, <2>2
    <3>2. PICK j \in 1..Len(wire) : wire[j] = Response(u)
      BY <1>1, <2>0, <3>1 DEF Acknowledged
    <3>3. j \in 1..(i - 1) /\ wire'[j] = Response(u)  BY <1>1, <2>2, <3>2
    <3> QED BY <3>3
  <2> QED BY <1>1, <2>1, <2>2
<1>4. AckFirstIfNoYield'
  BY <1>3 DEF AckFirstIfNoYield, AckFirst, Response
<1> QED BY <1>2, <1>4

\* A step that writes no frame acknowledges no turn.
LEMMA WireUntouched ==
  ASSUME AckFirstIfNoYield, UNCHANGED wire, exposed \subseteq exposed'
  PROVE  AckFirstIfNoYield' /\ \A u \in Turns : Acknowledged(u) <=> Acknowledged(u)'
<1> QED BY DEF AckFirstIfNoYield, AckFirst, Acknowledged, Response

\* Every step keeps the order of acknowledgement and activities.
LEMMA NextAckInv == IInv /\ AckInv /\ [Next]_vars => AckInv'
<1> SUFFICES ASSUME IInv, AckInv, [Next]_vars PROVE AckInv'  OBVIOUS
<1>0. TypeOK /\ DoneIsAcknowledged /\ SendersAreVisible /\ AckFirstIfNoYield
  BY DEF IInv, AckInv
<1>1. ASSUME NEW t \in Turns, BeginTurn(t) \/ AwaitIO(t) \/ ResumeTurn(t)
      PROVE  AckInv'
  <2>1. UNCHANGED wire /\ UNCHANGED accepted /\ exposed \subseteq exposed'
    BY <1>1 DEF BeginTurn, AwaitIO, ResumeTurn, sendVars
  <2>2. AckFirstIfNoYield' /\ DoneIsAcknowledged'
    BY <1>0, <1>1, <2>1, WireUntouched
    DEF DoneIsAcknowledged, BeginTurn, AwaitIO, ResumeTurn, TypeOK
  <2>3. SendersAreVisible'
    <3>1. /\ turn \in [Turns -> {"idle", "running", "awaiting", "resumed", "done"}]
          /\ \A s \in Sends : accepted[s] \in Turns
          /\ Sends' = Sends
      BY <1>0, <2>1 DEF TypeOK, Sends
    <3>2. ASSUME NEW s \in Sends
          PROVE  turn'[accepted[s]] \in {"running", "resumed", "done"} \/ accepted[s] \in exposed'
      <4>1. CASE accepted[s] # t
        BY <1>0, <1>1, <2>1, <3>1, <4>1 DEF SendersAreVisible, BeginTurn, AwaitIO, ResumeTurn
      <4>2. CASE accepted[s] = t
        BY <1>1, <3>1, <4>2 DEF BeginTurn, AwaitIO, ResumeTurn
      <4> QED BY <4>1, <4>2
    <3> QED BY <2>1, <3>1, <3>2 DEF SendersAreVisible
  <2> QED BY <2>2, <2>3 DEF AckInv
<1>2. ASSUME NEW t \in Turns, EndTurn(t) PROVE AckInv'
  <2>1. /\ wire' = Append(wire, Response(t)) /\ UNCHANGED <<exposed, accepted>>
        /\ Response(t) \in [frame : {"A", "B"}, turn : Turns, send : Nat]
        /\ Response(t).frame = "B"
    BY <1>2 DEF EndTurn, sendVars, Response
  <2>2. AckFirstIfNoYield' /\ \A u \in Turns : Acknowledged(u) => Acknowledged(u)'
    BY <1>0, <2>1, AppendKeepsAck
  <2>3. Acknowledged(t)'
    <3>1. Len(wire) + 1 \in DOMAIN wire' /\ wire'[Len(wire) + 1] = Response(t)
      BY <1>0, <2>1, AppendProperties, LenProperties DEF TypeOK
    <3> QED BY <3>1 DEF Acknowledged, Response
  <2>4. DoneIsAcknowledged' /\ SendersAreVisible'
    BY <1>0, <1>2, <2>1, <2>2, <2>3
    DEF DoneIsAcknowledged, SendersAreVisible, EndTurn, TypeOK, Sends
  <2> QED BY <2>2, <2>4 DEF AckInv
<1>3. ASSUME NEW t \in Turns, NEW k \in 0..MaxBatch, NEW invoke \in BOOLEAN,
             SendActivities(t, k, invoke)
      PROVE  AckInv'
  <2>1. UNCHANGED <<wire, turn, exposed>> /\ turn[t] \in Executing /\ k \in Nat
    BY <1>3, SendQueueAssumption DEF SendActivities
  <2>2. AckFirstIfNoYield' /\ DoneIsAcknowledged'
    BY <1>0, <2>1, WireUntouched DEF DoneIsAcknowledged
  <2>3. CASE WouldOverflow(k)
    BY <1>0, <1>3, <2>1, <2>2, <2>3
    DEF AckInv, SendersAreVisible, SendActivities, sendVars, Sends
  <2>4. CASE ~WouldOverflow(k)
    <3> DEFINE turns == [i \in 1..k |-> t]
    <3>1. accepted' = accepted \o turns
      BY <1>0, <1>3, <2>1, <2>4, TakesAll DEF SendActivities, Enqueue
    <3>2. accepted \in Seq(Turns) /\ turns \in Seq(Turns) /\ Len(turns) = k
          /\ Len(accepted) \in Nat
      BY <1>0, <2>1, RunOfTurns, LenProperties DEF TypeOK
    <3>3. \A s \in 1..k : turns[s] = t  OBVIOUS
    <3> HIDE DEF turns
    <3>4. /\ Len(accepted') = Len(accepted) + k
          /\ \A s \in 1..(Len(accepted) + k) :
               accepted'[s] = IF s <= Len(accepted) THEN accepted[s]
                                                    ELSE turns[s - Len(accepted)]
      <4>1. /\ Len(accepted') = Len(accepted) + Len(turns)
            /\ \A s \in 1..(Len(accepted) + Len(turns)) :
                 accepted'[s] = IF s <= Len(accepted) THEN accepted[s]
                                                      ELSE turns[s - Len(accepted)]
        <5>1. accepted \in Seq(Turns) /\ turns \in Seq(Turns) /\ accepted' = accepted \o turns
          BY <3>1, <3>2
        <5> QED BY <5>1, ConcatFacts
      <4> QED BY <3>2, <4>1
    <3>5. ASSUME NEW s \in Sends'
          PROVE  accepted'[s] = t \/ (s \in Sends /\ accepted'[s] = accepted[s])
      <4>1. s \in 1..(Len(accepted) + k)  BY <3>4 DEF Sends
      <4>2. CASE s <= Len(accepted)
        BY <3>2, <3>4, <4>1, <4>2 DEF Sends
      <4>3. CASE ~(s <= Len(accepted))
        <5>1. s - Len(accepted) \in 1..k  BY <2>1, <3>2, <4>1, <4>3
        <5> QED BY <3>3, <3>4, <4>1, <4>3, <5>1
      <4> QED BY <4>2, <4>3
    <3>6. turn[t] \in {"running", "resumed", "done"}
      BY <2>1 DEF Executing
    <3> QED BY <1>0, <2>1, <2>2, <3>5, <3>6 DEF AckInv, SendersAreVisible
  <2> QED BY <2>3, <2>4
<1>4. CASE DoSend
  <2> DEFINE s == Head(immediates)
  <2>1. /\ s \in Sends /\ JoinWire(s)
        /\ UNCHANGED <<accepted, turn, exposed>> /\ Quiet
    BY <1>0, <1>4, HeadTailProperties DEF DoSend, TypeOK
  <2> HIDE DEF s
  <2>2. /\ Request(s) \in [frame : {"A", "B"}, turn : Turns, send : Nat]
        /\ Request(s).turn = accepted[s] /\ accepted[s] \in Turns
    BY <1>0, <2>1 DEF TypeOK, Request, Sends
  <2>3. turn[accepted[s]] = "done" \/ accepted[s] \in exposed
    BY <1>0, <2>1, <2>2 DEF SendersAreVisible, Quiet, Executing
  <2>4. Request(s).turn \in exposed \/ Acknowledged(Request(s).turn)
    BY <1>0, <2>2, <2>3 DEF DoneIsAcknowledged
  <2>5. AckFirstIfNoYield' /\ \A u \in Turns : Acknowledged(u) => Acknowledged(u)'
    <3>1. CASE wire' = Append(wire, Request(s))
      BY <1>0, <2>1, <2>2, <2>4, <3>1, AppendKeepsAck
    <3>2. CASE UNCHANGED wire
      BY <1>0, <2>1, <3>2, WireUntouched
    <3> QED BY <2>1, <3>1, <3>2 DEF JoinWire
  <2> QED BY <1>0, <2>1, <2>5 DEF AckInv, DoneIsAcknowledged, SendersAreVisible, Sends
<1>5. CASE UNCHANGED <<accepted, wire, turn, exposed>>
  BY <1>0, <1>5, WireUntouched DEF AckInv, DoneIsAcknowledged, SendersAreVisible, Sends
<1> QED
  BY <1>1, <1>2, <1>3, <1>4, <1>5 DEF Next, vars, Answer, SendTimeout

(***************************************************************************)
(* Whatever the interleaving, a turn that does not yield between its first *)
(* send and its return has its response queued before its request frames.  *)
(***************************************************************************)
THEOREM AckPrecedesSends == Spec => []AckFirstIfNoYield
<1>1. Init => AckInv
  BY DEF Init, AckInv, DoneIsAcknowledged, SendersAreVisible, AckFirstIfNoYield, AckFirst, Sends
<1>2. AckInv => AckFirstIfNoYield  BY DEF AckInv
<1> QED BY <1>1, <1>2, NextAckInv, SendQueueInvariant, PTL DEF Spec

-----------------------------------------------------------------------------
\* Frames carry the numbers of their sends.
LEMMA WireSendsAreNumbers ==
  ASSUME TypeOK
  PROVE  \A i \in DOMAIN wire : wire[i].send \in Nat
<1> DEFINE F == [frame : {"A", "B"}, turn : Turns, send : Nat]
<1>1. wire \in Seq(F)  BY DEF TypeOK
<1>2. \A f \in F : f.send \in Nat  OBVIOUS
<1> HIDE DEF F
<1>3. \A i \in DOMAIN wire : wire[i] \in F
  BY <1>1, ElementOfSeq, LenProperties
<1> QED BY <1>2, <1>3

(***************************************************************************)
(* Order on the wire: the send that joins it is the next one to start.     *)
(***************************************************************************)
LEMMA AppendKeepsOrder ==
  ASSUME TypeOK, WireInOrder, Started \in Nat, Started' \in Nat, Started <= Started',
         NEW f \in [frame : {"A", "B"}, turn : Turns, send : Nat],
         wire' = Append(wire, f),
         f.frame = "A" => Started < f.send /\ f.send <= Started'
  PROVE  WireInOrder'
<1>1. /\ wire \in Seq([frame : {"A", "B"}, turn : Turns, send : Nat])
      /\ Len(wire) \in Nat /\ DOMAIN wire = 1..Len(wire)
  BY LenProperties DEF TypeOK
<1>2. /\ Len(wire') = Len(wire) + 1 /\ DOMAIN wire' = 1..(Len(wire) + 1)
      /\ \A i \in 1..Len(wire) : wire'[i] = wire[i]
      /\ wire'[Len(wire) + 1] = f
  BY <1>1, AppendProperties, LenProperties
<1>3. \A i \in 1..Len(wire) : wire[i].send \in Nat  BY <1>1, WireSendsAreNumbers
<1>4. ASSUME NEW i \in DOMAIN wire', wire'[i].frame = "A"
      PROVE  /\ wire'[i].send <= Started'
             /\ \A j \in 1..(i - 1) : wire'[j].frame = "A" => wire'[j].send < wire'[i].send
  <2>1. CASE i \in 1..Len(wire)
    <3>1. wire'[i] = wire[i] /\ \A j \in 1..(i - 1) : wire'[j] = wire[j]
      BY <1>1, <1>2, <2>1
    <3>2. wire[i].send <= Started /\ wire[i].send \in Nat
      BY <1>1, <1>3, <1>4, <2>1, <3>1 DEF WireInOrder
    <3>3. \A j \in 1..(i - 1) : wire[j].frame = "A" => wire[j].send < wire[i].send
      BY <1>1, <1>4, <2>1, <3>1 DEF WireInOrder
    <3> HIDE DEF Started
    <3> QED BY <3>1, <3>2, <3>3
  <2>2. CASE i = Len(wire) + 1
    <3>1. wire'[i] = f /\ i - 1 = Len(wire)  BY <1>1, <1>2, <2>2
    <3>2. ASSUME NEW j \in 1..(i - 1), wire'[j].frame = "A"
          PROVE  wire'[j].send < wire'[i].send
      <4>1. j \in 1..Len(wire) /\ wire'[j] = wire[j]  BY <1>2, <3>1
      <4>2. wire[j].send <= Started /\ wire[j].send \in Nat
        BY <1>1, <1>3, <3>2, <4>1 DEF WireInOrder
      <4>3. Started < f.send /\ f.send \in Nat  BY <1>4, <3>1
      <4> QED BY <3>1, <4>1, <4>2, <4>3
    <3> QED BY <1>4, <3>1, <3>2
  <2> QED BY <1>1, <1>2, <2>1, <2>2
<1> QED BY <1>4 DEF WireInOrder

\* Every step keeps the frames in the order of the sends.
LEMMA NextWireInOrder == IInv /\ WireInOrder /\ [Next]_vars => WireInOrder'
<1> SUFFICES ASSUME IInv, WireInOrder, [Next]_vars PROVE WireInOrder'  OBVIOUS
<1>0. /\ TypeOK /\ Started \in Nat
      /\ \A t \in Turns : Response(t) \in [frame : {"A", "B"}, turn : Turns, send : Nat]
  BY DEF IInv, RacingStarted, Response
<1>1. CASE UNCHANGED wire /\ Started' = Started
  BY <1>1 DEF WireInOrder
<1>2. ASSUME NEW t \in Turns, BeginTurn(t) \/ AwaitIO(t) \/ ResumeTurn(t)
      PROVE  WireInOrder'
  BY <1>1, <1>2 DEF BeginTurn, AwaitIO, ResumeTurn, sendVars, Started
<1>3. ASSUME NEW t \in Turns, EndTurn(t) PROVE WireInOrder'
  <2>1. wire' = Append(wire, Response(t)) /\ Started' = Started /\ Response(t).frame = "B"
    BY <1>3 DEF EndTurn, sendVars, Started, Response
  <2> QED BY <1>0, <2>1, AppendKeepsOrder
<1>4. ASSUME NEW t \in Turns, NEW k \in 0..MaxBatch, NEW invoke \in BOOLEAN,
             SendActivities(t, k, invoke)
      PROVE  WireInOrder'
  <2>1. UNCHANGED wire  BY <1>4 DEF SendActivities
  <2> QED BY <1>1, <1>4, <2>1, SendActivitiesIInv
<1>5. CASE DoSend
  <2> DEFINE s == Head(immediates)
  <2>1. Started' = Started + 1 /\ s = Started + 1
    BY <1>5, DoSendIInv
  <2>2. s \in Sends /\ JoinWire(s)
    BY <1>0, <1>5, HeadTailProperties DEF DoSend, TypeOK
  <2> HIDE DEF s
  <2>3. /\ Request(s) \in [frame : {"A", "B"}, turn : Turns, send : Nat]
        /\ Request(s).send = s
    BY <1>0, <2>2 DEF TypeOK, Request, Sends
  <2>4. CASE wire' = Append(wire, Request(s))
    <3>1. Started' \in Nat /\ Started <= Started' /\ Started < s /\ s <= Started'
      BY <1>0, <2>1
    <3> QED BY <1>0, <2>3, <2>4, <3>1, AppendKeepsOrder
  <2>5. CASE UNCHANGED wire
    <3> HIDE DEF Started
    <3>1. \A i \in DOMAIN wire : wire[i].send \in Nat
      BY <1>0, WireSendsAreNumbers
    <3>2. \A i \in DOMAIN wire : wire[i].send <= Started => wire[i].send <= Started'
      BY <1>0, <2>1, <3>1
    <3> QED BY <2>5, <3>2 DEF WireInOrder
  <2> QED BY <2>2, <2>4, <2>5 DEF JoinWire
<1>6. ASSUME NEW s \in Sends, Answer(s) \/ SendTimeout(s)
      PROVE  WireInOrder'
  <2>1. UNCHANGED wire  BY <1>6 DEF Answer, SendTimeout
  <2>2. CASE s \in racing /\ Settle(s)
    <3>1. /\ unanswered' \in SUBSET Sends
          /\ UNCHANGED <<accepted, wire, turn, exposed, invokeStored, lastCall>>
      BY <1>0, <1>6 DEF Answer, SendTimeout, TypeOK
    <3> QED BY <1>1, <2>2, <3>1, SettleIInv
  <2>3. CASE UNCHANGED <<pendingSends, sendQueue, immediates, racing, accepted>>
    BY <1>1, <2>1, <2>3 DEF Started
  <2> QED BY <1>6, <2>2, <2>3 DEF Answer, SendTimeout
<1>7. CASE UNCHANGED vars
  BY <1>1, <1>7 DEF vars, Started
<1> QED BY <1>2, <1>3, <1>4, <1>5, <1>6, <1>7 DEF Next

(***************************************************************************)
(* Sends start, and join the write queue, in the order they were accepted, *)
(* whatever the order in which earlier sends settle.                       *)
(***************************************************************************)
THEOREM SendsAreFifo == Spec => []FifoOrder
<1>1. Init => WireInOrder  BY DEF Init, WireInOrder
<1>2. IInv /\ WireInOrder => FifoOrder  BY DEF IInv, FifoOrder
<1> QED BY <1>1, <1>2, NextWireInOrder, SendQueueInvariant, PTL DEF Spec

(***************************************************************************)
(* The relay gets what a turn sends in the order of the calls, and behind  *)
(* the response, if the turn did not yield to the event loop.              *)
(***************************************************************************)
THEOREM RequestsReachRelayInOrder == Spec => []RelayOrder
<1>1. FifoOrder /\ AckFirstIfNoYield => RelayOrder  BY DEF RelayOrder
<1> QED BY <1>1, SendsAreFifo, AckPrecedesSends, PTL

=============================================================================
