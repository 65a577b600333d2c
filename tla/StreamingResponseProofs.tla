----------------------- MODULE StreamingResponseProofs -----------------------
(***************************************************************************)
(* Proofs about the streamed answer, for any number of chunks, updates and *)
(* resets.  The invariant says where the newest text is: in a factory that *)
(* waits, in the activity that is being sent, or with the channel.         *)
(***************************************************************************)
EXTENDS StreamingResponseProps, TLAPS

Kinds == {"informative", "chunk"}
HasChunk(q) == \E i \in DOMAIN q : q[i] = "chunk"
OneChunk(q) == \A i, j \in DOMAIN q : q[i] = "chunk" /\ q[j] = "chunk" => i = j

\* The loop rests only over an empty queue, and the delay follows an acceptance.
Drained ==
  /\ inFlight = NoActivity => queue = <<>> /\ ~delaying
  /\ delaying => sent # <<>> /\ sent[Len(sent)] = inFlight

\* The flag is set while a chunk waits, and only then if no send has failed.
FlagTells ==
  /\ OneChunk(queue)
  /\ HasChunk(queue) => chunkQueued
  /\ failure = "none" /\ chunkQueued => HasChunk(queue)

\* Off a streaming channel the loop never runs: endStream alone sends.
PlainAnswer ==
  /\ ~streaming => queue = <<>>
  /\ ~streaming /\ inFlight # NoActivity => ended /\ Final(inFlight)

\* The text appended last is on its way or with the client.
TextOnItsWay ==
  streaming /\ failure = "none" /\ message # 0 =>
    \/ HasChunk(queue)
    \/ inFlight # NoActivity /\ inFlight.text = message
    \/ \E i \in DOMAIN sent : sent[i].text = message

\* The stream is open once an accepted activity was named.
StreamOpen ==
  /\ named \subseteq DOMAIN sent
  /\ IsFirst(streamId, named)
  /\ inFlight # NoActivity /\ ~delaying => inFlight.id = streamId
  /\ OneStream

SInv ==
  /\ TypeOK
  /\ Drained
  /\ FlagTells
  /\ PlainAnswer
  /\ TextOnItsWay
  /\ StreamOpen

-----------------------------------------------------------------------------
(* The queue of factories.                                                 *)

\* What is left of the queue when its first factory is taken.
LEMMA TailOfQueue ==
  ASSUME NEW q \in Seq(Kinds), q # <<>>, OneChunk(q)
  PROVE  /\ Tail(q) \in Seq(Kinds) /\ Head(q) \in Kinds
         /\ OneChunk(Tail(q))
         /\ Head(q) = "chunk" => ~HasChunk(Tail(q))
         /\ Head(q) = "informative" => (HasChunk(Tail(q)) <=> HasChunk(q))
         /\ Head(q) = "chunk" => HasChunk(q)
<1>1. Len(q) \in Nat \ {0} /\ Head(q) = q[1] /\ Head(q) \in Kinds /\ Tail(q) \in Seq(Kinds)
  OBVIOUS
<1>2. Len(Tail(q)) = Len(q) - 1 /\ \A i \in 1..(Len(q) - 1) : Tail(q)[i] = q[i + 1]
  OBVIOUS
<1>3. OneChunk(Tail(q))
  BY <1>1, <1>2 DEF OneChunk
<1>4. Head(q) = "chunk" => ~HasChunk(Tail(q))
  BY <1>1, <1>2 DEF OneChunk, HasChunk
<1>5. ASSUME Head(q) = "informative" PROVE HasChunk(Tail(q)) <=> HasChunk(q)
  <2>1. HasChunk(Tail(q)) => HasChunk(q)
    BY <1>1, <1>2 DEF HasChunk
  <2>2. ASSUME NEW i \in DOMAIN q, q[i] = "chunk" PROVE HasChunk(Tail(q))
    <3>1. i # 1 /\ i - 1 \in 1..(Len(q) - 1)  BY <1>1, <1>5, <2>2
    <3>2. Tail(q)[i - 1] = "chunk" /\ i - 1 \in DOMAIN Tail(q)  BY <1>1, <1>2, <2>2, <3>1
    <3> QED BY <3>2 DEF HasChunk
  <2> QED BY <2>1, <2>2 DEF HasChunk
<1>6. Head(q) = "chunk" => HasChunk(q)
  BY <1>1 DEF HasChunk
<1> QED BY <1>1, <1>3, <1>4, <1>5, <1>6

\* What becomes of the queue when a factory is added.
LEMMA AppendToQueue ==
  ASSUME NEW q \in Seq(Kinds), NEW kind \in Kinds, OneChunk(q), kind = "chunk" => ~HasChunk(q)
  PROVE  /\ Append(q, kind) \in Seq(Kinds) /\ Append(q, kind) # <<>>
         /\ OneChunk(Append(q, kind))
         /\ HasChunk(Append(q, kind)) <=> (HasChunk(q) \/ kind = "chunk")
<1> DEFINE a == Append(q, kind)
<1>1. /\ a \in Seq(Kinds) /\ a # <<>> /\ Len(a) = Len(q) + 1 /\ a[Len(q) + 1] = kind
      /\ \A i \in 1..Len(q) : a[i] = q[i]
      /\ Len(q) \in Nat /\ DOMAIN q = 1..Len(q) /\ DOMAIN a = 1..(Len(q) + 1)
  OBVIOUS
<1>2. OneChunk(a)
  BY <1>1 DEF OneChunk, HasChunk
<1>3. HasChunk(a) <=> (HasChunk(q) \/ kind = "chunk")
  <2>1. HasChunk(a) => HasChunk(q) \/ kind = "chunk"
    BY <1>1 DEF HasChunk
  <2>2. HasChunk(q) => HasChunk(a)
    BY <1>1 DEF HasChunk
  <2>3. kind = "chunk" => HasChunk(a)
    <3>1. Len(q) + 1 \in DOMAIN a  BY <1>1
    <3> QED BY <1>1, <3>1 DEF HasChunk
  <2> QED BY <2>1, <2>2, <2>3
<1> QED BY <1>1, <1>2, <1>3

\* Activities are not the value of a resting loop.
LEMMA ActivityIsSomething == NoActivity \notin Activities
BY DEF NoActivity, Activities

\* What a turn of the loop over the queue q leaves.
LEMMA TakeStep ==
  ASSUME TypeOK, NEW q \in Seq(Kinds), OneChunk(q), NEW flag \in BOOLEAN,
         NEW text \in Nat, NEW over \in BOOLEAN, Take(q, flag, text, over)
  PROVE  /\ queue' \in Seq(Kinds) /\ OneChunk(queue') /\ ~delaying' /\ delaying' \in BOOLEAN
         /\ chunkQueued' \in BOOLEAN /\ nextSequence' \in Nat \ {0}
         /\ inFlight' \in Activities \union {NoActivity}
         /\ q = <<>> => inFlight' = NoActivity /\ queue' = <<>> /\ chunkQueued' = flag
         /\ q # <<>> => inFlight' \in Activities /\ inFlight'.id = streamId
         /\ HasChunk(q) => HasChunk(queue') \/ (inFlight' \in Activities /\ inFlight'.text = text)
         /\ HasChunk(queue') => HasChunk(q) /\ chunkQueued' = flag
         /\ chunkQueued' /\ HasChunk(q) => HasChunk(queue')
         /\ chunkQueued' => flag
<1>1. CASE q = <<>>
  <2>1. /\ queue' = <<>> /\ inFlight' = NoActivity /\ chunkQueued' = flag
        /\ nextSequence' = nextSequence /\ delaying' = FALSE
    BY <1>1 DEF Take
  <2>2. ~HasChunk(q) /\ OneChunk(q)
    BY <1>1 DEF HasChunk, OneChunk
  <2> QED BY <1>1, <2>1, <2>2 DEF TypeOK
<1>2. CASE q # <<>>
  <2>1. /\ queue' = Tail(q) /\ inFlight' = Make(Head(q), text, over) /\ delaying' = FALSE
        /\ chunkQueued' = (flag /\ Head(q) # "chunk") /\ nextSequence' = nextSequence + 1
    BY <1>2 DEF Take
  <2>2. /\ Tail(q) \in Seq(Kinds) /\ Head(q) \in Kinds
        /\ OneChunk(Tail(q))
        /\ Head(q) = "chunk" => ~HasChunk(Tail(q))
        /\ Head(q) = "informative" => (HasChunk(Tail(q)) <=> HasChunk(q))
        /\ Head(q) = "chunk" => HasChunk(q)
    BY <1>2, TailOfQueue
  <2>3. nextSequence \in Nat \ {0} /\ streamId \in Nat /\ message \in Nat
    BY StreamAssumption DEF TypeOK
  <2>4. CASE Head(q) = "chunk"
    <3>1. inFlight' \in Activities /\ inFlight'.id = streamId /\ inFlight'.text = text
      BY <2>1, <2>3, <2>4 DEF Make, FinalMessage, Activities
    <3>2. chunkQueued' = FALSE
      <4>1. (flag /\ Head(q) # "chunk") = FALSE  BY <2>4
      <4> QED BY <2>1, <4>1
    <3>3. nextSequence' \in Nat \ {0} /\ delaying' = FALSE
      BY <2>1, <2>3
    <3>4. queue' \in Seq(Kinds) /\ OneChunk(queue') /\ ~HasChunk(queue')
      BY <2>1, <2>2, <2>4
    <3> QED BY <1>2, <3>1, <3>2, <3>3, <3>4
  <2>5. CASE Head(q) = "informative"
    <3>1. inFlight' \in Activities /\ inFlight'.id = streamId
      BY <2>1, <2>3, <2>5 DEF Make, Activities
    <3>2. chunkQueued' = flag
      <4>1. (flag /\ Head(q) # "chunk") = flag  BY <2>5
      <4> QED BY <2>1, <4>1
    <3>3. nextSequence' \in Nat \ {0} /\ delaying' = FALSE
      BY <2>1, <2>3
    <3>4. queue' \in Seq(Kinds) /\ OneChunk(queue') /\ (HasChunk(queue') <=> HasChunk(q))
      BY <2>1, <2>2, <2>5
    <3> QED BY <1>2, <3>1, <3>2, <3>3, <3>4
  <2> QED BY <2>2, <2>4, <2>5 DEF Kinds
<1> QED BY <1>1, <1>2

\* What queueing a factory leaves.
LEMMA QueueStep ==
  ASSUME SInv, NEW kind \in Kinds, NEW flag \in BOOLEAN, NEW text \in Nat, NEW over \in BOOLEAN,
         kind = "chunk" => ~chunkQueued /\ flag, kind = "informative" => flag = chunkQueued,
         QueueActivity(kind, flag, text, over)
  PROVE  /\ queue' \in Seq(Kinds) /\ OneChunk(queue') /\ delaying' \in BOOLEAN
         /\ chunkQueued' \in BOOLEAN /\ nextSequence' \in Nat \ {0}
         /\ inFlight' \in Activities
         /\ delaying' => delaying /\ inFlight' = inFlight
         /\ inFlight # NoActivity => inFlight' = inFlight /\ delaying' = delaying
         /\ inFlight = NoActivity => inFlight'.id = streamId
         /\ HasChunk(queue') => chunkQueued'
         /\ failure = "none" /\ chunkQueued' => HasChunk(queue')
         /\ HasChunk(queue) => HasChunk(queue')
         /\ kind = "chunk" => HasChunk(queue') \/ inFlight'.text = text
<1> DEFINE q == Append(queue, kind)
<1>0. /\ queue \in Seq(Kinds) /\ OneChunk(queue) /\ (HasChunk(queue) => chunkQueued)
      /\ (failure = "none" /\ chunkQueued => HasChunk(queue))
      /\ chunkQueued \in BOOLEAN /\ delaying \in BOOLEAN
      /\ nextSequence \in Nat \ {0} /\ inFlight \in Activities \union {NoActivity}
  BY DEF SInv, TypeOK, FlagTells, Kinds
<1>1. /\ q \in Seq(Kinds) /\ q # <<>> /\ OneChunk(q)
      /\ HasChunk(q) <=> (HasChunk(queue) \/ kind = "chunk")
  BY <1>0, AppendToQueue
<1>2. CASE inFlight = NoActivity
  <2>0. queue = <<>> /\ ~delaying
    BY <1>2 DEF SInv, Drained
  <2>1. Take(q, flag, text, over)
    BY <1>2 DEF QueueActivity
  <2>2. ~HasChunk(queue)
    BY <2>0 DEF HasChunk
  <2>3. failure = "none" => ~chunkQueued
    BY <1>0, <2>2
  <2>4. TypeOK  BY DEF SInv
  <2>5. /\ queue' \in Seq(Kinds) /\ OneChunk(queue') /\ ~delaying' /\ delaying' \in BOOLEAN
        /\ chunkQueued' \in BOOLEAN /\ nextSequence' \in Nat \ {0}
        /\ inFlight' \in Activities /\ inFlight'.id = streamId
        /\ HasChunk(q) => HasChunk(queue') \/ inFlight'.text = text
        /\ HasChunk(queue') => HasChunk(q) /\ chunkQueued' = flag
        /\ chunkQueued' /\ HasChunk(q) => HasChunk(queue')
        /\ chunkQueued' => flag
    BY <1>1, <2>1, <2>4, TakeStep
  <2> QED BY <1>1, <1>2, <2>2, <2>3, <2>5 DEF Kinds
<1>3. CASE inFlight # NoActivity
  <2>1. /\ queue' = q /\ chunkQueued' = flag /\ inFlight' = inFlight
        /\ delaying' = delaying /\ nextSequence' = nextSequence
    BY <1>3 DEF QueueActivity
  <2> QED BY <1>0, <1>1, <1>3, <2>1 DEF Kinds
<1> QED BY <1>2, <1>3

-----------------------------------------------------------------------------
(* Each action keeps the invariant.                                        *)

\* What the channel has stays one stream while nothing is accepted.
LEMMA OpenFrame ==
  ASSUME StreamOpen, UNCHANGED <<sent, named, streamId>>,
         inFlight' # NoActivity /\ ~delaying' => inFlight'.id = streamId
  PROVE  StreamOpen'
<1>1. OneStream' <=> OneStream  BY DEF OneStream
<1>2. IsFirst(streamId, named)' <=> IsFirst(streamId, named)  BY DEF IsFirst
<1> QED BY <1>1, <1>2 DEF StreamOpen

\* The initial states satisfy the invariant.
LEMMA InitSInv == Init => SInv
<1> SUFFICES ASSUME Init PROVE SInv  OBVIOUS
<1> USE DEF Init, Fresh
<1>1. TypeOK
  <2>1. queue \in Seq(Kinds) /\ sent \in Seq(Activities)
    BY DEF Kinds
  <2>2. 0 \in 0..MaxChunks /\ 0 \in 0..MaxUpdates /\ 0 \in 0..MaxResets /\ 1 \in Nat \ {0}
    BY StreamAssumption
  <2> QED BY <2>1, <2>2 DEF TypeOK, Kinds
<1>2. Drained  BY DEF Drained
<1>3. FlagTells  BY DEF FlagTells, OneChunk, HasChunk
<1>4. PlainAnswer  BY DEF PlainAnswer
<1>5. TextOnItsWay  BY DEF TextOnItsWay
<1>6. StreamOpen
  <2>1. OneStream  BY DEF OneStream
  <2>2. streamId = 0 /\ named = {} /\ inFlight = NoActivity  OBVIOUS
  <2> QED BY ONLY <2>1, <2>2 DEF StreamOpen, IsFirst
<1> QED BY <1>1, <1>2, <1>3, <1>4, <1>5, <1>6 DEF SInv

\* QueueInformativeUpdate keeps the invariant.
LEMMA QueueInformativeUpdateSInv == SInv /\ QueueInformativeUpdate => SInv'
<1> SUFFICES ASSUME SInv, QueueInformativeUpdate PROVE SInv'  OBVIOUS
<1>1. /\ QueueActivity("informative", chunkQueued, message, ended)
      /\ streaming /\ ~ended /\ updates < MaxUpdates /\ updates' = updates + 1
      /\ UNCHANGED <<ended, flagVars, message, streamId, caller, result, histVars, resets>>
  BY DEF QueueInformativeUpdate
<1>2. chunkQueued \in BOOLEAN /\ message \in Nat /\ ended \in BOOLEAN
  BY StreamAssumption DEF SInv, TypeOK
<1>3. /\ queue' \in Seq(Kinds) /\ OneChunk(queue') /\ delaying' \in BOOLEAN
      /\ chunkQueued' \in BOOLEAN /\ nextSequence' \in Nat \ {0}
      /\ inFlight' \in Activities
      /\ delaying' => delaying /\ inFlight' = inFlight
      /\ inFlight # NoActivity => inFlight' = inFlight /\ delaying' = delaying
      /\ inFlight = NoActivity => inFlight'.id = streamId
      /\ HasChunk(queue') => chunkQueued'
      /\ failure = "none" /\ chunkQueued' => HasChunk(queue')
      /\ HasChunk(queue) => HasChunk(queue')
  BY <1>1, <1>2, QueueStep DEF Kinds
<1>4. TypeOK'
  BY <1>1, <1>3, StreamAssumption DEF SInv, TypeOK, Kinds, flagVars, histVars
<1>5. Drained'
  BY <1>1, <1>3, ActivityIsSomething DEF SInv, Drained, histVars
<1>6. FlagTells'
  BY <1>1, <1>3 DEF FlagTells, histVars
<1>7. PlainAnswer'
  BY <1>1 DEF PlainAnswer, flagVars
<1>8. TextOnItsWay'
  BY <1>1, <1>3 DEF SInv, TextOnItsWay, flagVars, histVars
<1>9. StreamOpen'
  <2>1. StreamOpen /\ (inFlight # NoActivity /\ ~delaying => inFlight.id = streamId)
    BY DEF SInv, StreamOpen
  <2>2. inFlight' # NoActivity /\ ~delaying' => inFlight'.id = streamId
    BY <1>1, <1>3, <2>1
  <2> QED BY <1>1, <2>1, <2>2, OpenFrame DEF histVars
<1> QED BY <1>4, <1>5, <1>6, <1>7, <1>8, <1>9 DEF SInv

\* Queueing the next chunk, of text that was just appended or is complete.
LEMMA NextChunkStep ==
  ASSUME SInv, NEW text \in Nat, NEW over \in BOOLEAN, QueueNextChunk(text, over)
  PROVE  /\ queue' \in Seq(Kinds) /\ OneChunk(queue') /\ delaying' \in BOOLEAN
         /\ chunkQueued' \in BOOLEAN /\ nextSequence' \in Nat \ {0}
         /\ inFlight' \in Activities \union {NoActivity}
         /\ inFlight' = NoActivity => queue' = <<>> /\ ~delaying'
         /\ delaying' => delaying /\ inFlight' = inFlight
         /\ inFlight # NoActivity => inFlight' = inFlight /\ delaying' = delaying
         /\ inFlight = NoActivity /\ inFlight' # NoActivity => inFlight'.id = streamId
         /\ HasChunk(queue') => chunkQueued'
         /\ failure = "none" /\ chunkQueued' => HasChunk(queue')
         /\ failure = "none" =>
              HasChunk(queue') \/ (inFlight' # NoActivity /\ inFlight'.text = text)
<1>0. chunkQueued \in BOOLEAN
  BY DEF SInv, TypeOK
<1>1. CASE chunkQueued
  <2>1. UNCHANGED drainVars
    BY <1>1 DEF QueueNextChunk
  <2> QED BY <1>1, <2>1 DEF SInv, TypeOK, Drained, FlagTells, Kinds, drainVars, HasChunk, OneChunk
<1>2. CASE ~chunkQueued
  <2>1. QueueActivity("chunk", TRUE, text, over)
    BY <1>2 DEF QueueNextChunk
  <2>2. /\ queue' \in Seq(Kinds) /\ OneChunk(queue') /\ delaying' \in BOOLEAN
        /\ chunkQueued' \in BOOLEAN /\ nextSequence' \in Nat \ {0}
        /\ inFlight' \in Activities
        /\ delaying' => delaying /\ inFlight' = inFlight
        /\ inFlight # NoActivity => inFlight' = inFlight /\ delaying' = delaying
        /\ inFlight = NoActivity => inFlight'.id = streamId
        /\ HasChunk(queue') => chunkQueued'
        /\ failure = "none" /\ chunkQueued' => HasChunk(queue')
        /\ HasChunk(queue') \/ inFlight'.text = text
    BY <1>2, <2>1, QueueStep DEF Kinds
  <2> QED BY <2>2, ActivityIsSomething
<1> QED BY <1>1, <1>2

\* QueueTextChunk keeps the invariant.
LEMMA QueueTextChunkSInv == SInv /\ QueueTextChunk => SInv'
<1> SUFFICES ASSUME SInv, QueueTextChunk PROVE SInv'  OBVIOUS
<1>1. /\ ~ended /\ message < MaxChunks /\ message' = message + 1
      /\ UNCHANGED <<ended, flagVars, streamId, caller, result, histVars, updates, resets>>
  BY DEF QueueTextChunk
<1>2. message + 1 \in Nat /\ message + 1 \in 0..MaxChunks /\ ended \in BOOLEAN
  BY <1>1, StreamAssumption DEF SInv, TypeOK
<1>3. CASE streaming
  <2>1. QueueNextChunk(message + 1, ended)
    BY <1>3 DEF QueueTextChunk
  <2>2. /\ queue' \in Seq(Kinds) /\ OneChunk(queue') /\ delaying' \in BOOLEAN
        /\ chunkQueued' \in BOOLEAN /\ nextSequence' \in Nat \ {0}
        /\ inFlight' \in Activities \union {NoActivity}
        /\ inFlight' = NoActivity => queue' = <<>> /\ ~delaying'
        /\ delaying' => delaying /\ inFlight' = inFlight
        /\ inFlight # NoActivity => inFlight' = inFlight /\ delaying' = delaying
        /\ inFlight = NoActivity /\ inFlight' # NoActivity => inFlight'.id = streamId
        /\ HasChunk(queue') => chunkQueued'
        /\ failure = "none" /\ chunkQueued' => HasChunk(queue')
        /\ failure = "none" =>
             HasChunk(queue') \/ (inFlight' # NoActivity /\ inFlight'.text = message + 1)
    BY <1>2, <2>1, NextChunkStep
  <2>3. TypeOK'
    BY <1>1, <1>2, <2>2 DEF SInv, TypeOK, Kinds, flagVars, histVars
  <2>4. Drained'
    BY <1>1, <2>2 DEF SInv, Drained, histVars
  <2>5. FlagTells'
    BY <1>1, <2>2 DEF FlagTells, histVars
  <2>6. PlainAnswer'
    BY <1>1, <1>3 DEF PlainAnswer, flagVars
  <2>7. TextOnItsWay'
    BY <1>1, <2>2 DEF TextOnItsWay, flagVars, histVars
  <2>8. StreamOpen'
    <3>1. StreamOpen /\ (inFlight # NoActivity /\ ~delaying => inFlight.id = streamId)
      BY DEF SInv, StreamOpen
    <3>2. inFlight' # NoActivity /\ ~delaying' => inFlight'.id = streamId
      BY <1>1, <2>2, <3>1
    <3> QED BY <1>1, <3>1, <3>2, OpenFrame DEF histVars
  <2> QED BY <2>3, <2>4, <2>5, <2>6, <2>7, <2>8 DEF SInv
<1>4. CASE ~streaming
  <2>1. UNCHANGED drainVars
    BY <1>4 DEF QueueTextChunk
  <2>3. TypeOK'
    BY <1>1, <1>2, <2>1 DEF SInv, TypeOK, drainVars, flagVars, histVars
  <2>4. Drained'
    BY <1>1, <2>1 DEF SInv, Drained, drainVars, histVars
  <2>5. FlagTells'
    BY <1>1, <2>1 DEF SInv, FlagTells, drainVars, histVars
  <2>6. PlainAnswer'
    BY <1>1, <2>1 DEF SInv, PlainAnswer, drainVars, flagVars
  <2>7. TextOnItsWay'
    BY <1>1, <1>4 DEF TextOnItsWay, flagVars
  <2>8. StreamOpen'
    BY <1>1, <2>1 DEF SInv, StreamOpen, OneStream, drainVars, histVars
  <2> QED BY <2>3, <2>4, <2>5, <2>6, <2>7, <2>8 DEF SInv
<1> QED BY <1>3, <1>4

\* EndStream keeps the invariant.
LEMMA EndStreamSInv == SInv /\ EndStream => SInv'
<1> SUFFICES ASSUME SInv, EndStream PROVE SInv'  OBVIOUS
<1>1. /\ ~ended /\ ended' = TRUE /\ caller' = "ending"
      /\ UNCHANGED <<flagVars, message, streamId, result, histVars, updates, resets>>
  BY DEF EndStream
<1>2. message \in Nat /\ nextSequence \in Nat \ {0} /\ streamId \in Nat
  BY StreamAssumption DEF SInv, TypeOK
<1>3. CASE streaming
  <2>1. QueueNextChunk(message, TRUE)
    BY <1>3 DEF EndStream
  <2>2. /\ queue' \in Seq(Kinds) /\ OneChunk(queue') /\ delaying' \in BOOLEAN
        /\ chunkQueued' \in BOOLEAN /\ nextSequence' \in Nat \ {0}
        /\ inFlight' \in Activities \union {NoActivity}
        /\ inFlight' = NoActivity => queue' = <<>> /\ ~delaying'
        /\ delaying' => delaying /\ inFlight' = inFlight
        /\ inFlight # NoActivity => inFlight' = inFlight /\ delaying' = delaying
        /\ inFlight = NoActivity /\ inFlight' # NoActivity => inFlight'.id = streamId
        /\ HasChunk(queue') => chunkQueued'
        /\ failure = "none" /\ chunkQueued' => HasChunk(queue')
        /\ failure = "none" =>
             HasChunk(queue') \/ (inFlight' # NoActivity /\ inFlight'.text = message)
    BY <1>2, <2>1, NextChunkStep
  <2>3. TypeOK'
    BY <1>1, <2>2 DEF SInv, TypeOK, Kinds, flagVars, histVars
  <2>4. Drained'
    BY <1>1, <2>2 DEF SInv, Drained, histVars
  <2>5. FlagTells'
    BY <1>1, <2>2 DEF FlagTells, histVars
  <2>6. PlainAnswer'
    BY <1>1, <1>3 DEF PlainAnswer, flagVars
  <2>7. TextOnItsWay'
    BY <1>1, <2>2 DEF TextOnItsWay, flagVars, histVars
  <2>8. StreamOpen'
    <3>1. StreamOpen /\ (inFlight # NoActivity /\ ~delaying => inFlight.id = streamId)
      BY DEF SInv, StreamOpen
    <3>2. inFlight' # NoActivity /\ ~delaying' => inFlight'.id = streamId
      BY <1>1, <2>2, <3>1
    <3> QED BY <1>1, <3>1, <3>2, OpenFrame DEF histVars
  <2> QED BY <2>3, <2>4, <2>5, <2>6, <2>7, <2>8 DEF SInv
<1>4. CASE ~streaming
  <2>0. inFlight = NoActivity /\ queue = <<>> /\ ~delaying
    BY <1>1, <1>4 DEF SInv, PlainAnswer, Drained
  <2>1. /\ inFlight' = FinalMessage /\ nextSequence' = nextSequence + 1
        /\ UNCHANGED <<queue, delaying, chunkQueued>>
    BY <1>4 DEF EndStream
  <2>2. /\ inFlight' \in Activities /\ Final(inFlight') /\ inFlight'.id = streamId
    BY <1>2, <2>1 DEF FinalMessage, Activities, Final
  <2>3. TypeOK'
    BY <1>1, <1>2, <2>1, <2>2 DEF SInv, TypeOK, flagVars, histVars
  <2>4. Drained'
    BY <1>1, <2>0, <2>1, <2>2, ActivityIsSomething DEF Drained, histVars
  <2>5. FlagTells'
    BY <1>1, <2>1 DEF SInv, FlagTells, histVars
  <2>6. PlainAnswer'
    BY <1>1, <2>0, <2>1, <2>2 DEF PlainAnswer, flagVars
  <2>7. TextOnItsWay'
    BY <1>1, <1>4 DEF TextOnItsWay, flagVars
  <2>8. StreamOpen'
    BY <1>1, <2>1, <2>2 DEF SInv, StreamOpen, OneStream, histVars
  <2> QED BY <2>3, <2>4, <2>5, <2>6, <2>7, <2>8 DEF SInv
<1> QED BY <1>3, <1>4

\* The steps that leave the queue, the loop and the history as they are.
LEMMA QuietSInv ==
  ASSUME SInv, TypeOK', UNCHANGED <<drainVars, ended, flagVars, message, streamId, histVars>>
  PROVE  SInv'
<1> USE DEF drainVars, flagVars, histVars
<1>1. Drained'  BY DEF SInv, Drained
<1>2. FlagTells'  BY DEF SInv, FlagTells
<1>3. PlainAnswer'  BY DEF SInv, PlainAnswer
<1>4. TextOnItsWay'  BY DEF SInv, TextOnItsWay
<1>5. StreamOpen'  BY DEF SInv, StreamOpen, OneStream
<1> QED BY <1>1, <1>2, <1>3, <1>4, <1>5 DEF SInv

\* Calls that end, or that begin anew, keep the invariant.
LEMMA CallsSInv ==
  SInv /\ (EndCanceled \/ EndReturns \/ Reset \/ UNCHANGED vars) => SInv'
<1> SUFFICES ASSUME SInv, EndCanceled \/ EndReturns \/ Reset \/ UNCHANGED vars PROVE SInv'
  OBVIOUS
<1>0. TypeOK  BY DEF SInv
<1> USE DEF drainVars, flagVars, histVars
<1>1. CASE EndCanceled
  <2>1. TypeOK'  BY <1>0, <1>1 DEF EndCanceled, TypeOK
  <2> QED BY <1>1, <2>1, QuietSInv DEF EndCanceled
<1>2. CASE EndReturns
  <2>1. TypeOK'  BY <1>0, <1>2 DEF EndReturns, TypeOK
  <2> QED BY <1>2, <2>1, QuietSInv DEF EndReturns
<1>3. CASE Reset
  <2>1. TypeOK'  BY <1>0, <1>3, StreamAssumption DEF Reset, TypeOK
  <2> QED BY <1>3, <2>1, QuietSInv DEF Reset
<1>4. CASE UNCHANGED vars
  <2>1. TypeOK'  BY <1>0, <1>4 DEF vars, TypeOK
  <2> QED BY <1>4, <2>1, QuietSInv DEF vars
<1> QED BY <1>1, <1>2, <1>3, <1>4

\* ResetResumes keeps the invariant.
LEMMA ResetResumesSInv == SInv /\ ResetResumes => SInv'
<1> SUFFICES ASSUME SInv, ResetResumes PROVE SInv'  OBVIOUS
<1>1. /\ inFlight' = NoActivity /\ ~delaying' /\ queue' = <<>> /\ chunkQueued' = FALSE
      /\ message' = 0 /\ streamId' = 0 /\ sent' = <<>> /\ named' = {}
  BY DEF ResetResumes, SInv, Drained
<1>2. TypeOK'
  <2>1. queue' \in Seq(Kinds) /\ sent' \in Seq(Activities)
    BY <1>1 DEF Kinds
  <2>2. 0 \in 0..MaxChunks /\ 0 \in 0..MaxUpdates /\ 1 \in Nat \ {0}
    BY StreamAssumption
  <2> QED BY <2>1, <2>2 DEF ResetResumes, SInv, TypeOK, Kinds
<1>3. Drained'  BY <1>1, <1>2 DEF Drained, ResetResumes
<1>4. FlagTells'  BY <1>1 DEF FlagTells, OneChunk, HasChunk
<1>5. PlainAnswer'  BY <1>1 DEF PlainAnswer
<1>6. TextOnItsWay'  BY <1>1 DEF TextOnItsWay
<1>7. StreamOpen'
  <2>1. OneStream'  BY <1>1 DEF OneStream
  <2> QED BY <1>1, <2>1 DEF StreamOpen, IsFirst
<1> QED BY <1>2, <1>3, <1>4, <1>5, <1>6, <1>7 DEF SInv

\* SendAccepted keeps the invariant.
LEMMA SendAcceptedSInv ==
  ASSUME SInv, NEW hasId \in BOOLEAN, SendAccepted(hasId) PROVE SInv'
<1>1. /\ inFlight # NoActivity /\ ~delaying /\ sent' = Append(sent, inFlight)
      /\ streamId' = IF streamId = 0 /\ hasId THEN Len(sent) + 1 ELSE streamId
      /\ named' = named \union {n \in {Len(sent) + 1} : hasId}
      /\ delaying' = TRUE
      /\ UNCHANGED <<queue, inFlight, chunkQueued, nextSequence, ended, flagVars, message,
                     caller, result, failure, updates, resets>>
  BY DEF SendAccepted
<1>2. inFlight \in Activities /\ sent \in Seq(Activities)
  BY <1>1 DEF SInv, TypeOK
<1>3. /\ sent' \in Seq(Activities) /\ Len(sent') = Len(sent) + 1 /\ Len(sent) \in Nat
      /\ sent'[Len(sent) + 1] = inFlight /\ sent' # <<>>
      /\ \A i \in 1..Len(sent) : sent'[i] = sent[i]
      /\ DOMAIN sent = 1..Len(sent) /\ DOMAIN sent' = 1..(Len(sent) + 1)
  BY <1>1, <1>2
<1>4. TypeOK'
  <2>0. streamId \in Nat /\ named \subseteq Nat
    BY DEF SInv, TypeOK
  <2>1. streamId' \in Nat /\ named' \subseteq Nat
    <3>1. Len(sent) + 1 \in Nat  BY <1>3
    <3>2. streamId' \in {streamId, Len(sent) + 1}  BY <1>1
    <3>3. named' \subseteq named \union {Len(sent) + 1}  BY <1>1
    <3> QED BY <2>0, <3>1, <3>2, <3>3
  <2>2. /\ sent' \in Seq(Activities) /\ delaying' \in BOOLEAN
        /\ UNCHANGED <<queue, inFlight, chunkQueued, nextSequence, ended, flagVars, message,
                       caller, result, failure, updates, resets>>
    BY <1>1, <1>3
  <2>3. TypeOK  BY DEF SInv
  <2> QED BY <2>1, <2>2, <2>3 DEF TypeOK, flagVars
<1>5. Drained'
  BY <1>1, <1>3 DEF Drained
<1>6. FlagTells'
  BY <1>1 DEF SInv, FlagTells
<1>7. PlainAnswer'
  BY <1>1 DEF SInv, PlainAnswer, flagVars
<1>8. TextOnItsWay'
  <2>1. \A i \in DOMAIN sent : i \in DOMAIN sent' /\ sent'[i] = sent[i]
    BY <1>3
  <2> QED BY <1>1, <2>1 DEF SInv, TextOnItsWay, flagVars
<1>9. StreamOpen'
  <2>1. /\ inFlight.id = streamId /\ OneStream
        /\ named \subseteq DOMAIN sent /\ IsFirst(streamId, named)
    BY <1>1 DEF SInv, StreamOpen
  <2>2. named' \subseteq DOMAIN sent'
    BY <1>1, <1>3, <2>1
  <2>3. IsFirst(streamId', named')
    <3>1. CASE named = {}
      <4>1. streamId = 0  BY <2>1, <3>1 DEF IsFirst
      <4> QED BY <1>1, <1>3, <3>1, <4>1 DEF IsFirst
    <3>2. CASE named # {}
      <4>1. streamId \in named /\ streamId # 0 /\ \A m \in named : streamId <= m
        BY <1>3, <2>1, <3>2 DEF IsFirst
      <4>2. streamId <= Len(sent) + 1
        BY <1>3, <2>1, <4>1
      <4> QED BY <1>1, <4>1, <4>2 DEF IsFirst
    <3> QED BY <3>1, <3>2
  <2>4. OneStream'
    <3> SUFFICES ASSUME NEW i \in DOMAIN sent'
                 PROVE  IsFirst(sent'[i].id, {j \in named' : j < i})
      BY DEF OneStream
    <3>1. CASE i \in DOMAIN sent
      <4>1. {j \in named' : j < i} = {j \in named : j < i}
        BY <1>1, <1>3, <3>1
      <4> QED BY <1>3, <2>1, <3>1, <4>1 DEF OneStream
    <3>2. CASE i = Len(sent) + 1
      <4>1. {j \in named' : j < i} = named
        BY <1>1, <1>3, <2>1, <3>2
      <4> QED BY <1>3, <2>1, <3>2, <4>1
    <3> QED BY <1>3, <3>1, <3>2
  <2> QED BY <1>1, <2>2, <2>3, <2>4 DEF StreamOpen
<1> QED BY <1>4, <1>5, <1>6, <1>7, <1>8, <1>9 DEF SInv

\* DelayOver keeps the invariant.
LEMMA DelayOverSInv == SInv /\ DelayOver => SInv'
<1> SUFFICES ASSUME SInv, DelayOver PROVE SInv'  OBVIOUS
<1>1. /\ inFlight # NoActivity /\ delaying
      /\ Take(queue, chunkQueued, message, ended)
      /\ UNCHANGED <<ended, flagVars, message, streamId, caller, result, histVars, updates, resets>>
  BY DEF DelayOver
<1>2. /\ queue \in Seq(Kinds) /\ OneChunk(queue) /\ chunkQueued \in BOOLEAN
      /\ message \in Nat /\ ended \in BOOLEAN /\ TypeOK
      /\ (HasChunk(queue) => chunkQueued)
      /\ (failure = "none" /\ chunkQueued => HasChunk(queue))
  BY StreamAssumption DEF SInv, TypeOK, FlagTells, Kinds
<1>3. /\ queue' \in Seq(Kinds) /\ OneChunk(queue') /\ ~delaying' /\ delaying' \in BOOLEAN
      /\ chunkQueued' \in BOOLEAN /\ nextSequence' \in Nat \ {0}
      /\ inFlight' \in Activities \union {NoActivity}
      /\ queue = <<>> => inFlight' = NoActivity /\ queue' = <<>> /\ chunkQueued' = chunkQueued
      /\ queue # <<>> => inFlight' \in Activities /\ inFlight'.id = streamId
      /\ HasChunk(queue) =>
           HasChunk(queue') \/ (inFlight' \in Activities /\ inFlight'.text = message)
      /\ HasChunk(queue') => HasChunk(queue) /\ chunkQueued' = chunkQueued
      /\ chunkQueued' /\ HasChunk(queue) => HasChunk(queue')
      /\ chunkQueued' => chunkQueued
  BY <1>1, <1>2, TakeStep
<1>4. TypeOK'
  BY <1>1, <1>3 DEF SInv, TypeOK, Kinds, flagVars, histVars
<1>5. Drained'
  BY <1>3, ActivityIsSomething DEF Drained
<1>6. FlagTells'
  BY <1>1, <1>2, <1>3 DEF FlagTells, histVars
<1>7. PlainAnswer'
  BY <1>1, <1>3 DEF SInv, PlainAnswer, flagVars
<1>8. TextOnItsWay'
  <2>1. \E i \in DOMAIN sent : sent[i] = inFlight
    <3>1. sent # <<>> /\ sent[Len(sent)] = inFlight /\ sent \in Seq(Activities)
      BY <1>1 DEF SInv, Drained, TypeOK
    <3>2. Len(sent) \in DOMAIN sent  BY <3>1
    <3> QED BY <3>1, <3>2
  <2> QED BY <1>1, <1>3, <2>1, ActivityIsSomething DEF SInv, TextOnItsWay, flagVars, histVars
<1>9. StreamOpen'
  <2>1. StreamOpen /\ (inFlight # NoActivity /\ ~delaying => inFlight.id = streamId)
    BY DEF SInv, StreamOpen
  <2>2. inFlight' # NoActivity /\ ~delaying' => inFlight'.id = streamId
    BY <1>1, <1>3, <2>1
  <2> QED BY <1>1, <2>1, <2>2, OpenFrame DEF histVars
<1> QED BY <1>4, <1>5, <1>6, <1>7, <1>8, <1>9 DEF SInv

\* A send that fails keeps the invariant.
LEMMA SendFailsSInv ==
  ASSUME SInv, NEW how \in {"user", "error", "fallback"}, SendFails(how)
  PROVE  SInv'
<1>1. /\ ~delaying /\ queue' = <<>> /\ inFlight' = NoActivity /\ failure' = how
      /\ UNCHANGED <<delaying, chunkQueued, nextSequence, ended, message, streamId, caller,
                     result, sent, named, updates, resets>>
  BY DEF SendFails
<1>2. TypeOK'
  <2>1. queue' \in Seq(Kinds)  BY <1>1 DEF Kinds
  <2>2. canceled' \in BOOLEAN /\ userCanceled' \in BOOLEAN /\ streaming' \in BOOLEAN
    BY DEF SendFails
  <2> QED BY <1>1, <2>1, <2>2 DEF SInv, TypeOK, Kinds
<1>3. Drained'  BY <1>1 DEF Drained
<1>4. FlagTells'
  <2>1. ~HasChunk(queue') /\ OneChunk(queue')  BY <1>1 DEF HasChunk, OneChunk
  <2> QED BY <1>1, <2>1 DEF FlagTells
<1>5. PlainAnswer'  BY <1>1 DEF PlainAnswer
<1>6. TextOnItsWay'  BY <1>1 DEF TextOnItsWay
<1>7. StreamOpen'  BY <1>1 DEF SInv, StreamOpen, OneStream
<1> QED BY <1>2, <1>3, <1>4, <1>5, <1>6, <1>7 DEF SInv

\* Every step keeps the invariant.
LEMMA NextSInv == SInv /\ [Next]_vars => SInv'
BY QueueInformativeUpdateSInv, QueueTextChunkSInv, EndStreamSInv, CallsSInv, ResetResumesSInv,
   SendAcceptedSInv, DelayOverSInv, SendFailsSInv DEF Next

-----------------------------------------------------------------------------

(* The invariant of the streamed answer holds in every reachable state.    *)
THEOREM StreamInvariant == Spec => []SInv
<1> QED BY InitSInv, NextSInv, PTL DEF Spec

(* Every variable of the stream keeps its type, however many chunks,       *)
(* updates and resets there are.                                           *)
THEOREM StreamTypeOK == Spec => []TypeOK
<1>1. SInv => TypeOK  BY DEF SInv
<1> QED BY <1>1, StreamInvariant, PTL

(* When the loop rests on a streaming channel and no send has failed, the  *)
(* channel has the text appended last: the coalescing flag loses nothing.  *)
THEOREM NoTextIsStuck == Spec => []NothingUnsent
<1>1. SInv => NothingUnsent
  <2>1. ~HasChunk(<<>>)  BY DEF HasChunk
  <2> QED BY <2>1 DEF SInv, Drained, TextOnItsWay, NothingUnsent
<1> QED BY <1>1, StreamInvariant, PTL

(* At most one chunk waits, whatever the producer's pace.                  *)
THEOREM ChunksAreCoalesced == Spec => []ChunksCoalesce
<1>1. SInv => ChunksCoalesce  BY DEF SInv, FlagTells, OneChunk, ChunksCoalesce
<1> QED BY <1>1, StreamInvariant, PTL

(* The first activity that the channel names opens the stream, and all     *)
(* that are made after it carry its id, also across resets; until then     *)
(* they carry none.                                                        *)
THEOREM AnswersAreOneStream == Spec => []OneStream
<1>1. SInv => OneStream  BY DEF SInv, StreamOpen
<1> QED BY <1>1, StreamInvariant, PTL

-----------------------------------------------------------------------------
(* Sequence numbers and the final message.                                 *)

\* Numbers and texts of what the channel has, of what is being sent and of what
\* is to come.
Ordered ==
  /\ \A i \in DOMAIN sent :
       (~Final(sent[i]) => sent[i].seq < nextSequence) /\ sent[i].text <= message
  /\ inFlight # NoActivity =>
       (~Final(inFlight) => inFlight.seq < nextSequence) /\ inFlight.text <= message
  /\ inFlight # NoActivity /\ ~delaying =>
       \A i \in DOMAIN sent : ~Final(sent[i]) =>
         /\ sent[i].seq < inFlight.seq
         /\ inFlight.kind # "informative" => sent[i].text <= inFlight.text
  /\ InOrder

\* The last chunk becomes the final message: it waits, is being sent or is there.
Finals ==
  /\ Final(inFlight) \/ (\E i \in DOMAIN sent : Final(sent[i])) => ended /\ ~HasChunk(queue)
  /\ inFlight \in Activities /\ inFlight.kind # "informative" /\ ~delaying =>
       \A i \in DOMAIN sent : ~Final(sent[i])
  /\ ended /\ failure = "none" =>
       \/ HasChunk(queue)
       \/ Final(inFlight) /\ inFlight.text = message
       \/ \E i \in DOMAIN sent : Final(sent[i]) /\ sent[i].text = message
  /\ caller = "ending" \/ result = "Success" => ended
  /\ FinalOnce

\* What a step does with the loop.
LoopKeeps == inFlight' = inFlight /\ delaying' = delaying /\ nextSequence' = nextSequence
LoopRests == inFlight' = NoActivity /\ ~delaying' /\ nextSequence' = nextSequence
LoopSends(text, over) ==
  /\ inFlight' \in Activities /\ ~delaying' /\ nextSequence' = nextSequence + 1
  /\ Final(inFlight') => inFlight'.seq = nextSequence + 1
  /\ ~Final(inFlight') => inFlight'.seq = nextSequence
  /\ inFlight'.kind = "informative" => inFlight'.text = 0
  /\ inFlight'.kind # "informative" => inFlight'.text = text /\ (Final(inFlight') <=> over)

\* The loop rests on an empty queue, and sends of another.
LEMMA TakeKind ==
  ASSUME TypeOK, NEW q \in Seq(Kinds), OneChunk(q), NEW flag \in BOOLEAN,
         NEW text \in Nat, NEW over \in BOOLEAN, Take(q, flag, text, over)
  PROVE  /\ q = <<>> => LoopRests /\ queue' = <<>>
         /\ q # <<>> =>
              /\ LoopSends(text, over)
              /\ inFlight'.kind = "informative" => (HasChunk(queue') <=> HasChunk(q))
              /\ inFlight'.kind # "informative" => HasChunk(q) /\ ~HasChunk(queue')
<1>1. CASE q = <<>>
  BY <1>1 DEF Take, LoopRests
<1>2. CASE q # <<>>
  <2>1. /\ queue' = Tail(q) /\ inFlight' = Make(Head(q), text, over) /\ delaying' = FALSE
        /\ nextSequence' = nextSequence + 1
    BY <1>2 DEF Take
  <2>2. /\ Head(q) \in Kinds
        /\ Head(q) = "chunk" => ~HasChunk(Tail(q))
        /\ Head(q) = "informative" => (HasChunk(Tail(q)) <=> HasChunk(q))
        /\ Head(q) = "chunk" => HasChunk(q)
    BY <1>2, TailOfQueue
  <2>3. nextSequence \in Nat \ {0} /\ streamId \in Nat /\ message \in Nat
    BY StreamAssumption DEF TypeOK
  <2>4. CASE Head(q) = "chunk" /\ over
    <3>1. inFlight' = [kind |-> "final", seq |-> nextSequence + 1, text |-> text, id |-> streamId]
      BY <2>1, <2>4 DEF Make, FinalMessage
    <3>2. /\ inFlight' \in Activities /\ Final(inFlight') /\ inFlight'.kind = "final"
          /\ inFlight'.seq = nextSequence + 1 /\ inFlight'.text = text
      BY <2>3, <3>1 DEF Activities, Final
    <3>3. LoopSends(text, over)
      BY <2>1, <2>4, <3>2 DEF LoopSends
    <3>4. HasChunk(q) /\ ~HasChunk(queue')
      BY <2>1, <2>2, <2>4
    <3> QED BY <1>2, <3>2, <3>3, <3>4
  <2>5. CASE Head(q) = "chunk" /\ ~over
    <3>1. inFlight' = [kind |-> "chunk", seq |-> nextSequence, text |-> text, id |-> streamId]
      BY <2>1, <2>5 DEF Make
    <3>2. LoopSends(text, over)
      BY <2>1, <2>3, <2>5, <3>1 DEF LoopSends, Activities, Final
    <3> QED BY <1>2, <2>1, <2>2, <2>5, <3>1, <3>2
  <2>6. CASE Head(q) = "informative"
    <3>1. inFlight' = [kind |-> "informative", seq |-> nextSequence, text |-> 0, id |-> streamId]
      BY <2>1, <2>6 DEF Make
    <3>2. LoopSends(text, over)
      BY <2>1, <2>3, <3>1 DEF LoopSends, Activities, Final
    <3> QED BY <1>2, <2>1, <2>2, <2>6, <3>1, <3>2
  <2> QED BY <2>2, <2>4, <2>5, <2>6 DEF Kinds
<1> QED BY <1>1, <1>2

\* Adding a factory starts the loop when nothing is sent.
LEMMA QueueKind ==
  ASSUME SInv, NEW kind \in Kinds, NEW flag \in BOOLEAN, NEW text \in Nat, NEW over \in BOOLEAN,
         kind = "chunk" => ~chunkQueued, QueueActivity(kind, flag, text, over)
  PROVE  \/ LoopKeeps /\ inFlight # NoActivity /\ (kind = "chunk" => HasChunk(queue'))
         \/ /\ LoopSends(text, over) /\ inFlight = NoActivity
            /\ kind = "chunk" => inFlight'.kind # "informative" \/ HasChunk(queue')
            /\ inFlight'.kind # "informative" => ~HasChunk(queue')
<1> DEFINE q == Append(queue, kind)
<1>0. /\ queue \in Seq(Kinds) /\ OneChunk(queue) /\ (HasChunk(queue) => chunkQueued) /\ TypeOK
  BY DEF SInv, TypeOK, FlagTells, Kinds
<1>1. /\ q \in Seq(Kinds) /\ q # <<>> /\ OneChunk(q)
      /\ HasChunk(q) <=> (HasChunk(queue) \/ kind = "chunk")
  BY <1>0, AppendToQueue
<1>2. CASE inFlight = NoActivity
  <2>1. Take(q, flag, text, over)
    BY <1>2 DEF QueueActivity
  <2>2. /\ LoopSends(text, over)
        /\ inFlight'.kind = "informative" => (HasChunk(queue') <=> HasChunk(q))
        /\ inFlight'.kind # "informative" => HasChunk(q) /\ ~HasChunk(queue')
    BY <1>0, <1>1, <2>1, TakeKind
  <2> QED BY <1>1, <1>2, <2>2
<1>3. CASE inFlight # NoActivity
  <2>1. queue' = q /\ LoopKeeps
    BY <1>3 DEF QueueActivity, LoopKeeps
  <2> QED BY <1>1, <1>3, <2>1
<1> QED BY <1>2, <1>3

\* Asking for a chunk queues one, or one is queued.
LEMMA NextChunkKind ==
  ASSUME SInv, NEW text \in Nat, NEW over \in BOOLEAN, QueueNextChunk(text, over)
  PROVE  \/ LoopKeeps /\ (failure = "none" => HasChunk(queue'))
         \/ /\ LoopSends(text, over) /\ inFlight = NoActivity
            /\ inFlight'.kind # "informative" \/ HasChunk(queue')
            /\ inFlight'.kind # "informative" => ~HasChunk(queue')
<1>1. CASE chunkQueued
  <2>1. UNCHANGED drainVars
    BY <1>1 DEF QueueNextChunk
  <2> QED BY <1>1, <2>1 DEF SInv, FlagTells, LoopKeeps, drainVars, HasChunk
<1>2. CASE ~chunkQueued
  <2>1. QueueActivity("chunk", TRUE, text, over)
    BY <1>2 DEF QueueNextChunk
  <2> QED BY <1>2, <2>1, QueueKind DEF Kinds
<1> QED BY <1>1, <1>2

\* A step that sends nothing to the channel keeps the order.
LEMMA OrderedStep ==
  ASSUME SInv, Ordered, UNCHANGED sent, message' \in Nat, message <= message',
         NEW over \in BOOLEAN,
         LoopKeeps \/ LoopRests \/ LoopSends(message', over)
  PROVE  Ordered'
<1>0. /\ sent \in Seq(Activities) /\ message \in Nat /\ nextSequence \in Nat
      /\ inFlight \in Activities \union {NoActivity}
  BY StreamAssumption DEF SInv, TypeOK
<1>1. \A i \in DOMAIN sent : sent[i].text \in Nat /\ sent[i].seq \in Nat
  <2>1. \A i \in DOMAIN sent : sent[i] \in Activities  BY <1>0
  <2> QED BY <2>1 DEF Activities
<1>2. InOrder'
  BY DEF Ordered, InOrder
<1>3. CASE LoopKeeps
  <2>1. inFlight # NoActivity => inFlight.text \in Nat
    BY <1>0 DEF Activities
  <2> QED BY <1>0, <1>1, <1>2, <1>3, <2>1 DEF LoopKeeps, Ordered
<1>4. CASE LoopRests
  BY <1>0, <1>1, <1>2, <1>4 DEF LoopRests, Ordered
<1>5. CASE LoopSends(message', over)
  <2>1. inFlight'.text <= message' /\ (~Final(inFlight') => inFlight'.seq < nextSequence')
    BY <1>0, <1>5 DEF LoopSends
  <2>2. \A i \in DOMAIN sent : ~Final(sent[i]) =>
          /\ sent[i].seq < inFlight'.seq
          /\ inFlight'.kind # "informative" => sent[i].text <= inFlight'.text
    BY <1>0, <1>1, <1>5 DEF LoopSends, Ordered
  <2>3. \A i \in DOMAIN sent :
          (~Final(sent[i]) => sent[i].seq < nextSequence') /\ sent[i].text <= message'
    BY <1>0, <1>1, <1>5 DEF LoopSends, Ordered
  <2> QED BY <1>2, <2>1, <2>2, <2>3 DEF Ordered
<1> QED BY <1>3, <1>4, <1>5

\* A step that sends nothing leaves what was sent in order.
LEMMA OrderedQuiet ==
  ASSUME SInv, Ordered, UNCHANGED <<sent, message>>, LoopKeeps \/ LoopRests
  PROVE  Ordered'
<1>1. message' \in Nat /\ message <= message' /\ UNCHANGED sent
  BY StreamAssumption DEF SInv, TypeOK
<1>2. TRUE \in BOOLEAN  OBVIOUS
<1> QED BY <1>1, <1>2, OrderedStep

FInv == SInv /\ Ordered /\ Finals

\* The absence of an activity is none of them.
LEMMA NothingInFlight == ~Final(NoActivity) /\ NoActivity \notin Activities /\ ~HasChunk(<<>>)
BY ActivityIsSomething DEF Final, NoActivity, HasChunk

\* The initial states satisfy the invariant.
LEMMA InitFInv == Init => FInv
<1> SUFFICES ASSUME Init PROVE FInv  OBVIOUS
<1>1. sent = <<>> /\ inFlight = NoActivity /\ ~ended /\ caller = "free" /\ result = "none"
  BY DEF Init, Fresh
<1>2. Ordered  BY <1>1 DEF Ordered, InOrder
<1>3. Finals  BY <1>1, NothingInFlight DEF Finals, FinalOnce
<1> QED BY <1>2, <1>3, InitSInv DEF FInv

\* Before endStream there is no final message.
LEMMA UpdateFinals ==
  ASSUME Finals, ~ended, ~ended', UNCHANGED <<sent, result, caller>>, NEW text,
         NEW over \in BOOLEAN, ~over, LoopKeeps \/ LoopSends(text, over)
  PROVE  Finals'
<1>1. ~Final(inFlight) /\ ~(\E i \in DOMAIN sent : Final(sent[i]))
  BY DEF Finals
<1>2. ~Final(inFlight')
  <2>1. CASE LoopKeeps  BY <1>1, <2>1 DEF LoopKeeps
  <2>2. CASE LoopSends(text, over)  BY <2>2 DEF LoopSends, Final
  <2> QED BY <2>1, <2>2
<1>3. caller # "ending" /\ result # "Success"
  BY DEF Finals
<1> QED BY <1>1, <1>2, <1>3 DEF Finals, FinalOnce

\* QueueInformativeUpdate keeps the order of what is sent.
LEMMA QueueInformativeUpdateFInv == FInv /\ QueueInformativeUpdate => Ordered' /\ Finals'
<1> SUFFICES ASSUME FInv, QueueInformativeUpdate PROVE Ordered' /\ Finals'  OBVIOUS
<1>1. /\ QueueActivity("informative", chunkQueued, message, ended) /\ ~ended
      /\ UNCHANGED <<ended, message, caller, result, sent>>
  BY DEF QueueInformativeUpdate, histVars
<1>2. chunkQueued \in BOOLEAN /\ message \in Nat /\ ended \in BOOLEAN /\ SInv
  BY StreamAssumption DEF FInv, SInv, TypeOK
<1>3. LoopKeeps \/ LoopSends(message, ended)
  BY <1>1, <1>2, QueueKind DEF Kinds
<1>4. Ordered'
  BY <1>1, <1>2, <1>3, OrderedStep DEF FInv
<1>5. Finals'
  BY <1>1, <1>2, <1>3, UpdateFinals DEF FInv
<1> QED BY <1>4, <1>5

\* QueueTextChunk keeps the order of what is sent.
LEMMA QueueTextChunkFInv == FInv /\ QueueTextChunk => Ordered' /\ Finals'
<1> SUFFICES ASSUME FInv, QueueTextChunk PROVE Ordered' /\ Finals'  OBVIOUS
<1>1. ~ended /\ message' = message + 1 /\ UNCHANGED <<ended, caller, result, sent>>
  BY DEF QueueTextChunk, histVars
<1>2. message \in Nat /\ message + 1 \in Nat /\ message <= message + 1 /\ ended \in BOOLEAN /\ SInv
  BY StreamAssumption DEF FInv, SInv, TypeOK
<1>3. LoopKeeps \/ LoopSends(message', ended)
  <2>1. CASE streaming
    <3>1. QueueNextChunk(message + 1, ended)  BY <2>1 DEF QueueTextChunk
    <3> QED BY <1>1, <1>2, <3>1, NextChunkKind
  <2>2. CASE ~streaming
    BY <2>2 DEF QueueTextChunk, LoopKeeps, drainVars
  <2> QED BY <2>1, <2>2
<1>4. Ordered'
  BY <1>1, <1>2, <1>3, OrderedStep DEF FInv
<1>5. Finals'
  BY <1>1, <1>2, <1>3, UpdateFinals DEF FInv
<1> QED BY <1>4, <1>5

\* EndStream keeps the order of what is sent.
LEMMA EndStreamFInv == FInv /\ EndStream => Ordered' /\ Finals'
<1> SUFFICES ASSUME FInv, EndStream PROVE Ordered' /\ Finals'  OBVIOUS
<1>1. /\ ~ended /\ ended' = TRUE /\ UNCHANGED <<message, result, sent, failure, streamId>>
  BY DEF EndStream, histVars
<1>2. /\ message \in Nat /\ SInv /\ Finals /\ Ordered
      /\ nextSequence \in Nat \ {0} /\ streamId \in Nat
  BY StreamAssumption DEF FInv, SInv, TypeOK
<1>3. ~Final(inFlight) /\ ~(\E i \in DOMAIN sent : Final(sent[i])) /\ result # "Success"
  BY <1>1, <1>2 DEF Finals
<1>4. \/ LoopKeeps /\ (failure = "none" => HasChunk(queue'))
      \/ /\ LoopSends(message, TRUE)
         /\ inFlight'.kind # "informative" \/ HasChunk(queue')
         /\ inFlight'.kind # "informative" => ~HasChunk(queue')
  <2>1. CASE streaming
    <3>1. QueueNextChunk(message, TRUE)  BY <2>1 DEF EndStream
    <3> QED BY <1>2, <3>1, NextChunkKind
  <2>2. CASE ~streaming
    <3>1. inFlight' = FinalMessage /\ nextSequence' = nextSequence + 1 /\ UNCHANGED <<queue, delaying>>
      BY <2>2 DEF EndStream
    <3>2. queue = <<>> /\ ~delaying
      BY <1>1, <1>2, <2>2 DEF SInv, PlainAnswer, Drained
    <3>3. /\ inFlight' \in Activities /\ inFlight'.kind = "final" /\ Final(inFlight')
          /\ inFlight'.seq = nextSequence + 1 /\ inFlight'.text = message
      BY <1>2, <3>1 DEF FinalMessage, Activities, Final
    <3>4. LoopSends(message, TRUE)
      BY <3>1, <3>2, <3>3 DEF LoopSends
    <3> QED BY <3>1, <3>2, <3>3, <3>4, NothingInFlight
  <2> QED BY <2>1, <2>2
<1>5. Ordered'
  <2>1. LoopKeeps \/ LoopSends(message', TRUE)  BY <1>1, <1>4
  <2>2. message' \in Nat /\ message <= message'  BY <1>1, <1>2
  <2> QED BY <1>1, <1>2, <2>1, <2>2, OrderedStep
<1>6. Finals'
  <2>1. Final(inFlight') => ~HasChunk(queue')
    BY <1>3, <1>4 DEF LoopKeeps, Final
  <2>2. failure = "none" => HasChunk(queue') \/ (Final(inFlight') /\ inFlight'.text = message)
    BY <1>4 DEF LoopSends
  <2> QED BY <1>1, <1>3, <2>1, <2>2 DEF Finals, FinalOnce
<1> QED BY <1>5, <1>6

\* Calls that end, or that begin anew, keep the order.
LEMMA CallsFInv ==
  FInv /\ (EndCanceled \/ EndReturns \/ Reset \/ UNCHANGED vars) => Ordered' /\ Finals'
<1> SUFFICES ASSUME FInv, EndCanceled \/ EndReturns \/ Reset \/ UNCHANGED vars
             PROVE  Ordered' /\ Finals'
  OBVIOUS
<1>1. UNCHANGED <<queue, inFlight, delaying, nextSequence, ended, message, sent, failure>>
  BY DEF EndCanceled, EndReturns, Reset, vars, drainVars, histVars
<1>2. SInv /\ Ordered /\ Finals /\ message \in Nat
  BY StreamAssumption DEF FInv, SInv, TypeOK
<1>3. Ordered'
  <2>1. LoopKeeps  BY <1>1 DEF LoopKeeps
  <2> QED BY <1>1, <1>2, <2>1, OrderedQuiet
<1>4. Finals'
  <2>1. CASE EndReturns
    <3>1. caller = "ending" /\ inFlight = NoActivity /\ caller' = "free" /\ result' = "Success"
      BY <2>1 DEF EndReturns
    <3>2. ended /\ queue = <<>>
      BY <1>2, <3>1 DEF Finals, SInv, Drained
    <3>3. failure = "none" => \E i \in DOMAIN sent : Final(sent[i]) /\ sent[i].text = message
      BY <1>2, <3>1, <3>2, NothingInFlight DEF Finals
    <3> QED BY <1>1, <1>2, <3>1, <3>2, <3>3 DEF Finals, FinalOnce
  <2>2. CASE EndCanceled
    <3>1. result' # "Success" /\ caller' = caller
      BY <2>2 DEF EndCanceled
    <3> QED BY <1>1, <1>2, <3>1 DEF Finals, FinalOnce
  <2>3. CASE Reset
    <3>1. result' = result /\ caller' = "resetting"
      BY <2>3 DEF Reset
    <3> QED BY <1>1, <1>2, <3>1 DEF Finals, FinalOnce
  <2>4. CASE UNCHANGED vars
    <3>1. result' = result /\ caller' = caller
      BY <2>4 DEF vars
    <3> QED BY <1>1, <1>2, <3>1 DEF Finals, FinalOnce
  <2> QED BY <2>1, <2>2, <2>3, <2>4
<1> QED BY <1>3, <1>4

\* ResetResumes keeps the order of what is sent.
LEMMA ResetResumesFInv == FInv /\ ResetResumes => Ordered' /\ Finals'
<1> SUFFICES ASSUME FInv, ResetResumes PROVE Ordered' /\ Finals'  OBVIOUS
<1>1. /\ inFlight' = NoActivity /\ sent' = <<>> /\ ended' = FALSE
      /\ caller' = "free" /\ result' = "none"
  BY DEF ResetResumes
<1>2. Ordered'  BY <1>1 DEF Ordered, InOrder
<1>3. Finals'  BY <1>1, NothingInFlight DEF Finals, FinalOnce
<1> QED BY <1>2, <1>3

\* A send that fails keeps the order.
LEMMA SendFailsFInv ==
  ASSUME FInv, NEW how \in {"user", "error", "fallback"}, SendFails(how)
  PROVE  Ordered' /\ Finals'
<1>1. /\ ~delaying /\ queue' = <<>> /\ inFlight' = NoActivity /\ failure' = how
      /\ UNCHANGED <<delaying, nextSequence, ended, message, caller, result, sent>>
  BY DEF SendFails
<1>2. SInv /\ Ordered /\ Finals /\ message \in Nat
  BY StreamAssumption DEF FInv, SInv, TypeOK
<1>3. Ordered'
  <2>1. LoopRests  BY <1>1 DEF LoopRests
  <2> QED BY <1>1, <1>2, <2>1, OrderedQuiet
<1>4. Finals'
  <2>1. failure' # "none"  BY <1>1
  <2> QED BY <1>1, <1>2, <2>1, NothingInFlight DEF Finals, FinalOnce
<1> QED BY <1>3, <1>4

\* DelayOver keeps the order of what is sent.
LEMMA DelayOverFInv == FInv /\ DelayOver => Ordered' /\ Finals'
<1> SUFFICES ASSUME FInv, DelayOver PROVE Ordered' /\ Finals'  OBVIOUS
<1>1. /\ delaying /\ Take(queue, chunkQueued, message, ended)
      /\ UNCHANGED <<ended, message, caller, result, sent, failure>>
  BY DEF DelayOver, histVars
<1>2. /\ queue \in Seq(Kinds) /\ OneChunk(queue) /\ chunkQueued \in BOOLEAN
      /\ message \in Nat /\ ended \in BOOLEAN /\ TypeOK /\ SInv /\ Ordered /\ Finals
  BY StreamAssumption DEF FInv, SInv, TypeOK, FlagTells, Kinds
<1>3. \/ LoopRests /\ queue = <<>> /\ queue' = <<>>
      \/ /\ LoopSends(message, ended)
         /\ inFlight'.kind = "informative" => (HasChunk(queue') <=> HasChunk(queue))
         /\ inFlight'.kind # "informative" => HasChunk(queue) /\ ~HasChunk(queue')
  BY <1>1, <1>2, TakeKind
<1>4. Ordered'
  <2>1. LoopRests \/ LoopSends(message', ended)  BY <1>1, <1>3
  <2> QED BY <1>1, <1>2, <2>1, OrderedStep
<1>5. \E i \in DOMAIN sent : sent[i] = inFlight
  <2>1. sent # <<>> /\ sent[Len(sent)] = inFlight /\ sent \in Seq(Activities)
    BY <1>1, <1>2 DEF SInv, Drained, TypeOK
  <2>2. Len(sent) \in DOMAIN sent  BY <2>1
  <2> QED BY <2>1, <2>2
<1>6. ended /\ failure = "none" =>
        \/ HasChunk(queue)
        \/ \E i \in DOMAIN sent : Final(sent[i]) /\ sent[i].text = message
  BY <1>2, <1>5 DEF Finals
<1>7. ASSUME LoopRests, queue = <<>>, queue' = <<>> PROVE Finals'
  BY <1>1, <1>2, <1>6, <1>7, NothingInFlight DEF Finals, FinalOnce, LoopRests
<1>8. ASSUME LoopSends(message, ended),
             inFlight'.kind = "informative" => (HasChunk(queue') <=> HasChunk(queue)),
             inFlight'.kind # "informative" => HasChunk(queue) /\ ~HasChunk(queue')
      PROVE  Finals'
  <2>1. (\E i \in DOMAIN sent : Final(sent[i])) =>
          ended /\ ~HasChunk(queue') /\ inFlight'.kind = "informative"
    BY <1>2, <1>8 DEF Finals
  <2>2. Final(inFlight') => ended /\ ~HasChunk(queue')
    BY <1>8 DEF LoopSends, Final
  <2>3. ended /\ failure = "none" =>
          \/ HasChunk(queue')
          \/ Final(inFlight') /\ inFlight'.text = message
          \/ \E i \in DOMAIN sent : Final(sent[i]) /\ sent[i].text = message
    BY <1>6, <1>8 DEF LoopSends
  <2> QED BY <1>1, <1>2, <2>1, <2>2, <2>3 DEF Finals, FinalOnce
<1> QED BY <1>3, <1>4, <1>7, <1>8

\* SendAccepted keeps the order of what is sent.
LEMMA SendAcceptedFInv ==
  ASSUME FInv, NEW hasId \in BOOLEAN, SendAccepted(hasId) PROVE Ordered' /\ Finals'
<1>1. /\ inFlight # NoActivity /\ ~delaying /\ sent' = Append(sent, inFlight) /\ delaying' = TRUE
      /\ UNCHANGED <<queue, inFlight, nextSequence, ended, message, caller, result, failure>>
  BY DEF SendAccepted
<1>2. /\ SInv /\ Ordered /\ Finals
      /\ inFlight \in Activities /\ sent \in Seq(Activities)
  BY <1>1 DEF FInv, SInv, TypeOK
<1>3. /\ Len(sent) \in Nat /\ sent'[Len(sent) + 1] = inFlight
      /\ \A i \in 1..Len(sent) : sent'[i] = sent[i]
      /\ DOMAIN sent = 1..Len(sent) /\ DOMAIN sent' = 1..(Len(sent) + 1)
  BY <1>1, <1>2
<1>4. \A i \in DOMAIN sent' : (i \in DOMAIN sent /\ sent'[i] = sent[i]) \/ sent'[i] = inFlight
  BY <1>3
<1>5. \A i, j \in DOMAIN sent' : i < j =>
        /\ i \in DOMAIN sent /\ sent'[i] = sent[i]
        /\ (j \in DOMAIN sent /\ sent'[j] = sent[j]) \/ sent'[j] = inFlight
  BY <1>3
<1>6. InOrder'
  BY <1>1, <1>2, <1>5 DEF Ordered, InOrder, Final
<1>7. Ordered'
  BY <1>1, <1>2, <1>4, <1>6 DEF Ordered
<1>8. \A i \in DOMAIN sent : i \in DOMAIN sent' /\ sent'[i] = sent[i]
  BY <1>3
<1>9. FinalOnce'
  <2>1. \A i, j \in DOMAIN sent' : Final(sent'[i]) /\ j > i => sent'[j].kind = "informative"
    <3>1. \A i \in DOMAIN sent : Final(sent[i]) => inFlight.kind = "informative"
      BY <1>1, <1>2 DEF Finals
    <3>2. \A i, j \in DOMAIN sent : Final(sent[i]) /\ j > i => sent[j].kind = "informative"
      BY <1>2 DEF Finals, FinalOnce
    <3>3. \A i, j \in DOMAIN sent' : j > i <=> i < j
      BY <1>3
    <3> QED BY <1>5, <3>1, <3>2, <3>3
  <2> QED BY <1>1, <1>2, <1>8, <2>1 DEF Finals, FinalOnce
<1>10. Finals'
  <2>1. (\E i \in DOMAIN sent' : Final(sent'[i])) =>
          Final(inFlight) \/ \E i \in DOMAIN sent : Final(sent[i])
    BY <1>4
  <2>2. (\E i \in DOMAIN sent : Final(sent[i]) /\ sent[i].text = message) =>
          \E i \in DOMAIN sent' : Final(sent'[i]) /\ sent'[i].text = message
    BY <1>8
  <2> QED BY <1>1, <1>2, <1>9, <2>1, <2>2 DEF Finals
<1> QED BY <1>7, <1>10

\* Every step keeps the invariant.
LEMMA NextFInv == FInv /\ [Next]_vars => FInv'
<1> SUFFICES ASSUME FInv, [Next]_vars PROVE FInv'  OBVIOUS
<1>1. SInv'
  BY NextSInv DEF FInv
<1>2. Ordered' /\ Finals'
  BY QueueInformativeUpdateFInv, QueueTextChunkFInv, EndStreamFInv, CallsFInv, ResetResumesFInv,
     SendAcceptedFInv, DelayOverFInv, SendFailsFInv DEF Next
<1> QED BY <1>1, <1>2 DEF FInv

\* The order holds in every state.
LEMMA FinalInvariant == Spec => []FInv
<1> QED BY InitFInv, NextFInv, PTL DEF Spec

(* Sequence numbers rise up to the final message and no text is taken      *)
(* back, however chunks and updates are queued while the channel is slow.  *)
THEOREM UpdatesAreInOrder == Spec => []InOrder
<1>1. FInv => InOrder  BY DEF FInv, Ordered
<1> QED BY <1>1, FinalInvariant, PTL

(* An answer has at most one final message, no chunk follows it, and when  *)
(* endStream returns and no send has failed the channel has it, with all   *)
(* the text.                                                               *)
THEOREM OneFinalMessage == Spec => []FinalOnce
<1>1. FInv => FinalOnce  BY DEF FInv, Finals
<1> QED BY <1>1, FinalInvariant, PTL

(* The client sees one stream: its activities carry no id but the first    *)
(* one the channel gave, come in order, and have one end.                  *)
THEOREM AnswersAreOneOrderedStream == Spec => []OneOrderedStream
<1>1. OneStream /\ InOrder /\ FinalOnce => OneOrderedStream  BY DEF OneOrderedStream
<1> QED BY <1>1, AnswersAreOneStream, UpdatesAreInOrder, OneFinalMessage, PTL

=============================================================================
