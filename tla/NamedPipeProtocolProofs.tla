----------------------- MODULE NamedPipeProtocolProofs -----------------------
(***************************************************************************)
(* Proofs about one end of the named-pipe framing protocol, for every set  *)
(* of requests and streams and every value of its limits.                  *)
(***************************************************************************)
EXTENDS NamedPipeProtocolProps, FiniteSetTheorems, SequenceTheorems, TLAPS

-----------------------------------------------------------------------------
(* Sums of sizes.                                                          *)

\* What SumOver counts.
Bytes(size, ids) == UNION {{x} \X (1..size[x]) : x \in ids}

\* The pairs whose number is the sum.
LEMMA BytesAre ==
  ASSUME NEW size, NEW ids
  PROVE  \A b : b \in Bytes(size, ids) <=> \E x \in ids : \E k \in 1..size[x] : b = <<x, k>>
BY DEF Bytes

\* A finite number of sizes has a finite sum.
LEMMA SumFinite ==
  ASSUME NEW size, NEW ids, IsFiniteSet(ids), \A x \in ids : size[x] \in Nat
  PROVE  /\ IsFiniteSet(Bytes(size, ids))
         /\ SumOver(size, ids) \in Nat
         /\ SumOver(size, ids) = Cardinality(Bytes(size, ids))
<1> DEFINE Part(x) == {x} \X (1..size[x])
           parts == {Part(x) : x \in ids}
           f == [x \in ids |-> Part(x)]
<1>1. f \in Surjection(ids, parts)
  <2>1. f \in [ids -> parts]
    OBVIOUS
  <2>2. \A t \in parts : \E x \in ids : f[x] = t
    OBVIOUS
  <2> QED
    BY <2>1, <2>2 DEF Surjection
<1>2. IsFiniteSet(parts)
  BY <1>1, FS_Surjection
<1>3. \A x \in ids : IsFiniteSet(Part(x))
  <2> SUFFICES ASSUME NEW x \in ids PROVE IsFiniteSet(Part(x))
    OBVIOUS
  <2>0. 1 \in Int /\ size[x] \in Int
    OBVIOUS
  <2>1. IsFiniteSet(1..size[x]) /\ IsFiniteSet({x})
    BY <2>0, FS_Interval, FS_Singleton
  <2> QED
    BY <2>1, FS_Product
<1>4. IsFiniteSet(UNION parts)
  BY <1>2, <1>3, FS_UNION
<1>5. UNION parts = Bytes(size, ids)
  BY DEF Bytes
<1>6. SumOver(size, ids) = Cardinality(Bytes(size, ids))
  BY DEF SumOver, Bytes
<1> QED
  BY <1>4, <1>5, <1>6, FS_CardinalityType

\* Sizes that are no larger, over fewer ids, have no larger sum.
LEMMA SumMonotone ==
  ASSUME NEW f, NEW S, NEW g, NEW T, IsFiniteSet(T), S \subseteq T,
         \A x \in T : g[x] \in Nat, \A x \in S : f[x] \in Nat /\ f[x] <= g[x]
  PROVE  SumOver(f, S) <= SumOver(g, T)
<1>1. IsFiniteSet(S)
  BY FS_Subset
<1>2. Bytes(f, S) \subseteq Bytes(g, T)
  <2> SUFFICES ASSUME NEW b \in Bytes(f, S) PROVE b \in Bytes(g, T)
    OBVIOUS
  <2>1. PICK x \in S : \E k \in 1..f[x] : b = <<x, k>>
    BY BytesAre
  <2>2. PICK k \in 1..f[x] : b = <<x, k>>
    BY <2>1
  <2>3. x \in T /\ k \in 1..g[x]
    OBVIOUS
  <2> QED
    BY <2>2, <2>3, BytesAre
<1> QED
  BY <1>1, <1>2, SumFinite, FS_Subset

\* Equal sizes have equal sums.
LEMMA SumAgree ==
  ASSUME NEW f, NEW g, NEW S, \A x \in S : f[x] = g[x]
  PROVE  SumOver(f, S) = SumOver(g, S)
<1>1. {{x} \X (1..f[x]) : x \in S} = {{x} \X (1..g[x]) : x \in S}
  OBVIOUS
<1> QED
  BY <1>1 DEF SumOver

\* The sum over two parts is the sum of the sums.
LEMMA SumSplit ==
  ASSUME NEW f, NEW S, NEW T, IsFiniteSet(S), IsFiniteSet(T), S \intersect T = {},
         \A x \in S \union T : f[x] \in Nat
  PROVE  SumOver(f, S \union T) = SumOver(f, S) + SumOver(f, T)
<1>1. IsFiniteSet(S \union T)
  BY FS_Union
<1>2. Bytes(f, S \union T) = Bytes(f, S) \union Bytes(f, T)
  BY BytesAre
<1>3. Bytes(f, S) \intersect Bytes(f, T) = {}
  <2> SUFFICES ASSUME NEW b, b \in Bytes(f, S), b \in Bytes(f, T) PROVE FALSE
    OBVIOUS
  <2>1. PICK x \in S : \E k \in 1..f[x] : b = <<x, k>>
    BY BytesAre
  <2>2. PICK y \in T : \E k \in 1..f[y] : b = <<y, k>>
    BY BytesAre
  <2> QED
    BY <2>1, <2>2
<1>4. IsFiniteSet(Bytes(f, S)) /\ IsFiniteSet(Bytes(f, T))
  BY SumFinite
<1>5. Cardinality(Bytes(f, S) \union Bytes(f, T)) =
        Cardinality(Bytes(f, S)) + Cardinality(Bytes(f, T)) - Cardinality(Bytes(f, S) \intersect Bytes(f, T))
  BY <1>4, FS_Union
<1>6. Cardinality(Bytes(f, S) \intersect Bytes(f, T)) = 0
  BY <1>3, FS_EmptySet
<1>7. /\ SumOver(f, S \union T) = Cardinality(Bytes(f, S \union T))
      /\ SumOver(f, S) = Cardinality(Bytes(f, S)) /\ SumOver(f, S) \in Nat
      /\ SumOver(f, T) = Cardinality(Bytes(f, T)) /\ SumOver(f, T) \in Nat
  BY <1>1, SumFinite
<1>8. Cardinality(Bytes(f, S \union T)) =
        Cardinality(Bytes(f, S)) + Cardinality(Bytes(f, T)) - 0
  BY <1>2, <1>5, <1>6
<1> HIDE DEF Bytes
<1> QED
  BY <1>7, <1>8

\* The sum over one member is its size.
LEMMA SumOne ==
  ASSUME NEW f, NEW x, f[x] \in Nat
  PROVE  SumOver(f, {x}) = f[x]
<1>1. Bytes(f, {x}) = {x} \X (1..f[x])
  BY BytesAre
<1>2. IsFiniteSet({x}) /\ Cardinality({x}) = 1
  BY FS_Singleton
<1>3. IsFiniteSet(1..f[x]) /\ Cardinality(1..f[x]) = f[x]
  <2>1. 1 \in Int /\ f[x] \in Int
    OBVIOUS
  <2>2. IsFiniteSet(1..f[x]) /\ Cardinality(1..f[x]) = IF 1 > f[x] THEN 0 ELSE f[x] - 1 + 1
    BY <2>1, FS_Interval
  <2> QED
    BY <2>2
<1>4. Cardinality({x} \X (1..f[x])) = f[x]
  <2>1. Cardinality({x} \X (1..f[x])) = Cardinality({x}) * Cardinality(1..f[x])
    BY <1>2, <1>3, FS_Product
  <2>2. Cardinality({x} \X (1..f[x])) = 1 * f[x]
    BY <2>1, <1>2, <1>3
  <2>3. \A n \in Nat : 1 * n = n
    OBVIOUS
  <2> QED
    BY <2>2, <2>3
<1>5. SumOver(f, {x}) = Cardinality(Bytes(f, {x}))
  BY <1>2, SumFinite
<1> QED
  BY <1>1, <1>4, <1>5

\* One size that becomes n adds at most n to the sum.
LEMMA SumSet ==
  ASSUME NEW T, IsFiniteSet(T), NEW f \in [T -> Nat], NEW x \in T, NEW g \in [T -> Nat],
         \A y \in T \ {x} : g[y] = f[y]
  PROVE  SumOver(g, T) = SumOver(f, T) - f[x] + g[x]
<1>1. IsFiniteSet(T \ {x}) /\ IsFiniteSet({x}) /\ T = (T \ {x}) \union {x}
  BY FS_Difference, FS_Singleton
<1>2. SumOver(f, T) = SumOver(f, T \ {x}) + SumOver(f, {x})
  BY <1>1, SumSplit
<1>3. SumOver(g, T) = SumOver(g, T \ {x}) + SumOver(g, {x})
  BY <1>1, SumSplit
<1>4. SumOver(f, T \ {x}) = SumOver(g, T \ {x})
  BY SumAgree
<1>5. SumOver(f, {x}) = f[x] /\ SumOver(g, {x}) = g[x]
  BY SumOne
<1>6. SumOver(f, T \ {x}) \in Nat
  BY <1>1, SumFinite
<1> QED
  BY <1>2, <1>3, <1>4, <1>5, <1>6

\* What is taken from the sizes is what the sum loses.
LEMMA SumTaken ==
  ASSUME NEW T, IsFiniteSet(T), NEW A \in SUBSET T, NEW f \in [T -> Nat], NEW g \in [T -> Nat],
         \A y \in T : g[y] = IF y \in A THEN 0 ELSE f[y]
  PROVE  SumOver(g, T) + SumOver(f, A) = SumOver(f, T)
<1>1. IsFiniteSet(T \ A) /\ IsFiniteSet(A) /\ T = (T \ A) \union A
  BY FS_Difference, FS_Subset
<1>2. SumOver(f, T) = SumOver(f, T \ A) + SumOver(f, A)
  BY <1>1, SumSplit
<1>3. SumOver(g, T) = SumOver(g, T \ A) + SumOver(g, A)
  BY <1>1, SumSplit
<1>4. SumOver(f, T \ A) = SumOver(g, T \ A)
  BY SumAgree
<1>5. SumOver(g, A) = 0
  <2>1. Bytes(g, A) = {}
    BY BytesAre
  <2> QED
    BY <2>1, <1>1, SumFinite, FS_EmptySet
<1>6. SumOver(f, T \ A) \in Nat /\ SumOver(f, A) \in Nat
  BY <1>1, SumFinite
<1> QED
  BY <1>2, <1>3, <1>4, <1>5, <1>6

-----------------------------------------------------------------------------
(* The inductive invariant, by groups of variables.                        *)

FlagTypes ==
  /\ reading \in {"header", "draining", "stopping", "ended"}
  /\ running \in BOOLEAN /\ writeFailed \in BOOLEAN /\ completed \in BOOLEAN
  /\ disposals \in Nat
  /\ silence \in 0..Timeout /\ failing \in BOOLEAN /\ frames \in Nat
  /\ open \in BOOLEAN /\ relay \in {"alive", "silent"} /\ stopped \in BOOLEAN

ReadTypes ==
  /\ drain \in [stream : Streams \union {None}, bytes : Nat]
  /\ sizes \in [Streams -> 0..MaxStreamSize]
  /\ completedStreams \subseteq Streams
  /\ expected \in [Streams -> 0..MaxStreamSize \union {None}]
  /\ pendingDispatches \subseteq InReqs /\ pendingResponses \subseteq OutReqs

DispatchTypes ==
  /\ received \subseteq InReqs /\ inflight \subseteq InReqs /\ aborted \subseteq InReqs
  /\ inflightSizes \in [InReqs -> Nat]
  /\ handler \in [InReqs -> {"none", "running", "responding", "done"}]
  /\ answers \in [InReqs -> Nat]

RequestTypes ==
  /\ pendingRequests \subseteq OutReqs
  /\ sender \in [OutReqs -> {"idle", "writing", "awaiting", "returned", "threw"}]
  /\ promise \in [OutReqs -> {"none", "pending", "resolved", "rejected", "timeout"}]
  /\ age \in [OutReqs -> 0..Timeout]

Frames == [type : {"A", "B", "S", "X"}, id : Messages \union {None}, more : BOOLEAN]

\* Nothing complete waits, and a drain is that of a stream.
ReadInv ==
  /\ ReadTypes
  /\ NoReadyMessageWaits
  /\ reading = "draining" => drain.stream \in Streams

\* A request that waits for streams, or whose frame has not come, was neither
\* handled nor answered; a handler that runs has not answered, and one whose
\* response is in the write queue has answered once.
DispatchInv ==
  /\ DispatchTypes
  /\ SlotsMatchHandlers
  /\ AnsweredOnce
  /\ pendingDispatches \subseteq received
  /\ \A i \in InReqs :
       /\ i \notin received \/ i \in pendingDispatches => handler[i] = "none" /\ answers[i] = 0
       /\ handler[i] = "none" => i \notin aborted
       /\ handler[i] = "running" => answers[i] = 0
       /\ handler[i] = "responding" => answers[i] = 1

\* The map holds the calls whose promise is pending, and these have not ended.
RequestInv ==
  /\ RequestTypes
  /\ \A r \in OutReqs :
       /\ promise[r] = "pending" <=> r \in pendingRequests
       /\ promise[r] = "pending" => sender[r] \in {"writing", "awaiting"}

\* A call of sendRequest has one frame in the queue, while it writes.
QueueInv ==
  /\ writeQueue \in Seq(Frames)
  /\ \A k \in DOMAIN writeQueue :
       writeQueue[k].id \in OutReqs => sender[writeQueue[k].id] = "writing"
  /\ \A j, k \in DOMAIN writeQueue :
       writeQueue[j].id \in OutReqs /\ writeQueue[j].id = writeQueue[k].id => j = k

IInv ==
  FlagTypes /\ ReadInv /\ DispatchInv /\ RequestInv /\ QueueInv /\ RetainedBounded

\* IInv gives the type of every variable.
LEMMA IInvTypes == IInv => TypeOK
BY DEF IInv, TypeOK, FlagTypes, ReadInv, ReadTypes, DispatchInv, DispatchTypes, RequestInv,
       RequestTypes, QueueInv, Frames

-----------------------------------------------------------------------------
(* What a step does, by groups of variables.                               *)

\* Calls of sendRequest begin, write, settle, grow older or are left alone.
RequestEffect ==
  \/ UNCHANGED <<requestVars, age>>
  \/ \E rs \in SUBSET pendingRequests, how \in {"rejected", "timeout"} : Settle(rs, how) /\ UNCHANGED age
  \/ \E r \in OutReqs : CompleteResponse(r) /\ UNCHANGED age
  \/ \E r \in OutReqs, body \in BOOLEAN : SendRequest(r, body)
  \/ WriteDone \/ WriteFails \/ Tick

\* Frames join the write queue, or leave it.
QueueEffect ==
  \/ UNCHANGED writeQueue
  \/ \E f \in Frames : f.id \notin OutReqs /\ QueueFrame(f)
  \/ \E r \in OutReqs, body \in BOOLEAN : SendRequest(r, body)
  \/ WriteDone \/ WriteFails

\* Requests of the peer arrive, are started or refused, end or are aborted.
DispatchEffect ==
  \/ /\ UNCHANGED <<dispatchVars, answers, received>>
     /\ pendingDispatches' \subseteq pendingDispatches
  \/ \E i \in InReqs :
       /\ i \notin received /\ received' = received \union {i}
       /\ pendingDispatches' = pendingDispatches \union {i}
       /\ UNCHANGED <<dispatchVars, answers>>
  \/ \E i \in InReqs, size \in Nat :
       /\ i \notin received \/ i \in pendingDispatches
       /\ received' = received \union {i}
       /\ pendingDispatches' = pendingDispatches \ {i}
       /\ StartDispatch(i, size)
  \/ \E ids \in SUBSET inflight :
       /\ Abort(ids)
       /\ UNCHANGED <<answers, received>>
       /\ pendingDispatches' \subseteq pendingDispatches
  \/ \E i \in InReqs, body \in BOOLEAN : HandlerReturns(i, body) \/ HandlerThrows(i)
  \/ WriteDone \/ WriteFails

Effects == RequestEffect /\ QueueEffect /\ DispatchEffect /\ (writeFailed' = writeFailed \/ WriteFails)

\* A stream frame that is handled starts or completes at most one message.
LEMMA StreamEffects ==
  ASSUME IInv, NEW s \in Streams, NEW n \in Nat, NEW end \in BOOLEAN, HandleStreamFrame(s, n, end),
         UNCHANGED <<age, writeFailed>>
  PROVE  Effects
<1> USE DEF Effects, RequestEffect, QueueEffect, DispatchEffect
<1>1. CASE LeaveLoop
  BY <1>1 DEF LeaveLoop, readVars
<1>2. CASE StreamAccepted(s, n, end) /\ UNCHANGED received
  <2> DEFINE grown == [sizes EXCEPT ![s] = @ + n]
             done == IF end THEN completedStreams \union {s} ELSE completedStreams
  <2>1. ASSUME NEW i \in pendingDispatches, StartDispatch(i, PayloadSize(i, grown)),
               pendingDispatches' = pendingDispatches \ {i}, UNCHANGED requestVars
        PROVE  Effects
    <3>1. i \in InReqs /\ i \in received
      BY DEF IInv, ReadInv, ReadTypes, DispatchInv
    <3>2. PayloadSize(i, grown) \in Nat
      <4>1. StreamsOf[i] \subseteq Streams /\ IsFiniteSet(StreamsOf[i])
        BY <3>1, FS_Subset, ProtocolAssumption DEF Messages
      <4>2. \A x \in Streams : grown[x] \in Nat
        BY DEF IInv, ReadInv, ReadTypes
      <4> QED
        BY <4>1, <4>2, SumFinite DEF PayloadSize
    <3>3. QueueEffect
      <4>1. Frame("B", i, FALSE) \in Frames /\ Frame("B", i, FALSE).id \notin OutReqs
        BY <3>1, ProtocolAssumption DEF Frame, Frames, Messages
      <4> QED
        BY <2>1, <4>1 DEF StartDispatch
    <3>4. received' = received \union {i}
      BY <1>2, <3>1
    <3>5. DispatchEffect
      BY <2>1, <3>1, <3>2, <3>4
    <3> QED
      BY <2>1, <3>3, <3>5
  <2>2. ASSUME NEW r \in pendingResponses, CompleteResponse(r), NoDispatch, UNCHANGED pendingDispatches
        PROVE  Effects
    BY <1>2, <2>2 DEF IInv, ReadInv, ReadTypes, NoDispatch
  <2>3. ASSUME NoDispatch, UNCHANGED <<pendingDispatches, pendingResponses, requestVars>>
        PROVE  Effects
    BY <1>2, <2>3 DEF NoDispatch
  <2>4. \/ \E i \in pendingDispatches :
             /\ StartDispatch(i, PayloadSize(i, grown)) /\ pendingDispatches' = pendingDispatches \ {i}
             /\ UNCHANGED requestVars
        \/ \E r \in pendingResponses : CompleteResponse(r) /\ NoDispatch /\ UNCHANGED pendingDispatches
        \/ NoDispatch /\ UNCHANGED <<pendingDispatches, pendingResponses, requestVars>>
    BY <1>2 DEF StreamAccepted
  <2> HIDE DEF Effects, RequestEffect, QueueEffect, DispatchEffect, grown, done
  <2> QED
    BY <2>1, <2>2, <2>3, <2>4
<1> QED
  BY <1>1, <1>2 DEF HandleStreamFrame

\* Every step has one effect on each group of variables.
LEMMA StepEffects == IInv /\ [Next]_vars => Effects
<1> SUFFICES ASSUME IInv, [Next]_vars PROVE Effects
  OBVIOUS
<1> USE DEF Effects, RequestEffect, QueueEffect, DispatchEffect
<1>0. Frame("X", None, FALSE) \in Frames /\ Frame("X", None, FALSE).id \notin OutReqs
  BY ProtocolAssumption DEF Frame, Frames, Messages
<1>b. \A i \in InReqs, body \in BOOLEAN :
         Frame("B", i, body) \in Frames /\ Frame("B", i, body).id \notin OutReqs
  BY ProtocolAssumption DEF Frame, Frames, Messages
<1>1. CASE EndLoop
  BY <1>1 DEF EndLoop, FailPendingRequests
<1>2. ASSUME NEW i \in InReqs, RecvRequest(i) PROVE Effects
  <2>1. RequestEffect /\ writeFailed' = writeFailed
    BY <1>2 DEF RecvRequest, FrameArrives
  <2>2. CASE AllStreamsComplete(i, completedStreams)
    <3>1. StartDispatch(i, PayloadSize(i, sizes)) /\ UNCHANGED pendingDispatches
          /\ i \notin received /\ received' = received \union {i}
      BY <1>2, <2>2 DEF RecvRequest
    <3>2. PayloadSize(i, sizes) \in Nat
      <4>1. StreamsOf[i] \subseteq Streams /\ IsFiniteSet(StreamsOf[i])
        BY FS_Subset, ProtocolAssumption DEF Messages
      <4>2. \A x \in Streams : sizes[x] \in Nat
        BY DEF IInv, ReadInv, ReadTypes
      <4> QED
        BY <4>1, <4>2, SumFinite DEF PayloadSize
    <3>3. pendingDispatches' = pendingDispatches \ {i}
      BY <3>1 DEF IInv, DispatchInv
    <3>4. DispatchEffect
      BY <3>1, <3>2, <3>3
    <3>5. QueueEffect
      BY <3>1, <1>b DEF StartDispatch
    <3> QED
      BY <2>1, <3>4, <3>5
  <2>3. CASE ~AllStreamsComplete(i, completedStreams)
    BY <1>2, <2>1, <2>3 DEF RecvRequest, NoDispatch
  <2> QED
    BY <2>2, <2>3
<1>3. ASSUME NEW r \in OutReqs, RecvResponse(r) \/ RecvEmptyResponse(r) PROVE Effects
  BY <1>3 DEF RecvResponse, RecvEmptyResponse, CompleteResponse, RejectRequest, FrameArrives, NoDispatch,
              readVars
<1>4. ASSUME NEW s \in Streams, NEW n \in 0..MaxChunk, NEW end \in BOOLEAN, RecvStream(s, n, end)
      PROVE Effects
  <2>1. UNCHANGED <<age, writeFailed>>
    BY <1>4 DEF RecvStream, FrameArrives
  <2>2. CASE HandleStreamFrame(s, n, end)
    BY <2>1, <2>2, StreamEffects, ProtocolAssumption
  <2>3. CASE UNCHANGED <<readVars, dispatchVars, answers, requestVars, writeQueue, received>>
    BY <2>1, <2>3 DEF readVars
  <2> QED
    BY <1>4, <2>2, <2>3 DEF RecvStream, LeaveLoop
<1>5. ASSUME NEW x \in Streams \union InReqs, RecvCancelStream(x) PROVE Effects
  BY <1>5 DEF RecvCancelStream, FrameArrives
<1>6. CASE RecvCancelAll
  BY <1>6 DEF RecvCancelAll, FailPendingRequests, FrameArrives
<1>7. CASE RecvIgnored \/ RecvMalformed \/ ReadCloses
  BY <1>7 DEF RecvIgnored, RecvMalformed, ReadCloses, LeaveLoop, FrameArrives, NoDispatch, readVars
<1>8. CASE DrainDone
  <2>1. drain.stream \in Streams /\ drain.bytes \in Nat
    BY <1>8 DEF DrainDone, IInv, ReadInv, ReadTypes
  <2>2. HandleStreamFrame(drain.stream, drain.bytes, TRUE) /\ UNCHANGED <<age, writeFailed>>
    BY <1>8 DEF DrainDone
  <2> QED
    BY <2>1, <2>2, StreamEffects
<1>9. CASE Dispatch
  <2>1. PICK i \in InReqs, body \in BOOLEAN : HandlerReturns(i, body) \/ HandlerThrows(i)
    BY <1>9 DEF Dispatch
  <2>2. QueueEffect
    BY <2>1, <1>b DEF HandlerReturns, HandlerThrows, Respond
  <2> QED
    BY <2>1, <2>2 DEF HandlerReturns, HandlerThrows
<1>10. ASSUME NEW r \in OutReqs, NEW body \in BOOLEAN, SendRequest(r, body) PROVE Effects
  BY <1>10 DEF SendRequest, readVars
<1>11. ASSUME NEW r \in OutReqs, RequestTimeout(r) PROVE Effects
  BY <1>0, <1>11 DEF RequestTimeout, StartDispose, readVars
<1>12. CASE WriteDone
  BY <1>12 DEF WriteDone
<1>13. CASE WriteFails
  BY <1>13
<1>14. CASE EndDispose
  BY <1>14 DEF EndDispose, FailPendingRequests, readVars
<1>15. CASE HealthCheck \/ ServiceDisposes
  BY <1>0, <1>15 DEF HealthCheck, ServiceDisposes, StartDispose, readVars
<1>16. CASE Tick \/ PipeCloses \/ RelayFallsSilent
  BY <1>16 DEF Tick, PipeCloses, RelayFallsSilent, readVars
<1>17. CASE UNCHANGED vars
  BY <1>17 DEF vars, readVars
<1> HIDE DEF Effects
<1> QED
  BY <1>1, <1>2, <1>3, <1>4, <1>5, <1>6, <1>7, <1>8, <1>9, <1>10, <1>11, <1>12, <1>13, <1>14, <1>15,
     <1>16, <1>17 DEF Next, Read, Request

-----------------------------------------------------------------------------
(* Calls of sendRequest.                                                   *)

\* A promise that settles leaves the map with it, and a call that writes goes
\* on writing.
LEMMA SettleKeeps ==
  ASSUME RequestInv, NEW rs \in SUBSET pendingRequests,
         NEW how \in {"resolved", "rejected", "timeout"}, Settle(rs, how), UNCHANGED age
  PROVE  RequestInv' /\ \A r \in OutReqs : sender[r] = "writing" => sender'[r] = "writing"
<1>1. RequestTypes'
  BY DEF RequestInv, RequestTypes, Settle, Outcome
<1>2. \A r \in OutReqs :
        /\ promise'[r] = IF r \in rs THEN how ELSE promise[r]
        /\ r \in pendingRequests' <=> r \in pendingRequests /\ r \notin rs
        /\ sender'[r] = IF r \in rs /\ sender[r] = "awaiting" THEN Outcome(how) ELSE sender[r]
  BY DEF Settle
<1> QED
  BY <1>1, <1>2 DEF RequestInv

\* Every step keeps the map of pending requests true (RequestInv).
LEMMA RequestStep == IInv /\ Effects => RequestInv'
<1> SUFFICES ASSUME IInv, RequestEffect PROVE RequestInv'
  BY DEF Effects
<1>0. RequestInv /\ RequestTypes
  BY DEF IInv, RequestInv
<1>1. CASE UNCHANGED <<requestVars, age>>
  BY <1>0, <1>1 DEF RequestInv, RequestTypes, requestVars
<1>2. ASSUME NEW rs \in SUBSET pendingRequests, NEW how \in {"resolved", "rejected", "timeout"},
             Settle(rs, how), UNCHANGED age
      PROVE  RequestInv'
  BY <1>0, <1>2, SettleKeeps
<1>7. ASSUME NEW r \in OutReqs, CompleteResponse(r), UNCHANGED age PROVE RequestInv'
  BY <1>0, <1>7, SettleKeeps DEF CompleteResponse
<1>3. ASSUME NEW r \in OutReqs, NEW body \in BOOLEAN, SendRequest(r, body) PROVE RequestInv'
  <2>1. CASE writeFailed
    BY <1>0, <1>3, <2>1 DEF SendRequest, RequestInv, RequestTypes
  <2>2. CASE ~writeFailed
    BY <1>0, <1>3, <2>2, ProtocolAssumption DEF SendRequest, RequestInv, RequestTypes
  <2> QED
    BY <2>1, <2>2
<1>4. CASE WriteDone
  <2>1. UNCHANGED <<pendingRequests, promise, age>>
    BY <1>4 DEF WriteDone
  <2>2. \A r \in OutReqs :
          sender'[r] \in {sender[r], IF promise[r] = "pending" THEN "awaiting" ELSE Outcome(promise[r])}
    BY <1>4 DEF WriteDone
  <2>3. sender' \in [OutReqs -> {"idle", "writing", "awaiting", "returned", "threw"}]
    BY <1>0, <1>4 DEF WriteDone, RequestTypes, Outcome
  <2> QED
    BY <1>0, <2>1, <2>2, <2>3 DEF RequestInv, RequestTypes
<1>5. CASE WriteFails
  <2>1. /\ pendingRequests' = {} /\ age' = age
        /\ promise' = [r \in OutReqs |-> IF r \in pendingRequests THEN "rejected" ELSE promise[r]]
        /\ sender' = [r \in OutReqs |-> IF sender[r] \in {"writing", "awaiting"} THEN "threw"
                                                                              ELSE sender[r]]
    BY <1>5 DEF WriteFails
  <2> QED
    BY <1>0, <2>1 DEF RequestInv, RequestTypes
<1>6. CASE Tick
  <2>1. UNCHANGED requestVars
    BY <1>6 DEF Tick
  <2>2. age' \in [OutReqs -> 0..Timeout]
    BY <1>0, <1>6, ProtocolAssumption DEF Tick, RequestTypes
  <2> QED
    BY <1>0, <2>1, <2>2 DEF RequestInv, RequestTypes, requestVars
<1> QED
  BY <1>1, <1>2, <1>3, <1>4, <1>5, <1>6, <1>7 DEF RequestEffect

-----------------------------------------------------------------------------
(* The write queue.                                                        *)

\* A frame that is no request, or that of a call that begins to write, joins.
LEMMA AppendKeeps ==
  ASSUME QueueInv, NEW f \in Frames, QueueFrame(f),
         \A r \in OutReqs : sender[r] = "writing" => sender'[r] = "writing",
         f.id \in OutReqs /\ ~writeFailed => sender[f.id] # "writing" /\ sender'[f.id] = "writing"
  PROVE  QueueInv'
<1>1. CASE writeFailed
  BY <1>1 DEF QueueInv, QueueFrame
<1>2. CASE ~writeFailed
  <2>1. /\ writeQueue' = Append(writeQueue, f)
        /\ writeQueue' \in Seq(Frames)
        /\ Len(writeQueue') = Len(writeQueue) + 1 /\ Len(writeQueue) \in Nat
        /\ \A k \in 1..Len(writeQueue) : writeQueue'[k] = writeQueue[k]
        /\ writeQueue'[Len(writeQueue) + 1] = f
        /\ DOMAIN writeQueue = 1..Len(writeQueue) /\ DOMAIN writeQueue' = 1..Len(writeQueue')
    BY <1>2, AppendProperties, LenProperties DEF QueueInv, QueueFrame
  <2>2. \A k \in DOMAIN writeQueue' : k \in DOMAIN writeQueue \/ k = Len(writeQueue) + 1
    BY <2>1
  <2> QED
    BY <1>2, <2>1, <2>2 DEF QueueInv
<1> QED
  BY <1>1, <1>2

\* Every step keeps one frame per writing call in the queue (QueueInv).
LEMMA QueueStep == IInv /\ Effects => QueueInv'
<1> SUFFICES ASSUME IInv, RequestEffect, QueueEffect PROVE QueueInv'
  BY DEF Effects
<1>0. QueueInv /\ RequestInv /\ RequestTypes
  BY DEF IInv, RequestInv
<1>1. ASSUME NEW r \in OutReqs, NEW body \in BOOLEAN, SendRequest(r, body) PROVE QueueInv'
  <2>1. /\ sender[r] = "idle" /\ QueueFrame(Frame("A", r, body))
        /\ sender' = [sender EXCEPT ![r] = IF writeFailed THEN "threw" ELSE "writing"]
    BY <1>1 DEF SendRequest
  <2>2. Frame("A", r, body) \in Frames /\ Frame("A", r, body).id = r
    BY DEF Frame, Frames, Messages
  <2> QED
    BY <1>0, <2>1, <2>2, AppendKeeps DEF RequestTypes
<1>2. CASE WriteDone
  <2> DEFINE f == Head(writeQueue)
  <2>1. /\ writeQueue # <<>>
        /\ writeQueue' = IF f.more THEN Append(Tail(writeQueue), Frame("S", f.id, FALSE))
                                   ELSE Tail(writeQueue)
        /\ sender' = [r \in OutReqs |->
             IF r = f.id /\ ~f.more
               THEN IF promise[r] = "pending" THEN "awaiting" ELSE Outcome(promise[r])
               ELSE sender[r]]
    BY <1>2 DEF WriteDone
  <2>2. /\ writeQueue \in Seq(Frames) /\ Len(writeQueue) \in Nat \ {0}
        /\ DOMAIN writeQueue = 1..Len(writeQueue)
        /\ f = writeQueue[1] /\ f \in Frames
        /\ Tail(writeQueue) \in Seq(Frames) /\ Len(Tail(writeQueue)) = Len(writeQueue) - 1
        /\ \A k \in 1..Len(Tail(writeQueue)) : Tail(writeQueue)[k] = writeQueue[k+1]
    BY <1>0, <2>1, HeadTailProperties, LenProperties, EmptySeq DEF QueueInv
  <2>3. \A k \in 2..Len(writeQueue) : writeQueue[k].id \in OutReqs =>
          writeQueue[k].id # f.id /\ sender[writeQueue[k].id] = "writing"
    BY <1>0, <2>2 DEF QueueInv
  <2>4. CASE ~f.more
    <3>1. writeQueue' = Tail(writeQueue) /\ DOMAIN writeQueue' = 1..(Len(writeQueue) - 1)
      BY <2>1, <2>2, <2>4, LenProperties
    <3>2. \A k \in DOMAIN writeQueue' : k + 1 \in 2..Len(writeQueue) /\ writeQueue'[k] = writeQueue[k+1]
      BY <2>2, <3>1
    <3>3. \A k \in DOMAIN writeQueue' :
            writeQueue'[k].id \in OutReqs => sender'[writeQueue'[k].id] = "writing"
      <4>1. \A r \in OutReqs : r # f.id => sender'[r] = sender[r]
        BY <2>1
      <4> QED
        BY <2>3, <3>2, <4>1
    <3>4. \A j, k \in DOMAIN writeQueue' :
            writeQueue'[j].id \in OutReqs /\ writeQueue'[j].id = writeQueue'[k].id => j = k
      BY <1>0, <2>2, <3>1, <3>2 DEF QueueInv
    <3> QED
      BY <2>2, <3>1, <3>3, <3>4 DEF QueueInv
  <2>5. CASE f.more
    <3> DEFINE g == Frame("S", f.id, FALSE)
    <3>1. g \in Frames /\ g.id = f.id
      BY <2>2 DEF Frame, Frames
    <3>2. /\ writeQueue' = Append(Tail(writeQueue), g) /\ writeQueue' \in Seq(Frames)
          /\ DOMAIN writeQueue' = 1..Len(writeQueue)
          /\ \A k \in 1..(Len(writeQueue) - 1) : writeQueue'[k] = writeQueue[k+1]
          /\ writeQueue'[Len(writeQueue)] = g
      <4> DEFINE t == Tail(writeQueue)
                 q == Append(t, g)
      <4>1. t \in Seq(Frames) /\ Len(t) = Len(writeQueue) - 1
            /\ \A k \in 1..Len(t) : t[k] = writeQueue[k+1]
        BY <2>2
      <4> HIDE DEF t, f, g
      <4>2. q \in Seq(Frames) /\ Len(q) = Len(t) + 1 /\ DOMAIN q = 1..Len(q)
            /\ (\A k \in 1..Len(t) : q[k] = t[k]) /\ q[Len(t) + 1] = g
        BY <4>1, <3>1, AppendProperties, LenProperties
      <4>3. Len(t) + 1 = Len(writeQueue)
        BY <4>1, <2>2
      <4>4. writeQueue' = q
        BY <2>1, <2>5 DEF t, f, g
      <4> HIDE DEF q
      <4> QED
        BY <4>1, <4>2, <4>3, <4>4
    <3>3. \A r \in OutReqs : sender'[r] = sender[r]
      BY <2>1, <2>5
    <3>4. f.id \in OutReqs => sender[f.id] = "writing"
      BY <1>0, <2>2 DEF QueueInv
    <3>5. \A k \in DOMAIN writeQueue' :
            \/ k + 1 \in 2..Len(writeQueue) /\ writeQueue'[k] = writeQueue[k+1]
            \/ k = Len(writeQueue) /\ writeQueue'[k] = g
      <4>0. \A m \in Nat : \A k \in 1..m : k \in 1..(m - 1) \/ k = m
        OBVIOUS
      <4>1. \A k \in 1..Len(writeQueue) : k \in 1..(Len(writeQueue) - 1) \/ k = Len(writeQueue)
        BY <2>2, <4>0
      <4>2. \A k \in 1..(Len(writeQueue) - 1) : k + 1 \in 2..Len(writeQueue)
        BY <2>2
      <4> HIDE DEF g
      <4> QED
        BY <3>2, <4>1, <4>2
    <3> HIDE DEF f, g
    <3>6. \A k \in DOMAIN writeQueue' :
            writeQueue'[k].id \in OutReqs => sender'[writeQueue'[k].id] = "writing"
      BY <2>3, <3>1, <3>3, <3>4, <3>5
    <3>7. \A j, k \in DOMAIN writeQueue' :
            writeQueue'[j].id \in OutReqs /\ writeQueue'[j].id = writeQueue'[k].id => j = k
      BY <1>0, <2>2, <2>3, <3>1, <3>2, <3>5 DEF QueueInv
    <3> QED
      BY <3>2, <3>6, <3>7 DEF QueueInv
  <2> QED
    BY <2>4, <2>5
<1>3. CASE WriteFails
  BY <1>3 DEF WriteFails, QueueInv
<1>4. ASSUME \/ UNCHANGED <<requestVars, age>>
             \/ Tick
             \/ \E rs \in SUBSET pendingRequests, how \in {"rejected", "timeout"} :
                  Settle(rs, how) /\ UNCHANGED age
             \/ \E r \in OutReqs : CompleteResponse(r) /\ UNCHANGED age,
             UNCHANGED writeQueue \/ \E f \in Frames : f.id \notin OutReqs /\ QueueFrame(f)
      PROVE  QueueInv'
  <2>1. \A r \in OutReqs : sender[r] = "writing" => sender'[r] = "writing"
    BY <1>0, <1>4, SettleKeeps DEF Tick, requestVars, CompleteResponse
  <2>2. CASE UNCHANGED writeQueue
    BY <1>0, <2>1, <2>2 DEF QueueInv
  <2>3. CASE \E f \in Frames : f.id \notin OutReqs /\ QueueFrame(f)
    BY <1>0, <2>1, <2>3, AppendKeeps
  <2> QED
    BY <1>4, <2>2, <2>3
<1> QED
  BY <1>1, <1>2, <1>3, <1>4 DEF RequestEffect, QueueEffect

-----------------------------------------------------------------------------
(* Dispatches.                                                             *)

\* Where a request stands in its dispatch.
Fresh(i) == handler[i] = "none" /\ answers[i] = 0 /\ i \notin aborted /\ i \notin inflight

\* A request that is not received, or waits for a slot, has no handler and no answer.
LEMMA WaitingIsFresh ==
  ASSUME DispatchInv, NEW i \in InReqs, i \notin received \/ i \in pendingDispatches
  PROVE  Fresh(i)
BY DEF DispatchInv, SlotsMatchHandlers, Fresh

\* A request that is started takes a slot, or is refused with one answer.
LEMMA StartKeeps ==
  ASSUME DispatchInv, NEW i \in InReqs, NEW size \in Nat, StartDispatch(i, size),
         i \notin received \/ i \in pendingDispatches,
         received' = received \union {i}, pendingDispatches' = pendingDispatches \ {i},
         writeFailed' = writeFailed
  PROVE  DispatchInv'
<1>0. DispatchTypes /\ Fresh(i)
  BY WaitingIsFresh DEF DispatchInv
<1>1. CASE Overloaded(size)
  <2>1. answers' = [answers EXCEPT ![i] = @ + 1] /\ UNCHANGED dispatchVars
    BY <1>1 DEF StartDispatch
  <2>2. answers' = [answers EXCEPT ![i] = 1]
    BY <1>0, <2>1 DEF Fresh, DispatchTypes
  <2>3. DispatchTypes'
    BY <1>0, <2>1, <2>2 DEF DispatchTypes, dispatchVars
  <2> QED
    BY <1>0, <2>1, <2>2, <2>3 DEF DispatchInv, DispatchTypes, SlotsMatchHandlers, AnsweredOnce, Fresh,
                                  dispatchVars
<1>2. CASE ~Overloaded(size)
  <2>1. /\ inflight' = inflight \union {i}
        /\ inflightSizes' = [inflightSizes EXCEPT ![i] = size]
        /\ handler' = [handler EXCEPT ![i] = "running"]
        /\ UNCHANGED <<aborted, answers>>
    BY <1>2 DEF StartDispatch
  <2>2. DispatchTypes'
    BY <1>0, <2>1 DEF DispatchTypes
  <2>3. SlotsMatchHandlers'
    BY <1>0, <2>1 DEF DispatchInv, DispatchTypes, SlotsMatchHandlers, Fresh
  <2> QED
    BY <1>0, <2>1, <2>2, <2>3 DEF DispatchInv, DispatchTypes, AnsweredOnce, Fresh
<1> QED
  BY <1>1, <1>2

\* An abort gives the slots back and leaves the handlers running.
LEMMA AbortKeeps ==
  ASSUME DispatchInv, NEW ids \in SUBSET inflight, Abort(ids), UNCHANGED <<answers, received>>,
         pendingDispatches' \subseteq pendingDispatches, writeFailed' = writeFailed
  PROVE  DispatchInv'
<1>1. DispatchTypes'
  BY DEF DispatchInv, DispatchTypes, Abort
<1>2. SlotsMatchHandlers'
  BY DEF DispatchInv, DispatchTypes, SlotsMatchHandlers, Abort
<1> QED
  BY <1>1, <1>2 DEF DispatchInv, DispatchTypes, SlotsMatchHandlers, AnsweredOnce, Abort

\* Dispatches whose handler has answered end, and give their slots back.
LEMMA FinallyKeeps ==
  ASSUME DispatchInv, NEW ids \in SUBSET InReqs, Finally(ids), UNCHANGED <<answers, received, pendingDispatches>>,
         writeFailed => writeFailed',
         \A i \in ids : \/ handler[i] = "responding"
                        \/ handler[i] = "running" /\ (i \in aborted \/ writeFailed')
  PROVE  DispatchInv'
<1>1. DispatchTypes'
  BY DEF DispatchInv, DispatchTypes, Finally
<1>2. SlotsMatchHandlers'
  BY DEF DispatchInv, DispatchTypes, SlotsMatchHandlers, Finally
<1> QED
  BY <1>1, <1>2 DEF DispatchInv, DispatchTypes, AnsweredOnce, Finally

\* A handler that has run answers once.
LEMMA RespondKeeps ==
  ASSUME DispatchInv, NEW i \in InReqs, NEW body, handler[i] = "running", Respond(i, body),
         UNCHANGED <<received, pendingDispatches, writeFailed>>
  PROVE  DispatchInv'
<1>1. CASE writeFailed
  BY <1>1, FinallyKeeps DEF Respond
<1>2. CASE ~writeFailed
  <2>1. /\ answers' = [answers EXCEPT ![i] = 1]
        /\ handler' = [handler EXCEPT ![i] = "responding"]
        /\ UNCHANGED <<inflight, inflightSizes, aborted>>
    BY <1>2 DEF Respond, DispatchInv, DispatchTypes
  <2>2. DispatchTypes'
    BY <2>1 DEF DispatchInv, DispatchTypes
  <2>3. SlotsMatchHandlers'
    BY <2>1 DEF DispatchInv, DispatchTypes, SlotsMatchHandlers
  <2> QED
    BY <2>1, <2>2, <2>3 DEF DispatchInv, DispatchTypes, AnsweredOnce
<1> QED
  BY <1>1, <1>2

\* Every step keeps the slots and the answers in order (DispatchInv).
LEMMA DispatchStep == IInv /\ Effects => DispatchInv'
<1> SUFFICES ASSUME DispatchInv, DispatchEffect, writeFailed' = writeFailed \/ WriteFails
             PROVE  DispatchInv'
  BY DEF Effects, IInv
<1>1. CASE WriteFails
  <2>1. /\ Finally({i \in InReqs : handler[i] = "responding"}) /\ writeFailed' = TRUE
        /\ UNCHANGED <<answers, received, pendingDispatches>>
    BY <1>1 DEF WriteFails, readVars
  <2> QED
    BY <2>1, FinallyKeeps
<1>2. CASE WriteDone
  <2> DEFINE ids == {i \in InReqs : i = Head(writeQueue).id /\ ~Head(writeQueue).more
                                      /\ handler[i] = "responding"}
  <2>1. /\ Finally(ids) /\ writeFailed' = writeFailed
        /\ UNCHANGED <<answers, received, pendingDispatches>>
    BY <1>2 DEF WriteDone, readVars
  <2>2. ids \in SUBSET InReqs /\ \A i \in ids : handler[i] = "responding"
    OBVIOUS
  <2> HIDE DEF ids
  <2> QED
    BY <2>1, <2>2, FinallyKeeps
<1>3. ASSUME NEW i \in InReqs, NEW body \in BOOLEAN, HandlerReturns(i, body) \/ HandlerThrows(i)
      PROVE  DispatchInv'
  <2>1. handler[i] = "running" /\ UNCHANGED <<received, pendingDispatches, writeFailed>>
    BY <1>3 DEF HandlerReturns, HandlerThrows, readVars
  <2>2. \/ Respond(i, body) \/ Respond(i, FALSE)
        \/ i \in aborted /\ Finally({i}) /\ UNCHANGED answers
    BY <1>3 DEF HandlerReturns, HandlerThrows
  <2> QED
    BY <2>1, <2>2, RespondKeeps, FinallyKeeps
<1>4. ASSUME NEW i \in InReqs, NEW size \in Nat, i \notin received \/ i \in pendingDispatches,
             received' = received \union {i}, pendingDispatches' = pendingDispatches \ {i},
             StartDispatch(i, size), ~WriteFails
      PROVE  DispatchInv'
  BY <1>4, StartKeeps
<1>5. ASSUME NEW ids \in SUBSET inflight, Abort(ids), UNCHANGED <<answers, received>>,
             pendingDispatches' \subseteq pendingDispatches, ~WriteFails
      PROVE  DispatchInv'
  BY <1>5, AbortKeeps
<1>6. ASSUME NEW i \in InReqs, i \notin received, received' = received \union {i},
             pendingDispatches' = pendingDispatches \union {i}, UNCHANGED <<dispatchVars, answers>>,
             ~WriteFails
      PROVE  DispatchInv'
  BY <1>6 DEF DispatchInv, DispatchTypes, SlotsMatchHandlers, AnsweredOnce, dispatchVars
<1>7. ASSUME UNCHANGED <<dispatchVars, answers, received>>, pendingDispatches' \subseteq pendingDispatches,
             ~WriteFails
      PROVE  DispatchInv'
  BY <1>7 DEF DispatchInv, DispatchTypes, SlotsMatchHandlers, AnsweredOnce, dispatchVars
<1> QED
  BY <1>1, <1>2, <1>3, <1>4, <1>5, <1>6, <1>7 DEF DispatchEffect

-----------------------------------------------------------------------------
(* The read loop.                                                          *)

\* Streams taken from well-typed buffers leave them well typed.
LEMMA ReassembleTypes ==
  ASSUME ReadTypes, NEW ss, NEW done \in SUBSET Streams,
         NEW grown \in [Streams -> 0..MaxStreamSize], Reassemble(ss, done, grown)
  PROVE  /\ sizes' \in [Streams -> 0..MaxStreamSize]
         /\ completedStreams' \subseteq Streams
         /\ expected' \in [Streams -> 0..MaxStreamSize \union {None}]
<1>1. sizes' \in [Streams -> 0..MaxStreamSize]
  <2>1. 0 \in 0..MaxStreamSize
    BY ProtocolAssumption
  <2> QED
    BY <2>1 DEF Reassemble
<1> QED
  BY <1>1 DEF Reassemble, ReadTypes

\* Dropping streams and messages completes nothing.
LEMMA RemoveKeepsRead ==
  ASSUME ReadInv, NEW ss, RemoveStreams(ss), drain' = drain, reading' # "draining",
         pendingDispatches' \subseteq pendingDispatches, pendingResponses' \subseteq pendingResponses
  PROVE  ReadInv'
<1>1. ReadTypes'
  BY ReassembleTypes DEF ReadInv, ReadTypes, RemoveStreams
<1>2. completedStreams' \subseteq completedStreams
  BY DEF RemoveStreams, Reassemble
<1> QED
  BY <1>1, <1>2 DEF ReadInv, NoReadyMessageWaits, AllStreamsComplete

\* A message that waits for a stream is not complete.
LEMMA TrackKeepsRead ==
  ASSUME ReadInv, NEW m \in Messages, TrackExpectedStreamLengths(m), ~AllStreamsComplete(m, completedStreams),
         drain' = drain, reading' # "draining",
         pendingDispatches' \subseteq InReqs /\ pendingResponses' \subseteq OutReqs,
         pendingDispatches' \union pendingResponses' = pendingDispatches \union pendingResponses \union {m}
  PROVE  ReadInv'
<1>1. expected' \in [Streams -> 0..MaxStreamSize \union {None}]
  <2>1. \A s \in Streams : TrackedLength(s) \in 0..MaxStreamSize \union {None}
    <3> SUFFICES ASSUME NEW s \in Streams PROVE TrackedLength(s) \in 0..MaxStreamSize \union {None}
      OBVIOUS
    <3>1. Declared[s] \in Nat \union {None} /\ MaxStreamSize \in Nat
      BY ProtocolAssumption
    <3>2. expected[s] \in 0..MaxStreamSize \union {None}
      BY DEF ReadInv, ReadTypes
    <3> QED
      BY <3>1, <3>2 DEF TrackedLength
  <2>2. expected' = [s \in Streams |-> IF s \in StreamsOf[m] THEN TrackedLength(s) ELSE expected[s]]
    BY DEF TrackExpectedStreamLengths
  <2>3. \A s \in Streams : expected[s] \in 0..MaxStreamSize \union {None}
    BY DEF ReadInv, ReadTypes
  <2> QED
    BY <2>1, <2>2, <2>3
<1>2. UNCHANGED <<sizes, completedStreams>>
  BY DEF TrackExpectedStreamLengths
<1>3. ReadTypes'
  BY <1>1, <1>2 DEF ReadInv, ReadTypes
<1> QED
  BY <1>2, <1>3 DEF ReadInv, NoReadyMessageWaits, AllStreamsComplete

\* What an accepted frame makes of the buffers.
LEMMA GrownTypes ==
  ASSUME ReadTypes, NEW s \in Streams, NEW n \in Nat, ~StreamRefused(s, n)
  PROVE  [sizes EXCEPT ![s] = @ + n] \in [Streams -> 0..MaxStreamSize]
<1>1. sizes[s] + n \in 0..MaxStreamSize
  BY ProtocolAssumption DEF ReadTypes, StreamRefused
<1> QED
  BY <1>1 DEF ReadTypes

\* Only one message can refer to the stream that a frame completes: no other
\* becomes complete with it.
LEMMA StreamKeepsRead ==
  ASSUME ReadInv, NEW s \in Streams, NEW n \in Nat, NEW end \in BOOLEAN,
         ~StreamRefused(s, n), StreamAccepted(s, n, end), BackToHeader
  PROVE  ReadInv'
<1> DEFINE grown == [sizes EXCEPT ![s] = @ + n]
           done == IF end THEN completedStreams \union {s} ELSE completedStreams
           waiting == pendingDispatches \union pendingResponses
<1>1. grown \in [Streams -> 0..MaxStreamSize] /\ done \subseteq Streams
  BY GrownTypes DEF ReadInv, ReadTypes
<1>2. drain' = drain /\ reading' # "draining"
  BY DEF BackToHeader
<1>3. ReadInv /\ waiting \subseteq Messages
  BY DEF ReadInv, ReadTypes, Messages
<1>4. ASSUME NEW m \in waiting, AllStreamsComplete(m, done), Reassemble(StreamsOf[m], done, grown),
             pendingDispatches' \subseteq pendingDispatches, pendingResponses' \subseteq pendingResponses,
             m \notin pendingDispatches' \union pendingResponses'
      PROVE  ReadInv'
  <2>1. ReadTypes'
    BY <1>1, <1>2, <1>4, ReassembleTypes DEF ReadInv, ReadTypes
  <2>2. completedStreams' \subseteq done
    BY <1>4 DEF Reassemble
  <2>3. ASSUME NEW p \in waiting, p # m PROVE ~AllStreamsComplete(p, done)
    <3>1. ~(StreamsOf[p] \subseteq completedStreams) /\ ~(StreamsOf[m] \subseteq completedStreams)
      BY DEF ReadInv, NoReadyMessageWaits, AllStreamsComplete
    <3>2. StreamsOf[p] \intersect StreamsOf[m] = {}
      BY <1>3, <2>3, ProtocolAssumption
    <3>3. s \in StreamsOf[m]
      BY <1>4, <3>1 DEF AllStreamsComplete
    <3> QED
      BY <3>1, <3>2, <3>3 DEF AllStreamsComplete
  <2> QED
    BY <1>2, <1>4, <2>1, <2>2, <2>3 DEF ReadInv, NoReadyMessageWaits, AllStreamsComplete
<1>5. ASSUME \A m \in waiting : ~AllStreamsComplete(m, done), Reassemble({}, done, grown),
             UNCHANGED <<pendingDispatches, pendingResponses>>
      PROVE  ReadInv'
  <2>1. ReadTypes'
    BY <1>1, <1>2, <1>5, ReassembleTypes DEF ReadInv, ReadTypes
  <2>2. completedStreams' = done
    BY <1>5 DEF Reassemble
  <2> QED
    BY <1>2, <1>5, <2>1, <2>2 DEF ReadInv, NoReadyMessageWaits
<1>6. \/ \E i \in pendingDispatches :
           /\ AllStreamsComplete(i, done) /\ Reassemble(StreamsOf[i], done, grown)
           /\ pendingDispatches' = pendingDispatches \ {i} /\ UNCHANGED pendingResponses
      \/ \E r \in pendingResponses :
           /\ AllStreamsComplete(r, done) /\ Reassemble(StreamsOf[r], done, grown)
           /\ pendingResponses' = pendingResponses \ {r} /\ UNCHANGED pendingDispatches
      \/ /\ \A m \in waiting : ~AllStreamsComplete(m, done)
         /\ Reassemble({}, done, grown) /\ UNCHANGED <<pendingDispatches, pendingResponses>>
  BY DEF StreamAccepted
<1>7. pendingDispatches \intersect pendingResponses = {}
  BY ProtocolAssumption DEF ReadInv, ReadTypes
<1> HIDE DEF grown, done
<1> QED
  BY <1>4, <1>5, <1>6, <1>7

\* A step of the loop that takes no frame of a stream leaves the buffers alone.
LEMMA FrameKeepsRead ==
  ASSUME ReadInv, UNCHANGED <<drain, readVars>>, reading' = "draining" => reading = "draining"
  PROVE  ReadInv'
BY DEF ReadInv, ReadTypes, NoReadyMessageWaits, readVars

\* Every step keeps ReadInv.
LEMMA ReadStep == IInv /\ [Next]_vars => ReadInv'
<1> SUFFICES ASSUME ReadInv, [Next]_vars PROVE ReadInv'
  BY DEF IInv
<1>t. ReadTypes
  BY DEF ReadInv
<1>1. CASE EndLoop
  BY <1>1, RemoveKeepsRead DEF EndLoop
<1>2. ASSUME NEW i \in InReqs, RecvRequest(i) PROVE ReadInv'
  <2>1. drain' = drain /\ reading' # "draining" /\ UNCHANGED pendingResponses
    BY <1>2 DEF RecvRequest, BackToHeader
  <2>2. CASE AllStreamsComplete(i, completedStreams)
    BY <1>2, <2>1, <2>2, RemoveKeepsRead DEF RecvRequest
  <2>3. CASE ~AllStreamsComplete(i, completedStreams)
    <3>1. TrackExpectedStreamLengths(i) /\ pendingDispatches' = pendingDispatches \union {i}
      BY <1>2, <2>3 DEF RecvRequest
    <3> QED
      BY <1>t, <2>1, <2>3, <3>1, TrackKeepsRead DEF ReadTypes, Messages
  <2> QED
    BY <2>2, <2>3
<1>3. ASSUME NEW r \in OutReqs, RecvResponse(r) PROVE ReadInv'
  <2>1. drain' = drain /\ reading' # "draining" /\ UNCHANGED pendingDispatches
    BY <1>3 DEF RecvResponse, BackToHeader
  <2>2. CASE AllStreamsComplete(r, completedStreams)
    BY <1>3, <2>1, <2>2, RemoveKeepsRead DEF RecvResponse
  <2>3. CASE ~AllStreamsComplete(r, completedStreams)
    <3>1. TrackExpectedStreamLengths(r) /\ pendingResponses' = pendingResponses \union {r}
      BY <1>3, <2>3 DEF RecvResponse
    <3> QED
      BY <1>t, <2>1, <2>3, <3>1, TrackKeepsRead DEF ReadTypes, Messages
  <2> QED
    BY <2>2, <2>3
<1>4. ASSUME NEW s \in Streams, NEW n \in Nat, NEW end \in BOOLEAN, HandleStreamFrame(s, n, end)
      PROVE ReadInv'
  <2>1. CASE StreamRefused(s, n)
    BY <1>4, <2>1, FrameKeepsRead DEF HandleStreamFrame, LeaveLoop
  <2>2. CASE ~StreamRefused(s, n)
    BY <1>4, <2>2, StreamKeepsRead DEF HandleStreamFrame
  <2> QED
    BY <2>1, <2>2
<1>5. ASSUME NEW s \in Streams, NEW n \in 0..MaxChunk, NEW end \in BOOLEAN, RecvStream(s, n, end)
      PROVE ReadInv'
  <2>1. CASE LeaveLoop
    BY <2>1, FrameKeepsRead DEF LeaveLoop
  <2>2. CASE ~LeaveLoop /\ NeedsDrain(s, n, end)
    <3>1. /\ drain' = [stream |-> s, bytes |-> expected[s]] /\ UNCHANGED readVars
          /\ expected[s] # None
      BY <1>5, <2>2 DEF RecvStream, NeedsDrain
    <3>2. expected[s] \in Nat
      BY <1>t, <3>1, ProtocolAssumption DEF ReadTypes
    <3>3. drain' \in [stream : Streams \union {None}, bytes : Nat] /\ drain'.stream = s
      BY <3>1, <3>2
    <3> QED
      BY <1>t, <3>1, <3>3 DEF ReadInv, ReadTypes, NoReadyMessageWaits, readVars
  <2>3. CASE ~LeaveLoop /\ ~NeedsDrain(s, n, end)
    <3>1. HandleStreamFrame(s, n, end) /\ n \in Nat
      BY <1>5, <2>3, ProtocolAssumption DEF RecvStream
    <3> QED
      BY <1>4, <3>1
  <2> QED
    BY <2>1, <2>2, <2>3
<1>6. ASSUME NEW x \in Streams \union InReqs, RecvCancelStream(x) PROVE ReadInv'
  <2>1. /\ \E gone : RemoveStreams(gone)
        /\ pendingDispatches' \subseteq pendingDispatches /\ pendingResponses' \subseteq pendingResponses
        /\ drain' = drain /\ reading' # "draining"
    BY <1>6 DEF RecvCancelStream, BackToHeader
  <2> QED
    BY <2>1, RemoveKeepsRead
<1>7. CASE RecvCancelAll
  BY <1>7, RemoveKeepsRead DEF RecvCancelAll, BackToHeader
<1>8. CASE DrainDone
  BY <1>8, <1>4, <1>t DEF DrainDone, ReadInv, ReadTypes
<1>9. ASSUME NEW r \in OutReqs, RecvEmptyResponse(r) PROVE ReadInv'
  BY <1>9, FrameKeepsRead DEF RecvEmptyResponse, BackToHeader
<1>10. CASE RecvIgnored \/ RecvMalformed \/ ReadCloses
  BY <1>10, FrameKeepsRead DEF RecvIgnored, RecvMalformed, ReadCloses, LeaveLoop, BackToHeader
<1>11. CASE Dispatch \/ Request
  BY <1>11, FrameKeepsRead DEF Dispatch, HandlerReturns, HandlerThrows, Request, SendRequest, RequestTimeout
<1>12. CASE WriteDone \/ WriteFails \/ HealthCheck \/ EndDispose \/ Tick
  BY <1>12, FrameKeepsRead DEF WriteDone, WriteFails, HealthCheck, EndDispose, Tick
<1>13. CASE ServiceDisposes \/ PipeCloses \/ RelayFallsSilent \/ UNCHANGED vars
  BY <1>13, FrameKeepsRead DEF ServiceDisposes, PipeCloses, RelayFallsSilent, vars
<1> QED
  BY <1>1, <1>2, <1>3, <1>5, <1>6, <1>7, <1>8, <1>9, <1>10, <1>11, <1>12, <1>13 DEF Next, Read

-----------------------------------------------------------------------------
(* The memory budget.                                                      *)

\* Both sums are numbers, and no larger when no size is.
LEMMA BudgetFrame ==
  ASSUME ReadTypes, DispatchTypes, ReadTypes', DispatchTypes', RetainedBounded,
         \A s \in Streams : sizes'[s] <= sizes[s],
         \A i \in InReqs : inflightSizes'[i] <= inflightSizes[i]
  PROVE  RetainedBounded'
<1>1. /\ \A s \in Streams : sizes[s] \in Nat /\ sizes'[s] \in Nat
      /\ \A i \in InReqs : inflightSizes[i] \in Nat /\ inflightSizes'[i] \in Nat
  BY ProtocolAssumption DEF ReadTypes, DispatchTypes
<1>2. IsFiniteSet(Streams) /\ IsFiniteSet(InReqs)
  BY ProtocolAssumption
<1>3. SumOver(sizes', Streams) <= SumOver(sizes, Streams)
  BY <1>1, <1>2, SumMonotone
<1>4. SumOver(inflightSizes', InReqs) <= SumOver(inflightSizes, InReqs)
  BY <1>1, <1>2, SumMonotone
<1>5. /\ SumOver(sizes', Streams) \in Nat /\ SumOver(sizes, Streams) \in Nat
      /\ SumOver(inflightSizes', InReqs) \in Nat /\ SumOver(inflightSizes, InReqs) \in Nat
  BY <1>1, <1>2, SumFinite
<1>6. SumOver(sizes, Streams) + SumOver(inflightSizes, InReqs) <= MaxRetained
  BY DEF RetainedBounded, Retained, TotalStreamBytes, InflightBytes
<1>7. SumOver(sizes', Streams) + SumOver(inflightSizes', InReqs) <= MaxRetained
  BY <1>3, <1>4, <1>5, <1>6, ProtocolAssumption
<1> QED
  BY <1>7 DEF RetainedBounded, Retained, TotalStreamBytes, InflightBytes

\* A dispatch adds at most the size of its payload to what handlers hold.
LEMMA StartBytes ==
  ASSUME DispatchTypes, DispatchTypes', NEW i \in InReqs, NEW size \in Nat, StartDispatch(i, size)
  PROVE  /\ SumOver(inflightSizes, InReqs) \in Nat /\ SumOver(inflightSizes', InReqs) \in Nat
         /\ SumOver(inflightSizes', InReqs) <= SumOver(inflightSizes, InReqs) + size
<1>1. inflightSizes \in [InReqs -> Nat] /\ inflightSizes' \in [InReqs -> Nat]
  BY DEF DispatchTypes
<1>2. IsFiniteSet(InReqs)
  BY ProtocolAssumption
<1>3. SumOver(inflightSizes, InReqs) \in Nat /\ SumOver(inflightSizes', InReqs) \in Nat
  BY <1>1, <1>2, SumFinite
<1>4. CASE UNCHANGED inflightSizes
  BY <1>3, <1>4
<1>5. CASE inflightSizes' = [inflightSizes EXCEPT ![i] = size]
  <2>1. \A y \in InReqs \ {i} : inflightSizes'[y] = inflightSizes[y]
    BY <1>1, <1>5
  <2>2. inflightSizes'[i] = size /\ inflightSizes[i] \in Nat
    BY <1>1, <1>5
  <2>3. SumOver(inflightSizes', InReqs) = SumOver(inflightSizes, InReqs) - inflightSizes[i] + inflightSizes'[i]
    BY <1>1, <1>2, <2>1, SumSet
  <2> QED
    BY <1>3, <2>2, <2>3
<1> QED
  BY <1>4, <1>5 DEF StartDispatch, dispatchVars

\* A complete message that is dispatched moves its bytes from the buffers.
LEMMA DispatchKeepsBudget ==
  ASSUME ReadTypes, DispatchTypes, ReadTypes', DispatchTypes', NEW i \in InReqs, NEW done,
         NEW grown \in [Streams -> 0..MaxStreamSize],
         SumOver(grown, Streams) + SumOver(inflightSizes, InReqs) <= MaxRetained,
         Reassemble(StreamsOf[i], done, grown), StartDispatch(i, PayloadSize(i, grown))
  PROVE  RetainedBounded'
<1>1. /\ StreamsOf[i] \in SUBSET Streams /\ IsFiniteSet(Streams) /\ IsFiniteSet(StreamsOf[i])
  BY FS_Subset, ProtocolAssumption DEF Messages
<1>2. grown \in [Streams -> Nat] /\ sizes' \in [Streams -> Nat]
  BY ProtocolAssumption DEF ReadTypes
<1>3. \A y \in Streams : sizes'[y] = IF y \in StreamsOf[i] THEN 0 ELSE grown[y]
  BY DEF Reassemble
<1>4. SumOver(sizes', Streams) + SumOver(grown, StreamsOf[i]) = SumOver(grown, Streams)
  BY <1>1, <1>2, <1>3, SumTaken
<1>5. /\ SumOver(grown, StreamsOf[i]) \in Nat /\ SumOver(sizes', Streams) \in Nat
      /\ SumOver(grown, Streams) \in Nat
  BY <1>1, <1>2, SumFinite
<1>6. /\ SumOver(inflightSizes, InReqs) \in Nat /\ SumOver(inflightSizes', InReqs) \in Nat
      /\ SumOver(inflightSizes', InReqs) <= SumOver(inflightSizes, InReqs) + SumOver(grown, StreamsOf[i])
  BY <1>5, StartBytes DEF PayloadSize
<1>7. SumOver(sizes', Streams) + SumOver(inflightSizes', InReqs) <= MaxRetained
  BY <1>4, <1>5, <1>6, ProtocolAssumption
<1> QED
  BY <1>7 DEF RetainedBounded, Retained, TotalStreamBytes, InflightBytes

\* A stream frame is admitted only when the bytes it adds fit in the budget,
\* after a drain as well.
LEMMA StreamKeepsBudget ==
  ASSUME ReadTypes, DispatchTypes, ReadTypes', DispatchTypes', RetainedBounded,
         NEW s \in Streams, NEW n \in Nat, NEW end \in BOOLEAN,
         ~StreamRefused(s, n), StreamAccepted(s, n, end)
  PROVE  RetainedBounded'
<1> DEFINE grown == [sizes EXCEPT ![s] = @ + n]
           done == IF end THEN completedStreams \union {s} ELSE completedStreams
<1>1. grown \in [Streams -> 0..MaxStreamSize]
  BY GrownTypes
<1>2. IsFiniteSet(Streams) /\ IsFiniteSet(InReqs)
  BY ProtocolAssumption
<1>3. sizes \in [Streams -> Nat] /\ grown \in [Streams -> Nat] /\ inflightSizes \in [InReqs -> Nat]
  BY <1>1, ProtocolAssumption DEF ReadTypes, DispatchTypes
<1>4. SumOver(grown, Streams) = SumOver(sizes, Streams) - sizes[s] + grown[s]
  <2>1. \A y \in Streams \ {s} : grown[y] = sizes[y]
    BY <1>3
  <2> HIDE DEF grown
  <2> QED
    BY <1>2, <1>3, <2>1, SumSet
<1>5. grown[s] = sizes[s] + n /\ sizes[s] \in Nat
  BY <1>3
<1>6. SumOver(sizes, Streams) \in Nat /\ SumOver(inflightSizes, InReqs) \in Nat
  BY <1>2, <1>3, SumFinite
<1>7. SumOver(sizes, Streams) + SumOver(inflightSizes, InReqs) + n <= MaxRetained
  <2>1. CASE n > 0
    BY <1>6, <2>1, ProtocolAssumption DEF StreamRefused, Retained, TotalStreamBytes, InflightBytes
  <2>2. CASE n = 0
    BY <1>6, <2>2 DEF RetainedBounded, Retained, TotalStreamBytes, InflightBytes
  <2> QED
    BY <2>1, <2>2
<1> HIDE DEF grown, done
<1>8. SumOver(grown, Streams) + SumOver(inflightSizes, InReqs) <= MaxRetained
  BY <1>4, <1>5, <1>6, <1>7
<1>9. ASSUME NEW i \in pendingDispatches, Reassemble(StreamsOf[i], done, grown),
             StartDispatch(i, PayloadSize(i, grown))
      PROVE  RetainedBounded'
  BY <1>1, <1>8, <1>9, DispatchKeepsBudget DEF ReadTypes
<1>10. ASSUME NEW ss, Reassemble(ss, done, grown), UNCHANGED inflightSizes
       PROVE  RetainedBounded'
  <2>1. \A y \in Streams : sizes'[y] \in Nat /\ sizes'[y] <= grown[y]
    BY <1>3, <1>10 DEF Reassemble
  <2>2. SumOver(sizes', Streams) <= SumOver(grown, Streams)
    BY <1>2, <1>3, <2>1, SumMonotone
  <2>3. SumOver(sizes', Streams) \in Nat /\ SumOver(grown, Streams) \in Nat
    BY <1>2, <1>3, <2>1, SumFinite
  <2>4. SumOver(sizes', Streams) + SumOver(inflightSizes', InReqs) <= MaxRetained
    BY <1>6, <1>8, <1>10, <2>2, <2>3, ProtocolAssumption
  <2> QED
    BY <2>4 DEF RetainedBounded, Retained, TotalStreamBytes, InflightBytes
<1>11. \/ \E i \in pendingDispatches :
            Reassemble(StreamsOf[i], done, grown) /\ StartDispatch(i, PayloadSize(i, grown))
       \/ \E ss : Reassemble(ss, done, grown) /\ UNCHANGED inflightSizes
  BY DEF StreamAccepted, NoDispatch, dispatchVars, grown, done
<1> QED
  BY <1>9, <1>10, <1>11

\* A step that takes no stream frame and starts no dispatch frees bytes or
\* leaves them where they are.
LEMMA FreesBytes ==
  ASSUME ReadTypes, DispatchTypes, ReadTypes', DispatchTypes', RetainedBounded,
         UNCHANGED sizes \/ \E ss : RemoveStreams(ss),
         \/ UNCHANGED inflightSizes
         \/ \E ids : inflightSizes' = [i \in InReqs |-> IF i \in ids THEN 0 ELSE inflightSizes[i]]
  PROVE  RetainedBounded'
<1>1. \A s \in Streams : sizes'[s] <= sizes[s]
  BY ProtocolAssumption DEF ReadTypes, RemoveStreams, Reassemble
<1>2. \A i \in InReqs : inflightSizes'[i] <= inflightSizes[i]
  BY DEF DispatchTypes
<1> QED
  BY <1>1, <1>2, BudgetFrame

\* Every step keeps the bytes within MAX_BUFFERED_AND_INFLIGHT_BYTES.
LEMMA BudgetStep == IInv /\ [Next]_vars /\ ReadTypes' /\ DispatchTypes' => RetainedBounded'
<1> SUFFICES ASSUME IInv, [Next]_vars, ReadTypes', DispatchTypes' PROVE RetainedBounded'
  OBVIOUS
<1>t. ReadInv /\ ReadTypes /\ DispatchTypes /\ RetainedBounded
  BY DEF IInv, ReadInv, DispatchInv
<1>1. ASSUME NEW i \in InReqs, RecvRequest(i) PROVE RetainedBounded'
  <2>1. CASE AllStreamsComplete(i, completedStreams)
    <3>1. Reassemble(StreamsOf[i], completedStreams, sizes) /\ StartDispatch(i, PayloadSize(i, sizes))
      BY <1>1, <2>1 DEF RecvRequest, RemoveStreams
    <3> QED
      BY <1>t, <3>1, DispatchKeepsBudget
         DEF ReadTypes, RetainedBounded, Retained, TotalStreamBytes, InflightBytes
  <2>2. CASE ~AllStreamsComplete(i, completedStreams)
    BY <1>t, <1>1, <2>2, FreesBytes DEF RecvRequest, TrackExpectedStreamLengths, NoDispatch, dispatchVars
  <2> QED
    BY <2>1, <2>2
<1>2. ASSUME NEW r \in OutReqs, RecvResponse(r) \/ RecvEmptyResponse(r) PROVE RetainedBounded'
  BY <1>t, <1>2, FreesBytes
     DEF RecvResponse, RecvEmptyResponse, TrackExpectedStreamLengths, NoDispatch, readVars, dispatchVars
<1>3. ASSUME NEW s \in Streams, NEW n \in Nat, NEW end \in BOOLEAN, HandleStreamFrame(s, n, end)
      PROVE  RetainedBounded'
  <2>1. CASE StreamRefused(s, n)
    BY <1>t, <1>3, <2>1, FreesBytes DEF HandleStreamFrame, LeaveLoop, readVars, dispatchVars
  <2>2. CASE ~StreamRefused(s, n)
    BY <1>t, <1>3, <2>2, StreamKeepsBudget DEF HandleStreamFrame
  <2> QED
    BY <2>1, <2>2
<1>4. ASSUME NEW s \in Streams, NEW n \in 0..MaxChunk, NEW end \in BOOLEAN, RecvStream(s, n, end)
      PROVE  RetainedBounded'
  <2>1. CASE HandleStreamFrame(s, n, end)
    BY <1>3, <2>1, ProtocolAssumption
  <2>2. CASE UNCHANGED <<readVars, dispatchVars>>
    BY <1>t, <2>2, FreesBytes DEF readVars, dispatchVars
  <2> QED
    BY <1>4, <2>1, <2>2 DEF RecvStream, LeaveLoop
<1>5. ASSUME NEW x \in Streams \union InReqs, RecvCancelStream(x) PROVE RetainedBounded'
  <2>1. (\E ss : RemoveStreams(ss)) /\ \E ids : Abort(ids)
    BY <1>5 DEF RecvCancelStream
  <2> QED
    BY <1>t, <2>1, FreesBytes DEF Abort
<1>6. CASE RecvCancelAll \/ EndLoop
  <2>1. RemoveStreams(Streams) /\ (Abort(inflight) \/ UNCHANGED dispatchVars)
    BY <1>6 DEF RecvCancelAll, EndLoop
  <2> QED
    BY <1>t, <2>1, FreesBytes DEF Abort, dispatchVars
<1>7. CASE RecvIgnored \/ RecvMalformed \/ ReadCloses
  BY <1>t, <1>7, FreesBytes DEF RecvIgnored, RecvMalformed, ReadCloses, LeaveLoop, NoDispatch, readVars, dispatchVars
<1>8. CASE DrainDone
  BY <1>3, <1>8, <1>t DEF DrainDone, ReadInv, ReadTypes
<1>9. CASE Dispatch \/ WriteDone \/ WriteFails
  <2>1. UNCHANGED sizes
    BY <1>9 DEF Dispatch, HandlerReturns, HandlerThrows, WriteDone, WriteFails, readVars
  <2>2. UNCHANGED inflightSizes \/ \E ids : Finally(ids)
    BY <1>9 DEF Dispatch, HandlerReturns, HandlerThrows, Respond, WriteDone, WriteFails
  <2> QED
    BY <1>t, <2>1, <2>2, FreesBytes DEF Finally
<1>10. CASE EndDispose
  BY <1>t, <1>10, FreesBytes DEF EndDispose, Abort, readVars
<1>11. CASE Request \/ HealthCheck \/ Tick \/ ServiceDisposes \/ PipeCloses \/ RelayFallsSilent \/ UNCHANGED vars
  <2>1. UNCHANGED <<sizes, inflightSizes>>
    BY <1>11 DEF Request, SendRequest, RequestTimeout, HealthCheck, Tick, ServiceDisposes, PipeCloses,
                 RelayFallsSilent, vars, readVars, dispatchVars
  <2> QED
    BY <1>t, <2>1, FreesBytes
<1> QED
  BY <1>1, <1>2, <1>4, <1>5, <1>6, <1>7, <1>8, <1>9, <1>10, <1>11 DEF Next, Read

\* Every step keeps the flags, the clocks and the environment typed.
LEMMA FlagStep == IInv /\ [Next]_vars => FlagTypes'
<1> SUFFICES ASSUME FlagTypes, [Next]_vars PROVE FlagTypes'
  BY DEF IInv
<1>b. /\ 0 \in 0..Timeout /\ frames + 1 \in Nat
      /\ disposals + 1 \in Nat /\ (disposals > 0 => disposals - 1 \in Nat)
      /\ silence < Timeout => silence + 1 \in 0..Timeout
  BY ProtocolAssumption DEF FlagTypes
<1> USE DEF FlagTypes
<1>1. ASSUME FrameArrives, reading' \in {"header", "stopping", "draining"} PROVE FlagTypes'
  BY <1>b, <1>1 DEF FrameArrives, envVars
<1>2. ASSUME NEW i \in InReqs, RecvRequest(i) PROVE FlagTypes'
  BY <1>1, <1>2 DEF RecvRequest, BackToHeader
<1>3. ASSUME NEW r \in OutReqs, RecvResponse(r) \/ RecvEmptyResponse(r) PROVE FlagTypes'
  BY <1>1, <1>3 DEF RecvResponse, RecvEmptyResponse, BackToHeader
<1>4. ASSUME NEW s \in Streams, NEW n \in 0..MaxChunk, NEW end \in BOOLEAN, RecvStream(s, n, end)
      PROVE FlagTypes'
  BY <1>1, <1>4 DEF RecvStream, HandleStreamFrame, LeaveLoop, BackToHeader
<1>5. ASSUME NEW x \in Streams \union InReqs, RecvCancelStream(x) PROVE FlagTypes'
  BY <1>1, <1>5 DEF RecvCancelStream, BackToHeader
<1>6. CASE RecvCancelAll \/ RecvIgnored \/ RecvMalformed
  BY <1>1, <1>6 DEF RecvCancelAll, RecvIgnored, RecvMalformed, LeaveLoop, BackToHeader
<1>7. CASE ReadCloses \/ DrainDone
  BY <1>7 DEF ReadCloses, DrainDone, HandleStreamFrame, LeaveLoop, BackToHeader, clockVars, envVars
<1>8. CASE EndLoop
  BY <1>8 DEF EndLoop, clockVars, envVars
<1>9. CASE Dispatch \/ WriteDone
  BY <1>9 DEF Dispatch, HandlerReturns, HandlerThrows, WriteDone, clockVars, envVars
<1>10. CASE WriteFails
  BY <1>10 DEF WriteFails, clockVars
<1>11. ASSUME NEW r \in OutReqs, NEW body \in BOOLEAN, SendRequest(r, body) PROVE FlagTypes'
  BY <1>11 DEF SendRequest, clockVars, envVars
<1>12. ASSUME NEW r \in OutReqs, RequestTimeout(r) PROVE FlagTypes'
  <2>1. /\ UNCHANGED <<reading, writeFailed, completed, silence, frames, envVars>> /\ failing' = TRUE
        /\ running' \in {running, FALSE} /\ disposals' \in {disposals, disposals + 1}
    BY <1>12 DEF RequestTimeout, StartDispose
  <2> QED
    BY <1>b, <2>1 DEF envVars
<1>13. CASE HealthCheck \/ ServiceDisposes
  <2>1. /\ UNCHANGED <<reading, writeFailed, completed, clockVars, open, relay>>
        /\ running' = FALSE /\ disposals' = disposals + 1 /\ stopped' \in {stopped, TRUE}
    BY <1>13 DEF HealthCheck, ServiceDisposes, StartDispose, envVars
  <2> QED
    BY <1>b, <2>1 DEF clockVars
<1>14. CASE EndDispose
  BY <1>b, <1>14 DEF EndDispose, clockVars, envVars
<1>15. CASE Tick
  BY <1>b, <1>15 DEF Tick, envVars
<1>16. CASE PipeCloses \/ RelayFallsSilent \/ UNCHANGED vars
  BY <1>16 DEF PipeCloses, RelayFallsSilent, vars, clockVars, envVars
<1> QED
  BY <1>2, <1>3, <1>4, <1>5, <1>6, <1>7, <1>8, <1>9, <1>10, <1>11, <1>12, <1>13, <1>14, <1>15, <1>16
     DEF Next, Read, Request

-----------------------------------------------------------------------------
(* The theorems.                                                           *)

\* A protocol that has just started is in order.
LEMMA InitIInv == Init => IInv
<1> SUFFICES ASSUME Init PROVE IInv
  OBVIOUS
<1> USE ProtocolAssumption DEF Init
<1>1. FlagTypes
  <2>1. 0 \in 0..Timeout
    OBVIOUS
  <2> QED
    BY <2>1 DEF FlagTypes
<1>2. ReadTypes
  <2>1. 0 \in 0..MaxStreamSize
    OBVIOUS
  <2> QED
    BY <2>1 DEF ReadTypes
<1>3. ReadInv
  BY <1>2 DEF ReadInv, NoReadyMessageWaits
<1>4. DispatchInv
  BY DEF DispatchInv, DispatchTypes, SlotsMatchHandlers, AnsweredOnce
<1>5. RequestInv
  <2>1. age \in [OutReqs -> 0..Timeout]
    <3>1. 0 \in 0..Timeout
      OBVIOUS
    <3> QED
      BY <3>1
  <2> QED
    BY <2>1 DEF RequestInv, RequestTypes
<1>6. QueueInv
  <2>1. writeQueue \in Seq(Frames) /\ DOMAIN writeQueue = {}
    OBVIOUS
  <2> QED
    BY <2>1 DEF QueueInv
<1>7. RetainedBounded
  <2>1. Bytes(sizes, Streams) = {} /\ Bytes(inflightSizes, InReqs) = {}
    BY BytesAre
  <2>2. SumOver(sizes, Streams) = Cardinality(Bytes(sizes, Streams))
        /\ SumOver(inflightSizes, InReqs) = Cardinality(Bytes(inflightSizes, InReqs))
    BY DEF SumOver, Bytes
  <2>3. SumOver(sizes, Streams) = 0 /\ SumOver(inflightSizes, InReqs) = 0
    BY <2>1, <2>2, FS_EmptySet
  <2> QED
    BY <2>3 DEF RetainedBounded, Retained, TotalStreamBytes, InflightBytes
<1> QED
  BY <1>1, <1>3, <1>4, <1>5, <1>6, <1>7 DEF IInv

\* Every step keeps the invariant.
LEMMA StepIInv == IInv /\ [Next]_vars => IInv'
<1> SUFFICES ASSUME IInv, [Next]_vars PROVE IInv'
  OBVIOUS
<1>1. Effects
  BY StepEffects
<1>2. RequestInv' /\ QueueInv' /\ DispatchInv'
  BY <1>1, RequestStep, QueueStep, DispatchStep
<1>3. ReadInv' /\ FlagTypes'
  BY ReadStep, FlagStep
<1>4. RetainedBounded'
  BY <1>2, <1>3, BudgetStep DEF ReadInv, DispatchInv
<1> QED
  BY <1>2, <1>3, <1>4 DEF IInv

\* The read loop, the dispatches, the calls of sendRequest, the write queue
\* and the memory budget agree in every state (IInv).
THEOREM IInvHolds == Spec => []IInv
<1> QED
  BY InitIInv, StepIInv, PTL DEF Spec

\* TypeOK holds in every state.
THEOREM TypeCorrect == Spec => []TypeOK
<1> QED
  BY IInvHolds, IInvTypes, PTL

\* No message whose streams are complete is left waiting by the read loop,
\* whichever of its descriptor and its streams came last (NoReadyMessageWaits).
THEOREM NothingReadyWaits == Spec => []NoReadyMessageWaits
<1>1. IInv => NoReadyMessageWaits
  BY DEF IInv, ReadInv
<1> QED
  BY <1>1, IInvHolds, PTL

\* The buffers and the running handlers together never hold more bytes than
\* the budget, and every slot of a dispatch is given back (BudgetsHold).
THEOREM BudgetsAreKept == Spec => []BudgetsHold
<1>1. IInv => BudgetsHold
  BY DEF IInv, DispatchInv, BudgetsHold
<1> QED
  BY <1>1, IInvHolds, PTL

\* A request of the peer is answered at most once, and exactly once when its
\* handler has ended without an abort and the pipe works (AnsweredOnce).
THEOREM OneAnswer == Spec => []AnsweredOnce
<1>1. IInv => AnsweredOnce
  BY DEF IInv, DispatchInv
<1> QED
  BY <1>1, IInvHolds, PTL

\* A call of sendRequest that waits is in the map of pending requests, where a
\* timer or a teardown finds it (NoOrphanRequest).
THEOREM NoOrphans == Spec => []NoOrphanRequest
<1>1. IInv => NoOrphanRequest
  BY DEF IInv, RequestInv, NoOrphanRequest
<1> QED
  BY <1>1, IInvHolds, PTL

-----------------------------------------------------------------------------
(* The refinement of PipeRequests.                                         *)

\* What the caller of sendRequest sees of every call.
CallStates == [r \in OutReqs |-> CallState(r)]

\* What the caller of a request sees of its state.
LEMMA StatesOfCalls ==
  ASSUME NEW r \in OutReqs
  PROVE  /\ sender[r] = "idle" => CallStates[r] = "idle"
         /\ sender[r] = "writing" => CallStates[r] = "sending"
         /\ sender[r] = "awaiting" => CallStates[r] = "waiting"
         /\ sender[r] = "returned" => CallStates[r] = "ok"
         /\ sender[r] = "threw" => CallStates[r] = "failed"
BY DEF CallStates, CallState

\* The same, after a step.
LEMMA NextStatesOfCalls ==
  ASSUME NEW r \in OutReqs
  PROVE  /\ sender'[r] = "idle" => CallStates'[r] = "idle"
         /\ sender'[r] = "writing" => CallStates'[r] = "sending"
         /\ sender'[r] = "awaiting" => CallStates'[r] = "waiting"
         /\ sender'[r] = "returned" => CallStates'[r] = "ok"
         /\ sender'[r] = "threw" => CallStates'[r] = "failed"
BY DEF CallStates, CallState

\* The states of the calls are a function of the requests.
LEMMA CallStatesIsFunction ==
  /\ CallStates = [r \in OutReqs |-> CallStates[r]]
  /\ CallStates' = [r \in OutReqs |-> CallStates'[r]]
BY DEF CallStates

\* A step that leaves all callers where they are is no step of theirs.
LEMMA SameCalls ==
  ASSUME RequestTypes, \A r \in OutReqs : sender'[r] = sender[r]
  PROVE  CallStates' = CallStates
<1>1. \A r \in OutReqs : sender[r] \in {"idle", "writing", "awaiting", "returned", "threw"}
  BY DEF RequestTypes
<1>2. \A r \in OutReqs : CallStates'[r] = CallStates[r]
  BY <1>1, StatesOfCalls, NextStatesOfCalls
<1> QED
  BY <1>2, CallStatesIsFunction

\* Calls that waited fail together, and nothing else changes.
LEMMA FailedCalls ==
  ASSUME RequestTypes, NEW rs \in SUBSET OutReqs,
         \A r \in OutReqs : IF r \in rs THEN sender[r] \in {"writing", "awaiting"} /\ sender'[r] = "threw"
                                        ELSE sender'[r] = sender[r]
  PROVE  Calls!Next
<1>1. \A r \in OutReqs : sender[r] \in {"idle", "writing", "awaiting", "returned", "threw"}
  BY DEF RequestTypes
<1>2. \A r \in rs : CallStates[r] \in {"sending", "waiting"}
  BY StatesOfCalls
<1>3. \A r \in OutReqs : CallStates'[r] = IF r \in rs THEN "failed" ELSE CallStates[r]
  BY <1>1, StatesOfCalls, NextStatesOfCalls
<1>4. CallStates' = [r \in OutReqs |-> IF r \in rs THEN "failed" ELSE CallStates[r]]
  BY <1>3, CallStatesIsFunction
<1>5. Calls!Fail(rs)
  BY <1>2, <1>4 DEF Calls!Fail, Calls!Open, CallStates
<1> QED
  BY <1>5 DEF Calls!Next

\* One call goes on in a step: it has written its frames, returns the response,
\* begins, or fails at once.
LEMMA OneCall ==
  ASSUME RequestTypes, NEW q \in OutReqs, \A r \in OutReqs \ {q} : sender'[r] = sender[r],
         \/ sender[q] \in {"writing", "awaiting"} /\ sender'[q] = "returned"
         \/ sender[q] = "writing" /\ sender'[q] = "awaiting"
         \/ sender[q] = "idle" /\ sender'[q] \in {"writing", "threw"}
  PROVE  Calls!Next
<1>1. \A r \in OutReqs : sender[r] \in {"idle", "writing", "awaiting", "returned", "threw"}
  BY DEF RequestTypes
<1>2. \A r \in OutReqs \ {q} : CallStates'[r] = CallStates[r]
  BY <1>1, StatesOfCalls, NextStatesOfCalls
<1>3. CallStates' = [CallStates EXCEPT ![q] = CallStates'[q]]
  BY <1>2, CallStatesIsFunction
<1>4. CASE sender[q] \in {"writing", "awaiting"} /\ sender'[q] = "returned"
  <2>1. CallStates[q] \in {"sending", "waiting"} /\ CallStates'[q] = "ok"
    BY <1>4, StatesOfCalls, NextStatesOfCalls
  <2>2. Calls!Resolve(q)
    BY <1>3, <2>1 DEF Calls!Resolve, Calls!Open, CallStates
  <2> QED
    BY <2>2 DEF Calls!Next
<1>5. CASE sender[q] = "idle" /\ sender'[q] = "writing"
  <2>1. CallStates[q] = "idle" /\ CallStates'[q] = "sending"
    BY <1>5, StatesOfCalls, NextStatesOfCalls
  <2>2. Calls!Issue(q)
    BY <1>3, <2>1 DEF Calls!Issue, CallStates
  <2> QED
    BY <2>2 DEF Calls!Next
<1>6. CASE sender[q] = "idle" /\ sender'[q] = "threw"
  <2>1. CallStates[q] = "idle" /\ CallStates'[q] = "failed"
    BY <1>6, StatesOfCalls, NextStatesOfCalls
  <2>2. Calls!Refuse(q)
    BY <1>3, <2>1 DEF Calls!Refuse, CallStates
  <2> QED
    BY <2>2 DEF Calls!Next
<1>7. CASE sender[q] = "writing" /\ sender'[q] = "awaiting"
  <2>1. CallStates[q] = "sending" /\ CallStates'[q] = "waiting"
    BY <1>7, StatesOfCalls, NextStatesOfCalls
  <2>2. Calls!Sent(q)
    BY <1>3, <2>1 DEF Calls!Sent, CallStates
  <2> QED
    BY <2>2 DEF Calls!Next
<1> QED
  BY <1>4, <1>5, <1>6, <1>7

\* Every step of the protocol is a step of PipeRequests or leaves the calls as
\* they are.
LEMMA StepRefines == IInv /\ [Next]_vars => Calls!Next \/ CallStates' = CallStates
<1> SUFFICES ASSUME IInv, RequestEffect PROVE Calls!Next \/ CallStates' = CallStates
  BY StepEffects DEF Effects
<1>0. RequestTypes /\ RequestInv /\ QueueInv
  BY DEF IInv, RequestInv
<1>1. CASE UNCHANGED <<requestVars, age>> \/ Tick
  BY <1>0, <1>1, SameCalls DEF requestVars, Tick
<1>2. ASSUME NEW rs \in SUBSET pendingRequests, NEW how \in {"rejected", "timeout"}, Settle(rs, how)
      PROVE  Calls!Next
  <2> DEFINE ended == {r \in rs : sender[r] = "awaiting"}
  <2>1. ended \in SUBSET OutReqs
    BY <1>0 DEF RequestTypes
  <2>2. \A r \in OutReqs : IF r \in ended THEN sender[r] \in {"writing", "awaiting"} /\ sender'[r] = "threw"
                                         ELSE sender'[r] = sender[r]
    BY <1>2 DEF Settle, Outcome
  <2> HIDE DEF ended
  <2> QED
    BY <1>0, <2>1, <2>2, FailedCalls
<1>3. ASSUME NEW q \in OutReqs, CompleteResponse(q) PROVE Calls!Next \/ CallStates' = CallStates
  <2>1. \A r \in OutReqs : sender'[r] = IF r \in pendingRequests \intersect {q} /\ sender[r] = "awaiting"
                                          THEN "returned" ELSE sender[r]
    BY <1>3 DEF CompleteResponse, Settle, Outcome
  <2>2. CASE q \in pendingRequests /\ sender[q] = "awaiting"
    BY <1>0, <2>1, <2>2, OneCall
  <2>3. CASE ~(q \in pendingRequests /\ sender[q] = "awaiting")
    BY <1>0, <2>1, <2>3, SameCalls
  <2> QED
    BY <2>2, <2>3
<1>4. ASSUME NEW q \in OutReqs, NEW body \in BOOLEAN, SendRequest(q, body) PROVE Calls!Next
  <2>1. /\ sender[q] = "idle" /\ sender'[q] \in {"writing", "threw"}
        /\ \A r \in OutReqs \ {q} : sender'[r] = sender[r]
    BY <1>0, <1>4 DEF SendRequest, RequestTypes
  <2> QED
    BY <1>0, <2>1, OneCall
<1>5. CASE WriteDone
  <2> DEFINE f == Head(writeQueue)
  <2>1. /\ writeQueue # <<>>
        /\ \A r \in OutReqs : sender'[r] =
             IF r = f.id /\ ~f.more
               THEN IF promise[r] = "pending" THEN "awaiting" ELSE Outcome(promise[r])
               ELSE sender[r]
    BY <1>5 DEF WriteDone
  <2>2. f.id \in OutReqs => sender[f.id] = "writing"
    <3>1. 1 \in DOMAIN writeQueue /\ f = writeQueue[1]
      BY <1>0, <2>1, LenProperties, EmptySeq, HeadTailProperties DEF QueueInv
    <3> QED
      BY <1>0, <3>1 DEF QueueInv
  <2> HIDE DEF f
  <2>3. CASE f.id \notin OutReqs \/ f.more
    BY <1>0, <2>1, <2>3, SameCalls
  <2>4. CASE f.id \in OutReqs /\ ~f.more /\ promise[f.id] = "pending"
    BY <1>0, <2>1, <2>2, <2>4, OneCall
  <2>5. CASE f.id \in OutReqs /\ ~f.more /\ promise[f.id] = "resolved"
    BY <1>0, <2>1, <2>2, <2>5, OneCall DEF Outcome
  <2>6. CASE f.id \in OutReqs /\ ~f.more /\ promise[f.id] \notin {"pending", "resolved"}
    <3>1. \A r \in OutReqs : IF r \in {f.id}
                               THEN sender[r] \in {"writing", "awaiting"} /\ sender'[r] = "threw"
                               ELSE sender'[r] = sender[r]
      BY <2>1, <2>2, <2>6 DEF Outcome
    <3> QED
      BY <1>0, <2>6, <3>1, FailedCalls
  <2> QED
    BY <2>3, <2>4, <2>5, <2>6
<1>6. CASE WriteFails
  <2> DEFINE ended == {r \in OutReqs : sender[r] \in {"writing", "awaiting"}}
  <2>1. \A r \in OutReqs : IF r \in ended THEN sender[r] \in {"writing", "awaiting"} /\ sender'[r] = "threw"
                                         ELSE sender'[r] = sender[r]
    BY <1>6 DEF WriteFails
  <2>2. ended \in SUBSET OutReqs
    OBVIOUS
  <2> HIDE DEF ended
  <2> QED
    BY <1>0, <2>1, <2>2, FailedCalls
<1> QED
  BY <1>1, <1>2, <1>3, <1>4, <1>5, <1>6 DEF RequestEffect

\* sendRequest implements the safety part of PipeRequests: a call is issued
\* once, is sent at most once and ends once, with its own response or an error.
THEOREM CallsAreRequests == Spec => Calls!SafeSpec
<1>1. Init => Calls!Init
  BY DEF Init, Calls!Init, CallState
<1>2. IInv /\ [Next]_vars => [Calls!Next]_CallStates
  BY StepRefines
<1> QED
  BY <1>1, <1>2, IInvHolds, PTL DEF Spec, Calls!SafeSpec, CallStates

=============================================================================
