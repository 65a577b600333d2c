-------------------------- MODULE NamedPipeProtocol --------------------------
(***************************************************************************)
(* One end of the named-pipe framing protocol                              *)
(* (packages/agents-hosting-directline-namedpipes/src/protocol):           *)
(*   - the read loop reassembles requests and responses from frames that   *)
(*     arrive in any order, and dispatches complete requests;              *)
(*   - sendRequest correlates a response with the request it answers;      *)
(*   - one write queue serialises the frames of all writers;               *)
(*   - timers, a health watchdog, write failures, cancel frames and        *)
(*     dispose tear requests down.                                         *)
(* The peer and the pipe are the environment: the peer sends any frame, in *)
(* any order, or falls silent; the pipe may close at any time.             *)
(*                                                                         *)
(* A handler of the event loop runs to its next await, so each action is   *)
(* one such run.  A read loop that leaves its while is at "stopping": its  *)
(* finally block runs before anything else does.                           *)
(***************************************************************************)
EXTENDS Integers, Sequences, FiniteSets

CONSTANTS
  InReqs,            \* ids of requests the peer sends
  OutReqs,           \* ids of requests sent by sendRequest
  Streams,           \* ids of streams the peer sends
  StreamsOf,         \* the streams a message of the peer refers to
  Declared,          \* the length its descriptor declares for a stream, or None
  None,
  MaxInflight,       \* MAX_INFLIGHT_DISPATCHES
  MaxStreamBuffers,  \* MAX_STREAM_BUFFERS
  MaxStreamSize,     \* MAX_STREAM_SIZE
  MaxRetained,       \* MAX_BUFFERED_AND_INFLIGHT_BYTES
  Timeout,           \* REQUEST_TIMEOUT_MS and SILENCE_THRESHOLD_MS, in ticks
  MaxChunk,          \* bound: payload of one stream frame
  MaxFrames          \* bound: frames the peer sends over a behaviour

Messages == InReqs \union OutReqs

\* A message's ids are GUIDs: no stream belongs to two messages.
ASSUME ProtocolAssumption ==
  /\ InReqs \intersect OutReqs = {}
  /\ StreamsOf \in [Messages -> SUBSET Streams]
  /\ \A m, n \in Messages : m # n => StreamsOf[m] \intersect StreamsOf[n] = {}
  /\ Declared \in [Streams -> Nat \union {None}]
  /\ IsFiniteSet(InReqs) /\ IsFiniteSet(Streams)
  /\ None \notin Nat \union Messages \union Streams
  /\ MaxInflight \in Nat /\ MaxStreamBuffers \in Nat /\ MaxStreamSize \in Nat
  /\ MaxRetained \in Nat /\ Timeout \in Nat \ {0} /\ MaxChunk \in Nat /\ MaxFrames \in Nat

VARIABLES
  reading,            \* the read loop: at readExact of a header, draining, ...
  drain,              \* the stream and received bytes of a drain under way
  running,            \* _running
  writeFailed,        \* _writeFailed
  completed,          \* the completion promise is resolved
  disposals,          \* calls of dispose between their await and their end
  sizes,              \* streamSizes, and streamBuffers: 0 where there is no entry
  completedStreams,   \* completedStreams
  expected,           \* expectedStreamLengths
  pendingDispatches,  \* pendingDispatches: requests that wait for streams
  pendingResponses,   \* pendingResponses: responses that wait for streams
  received,           \* history: requests whose frame was handled
  inflight,           \* _inflightDispatches
  inflightSizes,      \* _inflightDispatchSizes, 0 where there is no entry
  handler,            \* onRequestReceived and its continuation, per request
  aborted,            \* requests whose AbortController is aborted
  answers,            \* history: response frames queued for each request
  pendingRequests,    \* _pendingRequests
  sender,             \* where each sendRequest call is
  promise,            \* the response promise of each sendRequest call
  age,                \* ticks since the request joined _pendingRequests
  writeQueue,         \* frames chained on _writePromise, the head being written
  silence,            \* ticks since _lastFrameAt
  failing,            \* _consecutiveOutboundFailures > 0
  open,               \* environment: the sockets are open
  relay,              \* environment: the peer is alive, or silent for good
  stopped,            \* environment: the hosting service called dispose
  frames              \* history: frames received, for the bound

readVars     == <<sizes, completedStreams, expected, pendingDispatches, pendingResponses>>
dispatchVars == <<inflight, inflightSizes, handler, aborted>>
requestVars  == <<pendingRequests, sender, promise>>
clockVars    == <<silence, failing, frames>>
envVars      == <<open, relay, stopped>>
vars == <<reading, drain, running, writeFailed, completed, disposals, readVars, received,
          dispatchVars, answers, requestVars, age, writeQueue, clockVars, envVars>>

Frame(type, id, more) == [type |-> type, id |-> id, more |-> more]

Init ==
  /\ reading = "header" /\ drain = [stream |-> None, bytes |-> 0]
  /\ running = TRUE /\ writeFailed = FALSE /\ completed = FALSE /\ disposals = 0
  /\ sizes = [s \in Streams |-> 0]
  /\ completedStreams = {}
  /\ expected = [s \in Streams |-> None]
  /\ pendingDispatches = {} /\ pendingResponses = {} /\ received = {}
  /\ inflight = {} /\ inflightSizes = [i \in InReqs |-> 0]
  /\ handler = [i \in InReqs |-> "none"] /\ aborted = {}
  /\ answers = [i \in InReqs |-> 0]
  /\ pendingRequests = {}
  /\ sender = [r \in OutReqs |-> "idle"]
  /\ promise = [r \in OutReqs |-> "none"]
  /\ age = [r \in OutReqs |-> 0]
  /\ writeQueue = <<>>
  /\ silence = 0 /\ failing = FALSE /\ frames = 0
  /\ open = TRUE /\ relay = "alive" /\ stopped = FALSE

-----------------------------------------------------------------------------
(* The write layer.                                                        *)

\* _sendSingleFrame chains a frame on the write queue, or rejects at once.
QueueFrame(f) == writeQueue' = IF writeFailed THEN writeQueue ELSE Append(writeQueue, f)

-----------------------------------------------------------------------------
(* Outbound requests: settling and failing.                                *)

Outcome(how) == IF how = "resolved" THEN "returned" ELSE "threw"

\* The promises of rs settle.  A call that awaits its response ends with it;
\* one that still writes frames ends when its last write is done.
Settle(rs, how) ==
  /\ pendingRequests' = pendingRequests \ rs
  /\ promise' = [r \in OutReqs |-> IF r \in rs THEN how ELSE promise[r]]
  /\ sender' = [r \in OutReqs |-> IF r \in rs /\ sender[r] = "awaiting"
                                    THEN Outcome(how) ELSE sender[r]]

\* Mutant: the map is cleared and nobody is told.
FailPendingRequestsSilently ==
  /\ pendingRequests' = {}
  /\ UNCHANGED <<promise, sender>>

FailPendingRequests == Settle(pendingRequests, "rejected")

\* A response for a request that is no longer pending is dropped.
CompleteResponse(r) == Settle(pendingRequests \intersect {r}, "resolved")
RejectRequest(r) == Settle(pendingRequests \intersect {r}, "rejected")

-----------------------------------------------------------------------------
(* Stream reassembly.                                                      *)

\* The sum of size[x] over ids, as the number of bytes <<x, k>> with k <= size[x].
SumOver(size, ids) == Cardinality(UNION {{x} \X (1..size[x]) : x \in ids})

TotalStreamBytes == SumOver(sizes, Streams)
InflightBytes    == SumOver(inflightSizes, InReqs)
Retained         == TotalStreamBytes + InflightBytes
StreamBuffers    == {s \in Streams : sizes[s] > 0}

AllStreamsComplete(m, done) == StreamsOf[m] \subseteq done

TrackedLength(s) ==
  IF Declared[s] = None THEN expected[s]
  ELSE IF Declared[s] > MaxStreamSize THEN MaxStreamSize ELSE Declared[s]

\* The descriptors of m are tracked and m waits for its streams.
TrackExpectedStreamLengths(m) ==
  /\ expected' = [s \in Streams |-> IF s \in StreamsOf[m] THEN TrackedLength(s) ELSE expected[s]]
  /\ UNCHANGED <<sizes, completedStreams>>

\* The streams of ss are taken or removed, after s has grown to n bytes and,
\* if done, is complete.
Reassemble(ss, done, grown) ==
  /\ sizes' = [s \in Streams |-> IF s \in ss THEN 0 ELSE grown[s]]
  /\ completedStreams' = done \ ss
  /\ expected' = [s \in Streams |-> IF s \in ss THEN None ELSE expected[s]]

RemoveStreams(ss) == Reassemble(ss, completedStreams, sizes)

\* What _extractRequestPayload returns is its size.
PayloadSize(m, grown) == SumOver(grown, StreamsOf[m])

-----------------------------------------------------------------------------
(* Dispatch of a complete request.                                         *)

Overloaded(size) ==
  \/ Cardinality(inflight) >= MaxInflight
  \/ InflightBytes + size > MaxRetained

\* _startDispatch: a request over a limit is answered 503 and never handled.
StartDispatch(i, size) ==
  IF Overloaded(size)
    THEN /\ answers' = [answers EXCEPT ![i] = @ + 1]
         /\ QueueFrame(Frame("B", i, FALSE))
         /\ UNCHANGED dispatchVars
    ELSE /\ inflight' = inflight \union {i}
         /\ inflightSizes' = [inflightSizes EXCEPT ![i] = size]
         /\ handler' = [handler EXCEPT ![i] = "running"]
         /\ UNCHANGED <<aborted, answers, writeQueue>>

NoDispatch == UNCHANGED <<dispatchVars, answers, writeQueue>>

Abort(ids) ==
  /\ aborted' = aborted \union ids
  /\ inflight' = inflight \ ids
  /\ inflightSizes' = [i \in InReqs |-> IF i \in ids THEN 0 ELSE inflightSizes[i]]
  /\ UNCHANGED handler

-----------------------------------------------------------------------------
(* The read loop: one action per frame type.                               *)

\* readExact has returned a frame of the peer.
FrameArrives ==
  /\ reading = "header"
  /\ open /\ relay = "alive" /\ frames < MaxFrames
  /\ frames' = frames + 1
  /\ silence' = 0
  /\ failing' = FALSE
  /\ UNCHANGED <<running, writeFailed, completed, disposals, age, envVars>>

\* The while condition, after a frame was handled.
BackToHeader ==
  /\ reading' = IF running THEN "header" ELSE "stopping"
  /\ UNCHANGED drain

\* A break or an exception.
LeaveLoop ==
  /\ reading' = "stopping"
  /\ UNCHANGED <<drain, readVars, dispatchVars, answers, requestVars, writeQueue, received>>

RecvRequest(i) ==
  /\ i \notin received
  /\ FrameArrives /\ BackToHeader
  /\ received' = received \union {i}
  /\ IF AllStreamsComplete(i, completedStreams)
       THEN /\ RemoveStreams(StreamsOf[i])
            /\ StartDispatch(i, PayloadSize(i, sizes))
            /\ UNCHANGED pendingDispatches
       ELSE /\ TrackExpectedStreamLengths(i)
            /\ pendingDispatches' = pendingDispatches \union {i}
            /\ NoDispatch
  /\ UNCHANGED <<pendingResponses, requestVars>>

\* The peer answers a request whose frame has left the write queue.
Answerable(r) ==
  /\ sender[r] # "idle"
  /\ \A k \in DOMAIN writeQueue : writeQueue[k] # Frame("A", r, TRUE)
                               /\ writeQueue[k] # Frame("A", r, FALSE)

RecvResponse(r) ==
  /\ Answerable(r)
  /\ FrameArrives /\ BackToHeader
  /\ IF AllStreamsComplete(r, completedStreams)
       THEN /\ RemoveStreams(StreamsOf[r])
            /\ CompleteResponse(r)
            /\ UNCHANGED pendingResponses
       ELSE /\ TrackExpectedStreamLengths(r)
            /\ pendingResponses' = pendingResponses \union {r}
            /\ UNCHANGED requestVars
  /\ NoDispatch
  /\ UNCHANGED <<pendingDispatches, received>>

\* A response without a payload is a protocol violation.
RecvEmptyResponse(r) ==
  /\ Answerable(r)
  /\ FrameArrives /\ BackToHeader
  /\ RejectRequest(r)
  /\ NoDispatch
  /\ UNCHANGED <<readVars, received>>

\* Mutant: no limit for a single stream.
StreamRefusedByBudget(s, n) ==
  \/ Cardinality(StreamBuffers) >= MaxStreamBuffers /\ sizes[s] = 0
  \/ n > 0 /\ Retained + n > MaxRetained

StreamRefused(s, n) ==
  \/ Cardinality(StreamBuffers) >= MaxStreamBuffers /\ sizes[s] = 0
  \/ n > 0 /\ sizes[s] + n > MaxStreamSize
  \/ n > 0 /\ Retained + n > MaxRetained

\* Mutant: completeness is examined only when the message itself arrives.
StreamAcceptedOnly(s, n, end) ==
  /\ Reassemble({}, IF end THEN completedStreams \union {s} ELSE completedStreams,
                [sizes EXCEPT ![s] = @ + n])
  /\ NoDispatch
  /\ UNCHANGED <<pendingDispatches, pendingResponses, requestVars>>

\* The frame is buffered; then the message it completes, if any, is taken:
\* _tryDispatchPendingRequests and _tryCompletePendingResponses.
StreamAccepted(s, n, end) ==
  LET grown == [sizes EXCEPT ![s] = @ + n]
      done  == IF end THEN completedStreams \union {s} ELSE completedStreams
      Ready(m) == AllStreamsComplete(m, done)
  IN \/ \E i \in pendingDispatches :
          /\ Ready(i)
          /\ Reassemble(StreamsOf[i], done, grown)
          /\ StartDispatch(i, PayloadSize(i, grown))
          /\ pendingDispatches' = pendingDispatches \ {i}
          /\ UNCHANGED <<pendingResponses, requestVars>>
     \/ \E r \in pendingResponses :
          /\ Ready(r)
          /\ Reassemble(StreamsOf[r], done, grown)
          /\ CompleteResponse(r)
          /\ pendingResponses' = pendingResponses \ {r}
          /\ NoDispatch
          /\ UNCHANGED pendingDispatches
     \/ /\ \A m \in pendingDispatches \union pendingResponses : ~Ready(m)
        /\ Reassemble({}, done, grown)
        /\ NoDispatch
        /\ UNCHANGED <<pendingDispatches, pendingResponses, requestVars>>

HandleStreamFrame(s, n, end) ==
  IF StreamRefused(s, n)
    THEN LeaveLoop
    ELSE StreamAccepted(s, n, end) /\ BackToHeader /\ UNCHANGED received

\* The last frame of a stream is its only one and is short: the peer has
\* written the missing bytes after it, without a frame.
NeedsDrain(s, n, end) ==
  end /\ expected[s] # None /\ sizes[s] = 0 /\ n < expected[s]

RecvStream(s, n, end) ==
  /\ FrameArrives
  /\ IF ~NeedsDrain(s, n, end)
       THEN HandleStreamFrame(s, n, end)
       ELSE IF Retained + expected[s] > MaxRetained
         THEN LeaveLoop
         ELSE /\ reading' = "draining"
              /\ drain' = [stream |-> s, bytes |-> expected[s]]
              /\ UNCHANGED <<readVars, dispatchVars, answers, requestVars, writeQueue, received>>

\* readExact has returned the missing bytes.
DrainDone ==
  /\ reading = "draining" /\ open /\ relay = "alive"
  /\ HandleStreamFrame(drain.stream, drain.bytes, TRUE)
  /\ UNCHANGED <<running, writeFailed, completed, disposals, age, clockVars, envVars>>

\* A request id aborts its handler; a stream id drops the messages that refer
\* to it together with all their streams.
RecvCancelStream(x) ==
  LET dropped == {m \in pendingDispatches \union pendingResponses : x \in StreamsOf[m]}
      gone    == ({x} \intersect Streams) \union UNION {StreamsOf[m] : m \in dropped}
  IN /\ FrameArrives /\ BackToHeader
     /\ RemoveStreams(gone)
     /\ pendingDispatches' = pendingDispatches \ dropped
     /\ pendingResponses' = pendingResponses \ dropped
     /\ Settle(pendingRequests \intersect dropped, "rejected")
     /\ Abort(inflight \intersect {x})
     /\ UNCHANGED <<answers, writeQueue, received>>

RecvCancelAll ==
  /\ FrameArrives /\ BackToHeader
  /\ RemoveStreams(Streams)
  /\ pendingDispatches' = {} /\ pendingResponses' = {}
  /\ Abort(inflight)
  /\ FailPendingRequests
  /\ UNCHANGED <<answers, writeQueue, received>>

\* An unknown type, or a request frame without a payload.
RecvIgnored ==
  /\ FrameArrives /\ BackToHeader
  /\ NoDispatch
  /\ UNCHANGED <<readVars, requestVars, received>>

\* A payload over the limit, a header or a JSON text that does not parse.
RecvMalformed == FrameArrives /\ LeaveLoop

\* readExact reports a closed pipe, for a header, a payload or a drain.
ReadCloses ==
  /\ reading \in {"header", "draining"} /\ ~open
  /\ LeaveLoop
  /\ UNCHANGED <<running, writeFailed, completed, disposals, age, clockVars, envVars>>

\* The finally block of the read loop.
EndLoop ==
  /\ reading = "stopping"
  /\ reading' = "ended"
  /\ running' = FALSE
  /\ completed' = TRUE
  /\ FailPendingRequests
  /\ RemoveStreams(Streams)
  /\ pendingDispatches' = {} /\ pendingResponses' = {}
  /\ UNCHANGED <<drain, writeFailed, disposals, received, dispatchVars, answers, age,
                 writeQueue, clockVars, envVars>>

-----------------------------------------------------------------------------
(* The end of a dispatch.                                                  *)

\* Mutant: the size of a finished dispatch is never removed.
FinallyLeavesSize(ids) ==
  /\ inflight' = inflight \ ids
  /\ handler' = [i \in InReqs |-> IF i \in ids THEN "done" ELSE handler[i]]
  /\ UNCHANGED <<aborted, inflightSizes>>

Finally(ids) ==
  /\ inflight' = inflight \ ids
  /\ inflightSizes' = [i \in InReqs |-> IF i \in ids THEN 0 ELSE inflightSizes[i]]
  /\ handler' = [i \in InReqs |-> IF i \in ids THEN "done" ELSE handler[i]]
  /\ UNCHANGED aborted

Respond(i, body) ==
  IF writeFailed
    THEN Finally({i}) /\ UNCHANGED <<answers, writeQueue>>
    ELSE /\ QueueFrame(Frame("B", i, body))
         /\ answers' = [answers EXCEPT ![i] = @ + 1]
         /\ handler' = [handler EXCEPT ![i] = "responding"]
         /\ UNCHANGED <<inflight, inflightSizes, aborted>>

\* The handler resolves: its response is sent even if it was aborted.
HandlerReturns(i, body) ==
  /\ handler[i] = "running"
  /\ Respond(i, body)
  /\ UNCHANGED <<reading, drain, running, writeFailed, completed, disposals, readVars, received,
                 requestVars, age, clockVars, envVars>>

\* Mutant: a handler that rejects is only logged.
HandlerThrowsSilently(i) ==
  /\ handler[i] = "running"
  /\ Finally({i}) /\ UNCHANGED <<answers, writeQueue>>
  /\ UNCHANGED <<reading, drain, running, writeFailed, completed, disposals, readVars, received,
                 requestVars, age, clockVars, envVars>>

\* The handler rejects: an aborted request gets no response, any other a 500.
HandlerThrows(i) ==
  /\ handler[i] = "running"
  /\ IF i \in aborted
       THEN Finally({i}) /\ UNCHANGED <<answers, writeQueue>>
       ELSE Respond(i, FALSE)
  /\ UNCHANGED <<reading, drain, running, writeFailed, completed, disposals, readVars, received,
                 requestVars, age, clockVars, envVars>>

-----------------------------------------------------------------------------
(* Writes complete or fail.                                                *)

\* The head frame is written and its writer goes on: to its body frame, to the
\* wait for a response, or to the finally of its dispatch.
WriteDone ==
  /\ writeQueue # <<>> /\ open
  /\ LET f == Head(writeQueue)
     IN /\ writeQueue' = IF f.more THEN Append(Tail(writeQueue), Frame("S", f.id, FALSE))
                                   ELSE Tail(writeQueue)
        /\ sender' = [r \in OutReqs |->
             IF r = f.id /\ ~f.more
               THEN IF promise[r] = "pending" THEN "awaiting" ELSE Outcome(promise[r])
               ELSE sender[r]]
        /\ Finally({i \in InReqs : i = f.id /\ ~f.more /\ handler[i] = "responding"})
  /\ UNCHANGED <<reading, drain, running, writeFailed, completed, disposals, readVars, received,
                 answers, pendingRequests, promise, age, clockVars, envVars>>

\* A write is rejected: _handleWriteFailure tears the protocol down, and every
\* frame chained behind it is rejected too.  The pipe of the reader may be
\* open still.
WriteFails ==
  /\ writeQueue # <<>>
  /\ writeQueue' = <<>>
  /\ writeFailed' = TRUE
  /\ running' = FALSE
  /\ completed' = TRUE
  /\ open' \in {open, FALSE}
  /\ pendingRequests' = {}
  /\ promise' = [r \in OutReqs |-> IF r \in pendingRequests THEN "rejected" ELSE promise[r]]
  /\ sender' = [r \in OutReqs |-> IF sender[r] \in {"writing", "awaiting"} THEN "threw"
                                                                      ELSE sender[r]]
  /\ Finally({i \in InReqs : handler[i] = "responding"})
  /\ UNCHANGED <<reading, drain, disposals, readVars, received, answers, age, clockVars,
                 relay, stopped>>

-----------------------------------------------------------------------------
(* Outbound requests, their timers and the watchdog.                       *)

\* sendRequest(r), with a body frame or without.
SendRequest(r, body) ==
  /\ sender[r] = "idle"
  /\ IF writeFailed
       THEN /\ sender' = [sender EXCEPT ![r] = "threw"]
            /\ promise' = [promise EXCEPT ![r] = "rejected"]
            /\ UNCHANGED <<pendingRequests, age>>
       ELSE /\ sender' = [sender EXCEPT ![r] = "writing"]
            /\ promise' = [promise EXCEPT ![r] = "pending"]
            /\ pendingRequests' = pendingRequests \union {r}
            /\ age' = [age EXCEPT ![r] = 0]
  /\ QueueFrame(Frame("A", r, body))
  /\ UNCHANGED <<reading, drain, running, writeFailed, completed, disposals, readVars, received,
                 dispatchVars, answers, clockVars, envVars>>

\* dispose up to its await: the CancelAll frame is queued.
StartDispose ==
  /\ running' = FALSE
  /\ disposals' = disposals + 1
  /\ QueueFrame(Frame("X", None, FALSE))

\* Mutant: the watchdog looks at the pending requests only.
UnresponsiveIfPending(pend, fails) ==
  silence >= Timeout /\ \E q \in pend : age[q] >= Timeout

\* _checkHealth.
Unresponsive(pend, fails) ==
  silence >= Timeout /\ (fails \/ \E q \in pend : age[q] >= Timeout)

\* The timer of a request fires, and examines the health of the connection.
RequestTimeout(r) ==
  /\ r \in pendingRequests /\ age[r] >= Timeout
  /\ Settle({r}, "timeout")
  /\ failing' = TRUE
  /\ IF Unresponsive(pendingRequests \ {r}, TRUE)
       THEN StartDispose
       ELSE UNCHANGED <<running, disposals, writeQueue>>
  /\ UNCHANGED <<reading, drain, writeFailed, completed, readVars, received, dispatchVars,
                 answers, age, silence, frames, envVars>>

\* The diagnostic interval.
HealthCheck ==
  /\ running
  /\ Unresponsive(pendingRequests, failing)
  /\ StartDispose
  /\ UNCHANGED <<reading, drain, writeFailed, completed, readVars, received, dispatchVars,
                 answers, requestVars, age, clockVars, envVars>>

\* The rest of dispose: the CancelAll frame is out, or 500 ms have passed.
EndDispose ==
  /\ disposals > 0
  /\ disposals' = disposals - 1
  /\ Abort(inflight)
  /\ FailPendingRequests
  /\ completed' = TRUE
  /\ UNCHANGED <<reading, drain, running, writeFailed, readVars, received, answers, age,
                 writeQueue, clockVars, envVars>>

\* A clock tick: ages are counted up to Timeout.
Tick ==
  /\ silence' = IF silence < Timeout THEN silence + 1 ELSE silence
  /\ age' = [r \in OutReqs |->
              IF r \in pendingRequests /\ age[r] < Timeout THEN age[r] + 1 ELSE age[r]]
  /\ UNCHANGED <<reading, drain, running, writeFailed, completed, disposals, readVars, received,
                 dispatchVars, answers, requestVars, writeQueue, failing, frames, envVars>>

-----------------------------------------------------------------------------
(* The environment: the hosting service, the peer and the pipe.            *)

\* NamedPipeService disconnects: protocol.dispose, then connection.dispose.
ServiceDisposes ==
  /\ ~stopped
  /\ stopped' = TRUE
  /\ StartDispose
  /\ UNCHANGED <<reading, drain, writeFailed, completed, readVars, received, dispatchVars,
                 answers, requestVars, age, clockVars, open, relay>>

PipeCloses ==
  /\ open
  /\ relay = "alive" \/ (stopped /\ disposals = 0)
  /\ open' = FALSE
  /\ UNCHANGED <<reading, drain, running, writeFailed, completed, disposals, readVars, received,
                 dispatchVars, answers, requestVars, age, writeQueue, clockVars, relay, stopped>>

RelayFallsSilent ==
  /\ relay = "alive"
  /\ relay' = "silent"
  /\ UNCHANGED <<reading, drain, running, writeFailed, completed, disposals, readVars, received,
                 dispatchVars, answers, requestVars, age, writeQueue, clockVars, open, stopped>>

-----------------------------------------------------------------------------

Read ==
  \/ \E i \in InReqs : RecvRequest(i)
  \/ \E r \in OutReqs : RecvResponse(r) \/ RecvEmptyResponse(r)
  \/ \E s \in Streams, n \in 0..MaxChunk, end \in BOOLEAN : RecvStream(s, n, end)
  \/ \E x \in Streams \union InReqs : RecvCancelStream(x)
  \/ RecvCancelAll \/ RecvIgnored \/ RecvMalformed
  \/ DrainDone \/ ReadCloses

Dispatch ==
  \E i \in InReqs :
    \/ \E body \in BOOLEAN : HandlerReturns(i, body)
    \/ HandlerThrows(i)

Request ==
  \/ \E r \in OutReqs, body \in BOOLEAN : SendRequest(r, body)
  \/ \E r \in OutReqs : RequestTimeout(r)

Next ==
  \/ EndLoop
  \/ /\ reading # "stopping"
     /\ \/ Read \/ Dispatch \/ Request
        \/ WriteDone \/ WriteFails
        \/ HealthCheck \/ EndDispose \/ Tick
        \/ ServiceDisposes \/ PipeCloses \/ RelayFallsSilent

Spec == Init /\ [][Next]_vars

\* Timers fire, the loop's own steps are taken.
TimerFairness ==
  /\ WF_vars(EndLoop)
  /\ WF_vars(reading # "stopping" /\ Tick)
  /\ WF_vars(reading # "stopping" /\ HealthCheck)
  /\ WF_vars(reading # "stopping" /\ EndDispose)
  /\ \A r \in OutReqs : WF_vars(reading # "stopping" /\ RequestTimeout(r))

\* Once the connection has completed the service disposes and closes the pipes,
\* and a closed pipe rejects the writes under way.  A write to an open pipe
\* takes as long as the peer likes: nothing ends it.
TeardownFairness ==
  /\ WF_vars(reading # "stopping" /\ completed /\ ServiceDisposes)
  /\ WF_vars(reading # "stopping" /\ stopped /\ disposals = 0 /\ PipeCloses)
  /\ WF_vars(reading # "stopping" /\ ~open /\ WriteFails)

FairSpec == Spec /\ TimerFairness /\ TeardownFairness

=============================================================================
