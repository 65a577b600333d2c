----------------------- MODULE NamedPipeProtocolProps -----------------------
(***************************************************************************)
(* What one end of the named-pipe protocol promises.                       *)
(***************************************************************************)
EXTENDS NamedPipeProtocol

TypeOK ==
  /\ reading \in {"header", "draining", "stopping", "ended"}
  /\ drain \in [stream : Streams \union {None}, bytes : Nat]
  /\ running \in BOOLEAN /\ writeFailed \in BOOLEAN /\ completed \in BOOLEAN
  /\ disposals \in Nat
  /\ sizes \in [Streams -> 0..MaxStreamSize]
  /\ completedStreams \subseteq Streams
  /\ expected \in [Streams -> 0..MaxStreamSize \union {None}]
  /\ pendingDispatches \subseteq InReqs /\ pendingResponses \subseteq OutReqs
  /\ received \subseteq InReqs
  /\ inflight \subseteq InReqs
  /\ inflightSizes \in [InReqs -> Nat]
  /\ handler \in [InReqs -> {"none", "running", "responding", "done"}]
  /\ aborted \subseteq InReqs
  /\ answers \in [InReqs -> Nat]
  /\ pendingRequests \subseteq OutReqs
  /\ sender \in [OutReqs -> {"idle", "writing", "awaiting", "returned", "threw"}]
  /\ promise \in [OutReqs -> {"none", "pending", "resolved", "rejected", "timeout"}]
  /\ age \in [OutReqs -> 0..Timeout]
  /\ writeQueue \in Seq([type : {"A", "B", "S", "X"}, id : Messages \union {None}, more : BOOLEAN])
  /\ silence \in 0..Timeout /\ failing \in BOOLEAN /\ frames \in Nat
  /\ open \in BOOLEAN /\ relay \in {"alive", "silent"} /\ stopped \in BOOLEAN

(***************************************************************************)
(* The memory budget holds over both kinds of bytes it counts: those that  *)
(* wait in stream buffers and those a handler was given, although the two  *)
(* are counted in different maps and a drain awaits between its check and  *)
(* the frame it completes.                                                 *)
(***************************************************************************)
RetainedBounded == Retained <= MaxRetained

(***************************************************************************)
(* No complete message is left waiting in the read loop, whichever of its  *)
(* descriptor and its streams came last.                                   *)
(***************************************************************************)
NoReadyMessageWaits ==
  \A m \in pendingDispatches \union pendingResponses : ~AllStreamsComplete(m, completedStreams)

(***************************************************************************)
(* The in-flight map holds exactly the handlers that have not finished and *)
(* were not aborted: no path leaks a slot of MAX_INFLIGHT_DISPATCHES.      *)
(***************************************************************************)
SlotsMatchHandlers ==
  /\ inflight = {i \in InReqs : handler[i] \in {"running", "responding"}} \ aborted
  /\ \A i \in InReqs : i \notin inflight => inflightSizes[i] = 0

(***************************************************************************)
(* Both together: the limits of the read loop hold, and what they count is *)
(* given back.                                                             *)
(***************************************************************************)
BudgetsHold == RetainedBounded /\ SlotsMatchHandlers

(***************************************************************************)
(* A request gets at most one response frame, and exactly one once its     *)
(* handler is done, unless it was aborted or the writer has failed.        *)
(***************************************************************************)
AnsweredOnce ==
  \A i \in InReqs :
    /\ answers[i] <= 1
    /\ handler[i] = "done" /\ i \notin aborted /\ ~writeFailed => answers[i] = 1

(***************************************************************************)
(* A sendRequest call that has no answer yet is in the map, so its timer   *)
(* or a teardown will settle it: no path drops it without telling.         *)
(***************************************************************************)
NoOrphanRequest ==
  \A r \in OutReqs :
    sender[r] \in {"writing", "awaiting"} /\ promise[r] = "pending" <=> r \in pendingRequests

(***************************************************************************)
(* A relay that falls silent while a request is outstanding is noticed:    *)
(* the connection completes, so that the service can reconnect; and the    *)
(* call ends, although the silent relay may never take its frames.         *)
(***************************************************************************)
DeadRelayIsDropped ==
  /\ relay = "silent" /\ pendingRequests # {} ~> completed
  /\ \A r \in OutReqs :
       relay = "silent" /\ r \in pendingRequests ~> sender[r] \in {"returned", "threw"}

(***************************************************************************)
(* The caller's view of sendRequest implements PipeRequests: a call is     *)
(* issued, writes its frames, waits, and ends exactly once, with a         *)
(* response or an error; none that has written its frames waits for ever.  *)
(***************************************************************************)
CallState(r) ==
  CASE sender[r] = "idle" -> "idle"
    [] sender[r] = "writing" -> "sending"
    [] sender[r] = "awaiting" -> "waiting"
    [] sender[r] = "returned" -> "ok"
    [] sender[r] = "threw" -> "failed"

Calls == INSTANCE PipeRequests WITH Requests <- OutReqs,
                                    state <- [r \in OutReqs |-> CallState(r)]
ImplementsPipeRequests == Calls!Spec

=============================================================================
