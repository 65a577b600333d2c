------------------------- MODULE PipeSendQueueProps -------------------------
(***************************************************************************)
(* What the outbound send queue of the named-pipe adapter promises.        *)
(***************************************************************************)
EXTENDS PipeSendQueue

TypeOK ==
  /\ pendingSends \in 0..MaxConcurrent
  /\ sendQueue \in Seq(Sends)
  /\ immediates \in Seq(Sends)
  /\ racing \subseteq Sends
  /\ unanswered \subseteq Sends
  /\ accepted \in Seq(Turns)
  /\ wire \in Seq([frame : {"A", "B"}, turn : Turns, send : Nat])
  /\ turn \in [Turns -> {"idle", "running", "awaiting", "resumed", "done"}]
  /\ exposed \subseteq Turns
  /\ invokeStored \subseteq Turns
  /\ lastCall \in [asked : Nat, taken : Nat, ended : {"ok", "threw"}]

(***************************************************************************)
(* Every slot counted by _pendingSends is held by exactly one send that is *)
(* scheduled or racing: the timeout racing a late answer neither leaks a   *)
(* slot nor frees one twice.                                               *)
(***************************************************************************)
SlotConservation == pendingSends = Len(immediates) + Cardinality(racing)

(***************************************************************************)
(* A send waits in the queue only while every slot is taken, so the hand-  *)
(* off in the finally handler can never strand a queued send.              *)
(***************************************************************************)
WorkConserving == sendQueue # <<>> => pendingSends = MaxConcurrent

(***************************************************************************)
(* Both together: no slot is lost, and none is left unused.                *)
(***************************************************************************)
SlotsAreUsed == SlotConservation /\ WorkConserving

(***************************************************************************)
(* sendActivities takes the whole batch or refuses it before it accepts    *)
(* anything: the limit check inside the loop never throws half way.        *)
(***************************************************************************)
AllOrNothing ==
  lastCall.taken = IF lastCall.ended = "threw" THEN 0 ELSE lastCall.asked

(***************************************************************************)
(* Sends reach the write queue in the order they were accepted, although   *)
(* some take a free slot at once and others are handed one by a send that  *)
(* settles: no later send overtakes a queued one.                          *)
(***************************************************************************)
Started == Len(accepted) - Len(immediates) - Len(sendQueue)
QueueInOrder ==
  /\ \A i \in DOMAIN immediates : immediates[i] = Started + i
  /\ \A j \in DOMAIN sendQueue : sendQueue[j] = Started + Len(immediates) + j
WireInOrder ==
  \A i \in DOMAIN wire : wire[i].frame = "A" =>
    /\ wire[i].send <= Started
    /\ \A j \in 1..(i - 1) : wire[j].frame = "A" => wire[j].send < wire[i].send
FifoOrder == QueueInOrder /\ WireInOrder

(***************************************************************************)
(* The reason doSend is deferred by setImmediate: if the handler does not  *)
(* yield to the event loop between its first send and its return, the      *)
(* inbound response is queued before every request frame of that turn.     *)
(***************************************************************************)
AckFirst(t) ==
  \A i \in DOMAIN wire :
    wire[i].frame = "A" /\ wire[i].turn = t =>
      \E j \in 1..(i - 1) : wire[j] = Response(t)
AckFirstIfNoYield ==
  \A t \in Turns : t \notin exposed => AckFirst(t)

(***************************************************************************)
(* Both together: the order in which the relay gets the frames of a turn   *)
(* is that of the calls, behind the response it waits for.                 *)
(***************************************************************************)
RelayOrder == FifoOrder /\ AckFirstIfNoYield

(***************************************************************************)
(* Every accepted send settles and gives its slot on, whatever the relay   *)
(* does with the requests: the send timer bounds each race.                *)
(***************************************************************************)
Waiting(s) ==
  \/ s \in racing
  \/ \E i \in DOMAIN immediates : immediates[i] = s
  \/ \E j \in DOMAIN sendQueue : sendQueue[j] = s
EverySendSettles == \A s \in 1..MaxSends : (s \in Sends) ~> (s \in Sends /\ ~Waiting(s))

=============================================================================
