---------------------------- MODULE PipeSendQueue ----------------------------
(***************************************************************************)
(* Outbound backpressure of the named-pipe adapter                         *)
(* (packages/agents-hosting-directline-namedpipes/src/createLocalAdapter): *)
(* LocalPipeAdapter.sendActivities hands activities to the pipe without    *)
(* awaiting them.  At most MaxConcurrent sends hold a slot; up to          *)
(* MaxQueued more wait in FIFO order; a slot is handed from a settled send *)
(* to the head of the queue.                                               *)
(*                                                                         *)
(* JavaScript runs to completion: while a turn executes, no immediate, no  *)
(* timer and no pipe response is processed.  That is the guard Quiet.      *)
(***************************************************************************)
EXTENDS Integers, Sequences, FiniteSets

CONSTANTS
  Turns,          \* inbound requests whose handlers send activities
  MaxConcurrent,  \* MAX_CONCURRENT_SENDS
  MaxQueued,      \* MAX_QUEUED_SENDS
  MaxBatch,       \* bound: activities of one sendActivities call
  MaxSends        \* bound: sends accepted over a behaviour

ASSUME SendQueueAssumption ==
  /\ MaxConcurrent \in Nat \ {0}
  /\ MaxQueued \in Nat
  /\ MaxBatch \in Nat
  /\ MaxSends \in Nat

VARIABLES
  pendingSends,  \* this._pendingSends
  sendQueue,     \* this._sendQueue, a sequence of sends
  immediates,    \* sends handed to setImmediate, not yet run
  racing,        \* sends whose Promise.race has not settled
  unanswered,    \* requests the protocol still holds (they outlive the race)
  accepted,      \* history: the turn of every accepted send; a send is an index
  wire,          \* history: frames in the order they joined the write queue
  turn,          \* where each turn's handler is
  exposed,       \* history: turns that awaited I/O after they sent something
  invokeStored,  \* turns whose turnState holds an invokeResponse
  lastCall       \* history: what the last sendActivities call asked and took

vars == <<pendingSends, sendQueue, immediates, racing, unanswered, accepted,
          wire, turn, exposed, invokeStored, lastCall>>
sendVars == <<pendingSends, sendQueue, immediates, racing, unanswered, accepted>>

Sends == 1..Len(accepted)
Executing == {"running", "resumed"}
Quiet == \A t \in Turns : turn[t] \notin Executing
Least(m, n) == IF m <= n THEN m ELSE n

Request(s) == [frame |-> "A", turn |-> accepted[s], send |-> s]
Response(t) == [frame |-> "B", turn |-> t, send |-> 0]

Init ==
  /\ pendingSends = 0
  /\ sendQueue = <<>>
  /\ immediates = <<>>
  /\ racing = {}
  /\ unanswered = {}
  /\ accepted = <<>>
  /\ wire = <<>>
  /\ turn = [t \in Turns |-> "idle"]
  /\ exposed = {}
  /\ invokeStored = {}
  /\ lastCall = [asked |-> 0, taken |-> 0, ended |-> "ok"]

-----------------------------------------------------------------------------
(* The turn: a handler dispatched for an inbound request, which may await   *)
(* I/O once before it returns.                                             *)

BeginTurn(t) ==
  /\ Quiet
  /\ turn[t] = "idle"
  /\ turn' = [turn EXCEPT ![t] = "running"]
  /\ UNCHANGED <<sendVars, wire, exposed, invokeStored, lastCall>>

AwaitIO(t) ==
  /\ turn[t] = "running"
  /\ turn' = [turn EXCEPT ![t] = "awaiting"]
  /\ exposed' = IF \E s \in Sends : accepted[s] = t THEN exposed \union {t} ELSE exposed
  /\ UNCHANGED <<sendVars, wire, invokeStored, lastCall>>

ResumeTurn(t) ==
  /\ Quiet
  /\ turn[t] = "awaiting"
  /\ turn' = [turn EXCEPT ![t] = "resumed"]
  /\ UNCHANGED <<sendVars, wire, exposed, invokeStored, lastCall>>

\* The handler returns: its inbound response joins the write queue.
EndTurn(t) ==
  /\ turn[t] \in Executing
  /\ turn' = [turn EXCEPT ![t] = "done"]
  /\ wire' = Append(wire, Response(t))
  /\ UNCHANGED <<sendVars, exposed, invokeStored, lastCall>>

-----------------------------------------------------------------------------
(* sendActivities: k activities that travel over the pipe, and possibly an *)
(* invokeResponse, which is kept in turnState.  Traces and activities      *)
(* without a conversation are skipped and change nothing.                  *)

\* Mutant: the check forgets the sends that already hold a slot.
WouldOverflowQueueOnly(k) == k > (MaxConcurrent + MaxQueued) - Len(sendQueue)

\* The check made before anything is accepted.
WouldOverflow(k) ==
  k > (MaxConcurrent + MaxQueued) - (pendingSends + Len(sendQueue))

FreeSlots == MaxConcurrent - pendingSends
QueueRoom == MaxQueued - Len(sendQueue)

\* How many of k the loop takes before its own limit check throws.
Takes(k) == Least(k, FreeSlots + QueueRoom)

\* Mutant: every send reserves a slot, whatever the limit.
EnqueueUncapped(t, k) ==
  /\ pendingSends' = pendingSends + k
  /\ immediates' = immediates \o [i \in 1..k |-> Len(accepted) + i]
  /\ accepted' = accepted \o [i \in 1..k |-> t]
  /\ UNCHANGED sendQueue

\* The loop: the first sends reserve free slots, the others join the queue.
Enqueue(t, k) ==
  LET n      == Takes(k)
      direct == Least(n, FreeSlots)
      base   == Len(accepted)
  IN /\ pendingSends' = pendingSends + direct
     /\ immediates' = immediates \o [i \in 1..direct |-> base + i]
     /\ sendQueue' = sendQueue \o [i \in 1..(n - direct) |-> base + direct + i]
     /\ accepted' = accepted \o [i \in 1..n |-> t]

SendActivities(t, k, invoke) ==
  /\ turn[t] \in Executing
  /\ k > 0 \/ invoke
  /\ Len(accepted) + Takes(k) <= MaxSends
  /\ IF WouldOverflow(k)
       THEN /\ lastCall' = [asked |-> k, taken |-> 0, ended |-> "threw"]
            /\ UNCHANGED <<sendVars, invokeStored>>
       ELSE /\ Enqueue(t, k)
            /\ lastCall' = [asked |-> k, taken |-> Takes(k),
                           ended |-> IF Takes(k) < k THEN "threw" ELSE "ok"]
            /\ invokeStored' = IF invoke THEN invokeStored \union {t} ELSE invokeStored
            /\ UNCHANGED <<racing, unanswered>>
  /\ UNCHANGED <<wire, turn, exposed>>

-----------------------------------------------------------------------------
(* doSend and the settlement of its race.                                  *)

\* The request frame joins the write queue, unless no protocol is published
\* (the request is answered 503) or its writer has failed (it is rejected).
JoinWire(s) == wire' = Append(wire, Request(s)) \/ UNCHANGED wire

\* Mutant: doSend runs inside the handler instead of from setImmediate.
DoSendAtOnce ==
  /\ immediates # <<>>
  /\ LET s == Head(immediates)
     IN /\ racing' = racing \union {s}
        /\ unanswered' = unanswered \union {s}
        /\ JoinWire(s)
  /\ immediates' = Tail(immediates)
  /\ UNCHANGED <<pendingSends, sendQueue, accepted, turn, exposed, invokeStored, lastCall>>

\* An immediate runs doSend: the race between the response and the send timer
\* starts.
DoSend ==
  /\ Quiet
  /\ immediates # <<>>
  /\ LET s == Head(immediates)
     IN /\ racing' = racing \union {s}
        /\ unanswered' = unanswered \union {s}
        /\ JoinWire(s)
  /\ immediates' = Tail(immediates)
  /\ UNCHANGED <<pendingSends, sendQueue, accepted, turn, exposed, invokeStored, lastCall>>

\* Mutant: the slot is freed and nobody starts the head of the queue.
ReleaseSlotNoHandoff ==
  /\ pendingSends' = pendingSends - 1
  /\ UNCHANGED <<immediates, sendQueue>>

\* The finally handler: the slot goes to the head of the queue, or is freed.
ReleaseSlot ==
  IF sendQueue # <<>>
    THEN /\ immediates' = Append(immediates, Head(sendQueue))
         /\ sendQueue' = Tail(sendQueue)
         /\ UNCHANGED pendingSends
    ELSE /\ pendingSends' = pendingSends - 1
         /\ UNCHANGED <<immediates, sendQueue>>

\* The race settles once.
Settle(s) ==
  /\ racing' = racing \ {s}
  /\ ReleaseSlot

\* Mutant: a late answer releases the slot a second time.
AnswerReleasesTwice(s) ==
  /\ Quiet
  /\ s \in unanswered
  /\ unanswered' = unanswered \ {s}
  /\ Settle(s)
  /\ UNCHANGED <<accepted, wire, turn, exposed, invokeStored, lastCall>>

\* The protocol settles the request: a response, a write failure, a teardown.
\* If the send timer won, the race has settled and the answer changes nothing.
Answer(s) ==
  /\ Quiet
  /\ s \in unanswered
  /\ unanswered' = unanswered \ {s}
  /\ IF s \in racing
       THEN Settle(s)
       ELSE UNCHANGED <<pendingSends, sendQueue, immediates, racing>>
  /\ UNCHANGED <<accepted, wire, turn, exposed, invokeStored, lastCall>>

\* OUTBOUND_SEND_TIMEOUT_MS elapses first: the slot is freed although the
\* protocol still holds the request.
SendTimeout(s) ==
  /\ Quiet
  /\ s \in racing
  /\ Settle(s)
  /\ UNCHANGED <<unanswered, accepted, wire, turn, exposed, invokeStored, lastCall>>

Next ==
  \/ \E t \in Turns : BeginTurn(t) \/ AwaitIO(t) \/ ResumeTurn(t) \/ EndTurn(t)
  \/ \E t \in Turns, k \in 0..MaxBatch, invoke \in BOOLEAN : SendActivities(t, k, invoke)
  \/ DoSend
  \/ \E s \in Sends : Answer(s) \/ SendTimeout(s)

\* The event loop runs scheduled immediates and due timers; a handler that is
\* executing reaches its next await or its end.
Fairness ==
  /\ WF_vars(DoSend)
  /\ \A s \in 1..MaxSends : WF_vars(s \in Sends /\ SendTimeout(s))
  /\ \A t \in Turns : WF_vars(AwaitIO(t) \/ EndTurn(t))

Spec == Init /\ [][Next]_vars
FairSpec == Spec /\ Fairness

=============================================================================
