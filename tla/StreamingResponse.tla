-------------------------- MODULE StreamingResponse --------------------------
(***************************************************************************)
(* A streamed answer of one turn                                           *)
(* (packages/agents-hosting/src/app/streaming/streamingResponse.ts): text  *)
(* chunks and informative updates are queued as factories; one drain loop  *)
(* makes and sends the activities one after the other; endStream turns the *)
(* last chunk into the final message and waits for the loop.  A send that  *)
(* fails cancels the stream, or falls back to a single plain message.      *)
(*                                                                         *)
(* The application is sequential: it awaits endStream and reset.  Each     *)
(* action is a run of the event loop up to the next await; a failed send   *)
(* ends the drain loop in the same run.  The text is the number of chunks  *)
(* appended; citations, labels and attachments are left out.               *)
(***************************************************************************)
EXTENDS Integers, Sequences

CONSTANTS
  MaxChunks,   \* bound: chunks appended to one answer
  MaxUpdates,  \* bound: informative updates of one answer
  MaxResets    \* bound: calls of reset

ASSUME StreamAssumption ==
  /\ MaxChunks \in Nat /\ MaxUpdates \in Nat /\ MaxResets \in Nat

VARIABLES
  queue,         \* _queue: the kind of each factory
  inFlight,      \* the activity the drain loop or endStream sends, or NoActivity
  delaying,      \* it was accepted, and the delay between chunks runs
  chunkQueued,   \* _chunkQueued
  ended,         \* _ended
  canceled,      \* _canceled
  userCanceled,  \* _userCanceled
  streaming,     \* _isStreamingChannel
  message,       \* _message
  nextSequence,  \* _nextSequence
  streamId,      \* _streamId: the number of the activity it is the id of, or 0
  caller,        \* the application: free, or awaiting endStream or reset
  result,        \* what the last endStream of this answer returned
  sent,          \* history: the activities of this answer the channel accepted
  named,         \* history: which of them the channel answered with an id
  failure,       \* history: how a send of this answer failed
  updates,       \* count of informative updates of this answer
  resets         \* count of resets

drainVars == <<queue, inFlight, delaying, chunkQueued, nextSequence>>
flagVars  == <<canceled, userCanceled, streaming>>
histVars  == <<sent, named, failure>>
vars == <<drainVars, ended, flagVars, message, streamId, caller, result, histVars, updates, resets>>

\* What inFlight is while nothing is being sent.
NoActivity == [kind |-> "none", seq |-> 0, text |-> 0, id |-> 0]

Fresh ==
  /\ queue = <<>> /\ inFlight = NoActivity /\ delaying = FALSE /\ chunkQueued = FALSE
  /\ ended = FALSE /\ canceled = FALSE /\ userCanceled = FALSE
  /\ message = 0 /\ nextSequence = 1 /\ streamId = 0
  /\ caller = "free" /\ result = "none"
  /\ sent = <<>> /\ named = {} /\ failure = "none" /\ updates = 0

Init == Fresh /\ streaming \in BOOLEAN /\ resets = 0

-----------------------------------------------------------------------------
(* The queue and its drain loop.                                           *)

\* createFinalMessage counts one sequence number, and then uses the next.
FinalMessage == [kind |-> "final", seq |-> nextSequence + 1, text |-> message, id |-> streamId]

\* A factory runs when its turn comes: a chunk carries all text so far, and is
\* the final message once the stream has ended.
Make(kind, text, over) ==
  IF kind = "chunk" /\ over THEN [FinalMessage EXCEPT !.text = text]
  ELSE [kind |-> kind, seq |-> nextSequence,
        text |-> IF kind = "chunk" THEN text ELSE 0, id |-> streamId]

\* Mutant: the factory forgets to clear the flag.
TakeKeepsFlag(q, flag, text, over) ==
  /\ delaying' = FALSE
  /\ IF q = <<>>
       THEN /\ queue' = q /\ inFlight' = NoActivity /\ chunkQueued' = flag
            /\ UNCHANGED nextSequence
       ELSE /\ queue' = Tail(q)
            /\ inFlight' = Make(Head(q), text, over)
            /\ chunkQueued' = flag
            /\ nextSequence' = nextSequence + 1

\* A turn of the drain loop, over the queue q.
Take(q, flag, text, over) ==
  /\ delaying' = FALSE
  /\ IF q = <<>>
       THEN /\ queue' = q /\ inFlight' = NoActivity /\ chunkQueued' = flag
            /\ UNCHANGED nextSequence
       ELSE /\ queue' = Tail(q)
            /\ inFlight' = Make(Head(q), text, over)
            /\ chunkQueued' = (flag /\ Head(q) # "chunk")
            /\ nextSequence' = nextSequence + 1

\* queueActivity: a loop starts, and sends at once, unless one is running.
QueueActivity(kind, flag, text, over) ==
  IF inFlight = NoActivity
    THEN Take(Append(queue, kind), flag, text, over)
    ELSE /\ queue' = Append(queue, kind)
         /\ chunkQueued' = flag
         /\ UNCHANGED <<inFlight, delaying, nextSequence>>

\* Mutant: every chunk is queued on its own.
QueueEveryChunk(text, over) == QueueActivity("chunk", TRUE, text, over)

QueueNextChunk(text, over) ==
  IF chunkQueued THEN UNCHANGED drainVars
                 ELSE QueueActivity("chunk", TRUE, text, over)

-----------------------------------------------------------------------------
(* The application's calls.  Those that throw or return at once leave the  *)
(* stream as it is, and are left out.                                      *)

QueueInformativeUpdate ==
  /\ caller = "free" /\ streaming /\ ~canceled /\ ~ended
  /\ updates < MaxUpdates
  /\ updates' = updates + 1
  /\ QueueActivity("informative", chunkQueued, message, ended)
  /\ UNCHANGED <<ended, flagVars, message, streamId, caller, result, histVars, resets>>

QueueTextChunk ==
  /\ caller = "free" /\ ~canceled /\ ~ended
  /\ message < MaxChunks
  /\ message' = message + 1
  /\ IF streaming THEN QueueNextChunk(message + 1, ended) ELSE UNCHANGED drainVars
  /\ UNCHANGED <<ended, flagVars, streamId, caller, result, histVars, updates, resets>>

\* The answer was canceled: endStream says so.
EndCanceled ==
  /\ caller = "free" /\ ~ended /\ canceled
  /\ result' = IF userCanceled THEN "UserCanceled" ELSE "Error"
  /\ UNCHANGED <<drainVars, ended, flagVars, message, streamId, caller, histVars, updates, resets>>

\* endStream up to its await.
EndStream ==
  /\ caller = "free" /\ ~ended /\ ~canceled
  /\ ended' = TRUE
  /\ caller' = "ending"
  /\ IF streaming
       THEN QueueNextChunk(message, TRUE)
       ELSE /\ inFlight' = FinalMessage
            /\ nextSequence' = nextSequence + 1
            /\ UNCHANGED <<queue, delaying, chunkQueued>>
  /\ UNCHANGED <<flagVars, message, streamId, result, histVars, updates, resets>>

\* The promise it awaits resolves when the drain loop, or its own send, ends.
EndReturns ==
  /\ caller = "ending" /\ inFlight = NoActivity
  /\ caller' = "free"
  /\ result' = "Success"
  /\ UNCHANGED <<drainVars, ended, flagVars, message, streamId, histVars, updates, resets>>

Reset ==
  /\ caller = "free" /\ resets < MaxResets
  /\ resets' = resets + 1
  /\ caller' = "resetting"
  /\ UNCHANGED <<drainVars, ended, flagVars, message, streamId, result, histVars, updates>>

\* Mutant: reset does not wait for the loop, which goes on sending.
ResetAtOnce ==
  /\ caller = "resetting"
  /\ queue' = <<>> /\ chunkQueued' = FALSE
  /\ ended' = FALSE /\ canceled' = FALSE /\ userCanceled' = FALSE
  /\ message' = 0 /\ nextSequence' = 1 /\ streamId' = 0
  /\ caller' = "free" /\ result' = "none"
  /\ sent' = <<>> /\ named' = {} /\ failure' = "none" /\ updates' = 0
  /\ UNCHANGED <<inFlight, delaying, streaming, resets>>

\* Mutant: the sequence starts at zero after a reset.
ResetFromZero ==
  /\ caller = "resetting" /\ inFlight = NoActivity
  /\ queue' = <<>> /\ chunkQueued' = FALSE
  /\ ended' = FALSE /\ canceled' = FALSE /\ userCanceled' = FALSE
  /\ message' = 0 /\ nextSequence' = 0 /\ streamId' = 0
  /\ caller' = "free" /\ result' = "none"
  /\ sent' = <<>> /\ named' = {} /\ failure' = "none" /\ updates' = 0
  /\ UNCHANGED <<inFlight, delaying, streaming, resets>>

\* The rest of reset: the channel's fallback is kept.
ResetResumes ==
  /\ caller = "resetting" /\ inFlight = NoActivity
  /\ queue' = <<>> /\ chunkQueued' = FALSE
  /\ ended' = FALSE /\ canceled' = FALSE /\ userCanceled' = FALSE
  /\ message' = 0 /\ nextSequence' = 1 /\ streamId' = 0
  /\ caller' = "free" /\ result' = "none"
  /\ sent' = <<>> /\ named' = {} /\ failure' = "none" /\ updates' = 0
  /\ UNCHANGED <<inFlight, delaying, streaming, resets>>

-----------------------------------------------------------------------------
(* The channel's answer to a send.                                         *)

\* The response need not have an id (a local pipe, expected replies): the stream
\* takes the first one there is.
SendAccepted(hasId) ==
  /\ inFlight # NoActivity /\ ~delaying
  /\ sent' = Append(sent, inFlight)
  /\ named' = named \union {n \in {Len(sent) + 1} : hasId}
  /\ streamId' = IF streamId = 0 /\ hasId THEN Len(sent) + 1 ELSE streamId
  /\ delaying' = TRUE
  /\ UNCHANGED <<queue, inFlight, chunkQueued, nextSequence, ended, flagVars, message, caller,
                 result, failure, updates, resets>>

\* The loop takes the next factory, or the send of endStream is over.
DelayOver ==
  /\ inFlight # NoActivity /\ delaying
  /\ Take(queue, chunkQueued, message, ended)
  /\ UNCHANGED <<ended, flagVars, message, streamId, caller, result, histVars, updates, resets>>

\* Mutant: a failed activity goes back to the queue.
SendFailsRetries(how) ==
  /\ inFlight # NoActivity /\ ~delaying
  /\ failure' = how
  /\ UNCHANGED <<drainVars, ended, flagVars, message, streamId, caller, result, sent, named, updates, resets>>

\* The send is rejected: the rest of the queue is dropped and the loop ends.
\* The user stopped the stream, an error happened, or the interaction does not
\* support streaming; in that case a plain message may still be sent.
SendFails(how) ==
  /\ inFlight # NoActivity /\ ~delaying
  /\ queue' = <<>> /\ inFlight' = NoActivity
  /\ canceled' = (how # "fallback")
  /\ userCanceled' = (userCanceled \/ how = "user")
  /\ streaming' = (streaming /\ how # "fallback")
  /\ failure' = how
  /\ UNCHANGED <<delaying, chunkQueued, nextSequence, ended, message, streamId, caller, result,
                 sent, named, updates, resets>>

Next ==
  \/ QueueInformativeUpdate \/ QueueTextChunk
  \/ EndCanceled \/ EndStream \/ EndReturns
  \/ Reset \/ ResetResumes
  \/ \E hasId \in BOOLEAN : SendAccepted(hasId)
  \/ DelayOver
  \/ \E how \in {"user", "error", "fallback"} : SendFails(how)

Spec == Init /\ [][Next]_vars

\* A send is accepted or rejected in the end, timers fire, and awaits resume.
Fairness ==
  /\ WF_vars(\/ \E hasId \in BOOLEAN : SendAccepted(hasId)
             \/ \E how \in {"user", "error", "fallback"} : SendFails(how))
  /\ WF_vars(DelayOver)
  /\ WF_vars(EndReturns)
  /\ WF_vars(ResetResumes)
FairSpec == Spec /\ Fairness

=============================================================================
