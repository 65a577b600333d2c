------------------------------- MODULE AgentTurn -------------------------------
(***************************************************************************)
(* What a turn sends, shows and records, in packages/agents-hosting/src:   *)
(*   - cloudAdapter.ts, process, and baseAdapter.ts, runMiddleware: the    *)
(*     turn, its revocable context, the error handler and the reply;       *)
(*   - app/agentApplication.ts, runTurn: the handler and the typing timer; *)
(*   - turnContext.ts, sendActivities, updateActivity, emit;               *)
(*   - transcript/transcriptLoggerMiddleware.ts over fileTranscriptLogger. *)
(*                                                                         *)
(* The handler of a turn need not await what it sends: a send goes on      *)
(* while the turn ends.  All turns write to one transcript file.           *)
(***************************************************************************)
EXTENDS TypingTimer, TranscriptFile, FiniteSets

CONSTANTS
  ExpectReplies,  \* turns whose activity has that delivery mode
  Together,       \* sets of turns that are handled at the same time
  Kinds,          \* what the handler of a turn may send, of {"message", "quiet"}
  MaxSends,       \* bound: sends and updates of a handler
  MaxUpdates      \* bound: updates among them

ASSUME AgentTurnAssumption ==
  /\ ExpectReplies \subseteq Turns
  /\ Together \subseteq SUBSET Turns
  /\ Kinds \in [Turns -> SUBSET {"message", "quiet"}]
  /\ {MaxSends, MaxUpdates, MaxTimers} \subseteq [Turns -> Nat]
  /\ Attempts \in Nat \ {0}

VARIABLES
  phase,       \* where each turn is
  sends,       \* sends[t][i]: the i-th send or update of a turn
  transcript,  \* what the middleware of a turn has recorded and not yet logged
  buffered,    \* bufferedReplyActivities
  reply,       \* the HTTP response: whether it is given, and the activities of its body
  delivered    \* history: activities the channel has accepted

vars == <<typingVars, fileVars, phase, sends, transcript, buffered, reply, delivered>>

Incoming(t) == [id |-> <<t, 0>>, update |-> FALSE]
Outgoing(t, i) == [id |-> <<t, i>>, update |-> FALSE]
UpdateOf(t, i) == [id |-> <<t, i>>, update |-> TRUE]

Init ==
  /\ TypingInit /\ FileInit
  /\ \E turns \in Together : phase = [t \in Turns |-> IF t \in turns THEN "new" ELSE "absent"]
  /\ sends = [t \in Turns |-> <<>>]
  /\ transcript = [t \in Turns |-> <<>>]
  /\ buffered = [t \in Turns |-> <<>>]
  /\ reply = [t \in Turns |-> [status |-> "none", body |-> <<>>]]
  /\ delivered = {}

\* Mutant: the context of a turn is not revocable.
NeverRevoked(t) == FALSE

\* The proxy of the context is revoked: any use of it throws.
Revoked(t) == phase[t] = "over"

\* Code of the handler may run, and use the context, until the turn is over.
Alive(t) == phase[t] \notin {"absent", "new", "over"}

(***************************************************************************)
(* The turn                                                                *)
(***************************************************************************)
\* process, and onTurn of the transcript middleware up to next().
Begin(t) ==
  /\ phase[t] = "new"
  /\ phase' = [phase EXCEPT ![t] = "running"]
  /\ transcript' = [transcript EXCEPT ![t] = <<Incoming(t)>>]
  /\ UNCHANGED <<typingVars, fileVars, sends, buffered, reply, delivered>>

\* runTurn leaves its handler, with or without an exception.
HandlerReturns(t) ==
  /\ phase[t] = "running"
  /\ phase' = [phase EXCEPT ![t] = "returned"]
  /\ StopOwner(t)
  /\ UNCHANGED <<fileVars, sends, transcript, buffered, reply, delivered>>

\* The exception passes the middleware, and its transcript is dropped.
HandlerThrows(t) ==
  /\ phase[t] = "running"
  /\ phase' = [phase EXCEPT ![t] = "thrown"]
  /\ transcript' = [transcript EXCEPT ![t] = <<>>]
  /\ StopOwner(t)
  /\ UNCHANGED <<fileVars, sends, buffered, reply, delivered>>

\* The middleware after next().
Flush(t) ==
  /\ phase[t] = "returned"
  /\ phase' = [phase EXCEPT ![t] = "flushed"]
  /\ Log(transcript[t])
  /\ transcript' = [transcript EXCEPT ![t] = <<>>]
  /\ UNCHANGED <<typingVars, sends, buffered, reply, delivered>>

\* runMiddleware revokes the context; process ends the response.
Answer(t) ==
  IF phase[t] = "unreported" THEN [status |-> "failed", body |-> <<>>]
  ELSE [status |-> "given", body |-> IF t \in ExpectReplies THEN buffered[t] ELSE <<>>]
EndTurn(t) ==
  /\ phase[t] \in {"flushed", "reported", "unreported"}
  /\ phase' = [phase EXCEPT ![t] = "over"]
  /\ reply' = [reply EXCEPT ![t] = Answer(t)]
  /\ UNCHANGED <<typingVars, fileVars, sends, transcript, buffered, delivered>>

(***************************************************************************)
(* Typing                                                                  *)
(***************************************************************************)
StartTyping(t) ==
  /\ Alive(t)
  /\ StartTimer(t)
  /\ UNCHANGED <<fileVars, phase, sends, transcript, buffered, reply, delivered>>

StopTyping(t) ==
  /\ Alive(t)
  /\ owner[t] # 0
  /\ StopOwner(t)
  /\ UNCHANGED <<fileVars, phase, sends, transcript, buffered, reply, delivered>>

TypingStep(t, n) ==
  /\ n \in DOMAIN timer[t]
  /\ Fire(t, n, Revoked(t)) \/ TypingLands(t, n) \/ TypingFails(t, n)
  /\ UNCHANGED <<fileVars, phase, sends, transcript, buffered, reply, delivered>>

(***************************************************************************)
(* Sends                                                                   *)
(*                                                                         *)
(* A send passes the handlers that onSendActivities had when it began: the *)
(* transcript's, then one for each timer.  The handler of a timer stops it *)
(* for a message and waits for its send under way.  "at" is the timer whose*)
(* handler has the send, "last" the last one it will pass.                 *)
(***************************************************************************)
NewSend(t, kind, of) ==
  [kind |-> kind, of |-> of, at |-> 1, last |-> Len(timer[t]), state |-> "passing"]

Put(t, i, send) == sends' = [sends EXCEPT ![t] = IF i > Len(@) THEN Append(@, send) ELSE [@ EXCEPT ![i] = send]]

\* After it is logged or dropped nobody reads the transcript of a turn.
Recorded(t, item) ==
  transcript' = IF phase[t] \in {"running", "returned"}
                THEN [transcript EXCEPT ![t] = Append(@, item)] ELSE transcript

\* The error handler of the turn goes on, or throws, with its message.
Reported(t, send, result) ==
  phase' = IF send.kind = "report" THEN [phase EXCEPT ![t] = result] ELSE phase

\* The end of the chain: the reply's buffer, or the connector.
Reach(t, i, send) ==
  IF t \in ExpectReplies /\ send.kind # "update"
  THEN /\ Put(t, i, [send EXCEPT !.state = "sent"])
       /\ buffered' = [buffered EXCEPT ![t] = Append(@, <<t, i>>)]
       /\ Recorded(t, Outgoing(t, i))
       /\ Reported(t, send, "reported")
  ELSE /\ Put(t, i, [send EXCEPT !.state = "sending"])
       /\ Reported(t, send, "reporting")
       /\ UNCHANGED <<buffered, transcript>>

\* Mutant: a message waits for a timer where there is none.
AddSendToTimer(t, send) ==
  /\ Put(t, Len(sends[t]) + 1, send)
  /\ Reported(t, send, "reporting")
  /\ UNCHANGED <<typingVars, buffered, transcript>>

AddSend(t, send) ==
  LET i == Len(sends[t]) + 1
  IN IF send.kind \in {"message", "report"} /\ send.last > 0
     THEN /\ StopTimer(t, 1)
          /\ Put(t, i, send)
          /\ Reported(t, send, "reporting")
          /\ UNCHANGED <<buffered, transcript>>
     ELSE Reach(t, i, send) /\ UNCHANGED typingVars

SendActivity(t) ==
  /\ Alive(t)
  /\ Len(sends[t]) < MaxSends[t]
  /\ \E kind \in Kinds[t] : AddSend(t, NewSend(t, kind, 0))
  /\ UNCHANGED <<fileVars, reply, delivered>>

\* onTurnError tells the user.
ReportError(t) ==
  /\ phase[t] = "thrown"
  /\ AddSend(t, NewSend(t, "report", 0))
  /\ UNCHANGED <<fileVars, reply, delivered>>

\* updateActivity: no handler but the transcript's, and never buffered.
Updates(t) == {i \in DOMAIN sends[t] : sends[t][i].kind = "update"}
UpdateActivity(t) ==
  /\ Alive(t)
  /\ Len(sends[t]) < MaxSends[t]
  /\ Cardinality(Updates(t)) < MaxUpdates[t]
  /\ \E i \in DOMAIN sends[t] \ Updates(t) :
       /\ sends[t][i].state = "sent"
       /\ AddSend(t, NewSend(t, "update", i))
  /\ UNCHANGED <<fileVars, reply, delivered>>

\* Mutant: the handler does not wait for the typing send under way.
AwaitedNever(t, send) == FALSE

\* The handler of a timer awaits its typing send under way.
Awaited(t, send) == timer[t][send.at] = "sending"
PassHandler(t, i) ==
  LET send == sends[t][i]
  IN /\ send.state = "passing"
     /\ ~Awaited(t, send)
     /\ IF send.at < send.last
        THEN /\ Put(t, i, [send EXCEPT !.at = @ + 1])
             /\ StopTimer(t, send.at + 1)
             /\ UNCHANGED <<phase, buffered, transcript>>
        ELSE /\ IF Revoked(t)
                THEN /\ Put(t, i, [send EXCEPT !.state = "failed"])
                     /\ UNCHANGED <<phase, buffered, transcript>>
                ELSE Reach(t, i, send)
             /\ UNCHANGED typingVars
     /\ UNCHANGED <<fileVars, reply, delivered>>

\* The channel accepts it; when the context is revoked by then, what follows
\* a send throws.
Record(t, i) ==
  IF sends[t][i].kind = "update" THEN UpdateOf(t, sends[t][i].of) ELSE Outgoing(t, i)
SendLands(t, i) ==
  LET send == sends[t][i]
  IN /\ send.state = "sending"
     /\ delivered' = delivered \union {Record(t, i)}
     /\ Put(t, i, [send EXCEPT !.state = IF Revoked(t) /\ send.kind # "update" THEN "failed" ELSE "sent"])
     /\ Recorded(t, Record(t, i))
     /\ Reported(t, send, "reported")
     /\ UNCHANGED <<typingVars, fileVars, buffered, reply>>

\* Mutant: the transcript's handler records in a finally.
SendFailsRecorded(t, i) ==
  LET send == sends[t][i]
  IN /\ send.state = "sending"
     /\ Put(t, i, [send EXCEPT !.state = "failed"])
     /\ Recorded(t, Record(t, i))
     /\ Reported(t, send, "unreported")
     /\ UNCHANGED <<typingVars, fileVars, buffered, reply, delivered>>

SendFails(t, i) ==
  LET send == sends[t][i]
  IN /\ send.state = "sending"
     /\ Put(t, i, [send EXCEPT !.state = "failed"])
     /\ Reported(t, send, "unreported")
     /\ UNCHANGED <<typingVars, fileVars, transcript, buffered, reply, delivered>>

SendStep(t, i) == i \in DOMAIN sends[t] /\ (PassHandler(t, i) \/ SendLands(t, i) \/ SendFails(t, i))

LogStep ==
  /\ FileStep
  /\ UNCHANGED <<typingVars, phase, sends, transcript, buffered, reply, delivered>>

\* What a turn does of itself, and what its handler makes it do.
Proceed(t) ==
  \/ Flush(t) \/ EndTurn(t) \/ ReportError(t)
  \/ \E n \in 1..MaxTimers[t] : TypingStep(t, n)
  \/ \E i \in 1..MaxSends[t] + 1 : SendStep(t, i)
Handle(t) ==
  \/ Begin(t) \/ HandlerReturns(t) \/ HandlerThrows(t)
  \/ StartTyping(t) \/ StopTyping(t)
  \/ SendActivity(t) \/ UpdateActivity(t)

Next == LogStep \/ \E t \in Turns : Proceed(t) \/ Handle(t)

Spec == Init /\ [][Next]_vars

\* Timers fire, requests are answered, the file system answers and promises
\* settle; nothing is assumed of the handler, which may never end.
FairSpec == Spec /\ WF_vars(LogStep) /\ \A t \in Turns : WF_vars(Proceed(t))

=============================================================================
