---------------------------- MODULE AgentTurnProps ----------------------------
(***************************************************************************)
(* What a turn promises its user and its transcript.                       *)
(***************************************************************************)
EXTENDS AgentTurn

Phases == {"absent", "new", "running", "returned", "thrown", "reporting", "reported",
           "unreported", "flushed", "over"}
ItemsOf(t) == {Incoming(t)} \union {Outgoing(t, i) : i \in 1..MaxSends[t] + 1}
                           \union {UpdateOf(t, i) : i \in 1..MaxSends[t]}
Items == UNION {ItemsOf(t) : t \in Turns}
SendType(t, send) ==
  /\ send.kind \in Kinds[t] \union {"update", "report"}
  /\ send.state \in {"passing", "sending", "sent", "failed"}
  /\ send.of \in 0..MaxSends[t]
  /\ send.last \in 0..Len(timer[t])
  /\ send.state = "passing" => send.at \in 1..send.last

\* The state of turns, timers and file has its type; a send that is passing the
\* handlers of timers is at one the turn has, and only such a chain rejects that
\* still has operations to reject.
TypeOK ==
  /\ TypingTypeOK
  /\ phase \in [Turns -> Phases]
  /\ \A t \in Turns :
       /\ Len(sends[t]) <= MaxSends[t] + 1
       /\ \A i \in DOMAIN sends[t] : SendType(t, sends[t][i])
       /\ Range(transcript[t]) \subseteq ItemsOf(t)
       /\ Range(buffered[t]) \subseteq {<<t, i>> : i \in DOMAIN sends[t]}
  /\ \A k \in DOMAIN queue : queue[k].item \in Items /\ queue[k].failed \in 0..Attempts - 1
  /\ broken => queue # <<>>
  /\ done \subseteq Items /\ delivered \subseteq Items

\* startTypingTimer, the handler it adds to onSendActivities: when a message is
\* with the channel, or in the reply, no timer started before it will type again
\* or has a typing indicator under way that could arrive behind it.
NoTypingBehindMessage ==
  \A t \in Turns : \A i \in DOMAIN sends[t] :
    /\ sends[t][i].kind \in {"message", "report"}
    /\ sends[t][i].state # "passing"
    => \A n \in 1..sends[t][i].last : timer[t][n] = "idle"

\* TranscriptLoggerMiddleware.onTurn: what is logged of a turn, besides its
\* incoming activity, the channel has accepted; of a turn that buffers its
\* activities, it is in the reply when that has been given.
LoggedWasDelivered ==
  \A item \in Range(logged) :
    LET t == item.id[1]
    IN \/ item = Incoming(t)
       \/ item \in delivered
       \/ /\ t \in ExpectReplies /\ ~item.update
          /\ reply[t].status # "none" => item.id \in Range(reply[t].body)

\* withFileLock: every activity whose append resolved is in the file, updated
\* when its update resolved after that, in the order in which the turns logged
\* them, whatever is queued, fails or is tried again around it.
FirstAt(item) == Place(file, item.id)
FileKeepsLogged ==
  /\ \A item \in done :
       IF item.update THEN FirstAt(item) # 0 => file[FirstAt(item)].updated
                      ELSE FirstAt(item) # 0
  /\ \A j, k \in DOMAIN logged :
       /\ j < k
       /\ {logged[j], logged[k]} \subseteq done
       /\ ~logged[j].update /\ ~logged[k].update
       => FirstAt(logged[j]) < FirstAt(logged[k])

\* withFileLock, its finally: an operation that is rejected without Attempts of
\* its own was queued behind another: the failure of one operation does not
\* reject those that come when its chain is gone.
LostOnlyBehindFailure == \A op \in lost : op.tried \/ op.behind

\* Both together: a failing file loses what failed and what waited behind it,
\* and neither loses nor reorders anything else.
TranscriptSurvives == FileKeepsLogged /\ LostOnlyBehindFailure

\* runTurn, runMiddleware and the timer: once a turn is over, everything it
\* left behind comes to an end: no typing indicator goes on, every send it did
\* not await settles and its transcript is written or rejected.
AtRest(t) ==
  /\ \A n \in DOMAIN timer[t] : timer[t][n] = "idle"
  /\ \A i \in DOMAIN sends[t] : sends[t][i].state \in {"sent", "failed"}
  /\ \A k \in DOMAIN queue : queue[k].item.id[1] # t
TurnsComeToRest == \A t \in Turns : phase[t] = "over" ~> AtRest(t)

=============================================================================
