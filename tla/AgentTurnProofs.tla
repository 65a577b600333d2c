---------------------------- MODULE AgentTurnProofs ----------------------------
(***************************************************************************)
(* Proofs about a turn and its transcript, for any number of turns, of     *)
(* sends and of timers of each, and any interleaving of what they leave    *)
(* behind:                                                                 *)
(*   - types, and what the typing indicator and the sends owe each other;  *)
(*   - what the transcript of a turn holds, and what is logged of it;      *)
(*   - what the file holds of what is logged.                              *)
(* IInv below is the inductive invariant, in parts of one subject each.    *)
(***************************************************************************)
EXTENDS AgentTurnProps, SequenceTheorems, WellFoundedInduction, TLAPS

Sendings ==
  [kind : {"message", "quiet", "update", "report"}, of : Nat, at : Nat, last : Nat,
   state : {"passing", "sending", "sent", "failed"}]
AnItem == [id : Turns \X Nat, update : BOOLEAN]
Entry == [id : Turns \X Nat, updated : BOOLEAN]
Operation ==
  [item : AnItem, failed : Nat, read : Seq(Entry) \union {None}, behind : BOOLEAN]
Reply == [status : {"none", "given", "failed"}, body : Seq(Turns \X Nat)]

\* The types of the variables that belong to a turn.
TurnTypes ==
  /\ TypingTypeOK
  /\ owner \in [Turns -> Nat]
  /\ phase \in [Turns -> Phases]
  /\ sends \in [Turns -> Seq(Sendings)]
  /\ transcript \in [Turns -> Seq(AnItem)]
  /\ buffered \in [Turns -> Seq(Turns \X Nat)]
  /\ reply \in [Turns -> Reply]
  /\ delivered \subseteq AnItem

\* How many sends a turn has, and what each may be.
SendInv ==
  \A t \in Turns :
    /\ Len(sends[t]) <= MaxSends[t] + 1
    /\ phase[t] \in {"absent", "new", "running", "returned", "flushed", "thrown"}
         => Len(sends[t]) <= MaxSends[t]
    /\ \A i \in 1..Len(sends[t]) :
         /\ SendType(t, sends[t][i])
         /\ sends[t][i].kind = "update"
              => /\ sends[t][i].of \in 1..Len(sends[t]) /\ sends[t][i].of <= MaxSends[t]
                 /\ sends[t][sends[t][i].of].state = "sent"
         /\ sends[t][i].state = "passing" => sends[t][i].kind \in {"message", "report"}

\* A message stops the timers it passes: none of them owns the indicator again,
\* none of those passed is armed, and those left behind are idle.
Quiets(t, send) ==
  send.kind \in {"message", "report"} =>
    /\ owner[t] = 0 \/ owner[t] > send.last
    /\ \A n \in 1..send.last :
         /\ send.state # "passing" => timer[t][n] = "idle"
         /\ n < send.at => timer[t][n] = "idle"
         /\ n = send.at => timer[t][n] # "armed"
TypingInv == \A t \in Turns : \A i \in 1..Len(sends[t]) : Quiets(t, sends[t][i])

\* The error handler sends one message, and the turn waits for it.
ReportInv ==
  \A t \in Turns : \A i \in 1..Len(sends[t]) :
    sends[t][i].kind = "report" =>
      /\ phase[t] \in {"reporting", "reported", "unreported", "over"}
      /\ sends[t][i].state \in {"passing", "sending"} => phase[t] = "reporting"
      /\ \A j \in 1..Len(sends[t]) : sends[t][j].kind = "report" => i = j

\* Of an activity and its updates, the activity comes first and once.
OnceThenUpdates(s) ==
  \A p, q \in 1..Len(s) :
    s[p].id = s[q].id /\ ~s[q].update /\ p # q => s[p].update /\ q < p

\* What may be recorded of a turn: the channel has it, or the reply will.
Kept(t, item) ==
  \/ item = Incoming(t)
  \/ item \in delivered
  \/ t \in ExpectReplies /\ ~item.update /\ item.id \in Range(buffered[t])

\* What the middleware of a turn records: its activity, or what it has sent.
OfTurn(t, item) ==
  /\ item \in ItemsOf(t)
  /\ item.id = <<t, 0>> \/ \E i \in 1..Len(sends[t]) : item.id = <<t, i>> /\ sends[t][i].state = "sent"

\* What the middleware of a turn has recorded, and what is with the channel or
\* in the buffer of the reply.
RecordInv ==
  /\ delivered \subseteq Items
  /\ \A t \in Turns :
       /\ OnceThenUpdates(transcript[t])
       /\ \A p \in 1..Len(transcript[t]) : OfTurn(t, transcript[t][p]) /\ Kept(t, transcript[t][p])
BufferInv ==
  \A t \in Turns : Range(buffered[t]) \subseteq {<<t, i>> : i \in 1..Len(sends[t])}

\* The reply is given at the end of the turn, with what is buffered.
ReplyInv ==
  \A t \in Turns :
    /\ phase[t] # "over" => reply[t].status = "none"
    /\ phase[t] = "over" =>
         \/ reply[t].status = "failed"
         \/ reply[t].body = IF t \in ExpectReplies THEN buffered[t] ELSE <<>>

\* What is logged is the transcript of turns that did not throw.
WellLogged(item) ==
  LET t == item.id[1] IN
  /\ phase[t] \in {"flushed", "over"} /\ reply[t].status # "failed"
  /\ item \in ItemsOf(t) /\ Kept(t, item)
LoggedInv ==
  /\ logged \in Seq(AnItem)
  /\ OnceThenUpdates(logged)
  /\ \A p \in 1..Len(logged) : WellLogged(logged[p])

\* The queue holds the last of what is logged; only the first operation has read
\* the file, and has read what it is now.
QueueInv ==
  /\ queue \in Seq(Operation) /\ Len(queue) <= Len(logged)
  /\ broken \in BOOLEAN /\ (broken => queue # <<>> /\ queue[1].behind)
  /\ \A k \in 1..Len(queue) :
       /\ queue[k].item = logged[Len(logged) - Len(queue) + k]
       /\ queue[k].failed \in 0..Attempts - 1
       /\ k > 1 => queue[k].behind
       /\ queue[k].read = None \/ (k = 1 /\ queue[k].read = file)
  /\ LostOnlyBehindFailure

\* Settled and under way: how far into the log the file may have come.
Reached == Len(logged) - Len(queue) + 1

\* The activities of the file are logged ones, in the order of the log, repeated
\* only as one that was tried again; what resolved is there.
Appends(j, id) == ~logged[j].update /\ logged[j].id = id
FileInv ==
  /\ file \in Seq(Entry)
  /\ \A p \in 1..Len(file) : \E j \in 1..Len(logged) : j <= Reached /\ Appends(j, file[p].id)
  /\ \A p, q \in 1..Len(file) : \A j, k \in 1..Len(logged) :
       p < q /\ Appends(j, file[p].id) /\ Appends(k, file[q].id) => j <= k

\* What resolved is there: an activity, and the mark of its update.
IsDone(item) ==
  IF item.update THEN FirstAt(item) # 0 => file[FirstAt(item)].updated
                 ELSE FirstAt(item) # 0
DoneInv ==
  \A item \in done :
    /\ \E j \in 1..Len(logged) : j < Reached /\ item = logged[j]
    /\ IsDone(item)

IInv ==
  TurnTypes /\ SendInv /\ TypingInv /\ ReportInv /\ RecordInv /\ BufferInv /\ ReplyInv
            /\ LoggedInv /\ QueueInv /\ FileInv /\ DoneInv

-----------------------------------------------------------------------------
(* What a send does in one step, in the terms of the invariant.            *)

\* The i-th send of a turn becomes s: a new one, or one that is under way.
Becomes(t, i, s) ==
  /\ s \in Sendings /\ i \in 1..Len(sends[t]) + 1
  /\ sends' \in [Turns -> Seq(Sendings)]
  /\ Len(sends'[t]) = (IF i > Len(sends[t]) THEN Len(sends[t]) + 1 ELSE Len(sends[t]))
  /\ sends'[t][i] = s
  /\ \A j \in 1..Len(sends[t]) : j # i => sends'[t][j] = sends[t][j]
  /\ \A u \in Turns : u # t => sends'[u] = sends[u]

IsNew(t, i, s) ==
  /\ i = Len(sends[t]) + 1
  /\ s.last = Len(timer[t]) /\ s.at = 1
  /\ \/ s.kind = "report" /\ phase[t] = "thrown" /\ s.of = 0
     \/ s.kind \in Kinds[t] /\ Alive(t) /\ Len(sends[t]) < MaxSends[t] /\ s.of = 0
     \/ /\ s.kind = "update" /\ Alive(t) /\ Len(sends[t]) < MaxSends[t]
        /\ s.of \in 1..Len(sends[t]) /\ sends[t][s.of].state = "sent"

GoesOn(t, i, s, state) ==
  /\ i \in 1..Len(sends[t]) /\ sends[t][i].state = state
  /\ s.kind = sends[t][i].kind /\ s.of = sends[t][i].of /\ s.last = sends[t][i].last

\* It waits at the handler of a timer, which it has stopped.
Enters(t, i, s) ==
  /\ \/ IsNew(t, i, s)
     \/ /\ GoesOn(t, i, s, "passing")
        /\ s.at = sends[t][i].at + 1 /\ timer[t][sends[t][i].at] # "sending"
  /\ s.state = "passing" /\ s.kind \in {"message", "report"} /\ s.at \in 1..s.last
  /\ s.last <= Len(timer[t])
  /\ StopTimer(t, s.at)
  /\ Reported(t, s, "reporting")
  /\ UNCHANGED <<buffered, transcript, delivered>>

\* It has passed all handlers.
HasPassed(t, i, s) ==
  /\ \/ IsNew(t, i, s) /\ (s.last = 0 \/ s.kind \notin {"message", "report"})
     \/ /\ GoesOn(t, i, s, "passing")
        /\ sends[t][i].at = s.last /\ timer[t][s.last] # "sending"
  /\ ~Revoked(t)
  /\ UNCHANGED <<typingVars, delivered>>

Buffers(t, i, s) ==
  /\ HasPassed(t, i, s)
  /\ t \in ExpectReplies /\ s.kind # "update" /\ s.state = "sent"
  /\ buffered' = [buffered EXCEPT ![t] = Append(@, <<t, i>>)]
  /\ Recorded(t, Outgoing(t, i))
  /\ Reported(t, s, "reported")

Posts(t, i, s) ==
  /\ HasPassed(t, i, s)
  /\ s.state = "sending"
  /\ Reported(t, s, "reporting")
  /\ UNCHANGED <<buffered, transcript>>

IsRevoked(t, i, s) ==
  /\ GoesOn(t, i, s, "passing")
  /\ sends[t][i].at = s.last /\ timer[t][s.last] # "sending"
  /\ Revoked(t) /\ s.state = "failed"
  /\ UNCHANGED <<typingVars, phase, buffered, transcript, delivered>>

Lands(t, i, s) ==
  /\ GoesOn(t, i, s, "sending")
  /\ s.state = IF Revoked(t) /\ s.kind # "update" THEN "failed" ELSE "sent"
  /\ delivered' = delivered \union {Record(t, i)}
  /\ Recorded(t, Record(t, i))
  /\ Reported(t, s, "reported")
  /\ UNCHANGED <<typingVars, buffered>>

Fails(t, i, s) ==
  /\ GoesOn(t, i, s, "sending")
  /\ s.state = "failed"
  /\ Reported(t, s, "unreported")
  /\ UNCHANGED <<typingVars, buffered, transcript, delivered>>

Sends(t) ==
  /\ UNCHANGED <<fileVars, reply>>
  /\ \E i \in Nat, s \in Sendings :
       /\ Becomes(t, i, s)
       /\ \/ Enters(t, i, s) \/ Buffers(t, i, s) \/ Posts(t, i, s)
          \/ IsRevoked(t, i, s) \/ Lands(t, i, s) \/ Fails(t, i, s)

\* Put sets one send of one turn.
LEMMA PutBecomes ==
  ASSUME TurnTypes, NEW t \in Turns, NEW i \in 1..Len(sends[t]) + 1, NEW s \in Sendings,
         Put(t, i, s)
  PROVE  Becomes(t, i, s)
<1>1. sends[t] \in Seq(Sendings)
  BY DEF TurnTypes
<1>2. sends' = [sends EXCEPT ![t] = IF i > Len(sends[t]) THEN Append(sends[t], s)
                                    ELSE [sends[t] EXCEPT ![i] = s]]
  BY DEF Put
<1>3. CASE i > Len(sends[t])
  <2>1. i = Len(sends[t]) + 1
    BY <1>1, <1>3
  <2>2. sends' = [sends EXCEPT ![t] = Append(sends[t], s)]
    BY <1>2, <1>3
  <2> QED BY <1>1, <2>1, <2>2, AppendProperties DEF TurnTypes, Becomes
<1>4. CASE ~(i > Len(sends[t]))
  <2>1. i \in 1..Len(sends[t])
    BY <1>1, <1>4
  <2>2. sends' = [sends EXCEPT ![t] = [sends[t] EXCEPT ![i] = s]]
    BY <1>2, <1>4
  <2>3. /\ [sends[t] EXCEPT ![i] = s] \in Seq(Sendings)
        /\ Len([sends[t] EXCEPT ![i] = s]) = Len(sends[t])
        /\ \A j \in 1..Len(sends[t]) : [sends[t] EXCEPT ![i] = s][j] = IF j = i THEN s ELSE sends[t][j]
    BY <1>1, <2>1, ExceptSeq
  <2> QED BY <2>1, <2>2, <2>3, <1>4 DEF TurnTypes, Becomes
<1> QED BY <1>3, <1>4

\* A send that begins.
LEMMA AddSendIs ==
  ASSUME TurnTypes, NEW t \in Turns, NEW kind, NEW of \in Nat,
         NEW s, s = NewSend(t, kind, of), s \in Sendings,
         AddSend(t, s), IsNew(t, Len(sends[t]) + 1, s), ~Revoked(t),
         UNCHANGED <<fileVars, reply, delivered>>
  PROVE  Sends(t)
<1> DEFINE i == Len(sends[t]) + 1
<1>1. i \in Nat /\ i \in 1..Len(sends[t]) + 1
  BY DEF TurnTypes
<1>2. CASE s.kind \in {"message", "report"} /\ s.last > 0
  <2>1. /\ StopTimer(t, 1) /\ Put(t, i, s) /\ Reported(t, s, "reporting")
        /\ UNCHANGED <<buffered, transcript>>
    BY <1>2 DEF AddSend
  <2>2. Becomes(t, i, s)
    BY <1>1, <2>1, PutBecomes
  <2>3. s.state = "passing" /\ s.at = 1 /\ s.last = Len(timer[t]) /\ s.last \in Nat
    BY DEF NewSend, Sendings
  <2>4. Enters(t, i, s)
    BY <1>2, <2>1, <2>3 DEF Enters
  <2> QED BY <1>1, <2>2, <2>4 DEF Sends
<1>3. CASE ~(s.kind \in {"message", "report"} /\ s.last > 0)
  <2>1. Reach(t, i, s) /\ UNCHANGED typingVars
    BY <1>3 DEF AddSend
  <2>2. HasPassed(t, i, s)
    BY <1>3, <2>1 DEF HasPassed, Sendings
  <2>3. CASE t \in ExpectReplies /\ s.kind # "update"
    <3> DEFINE z == [s EXCEPT !.state = "sent"]
    <3>1. z \in Sendings /\ z.kind = s.kind /\ z.of = s.of /\ z.at = s.at /\ z.last = s.last /\ z.state = "sent"
      BY DEF Sendings
    <3>2. Put(t, i, z) /\ buffered' = [buffered EXCEPT ![t] = Append(@, <<t, i>>)]
          /\ Recorded(t, Outgoing(t, i)) /\ Reported(t, s, "reported")
      BY <2>1, <2>3 DEF Reach
    <3> HIDE DEF z
    <3>3. HasPassed(t, i, z) /\ Reported(t, z, "reported")
      BY <2>2, <3>1, <3>2 DEF HasPassed, IsNew, GoesOn, Reported
    <3>4. Becomes(t, i, z)
      BY <1>1, <3>1, <3>2, PutBecomes
    <3>5. Buffers(t, i, z)
      BY <2>3, <3>1, <3>2, <3>3 DEF Buffers
    <3> QED BY <1>1, <3>1, <3>4, <3>5 DEF Sends
  <2>4. CASE ~(t \in ExpectReplies /\ s.kind # "update")
    <3> DEFINE z == [s EXCEPT !.state = "sending"]
    <3>1. z \in Sendings /\ z.kind = s.kind /\ z.of = s.of /\ z.at = s.at /\ z.last = s.last /\ z.state = "sending"
      BY DEF Sendings
    <3>2. Put(t, i, z) /\ Reported(t, s, "reporting") /\ UNCHANGED <<buffered, transcript>>
      BY <2>1, <2>4 DEF Reach
    <3> HIDE DEF z
    <3>3. HasPassed(t, i, z) /\ Reported(t, z, "reporting")
      BY <2>2, <3>1, <3>2 DEF HasPassed, IsNew, GoesOn, Reported
    <3>4. Becomes(t, i, z)
      BY <1>1, <3>1, <3>2, PutBecomes
    <3>5. Posts(t, i, z)
      BY <3>1, <3>2, <3>3 DEF Posts
    <3> QED BY <1>1, <3>1, <3>4, <3>5 DEF Sends
  <2> QED BY <2>3, <2>4
<1> QED BY <1>2, <1>3

\* Every step of a send is one of these.
LEMMA SendSteps ==
  ASSUME TurnTypes, SendInv, ReportInv, NEW t \in Turns,
         \/ SendActivity(t) \/ ReportError(t) \/ UpdateActivity(t)
         \/ \E i \in 1..MaxSends[t] + 1 : SendStep(t, i)
  PROVE  Sends(t)
<1>1. timer[t] \in Seq(TimerStates) /\ sends[t] \in Seq(Sendings)
  BY DEF TurnTypes, TypingTypeOK
<1>2. ASSUME NEW kind \in {"message", "quiet", "update", "report"}, NEW of \in Nat
      PROVE  NewSend(t, kind, of) \in Sendings
  BY <1>1 DEF NewSend, Sendings
<1>3. CASE SendActivity(t)
  <2>1. PICK kind \in Kinds[t] : AddSend(t, NewSend(t, kind, 0))
    BY <1>3 DEF SendActivity
  <2>2. kind \in {"message", "quiet"}
    BY AgentTurnAssumption
  <2> DEFINE s == NewSend(t, kind, 0)
  <2>3. s \in Sendings
    BY <1>2, <2>2
  <2>4. IsNew(t, Len(sends[t]) + 1, s) /\ ~Revoked(t)
    BY <1>3 DEF IsNew, NewSend, SendActivity, Alive, Revoked
  <2>5. UNCHANGED <<fileVars, reply, delivered>>
    BY <1>3 DEF SendActivity
  <2> QED BY <2>1, <2>3, <2>4, <2>5, AddSendIs
<1>4. CASE ReportError(t)
  <2> DEFINE s == NewSend(t, "report", 0)
  <2>1. s \in Sendings
    BY <1>2
  <2>2. IsNew(t, Len(sends[t]) + 1, s) /\ ~Revoked(t)
    BY <1>4 DEF IsNew, NewSend, ReportError, Revoked
  <2>3. AddSend(t, s) /\ UNCHANGED <<fileVars, reply, delivered>>
    BY <1>4 DEF ReportError
  <2> QED BY <2>1, <2>2, <2>3, AddSendIs
<1>5. CASE UpdateActivity(t)
  <2>1. PICK of \in DOMAIN sends[t] \ Updates(t) :
               sends[t][of].state = "sent" /\ AddSend(t, NewSend(t, "update", of))
    BY <1>5 DEF UpdateActivity
  <2> DEFINE s == NewSend(t, "update", of)
  <2>2. of \in 1..Len(sends[t])
    BY <1>1, <2>1
  <2>3. s \in Sendings
    BY <1>2, <2>2
  <2>4. IsNew(t, Len(sends[t]) + 1, s) /\ ~Revoked(t)
    BY <1>5, <2>1, <2>2 DEF IsNew, NewSend, UpdateActivity, Alive, Revoked
  <2>5. UNCHANGED <<fileVars, reply, delivered>>
    BY <1>5 DEF UpdateActivity
  <2> QED BY <2>1, <2>2, <2>3, <2>4, <2>5, AddSendIs
<1>6. ASSUME NEW i \in 1..MaxSends[t] + 1, SendStep(t, i) PROVE Sends(t)
  <2> DEFINE o == sends[t][i]
  <2>1. i \in 1..Len(sends[t]) /\ i \in Nat /\ o \in Sendings /\ i \in 1..Len(sends[t]) + 1
    BY <1>1, <1>6 DEF SendStep
  <2>2. SendType(t, o)
    BY <2>1 DEF SendInv
  <2>3. CASE PassHandler(t, i)
    <3>1. /\ o.state = "passing" /\ timer[t][o.at] # "sending" /\ o.kind \in {"message", "report"}
          /\ UNCHANGED <<fileVars, reply, delivered>>
      BY <2>1, <2>3 DEF PassHandler, Awaited, SendInv
    <3>2. o.at \in 1..o.last /\ o.last \in 0..Len(timer[t]) /\ Len(timer[t]) \in Nat
      BY <1>1, <2>2, <3>1 DEF SendType
    <3>3. CASE o.at < o.last
      <4> DEFINE z == [o EXCEPT !.at = @ + 1]
      <4>1. Put(t, i, z) /\ StopTimer(t, o.at + 1) /\ UNCHANGED <<phase, buffered, transcript>>
        BY <2>3, <3>3 DEF PassHandler
      <4>2. z \in Sendings /\ z.kind = o.kind /\ z.of = o.of /\ z.at = o.at + 1 /\ z.last = o.last
            /\ z.state = "passing"
        BY <2>1, <3>1 DEF Sendings
      <4> HIDE DEF z
      <4>3. Becomes(t, i, z)
        BY <2>1, <4>1, <4>2, PutBecomes
      <4>4. GoesOn(t, i, z, "passing") /\ z.at \in 1..z.last /\ z.last <= Len(timer[t])
        BY <2>1, <3>1, <3>2, <3>3, <4>2 DEF GoesOn
      <4>5. o.kind = "report" => phase[t] = "reporting"
        BY <2>1, <3>1 DEF ReportInv
      <4>6. Reported(t, z, "reporting")
        BY <4>1, <4>2, <4>5 DEF Reported, TurnTypes
      <4>7. z.kind \in {"message", "report"}
        BY <2>1, <3>1, <4>2 DEF SendInv
      <4> QED BY <2>1, <3>1, <4>1, <4>2, <4>3, <4>4, <4>6, <4>7 DEF Enters, Sends
    <3>4. CASE o.at >= o.last /\ Revoked(t)
      <4> DEFINE z == [o EXCEPT !.state = "failed"]
      <4>1. Put(t, i, z) /\ UNCHANGED <<typingVars, phase, buffered, transcript>>
        BY <2>3, <3>2, <3>4 DEF PassHandler
      <4>2. z \in Sendings /\ z.kind = o.kind /\ z.of = o.of /\ z.last = o.last /\ z.state = "failed"
        BY <2>1 DEF Sendings
      <4> HIDE DEF z
      <4>3. Becomes(t, i, z)
        BY <2>1, <4>1, <4>2, PutBecomes
      <4>4. IsRevoked(t, i, z)
        BY <2>1, <3>1, <3>2, <3>4, <4>1, <4>2 DEF IsRevoked, GoesOn
      <4> QED BY <2>1, <3>1, <4>2, <4>3, <4>4 DEF Sends
    <3>5. CASE o.at >= o.last /\ ~Revoked(t)
      <4>1. Reach(t, i, o) /\ UNCHANGED typingVars
        BY <2>3, <3>2, <3>5 DEF PassHandler
      <4>2. CASE t \in ExpectReplies
        <5> DEFINE z == [o EXCEPT !.state = "sent"]
        <5>1. /\ Put(t, i, z) /\ buffered' = [buffered EXCEPT ![t] = Append(@, <<t, i>>)]
              /\ Recorded(t, Outgoing(t, i)) /\ Reported(t, o, "reported")
          BY <3>1, <4>1, <4>2 DEF Reach
        <5>2. z \in Sendings /\ z.kind = o.kind /\ z.of = o.of /\ z.last = o.last /\ z.state = "sent"
          BY <2>1 DEF Sendings
        <5> HIDE DEF z
        <5>3. Becomes(t, i, z)
          BY <2>1, <5>1, <5>2, PutBecomes
        <5>4. HasPassed(t, i, z) /\ Reported(t, z, "reported")
          BY <2>1, <3>1, <3>2, <3>5, <4>1, <5>1, <5>2 DEF HasPassed, GoesOn, Reported
        <5> QED BY <2>1, <3>1, <4>2, <5>1, <5>2, <5>3, <5>4 DEF Sends, Buffers
      <4>3. CASE t \notin ExpectReplies
        <5> DEFINE z == [o EXCEPT !.state = "sending"]
        <5>1. /\ Put(t, i, z) /\ Reported(t, o, "reporting") /\ UNCHANGED <<buffered, transcript>>
          BY <3>1, <4>1, <4>3 DEF Reach
        <5>2. z \in Sendings /\ z.kind = o.kind /\ z.of = o.of /\ z.last = o.last /\ z.state = "sending"
          BY <2>1 DEF Sendings
        <5> HIDE DEF z
        <5>3. Becomes(t, i, z)
          BY <2>1, <5>1, <5>2, PutBecomes
        <5>4. HasPassed(t, i, z) /\ Reported(t, z, "reporting")
          BY <2>1, <3>1, <3>2, <3>5, <4>1, <5>1, <5>2 DEF HasPassed, GoesOn, Reported
        <5> QED BY <2>1, <3>1, <5>1, <5>2, <5>3, <5>4 DEF Sends, Posts
      <4> QED BY <4>2, <4>3
    <3> QED BY <3>2, <3>3, <3>4, <3>5
  <2>4. CASE SendLands(t, i)
    <3> DEFINE z == [o EXCEPT !.state = IF Revoked(t) /\ o.kind # "update" THEN "failed" ELSE "sent"]
    <3>1. /\ o.state = "sending" /\ Put(t, i, z) /\ delivered' = delivered \union {Record(t, i)}
          /\ Recorded(t, Record(t, i)) /\ Reported(t, o, "reported")
          /\ UNCHANGED <<typingVars, fileVars, buffered, reply>>
      BY <2>4 DEF SendLands
    <3>2. /\ z \in Sendings /\ z.kind = o.kind /\ z.of = o.of /\ z.last = o.last
          /\ z.state = IF Revoked(t) /\ z.kind # "update" THEN "failed" ELSE "sent"
      BY <2>1 DEF Sendings
    <3> HIDE DEF z
    <3>3. Becomes(t, i, z)
      BY <2>1, <3>1, <3>2, PutBecomes
    <3>4. Lands(t, i, z)
      BY <2>1, <3>1, <3>2 DEF Lands, GoesOn, Reported
    <3> QED BY <2>1, <3>1, <3>2, <3>3, <3>4 DEF Sends
  <2>5. CASE SendFails(t, i)
    <3> DEFINE z == [o EXCEPT !.state = "failed"]
    <3>1. /\ o.state = "sending" /\ Put(t, i, z) /\ Reported(t, o, "unreported")
          /\ UNCHANGED <<typingVars, fileVars, transcript, buffered, reply, delivered>>
      BY <2>5 DEF SendFails
    <3>2. z \in Sendings /\ z.kind = o.kind /\ z.of = o.of /\ z.last = o.last /\ z.state = "failed"
      BY <2>1 DEF Sendings
    <3> HIDE DEF z
    <3>3. Becomes(t, i, z)
      BY <2>1, <3>1, <3>2, PutBecomes
    <3>4. Fails(t, i, z)
      BY <2>1, <3>1, <3>2 DEF Fails, GoesOn, Reported
    <3> QED BY <2>1, <3>1, <3>2, <3>3, <3>4 DEF Sends
  <2> QED BY <1>6, <2>3, <2>4, <2>5 DEF SendStep
<1> QED BY <1>3, <1>4, <1>5, <1>6

\* A step of a turn that is not one of its sends.
Turns1(t) ==
  \/ Begin(t) \/ HandlerReturns(t) \/ HandlerThrows(t) \/ Flush(t) \/ EndTurn(t)
  \/ StartTyping(t) \/ StopTyping(t) \/ \E n \in 1..MaxTimers[t] : TypingStep(t, n)

\* The steps of the specification, by what they do to the sends.
LEMMA Steps ==
  ASSUME TurnTypes, SendInv, ReportInv, [Next]_vars
  PROVE  UNCHANGED vars \/ LogStep \/ \E t \in Turns : Turns1(t) \/ Sends(t)
<1>1. ASSUME NEW t \in Turns, Proceed(t) \/ Handle(t) PROVE Turns1(t) \/ Sends(t)
  BY <1>1, SendSteps DEF Proceed, Handle, Turns1
<1> QED BY <1>1 DEF Next

-----------------------------------------------------------------------------
(* Timers.                                                                 *)

TypingTypes == TypingTypeOK /\ owner \in [Turns -> Nat]

\* What no step does: wake an idle timer, or arm one that is not the owner, or
\* make a timer that was there before the owner of the indicator.
Quieter ==
  \A u \in Turns :
    /\ Len(timer[u]) <= Len(timer'[u])
    /\ owner'[u] \in {0, owner[u]} \/ owner'[u] > Len(timer[u])
    /\ \A n \in 1..Len(timer[u]) :
         /\ timer[u][n] = "idle" => timer'[u][n] = "idle"
         /\ timer[u][n] # "armed" /\ owner[u] # n => timer'[u][n] # "armed"

\* A step that only sets the state of one timer, and its owner to 0 or not at all.
LEMMA SetTimer ==
  ASSUME TypingTypes, NEW t \in Turns, NEW n \in 1..Len(timer[t]), NEW x \in TimerStates,
         timer' = [timer EXCEPT ![t][n] = x],
         owner' = owner \/ owner' = [owner EXCEPT ![t] = 0]
  PROVE  /\ TypingTypes'
         /\ \A u \in Turns : /\ Len(timer'[u]) = Len(timer[u])
                             /\ owner'[u] \in {0, owner[u]}
                             /\ u # t => timer'[u] = timer[u]
         /\ \A m \in 1..Len(timer[t]) : timer'[t][m] = IF m = n THEN x ELSE timer[t][m]
<1>1. timer \in [Turns -> Seq(TimerStates)] /\ timer[t] \in Seq(TimerStates)
  BY DEF TypingTypes, TypingTypeOK
<1>2. timer' = [timer EXCEPT ![t] = [timer[t] EXCEPT ![n] = x]]
  BY <1>1
<1>3. /\ [timer[t] EXCEPT ![n] = x] \in Seq(TimerStates)
      /\ Len([timer[t] EXCEPT ![n] = x]) = Len(timer[t])
      /\ \A m \in 1..Len(timer[t]) :
           [timer[t] EXCEPT ![n] = x][m] = IF m = n THEN x ELSE timer[t][m]
  BY <1>1, ExceptSeq
<1>4. \A u \in Turns : timer'[u] = IF u = t THEN [timer[t] EXCEPT ![n] = x] ELSE timer[u]
  BY <1>1, <1>2
<1>5. timer' \in [Turns -> Seq(TimerStates)]
  BY <1>1, <1>2, <1>3
<1>6. \A u \in Turns : Len(timer'[u]) = Len(timer[u])
  BY <1>3, <1>4
<1>7. owner' \in [Turns -> Nat] /\ \A u \in Turns : owner'[u] \in {0, owner[u]}
  BY DEF TypingTypes
<1>8. \A u \in Turns : Len(timer[u]) \in Nat
  BY <1>1
<1>9. TypingTypes'
  BY <1>5, <1>6, <1>7, <1>8 DEF TypingTypes, TypingTypeOK
<1> QED BY <1>3, <1>4, <1>6, <1>7, <1>9

\* Such a step is quieter when it lets idle timers be and arms but the owner.
LEMMA SetTimerQuiets ==
  ASSUME TypingTypes, NEW t \in Turns, NEW n \in 1..Len(timer[t]), NEW x \in TimerStates,
         timer' = [timer EXCEPT ![t][n] = x],
         owner' = owner \/ owner' = [owner EXCEPT ![t] = 0],
         timer[t][n] # "idle", x = "armed" => owner[t] = n
  PROVE  TypingTypes' /\ Quieter
<1>1. /\ TypingTypes'
      /\ \A u \in Turns : /\ Len(timer'[u]) = Len(timer[u])
                          /\ owner'[u] \in {0, owner[u]}
                          /\ u # t => timer'[u] = timer[u]
      /\ \A m \in 1..Len(timer[t]) : timer'[t][m] = IF m = n THEN x ELSE timer[t][m]
  BY SetTimer
<1>2. \A u \in Turns : Len(timer[u]) \in Nat
  BY DEF TypingTypes, TypingTypeOK
<1> QED BY <1>1, <1>2 DEF Quieter

\* The handler of a timer stops it, and with it whatever timer owns the indicator.
LEMMA StopTimerQuiets ==
  ASSUME TypingTypes, NEW t \in Turns, NEW n \in 1..Len(timer[t]), StopTimer(t, n)
  PROVE  /\ TypingTypes' /\ Quieter
         /\ timer'[t][n] # "armed" /\ owner'[t] = 0
         /\ timer[t][n] # "sending" => timer'[t][n] = "idle"
<1> DEFINE x == IF timer[t][n] = "armed" THEN "idle" ELSE timer[t][n]
<1>1. timer[t][n] \in TimerStates
  BY DEF TypingTypes, TypingTypeOK
<1>2. x \in TimerStates /\ x # "armed" /\ (timer[t][n] = "idle" => x = "idle") /\ (timer[t][n] # "sending" => x = "idle")
  BY <1>1 DEF TimerStates
<1>3. timer' = [timer EXCEPT ![t][n] = x] /\ owner' = [owner EXCEPT ![t] = 0]
  BY DEF StopTimer, TypingTypes, TypingTypeOK
<1> HIDE DEF x
<1>4. \A u \in Turns : Len(timer[u]) \in Nat
  BY DEF TypingTypes, TypingTypeOK
<1>5. /\ TypingTypes'
      /\ \A u \in Turns : /\ Len(timer'[u]) = Len(timer[u])
                          /\ owner'[u] \in {0, owner[u]}
                          /\ u # t => timer'[u] = timer[u]
      /\ \A m \in 1..Len(timer[t]) : timer'[t][m] = IF m = n THEN x ELSE timer[t][m]
  BY <1>2, <1>3, SetTimer
<1>6. Quieter
  BY <1>2, <1>4, <1>5 DEF Quieter
<1>7. owner'[t] = 0
  BY <1>3 DEF TypingTypes
<1> QED BY <1>2, <1>5, <1>6, <1>7

\* Every step of a turn keeps the types of its timers and makes it quieter.
LEMMA StepQuiets ==
  ASSUME TurnTypes, SendInv, NEW t \in Turns, Turns1(t) \/ Sends(t)
  PROVE  TypingTypes' /\ Quieter
<1>1. TypingTypes /\ \A u \in Turns : timer[u] \in Seq(TimerStates) /\ Len(timer[u]) \in Nat
  BY DEF TypingTypes, TurnTypes, TypingTypeOK
<1>2. ASSUME UNCHANGED typingVars PROVE TypingTypes' /\ Quieter
  BY <1>1, <1>2 DEF typingVars, Quieter, TypingTypes, TypingTypeOK
<1>3. ASSUME StopOwner(t) PROVE TypingTypes' /\ Quieter
  <2>1. CASE owner[t] = 0
    BY <1>2, <1>3, <2>1 DEF StopOwner
  <2>2. CASE owner[t] # 0
    <3>1. StopTimer(t, owner[t])
      BY <1>3, <2>2 DEF StopOwner
    <3>2. owner[t] \in 1..Len(timer[t])
      BY <1>1, <2>2 DEF TypingTypes, TypingTypeOK
    <3> QED BY <1>1, <3>1, <3>2, StopTimerQuiets
  <2> QED BY <2>1, <2>2
<1>4. CASE Begin(t)
  BY <1>2, <1>4 DEF Begin
<1>5. CASE HandlerReturns(t)
  BY <1>3, <1>5 DEF HandlerReturns
<1>6. CASE HandlerThrows(t)
  BY <1>3, <1>6 DEF HandlerThrows
<1>7. CASE Flush(t)
  BY <1>2, <1>7 DEF Flush
<1>8. CASE EndTurn(t)
  BY <1>2, <1>8 DEF EndTurn
<1>9. CASE StartTyping(t)
  <2>1. /\ Len(timer[t]) < MaxTimers[t] /\ owner[t] = 0
        /\ timer' = [timer EXCEPT ![t] = Append(timer[t], "armed")]
        /\ owner' = [owner EXCEPT ![t] = Len(timer[t]) + 1]
    BY <1>9 DEF StartTyping, StartTimer
  <2>2. /\ Append(timer[t], "armed") \in Seq(TimerStates)
        /\ Len(Append(timer[t], "armed")) = Len(timer[t]) + 1
        /\ \A n \in 1..Len(timer[t]) : Append(timer[t], "armed")[n] = timer[t][n]
    BY <1>1, AppendProperties DEF TimerStates
  <2>3. \A u \in Turns : /\ timer'[u] = IF u = t THEN Append(timer[t], "armed") ELSE timer[u]
                         /\ owner'[u] = IF u = t THEN Len(timer[t]) + 1 ELSE owner[u]
    BY <1>1, <2>1 DEF TypingTypes, TypingTypeOK
  <2>4. timer' \in [Turns -> Seq(TimerStates)] /\ owner' \in [Turns -> Nat]
    BY <1>1, <2>1, <2>2 DEF TypingTypes, TypingTypeOK
  <2>5. MaxTimers \in [Turns -> Nat]
    BY AgentTurnAssumption
  <2>6. \A u \in Turns : Len(timer'[u]) <= MaxTimers[u] /\ owner'[u] \in 0..Len(timer'[u])
    <3>1. \A u \in Turns : Len(timer[u]) <= MaxTimers[u] /\ owner[u] \in 0..Len(timer[u])
      BY <1>1 DEF TypingTypes, TypingTypeOK
    <3>2. /\ Len(timer'[t]) = Len(timer[t]) + 1 /\ owner'[t] = Len(timer[t]) + 1
          /\ MaxTimers[t] \in Nat
      BY <2>2, <2>3, <2>5
    <3>3. Len(timer'[t]) <= MaxTimers[t] /\ owner'[t] \in 0..Len(timer'[t])
      BY <1>1, <2>1, <3>2
    <3> QED BY <2>3, <3>1, <3>3
  <2>7. Quieter
    <3>1. ASSUME NEW n \in 1..Len(timer[t]) PROVE timer'[t][n] = timer[t][n]
      BY <2>2, <2>3
    <3>2. Len(timer'[t]) = Len(timer[t]) + 1 /\ owner'[t] = Len(timer[t]) + 1
      BY <2>2, <2>3
    <3>4. Len(timer[t]) <= Len(timer'[t]) /\ owner'[t] > Len(timer[t])
      BY <1>1, <3>2
    <3>3. ASSUME NEW u \in Turns, u # t PROVE timer'[u] = timer[u] /\ owner'[u] = owner[u]
      BY <2>3, <3>3
    <3> QED BY <1>1, <3>1, <3>3, <3>4 DEF Quieter
  <2> QED BY <2>4, <2>6, <2>7 DEF TypingTypes, TypingTypeOK
<1>10. CASE StopTyping(t)
  BY <1>3, <1>10 DEF StopTyping
<1>11. ASSUME NEW n \in 1..MaxTimers[t], TypingStep(t, n) PROVE TypingTypes' /\ Quieter
  <2>1. n \in 1..Len(timer[t])
    BY <1>1, <1>11 DEF TypingStep
  <2>2. CASE Fire(t, n, Revoked(t))
    <3>1. CASE Revoked(t)
      BY <1>1, <2>1, <2>2, <3>1, StopTimerQuiets DEF Fire
    <3>2. CASE ~Revoked(t)
      <4> DEFINE x == "sending"
      <4>1. timer[t][n] # "idle" /\ timer' = [timer EXCEPT ![t][n] = x] /\ owner' = owner
        BY <2>2, <3>2 DEF Fire
      <4>2. x \in TimerStates /\ x # "armed"
        BY DEF TimerStates
      <4> HIDE DEF x
      <4> QED BY <1>1, <2>1, <4>1, <4>2, SetTimerQuiets
    <3> QED BY <3>1, <3>2
  <2>3. CASE TypingLands(t, n)
    <3> DEFINE x == IF owner[t] = n THEN "armed" ELSE "idle"
    <3>1. timer[t][n] = "sending" /\ timer' = [timer EXCEPT ![t][n] = x] /\ owner' = owner
      BY <2>3 DEF TypingLands
    <3>2. x \in TimerStates /\ (owner[t] # n => x = "idle")
      BY DEF TimerStates
    <3> HIDE DEF x
    <3> QED BY <1>1, <2>1, <3>1, <3>2, SetTimerQuiets
  <2>4. CASE TypingFails(t, n)
    <3>1. /\ timer' = [timer EXCEPT ![t][n] = "idle"] /\ owner' = [owner EXCEPT ![t] = 0]
          /\ timer[t][n] = "sending"
      BY <2>4 DEF TypingFails
    <3>2. "idle" \in TimerStates
      BY DEF TimerStates
    <3> QED BY <1>1, <2>1, <3>1, <3>2, SetTimerQuiets
  <2> QED BY <1>11, <2>2, <2>3, <2>4 DEF TypingStep
<1>12. CASE Sends(t)
  <2>1. PICK i \in Nat, s \in Sendings :
           /\ Becomes(t, i, s)
           /\ \/ Enters(t, i, s) \/ Buffers(t, i, s) \/ Posts(t, i, s)
              \/ IsRevoked(t, i, s) \/ Lands(t, i, s) \/ Fails(t, i, s)
    BY <1>12 DEF Sends
  <2>2. CASE Enters(t, i, s)
    <3>1. s.at \in 1..Len(timer[t]) /\ StopTimer(t, s.at)
      BY <1>1, <2>2 DEF Enters, Sendings
    <3> QED BY <1>1, <3>1, StopTimerQuiets
  <2>3. CASE ~Enters(t, i, s)
    BY <1>2, <2>1, <2>3 DEF Buffers, Posts, HasPassed, IsRevoked, Lands, Fails
  <2> QED BY <2>2, <2>3
<1> QED BY <1>4, <1>5, <1>6, <1>7, <1>8, <1>9, <1>10, <1>11, <1>12 DEF Turns1

-----------------------------------------------------------------------------
(* Types, and the sends of a turn.                                         *)

\* What is recorded of a send is an item.
LEMMA RecordedTypes ==
  ASSUME TurnTypes, NEW t \in Turns, NEW item \in AnItem, Recorded(t, item)
  PROVE  transcript' \in [Turns -> Seq(AnItem)]
<1>1. transcript[t] \in Seq(AnItem) /\ Append(transcript[t], item) \in Seq(AnItem)
  BY AppendProperties DEF TurnTypes
<1> QED BY <1>1 DEF Recorded, TurnTypes

\* Only the message of the error handler moves the turn on.
LEMMA ReportedTypes ==
  ASSUME TurnTypes, NEW t \in Turns, NEW s, NEW result \in {"reporting", "reported", "unreported"},
         Reported(t, s, result)
  PROVE  /\ phase' \in [Turns -> Phases]
         /\ \A u \in Turns : u # t \/ s.kind # "report" => phase'[u] = phase[u]
         /\ s.kind = "report" => phase'[t] = result
  BY DEF Reported, TurnTypes, Phases

\* The variables of a turn keep their types.
LEMMA TypesStep ==
  ASSUME TurnTypes, SendInv, NEW t \in Turns, Turns1(t) \/ Sends(t)
  PROVE  TurnTypes'
<1>1. TypingTypes'
  BY StepQuiets
<1>2. CASE Turns1(t)
  <2>1. Incoming(t) \in AnItem /\ <<Incoming(t)>> \in Seq(AnItem) /\ <<>> \in Seq(AnItem)
        /\ <<>> \in Seq(Turns \X Nat)
    BY DEF Incoming, AnItem
  <2>2. Answer(t) \in Reply
    <3>1. buffered[t] \in Seq(Turns \X Nat)
      BY DEF TurnTypes
    <3> QED BY <2>1, <3>1 DEF Answer, Reply
  <2>3. phase' \in [Turns -> Phases]
    BY <1>2 DEF Turns1, Begin, HandlerReturns, HandlerThrows, Flush, EndTurn, StartTyping, StopTyping,
                TypingStep, TurnTypes, Phases
  <2>4. transcript' \in [Turns -> Seq(AnItem)]
    BY <1>2, <2>1 DEF Turns1, Begin, HandlerReturns, HandlerThrows, Flush, EndTurn, StartTyping,
                      StopTyping, TypingStep, TurnTypes
  <2>5. reply' \in [Turns -> Reply]
    BY <1>2, <2>2 DEF Turns1, Begin, HandlerReturns, HandlerThrows, Flush, EndTurn, StartTyping,
                      StopTyping, TypingStep, TurnTypes
  <2>6. UNCHANGED <<sends, buffered, delivered>>
    BY <1>2 DEF Turns1, Begin, HandlerReturns, HandlerThrows, Flush, EndTurn, StartTyping, StopTyping,
                TypingStep
  <2> QED BY <1>1, <2>3, <2>4, <2>5, <2>6 DEF TurnTypes, TypingTypes
<1>3. CASE Sends(t)
  <2>1. PICK i \in Nat, s \in Sendings :
           /\ Becomes(t, i, s)
           /\ \/ Enters(t, i, s) \/ Buffers(t, i, s) \/ Posts(t, i, s)
              \/ IsRevoked(t, i, s) \/ Lands(t, i, s) \/ Fails(t, i, s)
    BY <1>3 DEF Sends
  <2>2. phase' \in [Turns -> Phases]
    BY <2>1, ReportedTypes DEF Enters, Buffers, Posts, IsRevoked, Lands, Fails, TurnTypes
  <2>3. Outgoing(t, i) \in AnItem
    BY DEF Outgoing, AnItem
  <2>4. ASSUME Lands(t, i, s) PROVE Record(t, i) \in AnItem
    <3>1. sends[t][i] \in Sendings
      BY <2>4 DEF Lands, GoesOn, TurnTypes
    <3> QED BY <2>3, <3>1 DEF Record, UpdateOf, AnItem, Sendings
  <2>5. transcript' \in [Turns -> Seq(AnItem)]
    BY <2>1, <2>3, <2>4, RecordedTypes DEF Enters, Buffers, Posts, IsRevoked, Lands, Fails, TurnTypes
  <2>6. buffered' \in [Turns -> Seq(Turns \X Nat)]
    <3>1. buffered[t] \in Seq(Turns \X Nat) /\ Append(buffered[t], <<t, i>>) \in Seq(Turns \X Nat)
      BY AppendProperties DEF TurnTypes
    <3> QED BY <2>1, <3>1 DEF Enters, Buffers, Posts, IsRevoked, Lands, Fails, TurnTypes
  <2>7. delivered' \subseteq AnItem
    BY <2>1, <2>4 DEF Enters, Buffers, Posts, IsRevoked, Lands, Fails, HasPassed, TurnTypes
  <2>8. reply' = reply
    BY <1>3 DEF Sends
  <2> QED BY <1>1, <2>1, <2>2, <2>5, <2>6, <2>7, <2>8 DEF TurnTypes, TypingTypes, Becomes
<1> QED BY <1>2, <1>3

\* A turn sends as much as it may, and a send is what its kind allows.
LEMMA SendStepInv ==
  ASSUME TurnTypes, SendInv, ReportInv, NEW t \in Turns, Turns1(t) \/ Sends(t)
  PROVE  SendInv'
<1>1. Quieter /\ TypingTypes' /\ TurnTypes'
  BY StepQuiets, TypesStep
<1>2. /\ \A u \in Turns : Len(timer[u]) <= Len(timer'[u]) /\ Len(timer[u]) \in Nat /\ Len(timer'[u]) \in Nat
      /\ \A u \in Turns : Len(sends[u]) \in Nat /\ sends[u] \in Seq(Sendings)
      /\ MaxSends \in [Turns -> Nat] /\ \A u \in Turns : MaxSends[u] \in Nat
  <2>1. \A u \in Turns : Len(timer[u]) <= Len(timer'[u]) /\ Len(timer[u]) \in Nat /\ Len(timer'[u]) \in Nat
    <3>1. timer \in [Turns -> Seq(TimerStates)]
      BY DEF TurnTypes, TypingTypeOK
    <3>2. timer' \in [Turns -> Seq(TimerStates)]
      BY <1>1 DEF TypingTypes, TypingTypeOK
    <3>3. \A u \in Turns : Len(timer[u]) <= Len(timer'[u])
      BY <1>1 DEF Quieter
    <3> QED BY <3>1, <3>2, <3>3
  <2>2. \A u \in Turns : Len(sends[u]) \in Nat /\ sends[u] \in Seq(Sendings)
    BY DEF TurnTypes
  <2>3. MaxSends \in [Turns -> Nat]
    BY AgentTurnAssumption
  <2> QED BY <2>1, <2>2, <2>3
<1>3. ASSUME NEW u \in Turns, NEW x \in Sendings, SendType(u, x) PROVE SendType(u, x)'
  BY <1>2, <1>3 DEF SendType, Sendings
<1>4. CASE Turns1(t)
  <2>1. UNCHANGED sends
    BY <1>4 DEF Turns1, Begin, HandlerReturns, HandlerThrows, Flush, EndTurn, StartTyping, StopTyping,
                TypingStep
  <2>2. ASSUME NEW u \in Turns,
               phase'[u] \in {"absent", "new", "running", "returned", "flushed", "thrown"}
        PROVE  phase[u] \in {"absent", "new", "running", "returned", "flushed", "thrown"}
    BY <1>4, <2>2 DEF Turns1, Begin, HandlerReturns, HandlerThrows, Flush, EndTurn, StartTyping,
                StopTyping, TypingStep, TurnTypes
  <2>3. ASSUME NEW u \in Turns, NEW i \in 1..Len(sends[u])
        PROVE  SendType(u, sends[u][i])'
    <3>1. sends[u][i] \in Sendings /\ SendType(u, sends[u][i])
      BY <1>2 DEF SendInv
    <3> QED BY <1>3, <2>1, <3>1 DEF SendType
  <2> QED BY <2>1, <2>2, <2>3 DEF SendInv
<1>5. CASE Sends(t)
  <2>1. PICK i \in Nat, s \in Sendings :
           /\ Becomes(t, i, s)
           /\ \/ Enters(t, i, s) \/ Buffers(t, i, s) \/ Posts(t, i, s)
              \/ IsRevoked(t, i, s) \/ Lands(t, i, s) \/ Fails(t, i, s)
    BY <1>5 DEF Sends
  <2>2. /\ IsNew(t, i, s) \/ (\E state \in {"passing", "sending"} : GoesOn(t, i, s, state))
        /\ s.state = "passing" => s.kind \in {"message", "report"} /\ s.at \in 1..s.last
    BY <2>1 DEF Enters, Buffers, Posts, HasPassed, IsRevoked, Lands, Fails
  <2>3. SendType(t, s)
    <3>1. CASE IsNew(t, i, s)
      <4>1. s.of \in 0..MaxSends[t] /\ s.last \in 0..Len(timer[t])
        BY <1>2, <3>1 DEF IsNew
      <4> QED BY <2>2, <3>1, <4>1 DEF SendType, IsNew, Sendings
    <3>2. CASE ~IsNew(t, i, s)
      <4>1. PICK state \in {"passing", "sending"} : GoesOn(t, i, s, state)
        BY <2>2, <3>2
      <4>2. SendType(t, sends[t][i])
        BY <4>1 DEF GoesOn, SendInv
      <4> QED BY <2>2, <4>1, <4>2 DEF SendType, GoesOn, Sendings
    <3> QED BY <3>1, <3>2
  <2>4. ASSUME NEW u \in Turns, NEW j \in 1..Len(sends'[u]) PROVE SendType(u, sends[u][j])'
    <3>1. sends'[u][j] \in Sendings
      BY <2>1 DEF Becomes
    <3>2. SendType(u, sends'[u][j])
      <4>1. CASE u = t /\ j = i
        BY <2>1, <2>3, <4>1 DEF Becomes
      <4>2. CASE ~(u = t /\ j = i)
        <5>1. j \in 1..Len(sends[u]) /\ sends'[u][j] = sends[u][j]
          BY <1>2, <2>1, <4>2 DEF Becomes
        <5> QED BY <5>1 DEF SendInv
      <4> QED BY <4>1, <4>2
    <3> QED BY <1>3, <3>1, <3>2 DEF SendType
  <2>5. ASSUME NEW u \in Turns PROVE Len(sends'[u]) <= MaxSends[u] + 1
                /\ (phase'[u] \in {"absent", "new", "running", "returned", "flushed", "thrown"}
                      => Len(sends'[u]) <= MaxSends[u])
    <3>1. CASE u # t
      <4>1. sends'[u] = sends[u]
        BY <2>1, <3>1 DEF Becomes
      <4>2. phase'[u] = phase[u]
        BY <2>1, <3>1, ReportedTypes DEF Enters, Buffers, Posts, IsRevoked, Lands, Fails
      <4> QED BY <4>1, <4>2 DEF SendInv
    <3>2. CASE u = t /\ s.kind = "report"
      <4>1. CASE IsNew(t, i, s)
        <5>1. phase[t] = "thrown" /\ Len(sends'[t]) = Len(sends[t]) + 1
          <6>1. s.kind \notin Kinds[t]
            BY <3>2, AgentTurnAssumption
          <6>2. phase[t] = "thrown" /\ i = Len(sends[t]) + 1
            BY <3>2, <4>1, <6>1 DEF IsNew
          <6> QED BY <1>2, <2>1, <6>2 DEF Becomes
        <5>2. phase'[t] \in {"reporting", "reported"}
          BY <2>1, <3>2, <4>1, <1>2, ReportedTypes DEF Enters, Buffers, Posts, IsRevoked, Lands, Fails, IsNew, GoesOn
        <5>3. Len(sends[t]) <= MaxSends[t] /\ Len(sends[t]) \in Nat /\ MaxSends[t] \in Nat
          BY <1>2, <5>1 DEF SendInv
        <5> QED BY <3>2, <5>1, <5>2, <5>3
      <4>2. CASE ~IsNew(t, i, s)
        <5>1. PICK state \in {"passing", "sending"} : GoesOn(t, i, s, state)
          BY <2>2, <4>2
        <5>2. Len(sends'[t]) = Len(sends[t])
          BY <1>2, <2>1, <5>1 DEF Becomes, GoesOn
        <5>3. phase[t] = "reporting"
          BY <3>2, <5>1 DEF GoesOn, ReportInv
        <5>4. phase'[t] \in {"reporting", "reported", "unreported"}
          BY <2>1, <3>2, <5>3, ReportedTypes DEF Enters, Buffers, Posts, IsRevoked, Lands, Fails
        <5> QED BY <3>2, <5>2, <5>4 DEF SendInv
      <4> QED BY <4>1, <4>2
    <3>3. CASE u = t /\ s.kind # "report"
      <4>1. phase'[t] = phase[t]
        BY <2>1, <3>3, ReportedTypes DEF Enters, Buffers, Posts, IsRevoked, Lands, Fails
      <4>2. CASE IsNew(t, i, s)
        <5>1. Len(sends[t]) < MaxSends[t] /\ Len(sends'[t]) = Len(sends[t]) + 1
          BY <1>2, <2>1, <3>3, <4>2 DEF IsNew, Becomes
        <5> QED BY <1>2, <3>3, <5>1
      <4>3. CASE ~IsNew(t, i, s)
        <5>1. i \in 1..Len(sends[t])
          BY <2>2, <4>3 DEF GoesOn
        <5>2. Len(sends'[t]) = Len(sends[t])
          BY <1>2, <2>1, <5>1 DEF Becomes
        <5> QED BY <3>3, <4>1, <5>2 DEF SendInv
      <4> QED BY <4>2, <4>3
    <3> QED BY <3>1, <3>2, <3>3
  <2>6. ASSUME NEW u \in Turns, NEW j \in 1..Len(sends'[u])
        PROVE  /\ sends'[u][j].kind = "update"
                    => /\ sends'[u][j].of \in 1..Len(sends'[u]) /\ sends'[u][j].of <= MaxSends[u]
                       /\ sends'[u][sends'[u][j].of].state = "sent"
               /\ sends'[u][j].state = "passing" => sends'[u][j].kind \in {"message", "report"}
    <3>1. CASE u # t
      <4>1. sends'[u] = sends[u]
        BY <2>1, <3>1 DEF Becomes
      <4> QED BY <4>1 DEF SendInv
    <3>2. ASSUME u = t, NEW k \in 1..Len(sends[t]), sends[t][k].state = "sent"
          PROVE  k \in 1..Len(sends'[t]) /\ sends'[t][k].state = "sent"
      <4>1. k # i
        BY <1>2, <2>2, <3>2 DEF IsNew, GoesOn
      <4> QED BY <1>2, <2>1, <3>2, <4>1 DEF Becomes
    <3>3. CASE u = t /\ j # i
      <4>1. j \in 1..Len(sends[t]) /\ sends'[t][j] = sends[t][j]
        BY <1>2, <2>1, <3>3 DEF Becomes
      <4> QED BY <3>2, <3>3, <4>1 DEF SendInv
    <3>4. CASE u = t /\ j = i /\ IsNew(t, i, s)
      <4>1. sends'[t][j] = s
        BY <2>1, <3>4 DEF Becomes
      <4>2. s.kind = "update" => s.of \in 1..Len(sends[t]) /\ s.of <= MaxSends[t] /\ sends[t][s.of].state = "sent"
        <5>1. ASSUME s.kind = "update" PROVE s.kind \notin Kinds[t]
          BY <5>1, AgentTurnAssumption
        <5>2. s.kind = "update" => /\ s.of \in 1..Len(sends[t]) /\ sends[t][s.of].state = "sent"
                                   /\ Len(sends[t]) < MaxSends[t]
          BY <3>4, <5>1 DEF IsNew
        <5>3. Len(sends[t]) \in Nat /\ MaxSends[t] \in Nat
          BY <1>2
        <5> QED BY <5>2, <5>3
      <4> QED BY <2>2, <3>2, <3>4, <4>1, <4>2
    <3>5. CASE u = t /\ j = i /\ ~IsNew(t, i, s)
      <4>1. sends'[t][j] = s
        BY <2>1, <3>5 DEF Becomes
      <4>2. i \in 1..Len(sends[t]) /\ s.kind = sends[t][i].kind /\ s.of = sends[t][i].of
        BY <2>2, <3>5 DEF GoesOn
      <4>3. s.kind = "update" => s.of \in 1..Len(sends[t]) /\ s.of <= MaxSends[t] /\ sends[t][s.of].state = "sent"
        <5>1. sends[t][i].kind = "update"
                => /\ sends[t][i].of \in 1..Len(sends[t]) /\ sends[t][i].of <= MaxSends[t]
                   /\ sends[t][sends[t][i].of].state = "sent"
          BY <4>2 DEF SendInv
        <5> QED BY <4>2, <5>1
      <4> QED BY <2>2, <3>2, <3>5, <4>1, <4>3
    <3> QED BY <3>1, <3>3, <3>4, <3>5
  <2> QED BY <2>4, <2>5, <2>6 DEF SendInv
<1> QED BY <1>4, <1>5

\* A send that stays as it is stays quiet.
LEMMA QuietsStays ==
  ASSUME TurnTypes, Quieter, TypingTypes', NEW u \in Turns, NEW x \in Sendings,
         SendType(u, x), Quiets(u, x)
  PROVE  Quiets(u, x)'
<1>1. /\ Len(timer[u]) \in Nat /\ owner[u] \in Nat /\ x.last \in Nat /\ x.last <= Len(timer[u])
      /\ x.at \in Nat
  BY DEF TurnTypes, TypingTypeOK, SendType, Sendings
<1>2. owner'[u] \in {0, owner[u]} \/ owner'[u] > Len(timer[u])
  BY DEF Quieter
<1>3. ASSUME x.kind \in {"message", "report"} PROVE owner'[u] = 0 \/ owner'[u] > x.last
  <2>1. owner[u] = 0 \/ owner[u] > x.last
    BY <1>3 DEF Quiets
  <2>2. CASE owner'[u] > Len(timer[u])
    <3>1. owner'[u] \in Nat
      BY DEF TypingTypes
    <3> QED BY <1>1, <2>2, <3>1
  <2> QED BY <1>2, <2>1, <2>2
<1>4. ASSUME x.kind \in {"message", "report"}, NEW n \in 1..x.last
      PROVE  /\ timer[u][n] = "idle" => timer'[u][n] = "idle"
             /\ timer[u][n] # "armed" => timer'[u][n] # "armed"
  <2>1. n \in 1..Len(timer[u])
    BY <1>1
  <2>2. owner[u] # n
    BY <1>1, <1>4 DEF Quiets
  <2> QED BY <2>1, <2>2 DEF Quieter
<1> QED BY <1>3, <1>4 DEF Quiets

\* Nothing a turn does wakes a timer that one of its messages has stopped.
LEMMA TypingStepInv ==
  ASSUME TurnTypes, SendInv, TypingInv, NEW t \in Turns, Turns1(t) \/ Sends(t)
  PROVE  TypingInv'
<1>1. Quieter /\ TypingTypes /\ TypingTypes'
  BY StepQuiets DEF TurnTypes, TypingTypes
<1>2. \A u \in Turns : Len(sends[u]) \in Nat /\ sends[u] \in Seq(Sendings)
  BY DEF TurnTypes
<1>3. ASSUME NEW u \in Turns, NEW j \in 1..Len(sends[u]) PROVE Quiets(u, sends[u][j]) /\ SendType(u, sends[u][j])
  BY DEF TypingInv, SendInv
<1>4. CASE Turns1(t)
  <2>1. UNCHANGED sends
    BY <1>4 DEF Turns1, Begin, HandlerReturns, HandlerThrows, Flush, EndTurn, StartTyping, StopTyping,
                TypingStep
  <2>2. ASSUME NEW u \in Turns, NEW j \in 1..Len(sends[u]) PROVE Quiets(u, sends[u][j])'
    <3>1. PICK x \in Sendings : x = sends[u][j]
      BY <1>2
    <3>2. Quiets(u, x)'
      BY <1>1, <1>3, <3>1, QuietsStays
    <3> QED BY <2>1, <3>1, <3>2 DEF Quiets
  <2> QED BY <2>1, <2>2 DEF TypingInv
<1>5. CASE Sends(t)
  <2>1. PICK i \in Nat, s \in Sendings :
           /\ Becomes(t, i, s)
           /\ \/ Enters(t, i, s) \/ Buffers(t, i, s) \/ Posts(t, i, s)
              \/ IsRevoked(t, i, s) \/ Lands(t, i, s) \/ Fails(t, i, s)
    BY <1>5 DEF Sends
  <2>2. ASSUME NEW u \in Turns, NEW j \in 1..Len(sends'[u]), ~(u = t /\ j = i) PROVE Quiets(u, sends[u][j])'
    <3>1. j \in 1..Len(sends[u]) /\ sends'[u][j] = sends[u][j]
      BY <1>2, <2>1, <2>2 DEF Becomes
    <3>2. PICK x \in Sendings : x = sends[u][j]
      BY <1>2, <3>1
    <3>3. Quiets(u, x)'
      BY <1>1, <1>3, <3>1, <3>2, QuietsStays
    <3> QED BY <3>1, <3>2, <3>3 DEF Quiets
  <2>3. Quiets(t, s)'
    <3> SUFFICES ASSUME s.kind \in {"message", "report"}
                 PROVE  /\ owner'[t] = 0 \/ owner'[t] > s.last
                        /\ \A n \in 1..s.last :
                             /\ s.state # "passing" => timer'[t][n] = "idle"
                             /\ n < s.at => timer'[t][n] = "idle"
                             /\ n = s.at => timer'[t][n] # "armed"
      BY DEF Quiets
    <3>1. timer[t] \in Seq(TimerStates) /\ Len(timer[t]) \in Nat /\ s.last \in Nat /\ s.at \in Nat
      BY DEF TurnTypes, TypingTypeOK, Sendings
    <3>2. ASSUME NEW state \in {"passing", "sending"}, GoesOn(t, i, s, state)
          PROVE  /\ sends[t][i] \in Sendings /\ sends[t][i].at \in Nat /\ s.last <= Len(timer[t])
                 /\ state = "passing" => sends[t][i].at \in 1..s.last
                 /\ owner[t] = 0 \/ owner[t] > s.last
                 /\ \A n \in 1..s.last :
                      /\ state = "sending" => timer[t][n] = "idle"
                      /\ n < sends[t][i].at => timer[t][n] = "idle"
                      /\ n = sends[t][i].at => timer[t][n] # "armed"
      <4>1. sends[t][i] \in Sendings /\ Quiets(t, sends[t][i]) /\ SendType(t, sends[t][i])
        BY <1>2, <1>3, <3>2 DEF GoesOn
      <4>2. sends[t][i].at \in Nat /\ s.last <= Len(timer[t])
        BY <3>1, <3>2, <4>1 DEF SendType, GoesOn, Sendings
      <4>3. state = "passing" => sends[t][i].at \in 1..s.last
        BY <3>2, <4>1 DEF SendType, GoesOn
      <4> QED BY <3>2, <4>1, <4>2, <4>3 DEF Quiets, GoesOn
    <3>3. CASE Enters(t, i, s)
      <4>1. s.at \in 1..Len(timer[t]) /\ StopTimer(t, s.at) /\ s.state = "passing"
        BY <2>1, <3>1, <3>3 DEF Enters
      <4>2. owner'[t] = 0 /\ timer'[t][s.at] # "armed"
        BY <1>1, <4>1, StopTimerQuiets
      <4>3. ASSUME NEW n \in 1..s.last, n < s.at PROVE timer'[t][n] = "idle"
        <5>1. CASE IsNew(t, i, s)
          BY <4>3, <5>1 DEF IsNew
        <5>2. CASE ~IsNew(t, i, s)
          <6>1. GoesOn(t, i, s, "passing") /\ s.at = sends[t][i].at + 1 /\ timer[t][sends[t][i].at] # "sending"
            BY <3>3, <5>2 DEF Enters
          <6>2. sends[t][i].at \in Nat /\ s.last <= Len(timer[t])
            BY <3>2, <6>1
          <6>3. timer[t][n] \in TimerStates /\ n \in 1..Len(timer[t])
            BY <3>1, <6>2
          <6>4. timer[t][n] = "idle"
            <7>1. CASE n < sends[t][i].at
              BY <3>2, <6>1, <7>1
            <7>2. CASE n = sends[t][i].at
              BY <3>2, <6>1, <6>3, <7>2 DEF TimerStates
            <7> QED BY <4>3, <6>1, <6>2, <7>1, <7>2
          <6> QED BY <1>1, <6>3, <6>4 DEF Quieter
        <5> QED BY <5>1, <5>2
      <4> QED BY <4>1, <4>2, <4>3
    <3>4. ASSUME HasPassed(t, i, s) \/ IsRevoked(t, i, s), NEW n \in 1..s.last
          PROVE  timer[t][n] = "idle" /\ (owner[t] = 0 \/ owner[t] > s.last) /\ UNCHANGED typingVars
      <4>1. UNCHANGED typingVars
        BY <3>4 DEF HasPassed, IsRevoked
      <4>2. s.last # 0
        BY <3>1
      <4>3. GoesOn(t, i, s, "passing") /\ sends[t][i].at = s.last /\ timer[t][s.last] # "sending"
        BY <3>4, <4>2 DEF HasPassed, IsRevoked
      <4>4. s.last \in 1..Len(timer[t])
        BY <3>1, <3>2, <4>3
      <4>5. timer[t][s.last] \in TimerStates
        BY <3>1, <4>4
      <4>6. timer[t][n] = "idle"
        <5>1. CASE n < s.last
          BY <3>2, <4>3, <5>1
        <5>2. CASE n = s.last
          BY <3>2, <4>3, <4>5, <5>2 DEF TimerStates
        <5> QED BY <3>1, <5>1, <5>2
      <4> QED BY <3>2, <4>1, <4>3, <4>6
    <3>5. ASSUME HasPassed(t, i, s) \/ IsRevoked(t, i, s)
          PROVE  owner[t] = 0 \/ owner[t] > s.last
      <4>1. CASE IsNew(t, i, s) /\ HasPassed(t, i, s)
        <5>1. s.last = 0 /\ owner[t] \in Nat
          BY <3>5, <4>1, <2>1 DEF HasPassed, TurnTypes, IsNew, GoesOn
        <5> QED BY <5>1
      <4>2. CASE ~(IsNew(t, i, s) /\ HasPassed(t, i, s))
        <5>1. GoesOn(t, i, s, "passing")
          BY <3>5, <4>2 DEF HasPassed, IsRevoked
        <5> QED BY <3>2, <5>1
      <4> QED BY <4>1, <4>2
    <3>6. CASE Buffers(t, i, s) \/ Posts(t, i, s) \/ IsRevoked(t, i, s)
      <4>1. HasPassed(t, i, s) \/ IsRevoked(t, i, s)
        BY <3>6 DEF Buffers, Posts
      <4>2. timer' = timer /\ owner' = owner
        BY <4>1 DEF HasPassed, IsRevoked, typingVars
      <4> QED BY <3>4, <3>5, <4>1, <4>2
    <3>7. CASE Lands(t, i, s) \/ Fails(t, i, s)
      <4>1. GoesOn(t, i, s, "sending") /\ timer' = timer /\ owner' = owner
        BY <3>7 DEF Lands, Fails, typingVars
      <4> QED BY <3>2, <4>1
    <3> QED BY <2>1, <3>3, <3>6, <3>7
  <2>4. Quiets(t, sends[t][i])'
    BY <2>1, <2>3 DEF Quiets, Becomes
  <2> QED BY <2>2, <2>4 DEF TypingInv
<1> QED BY <1>4, <1>5

\* The turn waits for the one message of its error handler.
LEMMA ReportStepInv ==
  ASSUME TurnTypes, ReportInv, NEW t \in Turns, Turns1(t) \/ Sends(t)
  PROVE  ReportInv'
<1>1. \A u \in Turns : Len(sends[u]) \in Nat /\ sends[u] \in Seq(Sendings)
  BY DEF TurnTypes
<1>2. CASE Turns1(t)
  <2>1. UNCHANGED sends
    BY <1>2 DEF Turns1, Begin, HandlerReturns, HandlerThrows, Flush, EndTurn, StartTyping, StopTyping,
                TypingStep
  <2>2. ASSUME NEW u \in Turns, phase[u] \in {"reporting", "reported", "unreported", "over"}
        PROVE  /\ phase'[u] \in {"reporting", "reported", "unreported", "over"}
               /\ phase[u] = "reporting" => phase'[u] = "reporting"
    BY <1>2, <2>2 DEF Turns1, Begin, HandlerReturns, HandlerThrows, Flush, EndTurn, StartTyping,
                StopTyping, TypingStep, TurnTypes
  <2> QED BY <2>1, <2>2 DEF ReportInv
<1>3. CASE Sends(t)
  <2>1. PICK i \in Nat, s \in Sendings :
           /\ Becomes(t, i, s)
           /\ \/ Enters(t, i, s) \/ Buffers(t, i, s) \/ Posts(t, i, s)
              \/ IsRevoked(t, i, s) \/ Lands(t, i, s) \/ Fails(t, i, s)
    BY <1>3 DEF Sends
  <2>2. ASSUME NEW u \in Turns, NEW j \in 1..Len(sends'[u]), ~(u = t /\ j = i)
        PROVE  j \in 1..Len(sends[u]) /\ sends'[u][j] = sends[u][j]
    BY <1>1, <2>1, <2>2 DEF Becomes
  <2>3. ASSUME NEW u \in Turns, u # t \/ s.kind # "report" PROVE phase'[u] = phase[u]
    BY <2>1, <2>3, ReportedTypes DEF Enters, Buffers, Posts, IsRevoked, Lands, Fails
  <2>4. CASE s.kind # "report"
    <3>1. ASSUME NEW j \in 1..Len(sends'[t]), sends'[t][j].kind = "report"
          PROVE  j \in 1..Len(sends[t]) /\ sends'[t][j] = sends[t][j] /\ j # i
      BY <2>1, <2>2, <2>4, <3>1 DEF Becomes
    <3>2. ASSUME NEW u \in Turns, NEW j \in 1..Len(sends'[u]), sends'[u][j].kind = "report"
          PROVE  j \in 1..Len(sends[u]) /\ sends'[u][j] = sends[u][j]
      BY <2>2, <3>1, <3>2
    <3> QED BY <2>3, <2>4, <3>2 DEF ReportInv
  <2>5. CASE s.kind = "report"
    <3>1. ASSUME NEW j \in 1..Len(sends'[t]), sends'[t][j].kind = "report" PROVE j = i
      <4>1. CASE IsNew(t, i, s)
        <5>1. phase[t] = "thrown"
          <6>1. s.kind \notin Kinds[t]
            BY <2>5, AgentTurnAssumption
          <6> QED BY <2>5, <4>1, <6>1 DEF IsNew
        <5> QED BY <2>2, <3>1, <5>1 DEF ReportInv
      <4>2. CASE ~IsNew(t, i, s)
        <5>1. i \in 1..Len(sends[t]) /\ sends[t][i].kind = "report"
          BY <2>1, <2>5, <4>2 DEF Enters, Buffers, Posts, HasPassed, IsRevoked, Lands, Fails, GoesOn
        <5> QED BY <2>2, <3>1, <5>1 DEF ReportInv
      <4> QED BY <4>1, <4>2
    <3>2. /\ phase'[t] \in {"reporting", "reported", "unreported", "over"}
          /\ s.state \in {"passing", "sending"} => phase'[t] = "reporting"
      <4>1. CASE Enters(t, i, s)
        BY <2>5, <4>1, ReportedTypes DEF Enters
      <4>2. CASE Buffers(t, i, s)
        BY <2>5, <4>2, ReportedTypes DEF Buffers
      <4>3. CASE Posts(t, i, s)
        BY <2>5, <4>3, ReportedTypes DEF Posts
      <4>4. CASE IsRevoked(t, i, s)
        BY <2>5, <4>4 DEF IsRevoked, Revoked
      <4>5. CASE Lands(t, i, s)
        BY <2>5, <4>5, ReportedTypes DEF Lands
      <4>6. CASE Fails(t, i, s)
        BY <2>5, <4>6, ReportedTypes DEF Fails
      <4> QED BY <2>1, <4>1, <4>2, <4>3, <4>4, <4>5, <4>6
    <3>3. sends'[t][i] = s /\ i \in 1..Len(sends'[t])
      BY <1>1, <2>1 DEF Becomes
    <3>4. ASSUME NEW u \in Turns, u # t PROVE sends'[u] = sends[u] /\ phase'[u] = phase[u]
      BY <2>1, <2>3, <3>4 DEF Becomes
    <3>5. ASSUME NEW u \in Turns, NEW j \in 1..Len(sends'[u]), sends'[u][j].kind = "report"
          PROVE  /\ phase'[u] \in {"reporting", "reported", "unreported", "over"}
                 /\ sends'[u][j].state \in {"passing", "sending"} => phase'[u] = "reporting"
                 /\ \A k \in 1..Len(sends'[u]) : sends'[u][k].kind = "report" => j = k
      <4>1. CASE u = t
        BY <3>1, <3>2, <3>3, <3>5, <4>1
      <4>2. CASE u # t
        BY <3>4, <3>5, <4>2 DEF ReportInv
      <4> QED BY <4>1, <4>2
    <3> QED BY <3>5 DEF ReportInv
  <2> QED BY <2>4, <2>5
<1> QED BY <1>2, <1>3

-----------------------------------------------------------------------------
(* What is recorded.                                                       *)

\* An update, or an activity that is not there yet, may come last.
LEMMA AppendOnce ==
  ASSUME NEW s \in Seq(AnItem), NEW item \in AnItem, OnceThenUpdates(s),
         item.update \/ \A p \in 1..Len(s) : s[p].id # item.id
  PROVE  OnceThenUpdates(Append(s, item))
<1> DEFINE r == Append(s, item)
<1>1. /\ Len(s) \in Nat /\ Len(r) = Len(s) + 1 /\ r[Len(s) + 1] = item
      /\ \A p \in 1..Len(s) : r[p] = s[p]
  BY AppendProperties
<1> HIDE DEF r
<1>2. ASSUME NEW p \in 1..Len(r), NEW q \in 1..Len(r), r[p].id = r[q].id, ~r[q].update, p # q
      PROVE  r[p].update /\ q < p
  <2>1. CASE p \in 1..Len(s) /\ q \in 1..Len(s)
    BY <1>1, <1>2, <2>1 DEF OnceThenUpdates
  <2>2. CASE p \in 1..Len(s) /\ q = Len(s) + 1
    BY <1>1, <1>2, <2>2
  <2>3. CASE p = Len(s) + 1 /\ q \in 1..Len(s)
    BY <1>1, <1>2, <2>3
  <2>4. p \in 1..Len(s) \/ p = Len(s) + 1
    BY <1>1
  <2>5. q \in 1..Len(s) \/ q = Len(s) + 1
    BY <1>1
  <2> QED BY <1>2, <2>1, <2>2, <2>3, <2>4, <2>5
<1> QED BY <1>2 DEF OnceThenUpdates, r

\* The channel and the buffer keep what they have.
LEMMA KeptStays ==
  ASSUME TurnTypes, NEW t \in Turns, Turns1(t) \/ Sends(t)
  PROVE  /\ delivered \subseteq delivered'
         /\ \A u \in Turns : Range(buffered[u]) \subseteq Range(buffered'[u])
         /\ \A u \in Turns, item \in AnItem : Kept(u, item) => Kept(u, item)'
<1>1. CASE Turns1(t)
  BY <1>1 DEF Turns1, Begin, HandlerReturns, HandlerThrows, Flush, EndTurn, StartTyping, StopTyping,
              TypingStep, Kept
<1>2. CASE Sends(t)
  <2>1. PICK i \in Nat, s \in Sendings :
           /\ Becomes(t, i, s)
           /\ \/ Enters(t, i, s) \/ Buffers(t, i, s) \/ Posts(t, i, s)
              \/ IsRevoked(t, i, s) \/ Lands(t, i, s) \/ Fails(t, i, s)
    BY <1>2 DEF Sends
  <2>2. delivered \subseteq delivered'
    BY <2>1 DEF Enters, Buffers, Posts, HasPassed, IsRevoked, Lands, Fails
  <2>3. ASSUME NEW u \in Turns PROVE Range(buffered[u]) \subseteq Range(buffered'[u])
    <3>1. CASE Buffers(t, i, s)
      <4>1. buffered[t] \in Seq(Turns \X Nat) /\ buffered' = [buffered EXCEPT ![t] = Append(buffered[t], <<t, i>>)]
        BY <3>1 DEF Buffers, TurnTypes
      <4>2. DOMAIN buffered[t] = 1..Len(buffered[t]) /\ DOMAIN Append(buffered[t], <<t, i>>) = 1..Len(buffered[t]) + 1
        BY <4>1
      <4>3. \A p \in 1..Len(buffered[t]) : Append(buffered[t], <<t, i>>)[p] = buffered[t][p]
        BY <4>1
      <4>4. Range(buffered[t]) \subseteq Range(Append(buffered[t], <<t, i>>))
        BY <4>1, <4>2, <4>3 DEF Range
      <4> QED BY <4>1, <4>4 DEF TurnTypes
    <3>2. CASE ~Buffers(t, i, s)
      BY <2>1, <3>2 DEF Enters, Posts, IsRevoked, Lands, Fails
    <3> QED BY <3>1, <3>2
  <2> QED BY <2>2, <2>3 DEF Kept
<1> QED BY <1>1, <1>2

\* What was of a turn stays so: its activity, or a send that has ended.
LEMMA OfTurnStays ==
  ASSUME TurnTypes, NEW t \in Turns, Turns1(t) \/ Sends(t)
  PROVE  \A u \in Turns, item \in AnItem : OfTurn(u, item) => OfTurn(u, item)'
<1>1. CASE Turns1(t)
  BY <1>1 DEF Turns1, Begin, HandlerReturns, HandlerThrows, Flush, EndTurn, StartTyping, StopTyping,
              TypingStep, OfTurn, ItemsOf
<1>2. CASE Sends(t)
  <2>1. PICK i \in Nat, s \in Sendings :
           /\ Becomes(t, i, s)
           /\ \/ Enters(t, i, s) \/ Buffers(t, i, s) \/ Posts(t, i, s)
              \/ IsRevoked(t, i, s) \/ Lands(t, i, s) \/ Fails(t, i, s)
    BY <1>2 DEF Sends
  <2>2. ASSUME NEW u \in Turns, NEW j \in 1..Len(sends[u]), sends[u][j].state = "sent"
        PROVE  j \in 1..Len(sends'[u]) /\ sends'[u][j] = sends[u][j]
    <3>1. u = t => j # i
      BY <2>1, <2>2 DEF Enters, Buffers, Posts, HasPassed, IsRevoked, Lands, Fails, GoesOn, IsNew, TurnTypes
    <3>2. Len(sends[u]) \in Nat
      BY DEF TurnTypes
    <3> QED BY <2>1, <3>1, <3>2 DEF Becomes
  <2> QED BY <2>2 DEF OfTurn, ItemsOf
<1> QED BY <1>1, <1>2

\* What the middleware adds to the transcript of a turn is one more send of it that
\* is delivered or buffered, and none it has recorded before.
LEMMA RecordStepInv ==
  ASSUME TurnTypes, SendInv, ReportInv, RecordInv, NEW t \in Turns, Turns1(t) \/ Sends(t)
  PROVE  RecordInv'
<1>1. \A u \in Turns : transcript[u] \in Seq(AnItem) /\ Len(transcript[u]) \in Nat
  BY DEF TurnTypes
<1>2. ASSUME NEW u \in Turns, NEW p \in 1..Len(transcript[u])
      PROVE  OfTurn(u, transcript[u][p]) /\ Kept(u, transcript[u][p]) /\ transcript[u][p] \in AnItem
  BY <1>1 DEF RecordInv
<1>3. ASSUME NEW u \in Turns, transcript'[u] = transcript[u]
      PROVE  /\ OnceThenUpdates(transcript'[u])
             /\ \A p \in 1..Len(transcript'[u]) : OfTurn(u, transcript[u][p])' /\ Kept(u, transcript[u][p])'
  <2>1. ASSUME NEW p \in 1..Len(transcript[u]) PROVE OfTurn(u, transcript[u][p])' /\ Kept(u, transcript[u][p])'
    <3>1. PICK x \in AnItem : x = transcript[u][p]
      BY <1>2
    <3>2. OfTurn(u, x)' /\ Kept(u, x)'
      BY <1>2, <3>1, KeptStays, OfTurnStays
    <3> QED BY <1>3, <3>1, <3>2 DEF OfTurn, Kept
  <2> QED BY <1>3, <2>1 DEF RecordInv
<1>4. CASE Turns1(t)
  <2>1. UNCHANGED delivered
    BY <1>4 DEF Turns1, Begin, HandlerReturns, HandlerThrows, Flush, EndTurn, StartTyping, StopTyping,
                TypingStep
  <2>2. ASSUME NEW u \in Turns
        PROVE transcript'[u] = transcript[u] \/ transcript'[u] = <<>> \/ transcript'[u] = <<Incoming(u)>>
    BY <1>4 DEF Turns1, Begin, HandlerReturns, HandlerThrows, Flush, EndTurn, StartTyping, StopTyping,
                TypingStep, TurnTypes
  <2>3. ASSUME NEW u \in Turns
        PROVE  /\ OnceThenUpdates(transcript'[u])
               /\ \A p \in 1..Len(transcript'[u]) : OfTurn(u, transcript[u][p])' /\ Kept(u, transcript[u][p])'
    <3>1. CASE transcript'[u] = <<>>
      BY <3>1 DEF OnceThenUpdates
    <3>2. CASE transcript'[u] = <<Incoming(u)>>
      <4>1. Len(transcript'[u]) = 1 /\ transcript'[u][1] = Incoming(u) /\ Incoming(u) \in ItemsOf(u)
            /\ Incoming(u).id = <<u, 0>>
        BY <3>2 DEF ItemsOf, Incoming
      <4> QED BY <4>1 DEF OnceThenUpdates, OfTurn, Kept, ItemsOf
    <3> QED BY <1>3, <2>2, <3>1, <3>2
  <2> QED BY <2>1, <2>3 DEF RecordInv
<1>5. CASE Sends(t)
  <2>1. PICK i \in Nat, s \in Sendings :
           /\ Becomes(t, i, s)
           /\ \/ Enters(t, i, s) \/ Buffers(t, i, s) \/ Posts(t, i, s)
              \/ IsRevoked(t, i, s) \/ Lands(t, i, s) \/ Fails(t, i, s)
    BY <1>5 DEF Sends
  <2>2. CASE ~Buffers(t, i, s) /\ ~Lands(t, i, s)
    <3>1. UNCHANGED <<transcript, delivered>>
      BY <2>1, <2>2 DEF Enters, Posts, HasPassed, IsRevoked, Fails
    <3> QED BY <1>3, <3>1 DEF RecordInv
  <2>3. SendInv' /\ i \in 1..Len(sends'[t]) /\ i <= MaxSends[t] + 1 /\ sends'[t][i] = s
        /\ Len(sends[t]) \in Nat /\ Len(sends'[t]) \in Nat
    <3>1. SendInv'
      BY SendStepInv
    <3>2. i \in 1..Len(sends'[t]) /\ Len(sends[t]) \in Nat /\ Len(sends'[t]) \in Nat /\ sends'[t][i] = s
      BY <2>1 DEF Becomes, TurnTypes
    <3>3. Len(sends'[t]) <= MaxSends[t] + 1 /\ MaxSends[t] \in Nat
      BY <3>1, AgentTurnAssumption DEF SendInv
    <3> QED BY <3>1, <3>2, <3>3
  <2>9. MaxSends[t] \in Nat /\ i \in 1..MaxSends[t] + 1
    BY <2>3, AgentTurnAssumption
  <2>10. ASSUME NEW j \in 1..MaxSends[t] + 1
         PROVE  /\ Outgoing(t, j) \in AnItem /\ Outgoing(t, j).id = <<t, j>> /\ ~Outgoing(t, j).update
                /\ Outgoing(t, j) \in ItemsOf(t)
    <3>1. j \in Nat
      BY <2>9
    <3> QED BY <2>10, <3>1 DEF Outgoing, AnItem, ItemsOf
  <2>11. ASSUME NEW j \in 1..MaxSends[t]
         PROVE  /\ UpdateOf(t, j) \in AnItem /\ UpdateOf(t, j).id = <<t, j>> /\ UpdateOf(t, j).update
                /\ UpdateOf(t, j) \in ItemsOf(t)
    <3>1. j \in Nat
      BY <2>9
    <3> QED BY <2>11, <3>1 DEF UpdateOf, AnItem, ItemsOf
  <2>4. ASSUME NEW item \in AnItem, Recorded(t, item), delivered' \subseteq Items,
               phase[t] \in {"running", "returned"} =>
                 /\ OfTurn(t, item)' /\ Kept(t, item)'
                 /\ item.update \/ \A p \in 1..Len(transcript[t]) : transcript[t][p].id # item.id
        PROVE  RecordInv'
    <3>1. CASE phase[t] \notin {"running", "returned"}
      <4>1. UNCHANGED transcript
        BY <2>4, <3>1 DEF Recorded
      <4> QED BY <1>3, <2>4, <4>1 DEF RecordInv
    <3>2. CASE phase[t] \in {"running", "returned"}
      <4>1. /\ transcript'[t] = Append(transcript[t], item)
            /\ \A u \in Turns : u # t => transcript'[u] = transcript[u]
        BY <2>4, <3>2 DEF Recorded, TurnTypes
      <4>2. OnceThenUpdates(transcript'[t])
        BY <1>1, <2>4, <3>2, <4>1, AppendOnce DEF RecordInv
      <4>3. ASSUME NEW p \in 1..Len(transcript'[t]) PROVE OfTurn(t, transcript[t][p])' /\ Kept(t, transcript[t][p])'
        <5>1. CASE p \in 1..Len(transcript[t])
          <6>1. transcript'[t][p] = transcript[t][p]
            BY <1>1, <4>1, <5>1
          <6>2. PICK x \in AnItem : x = transcript[t][p]
            BY <1>2, <5>1
          <6>3. OfTurn(t, x)' /\ Kept(t, x)'
            BY <1>2, <5>1, <6>2, KeptStays, OfTurnStays
          <6> QED BY <6>1, <6>2, <6>3 DEF OfTurn, Kept
        <5>2. CASE p \notin 1..Len(transcript[t])
          <6>1. transcript'[t][p] = item
            BY <1>1, <4>1, <5>2
          <6> QED BY <2>4, <3>2, <6>1 DEF OfTurn, Kept
        <5> QED BY <5>1, <5>2
      <4> QED BY <1>3, <2>4, <4>1, <4>2, <4>3 DEF RecordInv
    <3> QED BY <3>1, <3>2
  <2>5. ASSUME NEW j \in 1..Len(sends[t]) + 1, j \in 1..Len(sends[t]) => sends[t][j].state # "sent"
        PROVE  \A p \in 1..Len(transcript[t]) : transcript[t][p].id # <<t, j>>
    BY <1>2, <2>3, <2>5 DEF OfTurn
  <2>6. i \in 1..Len(sends[t]) + 1 /\ (i \in 1..Len(sends[t]) => sends[t][i].state # "sent")
    BY <2>1, <2>3 DEF Becomes, Enters, Buffers, Posts, HasPassed, IsRevoked, Lands, Fails, GoesOn, IsNew
  <2>7. CASE Buffers(t, i, s)
    <3> DEFINE item == Outgoing(t, i)
    <3>1. item \in AnItem /\ item.id = <<t, i>> /\ ~item.update /\ item \in ItemsOf(t)
      BY <2>9, <2>10
    <3>2. Recorded(t, item) /\ s.state = "sent" /\ t \in ExpectReplies /\ delivered' = delivered
      BY <2>7 DEF Buffers, HasPassed
    <3>3. <<t, i>> \in Range(buffered'[t])
      <4>1. buffered[t] \in Seq(Turns \X Nat) /\ buffered'[t] = Append(buffered[t], <<t, i>>)
        BY <2>7 DEF Buffers, TurnTypes
      <4>2. Len(buffered[t]) + 1 \in DOMAIN buffered'[t] /\ buffered'[t][Len(buffered[t]) + 1] = <<t, i>>
        BY <4>1
      <4> QED BY <4>2 DEF Range
    <3> HIDE DEF item
    <3>4. OfTurn(t, item)' /\ Kept(t, item)'
      BY <2>3, <3>1, <3>2, <3>3 DEF OfTurn, Kept, ItemsOf
    <3>5. \A p \in 1..Len(transcript[t]) : transcript[t][p].id # item.id
      BY <2>5, <2>6, <3>1
    <3> QED BY <2>4, <3>1, <3>2, <3>4, <3>5 DEF RecordInv
  <2>8. CASE Lands(t, i, s)
    <3>1. /\ i \in 1..Len(sends[t]) /\ s.kind = sends[t][i].kind /\ s.of = sends[t][i].of
          /\ Recorded(t, Record(t, i)) /\ delivered' = delivered \union {Record(t, i)}
          /\ phase[t] # "over" => s.state = "sent"
      BY <2>8 DEF Lands, GoesOn, Revoked
    <3>2. CASE s.kind # "update"
      <4>1. PICK item : item = Outgoing(t, i)
        OBVIOUS
      <4>2. item \in AnItem /\ item.id = <<t, i>> /\ ~item.update /\ item \in ItemsOf(t)
        BY <2>9, <2>10, <4>1
      <4>3. Record(t, i) = item
        BY <3>1, <3>2, <4>1 DEF Record
      <4>4. delivered' \subseteq Items
        BY <3>1, <4>2, <4>3 DEF RecordInv, Items
      <4>5. phase[t] \in {"running", "returned"} => OfTurn(t, item)' /\ Kept(t, item)'
        BY <2>3, <3>1, <4>2, <4>3 DEF OfTurn, Kept, ItemsOf
      <4>6. \A p \in 1..Len(transcript[t]) : transcript[t][p].id # item.id
        BY <2>5, <2>6, <4>2
      <4> QED BY <2>4, <3>1, <4>2, <4>3, <4>4, <4>5, <4>6
    <3>3. CASE s.kind = "update"
      <4>1. /\ s.of \in 1..Len(sends[t]) /\ s.of <= MaxSends[t] /\ s.of \in Nat
            /\ sends[t][s.of].state = "sent"
        <5>1. /\ sends[t][i].of \in 1..Len(sends[t]) /\ sends[t][i].of <= MaxSends[t]
              /\ sends[t][sends[t][i].of].state = "sent"
          BY <3>1, <3>3 DEF SendInv
        <5> QED BY <3>1, <5>1
      <4>2. s.of \in 1..Len(sends'[t]) /\ sends'[t][s.of].state = "sent"
        <5>1. s.of # i
          BY <2>6, <3>1, <4>1
        <5> QED BY <2>1, <2>3, <3>1, <4>1, <5>1 DEF Becomes
      <4>3. PICK item : item = UpdateOf(t, s.of)
        OBVIOUS
      <4>4. item \in AnItem /\ item.id = <<t, s.of>> /\ item.update /\ item \in ItemsOf(t)
        <5>1. s.of \in 1..MaxSends[t]
          BY <2>9, <4>1
        <5> QED BY <2>11, <4>3, <5>1
      <4>5. Record(t, i) = item
        BY <3>1, <3>3, <4>3 DEF Record
      <4>6. delivered' \subseteq Items
        BY <3>1, <4>4, <4>5 DEF RecordInv, Items
      <4>7. OfTurn(t, item)' /\ Kept(t, item)'
        BY <3>1, <4>2, <4>4, <4>5 DEF OfTurn, Kept, ItemsOf
      <4> QED BY <2>4, <3>1, <4>4, <4>5, <4>6, <4>7
    <3> QED BY <3>2, <3>3
  <2> QED BY <2>2, <2>7, <2>8
<1> QED BY <1>4, <1>5

-----------------------------------------------------------------------------
(* What is replied and what is logged.                                     *)

\* A send leaves a turn alone that has written its transcript, or is over.
LEMMA SendsPhase ==
  ASSUME TurnTypes, ReportInv, NEW t \in Turns, Sends(t), NEW u \in Turns
  PROVE  /\ phase[u] \in {"flushed", "over"} => phase'[u] = phase[u]
         /\ phase'[u] = "over" => phase[u] = "over"
         /\ phase[u] = "over" => buffered'[u] = buffered[u]
<1>1. PICK i \in Nat, s \in Sendings :
         /\ Becomes(t, i, s)
         /\ \/ Enters(t, i, s) \/ Buffers(t, i, s) \/ Posts(t, i, s)
            \/ IsRevoked(t, i, s) \/ Lands(t, i, s) \/ Fails(t, i, s)
  BY DEF Sends
<1>2. s.kind = "report" => phase[t] \in {"thrown", "reporting", "over"}
  <2>1. ASSUME s.kind = "report", IsNew(t, i, s) PROVE phase[t] = "thrown"
    BY <2>1, AgentTurnAssumption DEF IsNew
  <2>2. ASSUME s.kind = "report", NEW state \in {"passing", "sending"}, GoesOn(t, i, s, state)
        PROVE  phase[t] = "reporting"
    BY <2>2 DEF GoesOn, ReportInv
  <2> QED BY <1>1, <2>1, <2>2 DEF Enters, Buffers, Posts, HasPassed, IsRevoked, Lands, Fails
<1>3. s.kind = "report" => phase[t] # "over"
  <2>1. ASSUME s.kind = "report", IsNew(t, i, s) PROVE phase[t] = "thrown"
    BY <2>1, AgentTurnAssumption DEF IsNew
  <2>2. ASSUME s.kind = "report", NEW state \in {"passing", "sending"}, GoesOn(t, i, s, state)
        PROVE  phase[t] = "reporting"
    BY <2>2 DEF GoesOn, ReportInv
  <2> QED BY <1>1, <2>1, <2>2 DEF Enters, Buffers, Posts, HasPassed, IsRevoked, Lands, Fails
<1>4. u # t \/ s.kind # "report" => phase'[u] = phase[u]
  BY <1>1, ReportedTypes DEF Enters, Buffers, Posts, IsRevoked, Lands, Fails
<1>5. s.kind = "report" => phase'[t] # "over"
  BY <1>1, <1>3, ReportedTypes DEF Enters, Buffers, Posts, IsRevoked, Lands, Fails, Revoked
<1>6. phase[u] = "over" => buffered'[u] = buffered[u]
  BY <1>1 DEF Enters, Buffers, Posts, HasPassed, IsRevoked, Lands, Fails, Revoked, TurnTypes
<1> QED BY <1>2, <1>3, <1>4, <1>5, <1>6

\* The buffer of the reply holds sends of the turn.
LEMMA BufferStepInv ==
  ASSUME TurnTypes, BufferInv, NEW t \in Turns, Turns1(t) \/ Sends(t)
  PROVE  BufferInv'
<1>1. CASE Turns1(t)
  BY <1>1 DEF Turns1, Begin, HandlerReturns, HandlerThrows, Flush, EndTurn, StartTyping, StopTyping,
              TypingStep, BufferInv
<1>2. CASE Sends(t)
  <2>1. PICK i \in Nat, s \in Sendings :
           /\ Becomes(t, i, s)
           /\ \/ Enters(t, i, s) \/ Buffers(t, i, s) \/ Posts(t, i, s)
              \/ IsRevoked(t, i, s) \/ Lands(t, i, s) \/ Fails(t, i, s)
    BY <1>2 DEF Sends
  <2>2. /\ \A u \in Turns : Len(sends[u]) \in Nat /\ 1..Len(sends[u]) \subseteq 1..Len(sends'[u])
        /\ i \in 1..Len(sends'[t])
    <3>1. \A u \in Turns : Len(sends[u]) \in Nat
      BY DEF TurnTypes
    <3>2. Len(sends[t]) <= Len(sends'[t]) /\ i <= Len(sends'[t]) /\ Len(sends'[t]) \in Nat
      BY <2>1, <3>1 DEF Becomes
    <3> QED BY <2>1, <3>1, <3>2 DEF Becomes
  <2>3. ASSUME NEW u \in Turns PROVE Range(buffered'[u]) \subseteq Range(buffered[u]) \union {<<t, i>>}
                                     /\ (u # t => buffered'[u] = buffered[u])
    <3>1. CASE Buffers(t, i, s)
      <4>1. buffered[t] \in Seq(Turns \X Nat) /\ buffered' = [buffered EXCEPT ![t] = Append(buffered[t], <<t, i>>)]
        BY <3>1 DEF Buffers, TurnTypes
      <4>2. DOMAIN buffered[t] = 1..Len(buffered[t]) /\ DOMAIN Append(buffered[t], <<t, i>>) = 1..Len(buffered[t]) + 1
        BY <4>1
      <4>3. \A p \in 1..Len(buffered[t]) + 1 : Append(buffered[t], <<t, i>>)[p] =
               IF p = Len(buffered[t]) + 1 THEN <<t, i>> ELSE buffered[t][p]
        BY <4>1
      <4>4. Range(Append(buffered[t], <<t, i>>)) \subseteq Range(buffered[t]) \union {<<t, i>>}
        BY <4>1, <4>2, <4>3 DEF Range
      <4> QED BY <4>1, <4>4 DEF TurnTypes
    <3>2. CASE ~Buffers(t, i, s)
      BY <2>1, <3>2 DEF Enters, Posts, IsRevoked, Lands, Fails
    <3> QED BY <3>1, <3>2
  <2>4. ASSUME NEW u \in Turns, NEW x \in Range(buffered'[u])
        PROVE  x \in {<<u, j>> : j \in 1..Len(sends'[u])}
    <3>1. CASE x \in Range(buffered[u])
      BY <2>2, <3>1 DEF BufferInv
    <3>2. CASE x \notin Range(buffered[u])
      BY <2>2, <2>3, <2>4, <3>2
    <3> QED BY <3>1, <3>2
  <2> QED BY <2>4 DEF BufferInv
<1> QED BY <1>1, <1>2

\* A reply is given once, with what the turn buffered.
LEMMA ReplyStepInv ==
  ASSUME TurnTypes, ReportInv, ReplyInv, NEW t \in Turns, Turns1(t) \/ Sends(t)
  PROVE  ReplyInv'
<1>1. CASE Sends(t)
  <2>1. \A u \in Turns : /\ phase[u] = "over" => phase'[u] = "over" /\ buffered'[u] = buffered[u]
                         /\ phase'[u] = "over" => phase[u] = "over"
    BY <1>1, SendsPhase
  <2>2. reply' = reply
    BY <1>1 DEF Sends
  <2> QED BY <2>1, <2>2 DEF ReplyInv
<1>2. CASE EndTurn(t)
  <2>1. \A u \in Turns : /\ phase'[u] = IF u = t THEN "over" ELSE phase[u]
                         /\ reply'[u] = IF u = t THEN Answer(t) ELSE reply[u]
                         /\ buffered'[u] = buffered[u]
    BY <1>2 DEF EndTurn, TurnTypes
  <2>2. Answer(t).status = "failed" \/ Answer(t).body = IF t \in ExpectReplies THEN buffered[t] ELSE <<>>
    BY DEF Answer
  <2> QED BY <2>1, <2>2 DEF ReplyInv
<1>3. CASE Turns1(t) /\ ~EndTurn(t)
  <2>1. \A u \in Turns : phase[u] = "over" <=> phase'[u] = "over"
    BY <1>3 DEF Turns1, Begin, HandlerReturns, HandlerThrows, Flush, StartTyping, StopTyping, TypingStep,
                TurnTypes
  <2>2. UNCHANGED <<reply, buffered>>
    BY <1>3 DEF Turns1, Begin, HandlerReturns, HandlerThrows, Flush, StartTyping, StopTyping, TypingStep
  <2> QED BY <2>1, <2>2 DEF ReplyInv
<1> QED BY <1>1, <1>2, <1>3

\* Two logs of different turns, one after the other.
LEMMA ConcatOnce ==
  ASSUME NEW s \in Seq(AnItem), NEW r \in Seq(AnItem), OnceThenUpdates(s), OnceThenUpdates(r),
         \A p \in 1..Len(s), q \in 1..Len(r) : s[p].id # r[q].id
  PROVE  OnceThenUpdates(s \o r)
<1> DEFINE z == s \o r
<1>1. /\ Len(s) \in Nat /\ Len(r) \in Nat /\ Len(z) = Len(s) + Len(r)
      /\ \A p \in 1..Len(z) : z[p] = IF p <= Len(s) THEN s[p] ELSE r[p - Len(s)]
  BY ConcatProperties
<1> HIDE DEF z
<1>2. ASSUME NEW p \in 1..Len(z), NEW q \in 1..Len(z), z[p].id = z[q].id, ~z[q].update, p # q
      PROVE  z[p].update /\ q < p
  <2>1. CASE p <= Len(s) /\ q <= Len(s)
    BY <1>1, <1>2, <2>1 DEF OnceThenUpdates
  <2>2. CASE p > Len(s) /\ q > Len(s)
    <3>1. p - Len(s) \in 1..Len(r) /\ q - Len(s) \in 1..Len(r)
      BY <1>1, <2>2
    <3>2. z[p] = r[p - Len(s)] /\ z[q] = r[q - Len(s)]
      BY <1>1, <2>2
    <3>3. r[p - Len(s)].update /\ q - Len(s) < p - Len(s)
      BY <1>1, <1>2, <2>2, <3>1, <3>2 DEF OnceThenUpdates
    <3> QED BY <1>1, <3>2, <3>3
  <2>3. CASE p <= Len(s) /\ q > Len(s)
    <3>1. q - Len(s) \in 1..Len(r) /\ p \in 1..Len(s)
      BY <1>1, <2>3
    <3> QED BY <1>1, <1>2, <2>3, <3>1
  <2>4. CASE p > Len(s) /\ q <= Len(s)
    <3>1. p - Len(s) \in 1..Len(r) /\ q \in 1..Len(s)
      BY <1>1, <2>4
    <3>2. z[p] = r[p - Len(s)] /\ z[q] = s[q]
      BY <1>1, <2>4
    <3> QED BY <1>2, <3>1, <3>2
  <2> QED BY <1>1, <2>1, <2>2, <2>3, <2>4
<1> QED BY <1>2 DEF OnceThenUpdates, z

\* What is logged is kept, and is of turns that did not throw.
LEMMA LoggedStepInv ==
  ASSUME TurnTypes, ReportInv, RecordInv, ReplyInv, LoggedInv, NEW t \in Turns, Turns1(t) \/ Sends(t)
  PROVE  LoggedInv'
<1>1. logged \in Seq(AnItem) /\ Len(logged) \in Nat
      /\ \A p \in 1..Len(logged) : logged[p] \in AnItem /\ logged[p].id[1] \in Turns
  <2>1. logged \in Seq(AnItem) /\ Len(logged) \in Nat
    BY DEF LoggedInv
  <2>2. ASSUME NEW p \in 1..Len(logged) PROVE logged[p] \in AnItem
    BY <2>1
  <2> QED BY <2>1, <2>2 DEF AnItem
<1>2. ASSUME NEW u \in Turns, phase[u] \in {"flushed", "over"}, reply[u].status # "failed"
      PROVE  phase'[u] \in {"flushed", "over"} /\ reply'[u].status # "failed"
  <2>1. CASE Sends(t)
    BY <1>2, <2>1, SendsPhase DEF Sends
  <2>2. CASE EndTurn(t)
    <3>1. u = t => Answer(t).status # "failed"
      BY <1>2 DEF Answer
    <3>2. phase'[u] = (IF u = t THEN "over" ELSE phase[u]) /\ reply'[u] = (IF u = t THEN Answer(t) ELSE reply[u])
      BY <2>2 DEF EndTurn, TurnTypes
    <3> QED BY <1>2, <3>1, <3>2
  <2>3. CASE Turns1(t) /\ ~EndTurn(t)
    <3>1. reply' = reply
      BY <2>3 DEF Turns1, Begin, HandlerReturns, HandlerThrows, Flush, StartTyping, StopTyping, TypingStep
    <3>2. phase'[u] = phase[u]
      BY <1>2, <2>3 DEF Turns1, Begin, HandlerReturns, HandlerThrows, Flush, StartTyping, StopTyping,
                        TypingStep, TurnTypes
    <3> QED BY <1>2, <3>1, <3>2
  <2> QED BY <2>1, <2>2, <2>3
<1>3. ASSUME NEW x \in AnItem, x.id[1] \in Turns, WellLogged(x) PROVE WellLogged(x)'
  <2>1. PICK v \in Turns : v = x.id[1]
    BY <1>3
  <2>2. phase[v] \in {"flushed", "over"} /\ reply[v].status # "failed" /\ x \in ItemsOf(v) /\ Kept(v, x)
    BY <1>3, <2>1 DEF WellLogged
  <2>3. Kept(v, x)'
    BY <2>2, KeptStays
  <2>4. phase'[v] \in {"flushed", "over"} /\ reply'[v].status # "failed"
    BY <1>2, <2>2
  <2>5. Kept(x.id[1], x)'
    BY <2>1, <2>3
  <2> QED BY <2>1, <2>2, <2>4, <2>5 DEF WellLogged, ItemsOf
<1>4. ASSUME NEW p \in 1..Len(logged), logged'[p] = logged[p] PROVE WellLogged(logged[p])'
  <2>1. PICK x \in AnItem : x = logged[p]
    BY <1>1
  <2>2. WellLogged(x) /\ x.id[1] \in Turns
    BY <1>1, <2>1 DEF LoggedInv
  <2>3. WellLogged(x)'
    BY <1>3, <2>2
  <2>4. logged'[p] = x
    BY <1>4, <2>1
  <2> QED BY <2>3, <2>4 DEF WellLogged, Kept, ItemsOf
<1>5. CASE ~Flush(t)
  <2>1. UNCHANGED logged
    BY <1>5 DEF Turns1, Sends, Begin, HandlerReturns, HandlerThrows, EndTurn, StartTyping, StopTyping,
                TypingStep, fileVars
  <2> QED BY <1>4, <2>1 DEF LoggedInv
<1>6. CASE Flush(t)
  <2> DEFINE r == transcript[t]
  <2>1. /\ r \in Seq(AnItem) /\ OnceThenUpdates(r) /\ Len(r) \in Nat
        /\ \A q \in 1..Len(r) : r[q] \in AnItem /\ OfTurn(t, r[q]) /\ Kept(t, r[q])
    BY DEF TurnTypes, RecordInv
  <2>2. /\ logged' = logged \o r /\ phase[t] = "returned" /\ phase'[t] = "flushed"
        /\ reply'[t].status = "none"
    BY <1>6 DEF Flush, Log, TurnTypes, ReplyInv
  <2>3. \A q \in 1..Len(r) : r[q].id[1] = t /\ r[q] \in ItemsOf(t)
    BY <2>1 DEF OfTurn
  <2>4. \A p \in 1..Len(logged) : logged[p].id[1] # t
    BY <2>2 DEF LoggedInv, WellLogged
  <2> HIDE DEF r
  <2>5. OnceThenUpdates(logged')
    <3>1. \A p \in 1..Len(logged), q \in 1..Len(r) : logged[p].id # r[q].id
      BY <2>3, <2>4
    <3> QED BY <1>1, <2>1, <2>2, <3>1, ConcatOnce DEF LoggedInv
  <2>6. /\ logged' \in Seq(AnItem) /\ Len(logged') = Len(logged) + Len(r)
        /\ \A p \in 1..Len(logged') : logged'[p] = IF p <= Len(logged) THEN logged[p] ELSE r[p - Len(logged)]
    BY <1>1, <2>1, <2>2, ConcatProperties
  <2>7. ASSUME NEW p \in 1..Len(logged') PROVE WellLogged(logged[p])'
    <3>1. CASE p <= Len(logged)
      BY <1>1, <1>4, <2>6, <3>1
    <3>2. CASE p > Len(logged)
      <4>1. p - Len(logged) \in 1..Len(r) /\ logged'[p] = r[p - Len(logged)]
        BY <1>1, <2>1, <2>6, <3>2
      <4>2. PICK x \in AnItem : x = r[p - Len(logged)]
        BY <2>1, <4>1
      <4>3. Kept(t, x) /\ x.id[1] = t /\ x \in ItemsOf(t)
        BY <2>1, <2>3, <4>1, <4>2
      <4>4. Kept(t, x)'
        BY <4>3, KeptStays
      <4>5. WellLogged(x)'
        BY <2>2, <4>3, <4>4 DEF WellLogged, Kept, ItemsOf
      <4>6. logged'[p] = x
        BY <4>1, <4>2
      <4> QED BY <4>5, <4>6 DEF WellLogged, Kept, ItemsOf
    <3> QED BY <1>1, <2>6, <3>1, <3>2
  <2> QED BY <2>5, <2>6, <2>7 DEF LoggedInv
<1> QED BY <1>5, <1>6

-----------------------------------------------------------------------------
(* The queue of the file.                                                  *)

\* Removing the first of a sequence gives its tail.
LEMMA RemoveHead ==
  ASSUME NEW S, NEW s \in Seq(S), s # <<>>
  PROVE  /\ RemoveAt(s, 1) = Tail(s) /\ Tail(s) \in Seq(S) /\ Len(s) \in Nat /\ Len(s) >= 1
         /\ Len(Tail(s)) = Len(s) - 1 /\ \A k \in 1..Len(s) - 1 : Tail(s)[k] = s[k + 1]
<1>1. Tail(s) \in Seq(S) /\ Len(Tail(s)) = Len(s) - 1 /\ \A k \in 1..Len(s) - 1 : Tail(s)[k] = s[k + 1]
  BY HeadTailProperties
<1>2. SubSeq(s, 1, 0) = <<>>
  BY SubSeqEmpty
<1>3. Tail(s) = SubSeq(s, 2, Len(s))
  BY TailIsSubSeq
<1>4. <<>> \o Tail(s) = Tail(s)
  BY <1>1, ConcatEmptySeq
<1>5. RemoveAt(s, 1) = Tail(s)
  BY <1>2, <1>3, <1>4 DEF RemoveAt
<1>6. Len(s) \in Nat /\ Len(s) >= 1
  BY EmptySeq
<1> QED BY <1>1, <1>5, <1>6

\* One step of the operation at the head of the queue, or of the queue.
SameOperation(op) ==
  /\ op.item = queue[1].item /\ op.behind = queue[1].behind
  /\ op \in Operation /\ op.failed \in 0..Attempts - 1
Retries ==
  /\ Len(queue') = Len(queue) /\ queue' \in Seq(Operation)
  /\ \A k \in 2..Len(queue) : queue'[k] = queue[k]
  /\ SameOperation(queue'[1]) /\ queue'[1].read \in {None, file'}
  /\ UNCHANGED <<broken, lost, done>>
Leaves ==
  /\ queue' = Tail(queue)
  /\ \/ UNCHANGED <<broken, lost>> /\ ~broken
     \/ /\ broken' = (Len(queue) > 1)
        /\ \E x \in BOOLEAN : /\ lost' = lost \union {Rejected(queue[1], x)}
                              /\ broken => ~x
                              /\ ~broken => x
  /\ \/ done' = done
     \/ done' = done \union {queue[1].item} /\ file' = Changed(file, queue[1].item)

\* A step of the file is one of the first operation, or rejects it; what it writes
\* is the change of that operation to what the file is now.
LEMMA LogSteps ==
  ASSUME QueueInv, file \in Seq(Entry), LogStep
  PROVE  /\ queue # <<>> /\ logged' = logged
         /\ file' = file \/ file' = Changed(file, queue[1].item)
         /\ Retries \/ Leaves
<1>1. queue \in Seq(Operation) /\ (broken => queue # <<>>) /\ Attempts \in Nat \ {0}
  BY AgentTurnAssumption DEF QueueInv
<1>2. CASE RejectQueued
  <2>1. queue # <<>> /\ Head(queue) = queue[1]
    BY <1>1, <1>2 DEF RejectQueued
  <2> QED BY <1>2, <2>1 DEF RejectQueued, Leaves
<1>3. ASSUME NEW k \in Running, ReadFile(k) \/ WriteFile(k) \/ AttemptFails(k)
      PROVE  /\ queue # <<>> /\ logged' = logged
             /\ file' = file \/ file' = Changed(file, queue[1].item)
             /\ Retries \/ Leaves
  <2>1. k = 1 /\ queue # <<>> /\ ~broken
    BY <1>3 DEF Running
  <2>2. /\ RemoveAt(queue, 1) = Tail(queue) /\ Len(queue) \in Nat /\ Len(queue) >= 1 /\ 1 \in 1..Len(queue)
    BY <1>1, <2>1, RemoveHead
  <2>3. /\ queue[1] \in Operation /\ queue[1].failed \in 0..Attempts - 1
        /\ queue[1].read \in {None, file}
    <3>1. queue[1] \in Operation
      BY <1>1, <2>2
    <3> QED BY <2>2, <3>1 DEF QueueInv
  <2>4. ASSUME NEW op \in Operation, queue' = [queue EXCEPT ![1] = op]
        PROVE  /\ Len(queue') = Len(queue) /\ queue' \in Seq(Operation)
               /\ \A n \in 2..Len(queue) : queue'[n] = queue[n]
               /\ queue'[1] = op
    <3>1. /\ [queue EXCEPT ![1] = op] \in Seq(Operation)
          /\ Len([queue EXCEPT ![1] = op]) = Len(queue)
          /\ \A j \in 1..Len(queue) : [queue EXCEPT ![1] = op][j] = IF j = 1 THEN op ELSE queue[j]
      BY <1>1, <2>2, ExceptSeq
    <3>2. \A j \in 2..Len(queue) : j \in 1..Len(queue) /\ j # 1
      BY <2>2
    <3> QED BY <2>2, <2>4, <3>1, <3>2
  <2>5. CASE ReadFile(k)
    <3> DEFINE op == [queue[1] EXCEPT !.read = file]
    <3>1. op \in Operation /\ op.item = queue[1].item /\ op.behind = queue[1].behind
          /\ op.failed = queue[1].failed /\ op.read = file
      BY <2>3 DEF Operation
    <3>2. queue' = [queue EXCEPT ![1] = op]
      BY <2>1, <2>5 DEF ReadFile
    <3> HIDE DEF op
    <3>3. file' = file /\ UNCHANGED <<broken, logged, done, lost>>
      BY <2>5 DEF ReadFile
    <3> QED BY <2>1, <2>3, <2>4, <3>1, <3>2, <3>3 DEF Retries, SameOperation
  <2>6. CASE WriteFile(k)
    <3>1. queue[1].read = file
      BY <2>1, <2>3, <2>6 DEF WriteFile
    <3> QED BY <2>1, <2>2, <2>6, <3>1 DEF WriteFile, Leaves
  <2>7. CASE AttemptFails(k)
    <3>1. file' = file \/ file' = Changed(file, queue[1].item)
      BY <2>1, <2>3, <2>7 DEF AttemptFails
    <3>2. CASE queue[1].failed + 1 < Attempts
      <4> DEFINE op == [queue[1] EXCEPT !.failed = @ + 1, !.read = None]
      <4>1. op \in Operation /\ op.item = queue[1].item /\ op.behind = queue[1].behind
            /\ op.failed = queue[1].failed + 1 /\ op.read = None
        <5>1. queue[1].failed + 1 \in Nat
          BY <2>3 DEF Operation
        <5> QED BY <2>3, <5>1 DEF Operation
      <4>2. op.failed \in 0..Attempts - 1
        BY <1>1, <2>3, <3>2, <4>1
      <4>3. queue' = [queue EXCEPT ![1].failed = queue[1].failed + 1, ![1].read = None]
        BY <2>1, <2>7, <3>2 DEF AttemptFails
      <4>4. queue' = [queue EXCEPT ![1] = op]
        BY <1>1, <2>2, <2>3, <4>3 DEF Operation
      <4> HIDE DEF op
      <4>5. UNCHANGED <<broken, logged, done, lost>>
        BY <2>1, <2>7, <3>2 DEF AttemptFails
      <4> QED BY <2>1, <2>4, <3>1, <4>1, <4>2, <4>4, <4>5 DEF Retries, SameOperation
    <3>3. CASE ~(queue[1].failed + 1 < Attempts)
      BY <2>1, <2>2, <2>7, <3>1, <3>3 DEF AttemptFails, Leaves
    <3> QED BY <3>2, <3>3
  <2> QED BY <1>3, <2>5, <2>6, <2>7
<1> QED BY <1>2, <1>3 DEF LogStep, FileStep

\* The file is written for one operation at a time, and what waits for one that
\* fails is known to have waited.
LEMMA QueueLogStep ==
  ASSUME QueueInv, LoggedInv, file \in Seq(Entry), LogStep
  PROVE  QueueInv'
<1>1. /\ queue # <<>> /\ logged' = logged
      /\ Retries \/ Leaves
  BY LogSteps
<1>2. /\ queue \in Seq(Operation) /\ Len(queue) \in Nat /\ Len(queue) >= 1 /\ Len(logged) \in Nat
      /\ Len(queue) <= Len(logged)
  BY <1>1, RemoveHead DEF QueueInv, LoggedInv
<1>3. \A k \in 1..Len(queue) :
        /\ queue[k].item = logged[Len(logged) - Len(queue) + k]
        /\ queue[k].failed \in 0..Attempts - 1
        /\ k > 1 => queue[k].behind
        /\ k > 1 => queue[k].read = None
  BY DEF QueueInv
<1>4. CASE Retries
  <2>1. \A k \in 1..Len(queue') :
          /\ queue'[k].item = logged'[Len(logged') - Len(queue') + k]
          /\ queue'[k].failed \in 0..Attempts - 1
          /\ k > 1 => queue'[k].behind
          /\ queue'[k].read = None \/ (k = 1 /\ queue'[k].read = file')
    <3> TAKE k \in 1..Len(queue')
    <3>1. k \in 1..Len(queue) /\ Len(queue') = Len(queue)
      BY <1>4 DEF Retries
    <3>2. CASE k = 1
      <4>1. SameOperation(queue'[1]) /\ queue'[1].read \in {None, file'}
        BY <1>4 DEF Retries
      <4> QED BY <1>1, <1>3, <3>1, <3>2, <4>1 DEF SameOperation
    <3>3. CASE k # 1
      <4>1. k \in 2..Len(queue)
        BY <1>2, <3>1, <3>3
      <4>2. queue'[k] = queue[k]
        BY <1>4, <4>1 DEF Retries
      <4>3. k > 1
        BY <4>1
      <4> QED BY <1>1, <1>3, <3>1, <4>2, <4>3
    <3> QED BY <3>2, <3>3
  <2>2. broken' = broken /\ lost' = lost /\ queue' \in Seq(Operation) /\ Len(queue') = Len(queue)
    BY <1>4 DEF Retries
  <2>3. queue' # <<>> /\ queue'[1].behind = queue[1].behind
    BY <1>2, <1>4, <2>2, EmptySeq DEF Retries, SameOperation
  <2> QED BY <1>1, <1>2, <2>1, <2>2, <2>3 DEF QueueInv, LostOnlyBehindFailure
<1>5. CASE Leaves
  <2>1. /\ queue' \in Seq(Operation) /\ Len(queue') = Len(queue) - 1
        /\ \A k \in 1..Len(queue) - 1 : queue'[k] = queue[k + 1]
    BY <1>1, <1>2, <1>5, RemoveHead DEF Leaves
  <2>2. \A k \in 1..Len(queue') :
          /\ queue'[k].item = logged'[Len(logged') - Len(queue') + k]
          /\ queue'[k].failed \in 0..Attempts - 1
          /\ k > 1 => queue'[k].behind
          /\ queue'[k].read = None \/ (k = 1 /\ queue'[k].read = file')
    <3> TAKE k \in 1..Len(queue')
    <3>1. k + 1 \in 1..Len(queue) /\ k + 1 > 1 /\ queue'[k] = queue[k + 1]
      BY <1>2, <2>1
    <3>2. Len(logged') - Len(queue') + k = Len(logged) - Len(queue) + (k + 1)
      BY <1>1, <1>2, <2>1
    <3> QED BY <1>1, <1>3, <3>1, <3>2
  <2>3. broken' => queue' # <<>> /\ queue'[1].behind
    <3>1. ASSUME Len(queue) > 1 PROVE queue' # <<>> /\ queue'[1].behind
      <4>1. 1 \in 1..Len(queue) - 1 /\ 2 \in 1..Len(queue)
        BY <1>2, <3>1
      <4>2. queue'[1] = queue[2]
        BY <2>1, <4>1
      <4>3. Len(queue') # 0
        BY <1>2, <2>1, <3>1
      <4> QED BY <1>3, <4>1, <4>2, <4>3
    <3> QED BY <1>5, <3>1 DEF Leaves
  <2>4. broken' \in BOOLEAN
    BY <1>5 DEF Leaves, QueueInv
  <2>5. LostOnlyBehindFailure'
    <3>1. CASE lost' = lost
      BY <3>1 DEF QueueInv, LostOnlyBehindFailure
    <3>2. CASE lost' # lost
      <4>1. PICK x \in BOOLEAN : /\ lost' = lost \union {Rejected(queue[1], x)}
                                 /\ ~broken => x
        BY <1>5, <3>2 DEF Leaves
      <4>2. broken => queue[1].behind
        BY DEF QueueInv
      <4>3. broken \in BOOLEAN
        BY DEF QueueInv
      <4>4. Rejected(queue[1], x).tried \/ Rejected(queue[1], x).behind
        BY <4>1, <4>2, <4>3 DEF Rejected
      <4> QED BY <4>1, <4>4 DEF QueueInv, LostOnlyBehindFailure
    <3> QED BY <3>1, <3>2
  <2>6. Len(queue') <= Len(logged')
    BY <1>1, <1>2, <2>1
  <2> QED BY <2>1, <2>2, <2>3, <2>4, <2>5, <2>6 DEF QueueInv
<1> QED BY <1>1, <1>4, <1>5

\* What a turn logs is queued in its order.
LEMMA QueueFlush ==
  ASSUME TurnTypes, QueueInv, LoggedInv, NEW t \in Turns, Flush(t)
  PROVE  /\ QueueInv' /\ Len(logged') - Len(queue') = Len(logged) - Len(queue)
         /\ Len(logged) <= Len(logged') /\ \A p \in 1..Len(logged) : logged'[p] = logged[p]
         /\ UNCHANGED <<file, done>>
<1> DEFINE r == transcript[t]
           ops == [k \in DOMAIN r |->
                     [item |-> r[k], failed |-> 0, read |-> None, behind |-> k > 1 \/ queue # <<>>]]
<1>1. /\ queue' = queue \o ops /\ logged' = logged \o r
      /\ UNCHANGED <<file, broken, done, lost>>
  BY DEF Flush, Log
<1>2. r \in Seq(AnItem) /\ Len(r) \in Nat /\ DOMAIN r = 1..Len(r) /\ \A k \in 1..Len(r) : r[k] \in AnItem
  BY DEF TurnTypes
<1>3. Attempts \in Nat \ {0}
  BY AgentTurnAssumption
<1>4. \A k \in 1..Len(r) : /\ ops[k] \in Operation /\ ops[k].item = r[k] /\ ops[k].failed = 0
                           /\ ops[k].read = None /\ (k > 1 \/ queue # <<>> => ops[k].behind)
  BY <1>2 DEF Operation
<1>5. ops \in Seq(Operation) /\ Len(ops) = Len(r)
  <2>1. DOMAIN ops = 1..Len(r)
    BY <1>2
  <2>2. ops \in [1..Len(r) -> Operation]
    BY <1>4, <2>1
  <2> HIDE DEF r, ops
  <2>3. ops \in Seq(Operation)
    BY <1>2, <2>2, SeqDef
  <2> QED BY <1>2, <2>1, <2>3, LenProperties
<1> HIDE DEF r, ops
<1>6. /\ queue \in Seq(Operation) /\ Len(queue) \in Nat /\ logged \in Seq(AnItem) /\ Len(logged) \in Nat
      /\ Len(queue) <= Len(logged)
  BY DEF QueueInv, LoggedInv
<1>7. /\ queue' \in Seq(Operation) /\ Len(queue') = Len(queue) + Len(r)
      /\ \A k \in 1..Len(queue') : queue'[k] = IF k <= Len(queue) THEN queue[k] ELSE ops[k - Len(queue)]
  <2>1. queue \o ops \in Seq(Operation) /\ Len(queue \o ops) = Len(queue) + Len(ops)
        /\ \A k \in 1..Len(queue) + Len(ops) :
             (queue \o ops)[k] = IF k <= Len(queue) THEN queue[k] ELSE ops[k - Len(queue)]
    BY <1>5, <1>6, ConcatProperties
  <2> QED BY <1>1, <1>5, <2>1
<1>8. /\ Len(logged') = Len(logged) + Len(r)
      /\ \A k \in 1..Len(logged') : logged'[k] = IF k <= Len(logged) THEN logged[k] ELSE r[k - Len(logged)]
  BY <1>1, <1>2, <1>6, ConcatProperties
<1>9. \A k \in 1..Len(queue') :
        /\ queue'[k].item = logged'[Len(logged') - Len(queue') + k]
        /\ queue'[k].failed \in 0..Attempts - 1
        /\ k > 1 => queue'[k].behind
        /\ queue'[k].read = None \/ (k = 1 /\ queue'[k].read = file')
  <2> TAKE k \in 1..Len(queue')
  <2>1. CASE k <= Len(queue)
    <3>1. k \in 1..Len(queue) /\ queue'[k] = queue[k]
      BY <1>6, <1>7, <2>1
    <3>2. Len(logged') - Len(queue') + k \in 1..Len(logged')
          /\ Len(logged') - Len(queue') + k = Len(logged) - Len(queue) + k
          /\ Len(logged) - Len(queue) + k <= Len(logged)
      BY <1>2, <1>6, <1>7, <1>8, <3>1
    <3>3. logged'[Len(logged') - Len(queue') + k] = logged[Len(logged) - Len(queue) + k]
      BY <1>8, <3>2
    <3> QED BY <1>1, <3>1, <3>3 DEF QueueInv
  <2>2. CASE k > Len(queue)
    <3>1. k - Len(queue) \in 1..Len(r) /\ queue'[k] = ops[k - Len(queue)]
      BY <1>2, <1>6, <1>7, <2>2
    <3>2. /\ Len(logged') - Len(queue') + k \in 1..Len(logged')
          /\ Len(logged') - Len(queue') + k > Len(logged)
          /\ Len(logged') - Len(queue') + k - Len(logged) = k - Len(queue)
      BY <1>2, <1>6, <1>7, <1>8, <2>2
    <3>3. logged'[Len(logged') - Len(queue') + k] = r[k - Len(queue)]
      <4> DEFINE m == Len(logged') - Len(queue') + k
      <4>1. m \in 1..Len(logged') /\ ~(m <= Len(logged)) /\ m - Len(logged) = k - Len(queue)
        BY <1>6, <3>2
      <4> HIDE DEF m
      <4>2. logged'[m] = r[m - Len(logged)]
        BY <1>8, <4>1
      <4> QED BY <4>1, <4>2 DEF m
    <3>4. k > 1 => (k - Len(queue) > 1 \/ queue # <<>>)
      <4>1. queue = <<>> => Len(queue) = 0
        BY EmptySeq
      <4> QED BY <1>6, <4>1
    <3>5. 0 \in 0..Attempts - 1
      BY <1>3
    <3> QED BY <1>4, <3>1, <3>3, <3>4, <3>5
  <2> QED BY <1>6, <1>7, <2>1, <2>2
<1>10. broken' \in BOOLEAN /\ (broken' => queue' # <<>> /\ queue'[1].behind)
  <2>1. ASSUME broken PROVE queue' # <<>> /\ queue'[1].behind
    <3>1. queue # <<>> /\ queue[1].behind
      BY <2>1 DEF QueueInv
    <3>2. Len(queue) >= 1
      BY <1>6, <3>1, EmptySeq
    <3>3. 1 \in 1..Len(queue') /\ 1 <= Len(queue) /\ Len(queue') # 0
      BY <1>2, <1>6, <1>7, <3>2
    <3>4. queue'[1] = queue[1]
      BY <1>7, <3>3
    <3> QED BY <3>1, <3>3, <3>4
  <2> QED BY <1>1, <2>1 DEF QueueInv
<1>11. Len(queue') <= Len(logged') /\ Len(logged') - Len(queue') = Len(logged) - Len(queue)
       /\ Len(logged) <= Len(logged') /\ 1..Len(logged) \subseteq 1..Len(logged')
  BY <1>2, <1>6, <1>7, <1>8
<1>12. LostOnlyBehindFailure'
  BY <1>1 DEF QueueInv, LostOnlyBehindFailure
<1>13. \A p \in 1..Len(logged) : logged'[p] = logged[p]
  BY <1>6, <1>8, <1>11
<1> QED BY <1>1, <1>7, <1>9, <1>10, <1>11, <1>12, <1>13 DEF QueueInv

-----------------------------------------------------------------------------
(* The file.                                                               *)

\* f is the place of the first entry with the id of an item, 0 if there is none.
IsFirst(content, item, f) ==
  \/ f = 0 /\ \A p \in 1..Len(content) : content[p].id # item.id
  \/ /\ f \in 1..Len(content) /\ content[f].id = item.id
     /\ \A p \in 1..Len(content) : content[p].id = item.id => f <= p

\* A set of naturals with a member has a least one.
LEMMA LeastOf ==
  ASSUME NEW I, I \subseteq Nat, I # {}
  PROVE  Min(I) \in I /\ \A p \in I : Min(I) <= p
<1> DEFINE R == OpToRel(<, Nat)
<1>1. IsWellFoundedOn(R, Nat)
  BY NatLessThanWellFounded
<1>2. R = {ss \in Nat \X Nat : ss[1] < ss[2]}
  BY DEF OpToRel
<1> HIDE DEF R
<1>3. PICK x \in I : \A y \in I : <<y, x>> \notin R
  BY <1>1, WFMin
<1>4. ASSUME NEW y \in I PROVE x <= y
  <2>1. ASSUME y < x PROVE FALSE
    <3>1. <<y, x>> \in Nat \X Nat /\ <<y, x>>[1] < <<y, x>>[2]
      BY <2>1
    <3> QED BY <1>2, <1>3, <3>1
  <2>2. x \in Nat /\ y \in Nat
    OBVIOUS
  <2> QED BY <2>1, <2>2
<1> QED BY <1>4 DEF Min

\* Place is the first entry with an id.
LEMMA FirstIs ==
  ASSUME NEW content \in Seq(Entry), NEW item
  PROVE  IsFirst(content, item, Place(content, item.id))
<1> DEFINE I == {i \in 1..Len(content) : content[i].id = item.id}
           f == Place(content, item.id)
<1>1. f = IF I # {} THEN Min(I) ELSE 0
  BY DEF Place, SelectInSeq
<1>2. ASSUME I # {} PROVE Min(I) \in I /\ \A p \in I : Min(I) <= p
  <2>1. I \subseteq Nat
    OBVIOUS
  <2> HIDE DEF I
  <2> QED BY <1>2, <2>1, LeastOf
<1> HIDE DEF f
<1>3. IsFirst(content, item, f)
  BY <1>1, <1>2 DEF IsFirst
<1> QED BY <1>3 DEF f

\* There is one first entry.
LEMMA FirstUnique ==
  ASSUME NEW content \in Seq(Entry), NEW item, NEW f, NEW g,
         IsFirst(content, item, f), IsFirst(content, item, g)
  PROVE  f = g
BY DEF IsFirst

\* What an attempt does to the content of the file.
LEMMA ChangedIs ==
  ASSUME NEW content \in Seq(Entry), NEW item \in AnItem, NEW c, c = Changed(content, item)
  PROVE  /\ c \in Seq(Entry)
         /\ ~item.update => c = Append(content, [id |-> item.id, updated |-> FALSE])
         /\ item.update =>
              /\ Len(c) = Len(content)
              /\ \A p \in 1..Len(content) : /\ c[p].id = content[p].id
                                            /\ content[p].updated => c[p].updated
              /\ \A f : IsFirst(content, item, f) /\ f # 0 => c[f].updated
<1>1. CASE ~item.update
  <2>1. c = Append(content, [id |-> item.id, updated |-> FALSE])
    BY <1>1 DEF Changed
  <2>2. [id |-> item.id, updated |-> FALSE] \in Entry
    BY DEF Entry, AnItem
  <2> QED BY <1>1, <2>1, <2>2, AppendProperties
<1>2. CASE item.update
  <2> DEFINE at == Place(content, item.id)
  <2>1. c = IF at = 0 THEN content ELSE [content EXCEPT ![at].updated = TRUE]
    BY <1>2 DEF Changed
  <2>2. IsFirst(content, item, at)
    BY FirstIs
  <2> HIDE DEF at
  <2>3. \A f : IsFirst(content, item, f) => f = at
    BY <2>2, FirstUnique
  <2>4. CASE at = 0
    BY <1>2, <2>1, <2>3, <2>4
  <2>5. CASE at # 0
    <3>1. at \in 1..Len(content) /\ content[at] \in Entry
      <4>1. at \in 1..Len(content)
        BY <2>2, <2>5 DEF IsFirst
      <4> QED BY <4>1
    <3> DEFINE e == [content[at] EXCEPT !.updated = TRUE]
    <3>2. e \in Entry /\ e.id = content[at].id /\ e.updated = TRUE
      BY <3>1 DEF Entry
    <3>3. c = [content EXCEPT ![at] = e]
      BY <2>1, <2>5, <3>1
    <3> HIDE DEF e
    <3>4. c \in Seq(Entry) /\ Len(c) = Len(content)
          /\ \A j \in 1..Len(content) : c[j] = IF j = at THEN e ELSE content[j]
      BY <3>1, <3>2, <3>3, ExceptSeq
    <3> QED BY <1>2, <2>3, <3>1, <3>2, <3>4
  <2> QED BY <2>4, <2>5
<1> QED BY <1>1, <1>2

\* The first entry of an activity stays where it is.
LEMMA FirstStays ==
  ASSUME NEW content \in Seq(Entry), NEW item \in AnItem, NEW c, c = Changed(content, item),
         NEW other, NEW f, IsFirst(content, other, f)
  PROVE  /\ f # 0 => IsFirst(c, other, f) /\ (content[f].updated => c[f].updated)
         /\ f = 0 /\ (item.update \/ item.id # other.id) => IsFirst(c, other, 0)
         /\ ~item.update /\ other.id = item.id => ~IsFirst(c, other, 0)
<1>1. CASE ~item.update
  <2>1. c = Append(content, [id |-> item.id, updated |-> FALSE])
    BY <1>1, ChangedIs
  <2>2. /\ Len(c) = Len(content) + 1 /\ Len(content) \in Nat
        /\ \A p \in 1..Len(content) : c[p] = content[p]
        /\ c[Len(content) + 1].id = item.id
    BY <2>1
  <2> HIDE DEF Changed
  <2>3. f # 0 => IsFirst(c, other, f) /\ (content[f].updated => c[f].updated)
    BY <2>2 DEF IsFirst
  <2>4. f = 0 /\ item.id # other.id => IsFirst(c, other, 0)
    BY <2>2 DEF IsFirst
  <2>5. other.id = item.id => ~IsFirst(c, other, 0)
    <3>1. Len(content) + 1 \in 1..Len(c)
      BY <2>2
    <3> QED BY <2>2, <3>1 DEF IsFirst
  <2> QED BY <1>1, <2>3, <2>4, <2>5
<1>2. CASE item.update
  <2>1. /\ Len(c) = Len(content)
        /\ \A p \in 1..Len(content) : /\ c[p].id = content[p].id
                                      /\ content[p].updated => c[p].updated
    BY <1>2, ChangedIs
  <2> QED BY <1>2, <2>1 DEF IsFirst
<1> QED BY <1>1, <1>2

\* A step of the file leaves an activity that is logged before what it writes
\* where it is, and what it writes is the next that is logged.
LEMMA FileLogStep ==
  ASSUME LoggedInv, QueueInv, FileInv, DoneInv, LogStep
  PROVE  FileInv' /\ DoneInv'
<1> DEFINE R == Reached
<1>1. /\ queue # <<>> /\ logged' = logged
      /\ file' = file \/ file' = Changed(file, queue[1].item)
      /\ Retries \/ Leaves
  BY LogSteps DEF FileInv
<1>2. /\ queue \in Seq(Operation) /\ Len(queue) \in Nat /\ Len(queue) >= 1 /\ Len(logged) \in Nat
      /\ Len(queue) <= Len(logged) /\ logged \in Seq(AnItem) /\ file \in Seq(Entry) /\ Len(file) \in Nat
  BY <1>1, RemoveHead DEF QueueInv, LoggedInv, FileInv
<1>3. R \in 1..Len(logged) /\ Reached' \in Nat /\ R <= Reached'
      /\ (Leaves => R < Reached')
  <2>1. R \in 1..Len(logged)
    BY <1>2 DEF Reached
  <2>2. CASE Retries
    <3>1. Len(queue') = Len(queue)
      BY <2>2 DEF Retries
    <3>2. CASE Leaves
      <4>1. Len(queue') = Len(queue) - 1
        BY <1>1, <1>2, <3>2, RemoveHead DEF Leaves
      <4> QED BY <1>2, <3>1, <4>1
    <3> QED BY <1>1, <1>2, <2>1, <3>1, <3>2 DEF Reached
  <2>3. CASE Leaves
    <3>1. Len(queue') = Len(queue) - 1
      BY <1>1, <1>2, <2>3, RemoveHead DEF Leaves
    <3> QED BY <1>1, <1>2, <2>1, <3>1 DEF Reached
  <2> QED BY <1>1, <2>2, <2>3
<1>4. PICK h \in AnItem : h = queue[1].item /\ h = logged[R]
  <2>1. 1 \in 1..Len(queue) /\ R = Len(logged) - Len(queue) + 1
    BY <1>2 DEF Reached
  <2>2. queue[1].item = logged[R]
    BY <2>1 DEF QueueInv
  <2>3. logged[R] \in AnItem
    BY <1>2, <1>3
  <2> QED BY <2>2, <2>3
<1> HIDE DEF R
<1>5. OnceThenUpdates(logged)
  BY DEF LoggedInv
<1>6. \A j, k \in 1..Len(logged) : \A id : Appends(j, id) /\ Appends(k, id) => j = k
  BY <1>5 DEF Appends, OnceThenUpdates
<1>7. \A p \in 1..Len(file) : \E j \in 1..Len(logged) : j <= R /\ Appends(j, file[p].id)
  BY DEF FileInv, R
<1>8. \A p, q \in 1..Len(file) : \A j, k \in 1..Len(logged) :
        p < q /\ Appends(j, file[p].id) /\ Appends(k, file[q].id) => j <= k
  BY DEF FileInv
<1>9. FileInv'
  <2>1. ASSUME NEW c, c \in Seq(Entry), file' = c,
               \A p \in 1..Len(c) : \E j \in 1..Len(logged) : j <= R /\ Appends(j, c[p].id),
               \A p, q \in 1..Len(c) : \A j, k \in 1..Len(logged) :
                 p < q /\ Appends(j, c[p].id) /\ Appends(k, c[q].id) => j <= k
        PROVE  FileInv'
    <3>1. \A j, id : Appends(j, id)' <=> Appends(j, id)
      BY <1>1 DEF Appends
    <3>2. \A p \in 1..Len(c) : \E j \in 1..Len(logged) : j <= Reached' /\ Appends(j, c[p].id)
      BY <1>2, <1>3, <2>1
    <3> QED BY <1>1, <2>1, <3>1, <3>2 DEF FileInv
  <2>2. CASE file' = file
    BY <1>2, <1>7, <1>8, <2>1, <2>2
  <2>3. CASE file' = Changed(file, h) /\ ~h.update
    <3> DEFINE c == Changed(file, h)
    <3>1. c \in Seq(Entry) /\ c = Append(file, [id |-> h.id, updated |-> FALSE])
      BY <1>2, <2>3, ChangedIs
    <3> HIDE DEF c
    <3>2. /\ Len(c) = Len(file) + 1 /\ c[Len(file) + 1].id = h.id
          /\ \A p \in 1..Len(file) : c[p] = file[p]
      BY <1>2, <3>1
    <3>3. \A id : Appends(R, id) <=> id = h.id
      BY <1>4, <2>3 DEF Appends
    <3>4. \A p \in 1..Len(c) : \E j \in 1..Len(logged) : j <= R /\ Appends(j, c[p].id)
      <4> TAKE p \in 1..Len(c)
      <4>1. CASE p \in 1..Len(file)
        BY <1>7, <3>2, <4>1
      <4>2. CASE p = Len(file) + 1
        BY <1>3, <3>2, <3>3, <4>2
      <4> QED BY <1>2, <3>2, <4>1, <4>2
    <3>5. ASSUME NEW p \in 1..Len(c), NEW q \in 1..Len(c), NEW j \in 1..Len(logged), NEW k \in 1..Len(logged),
                 p < q, Appends(j, c[p].id), Appends(k, c[q].id)
          PROVE  j <= k
      <4>1. p \in 1..Len(file) /\ c[p] = file[p]
        BY <1>2, <3>2, <3>5
      <4>2. CASE q \in 1..Len(file)
        BY <1>8, <3>2, <3>5, <4>1, <4>2
      <4>3. CASE q = Len(file) + 1
        <5>1. k = R
          BY <1>3, <1>6, <3>2, <3>3, <3>5, <4>3
        <5>2. PICK i \in 1..Len(logged) : i <= R /\ Appends(i, file[p].id)
          BY <1>7, <4>1
        <5>3. i = j
          BY <1>6, <3>5, <4>1, <5>2
        <5> QED BY <5>1, <5>2, <5>3
      <4> QED BY <1>2, <3>2, <4>2, <4>3
    <3>6. file' = c
      BY <2>3 DEF c
    <3> QED BY <2>1, <3>1, <3>4, <3>5, <3>6
  <2>4. CASE file' = Changed(file, h) /\ h.update
    <3> DEFINE c == Changed(file, h)
    <3>1. c \in Seq(Entry) /\ Len(c) = Len(file) /\ \A p \in 1..Len(file) : c[p].id = file[p].id
      BY <1>2, <2>4, ChangedIs
    <3>2. file' = c
      BY <2>4
    <3> HIDE DEF c
    <3> QED BY <1>7, <1>8, <2>1, <3>1, <3>2
  <2> QED BY <1>1, <1>4, <2>2, <2>3, <2>4
<1>10. ASSUME NEW x \in AnItem, NEW f, IsFirst(file, x, f), NEW g, IsFirst(file', x, g),
              x.update => (f # 0 => file[f].updated), ~x.update => f # 0,
              NEW j \in 1..Len(logged), j < R, x = logged[j]
       PROVE  (x.update => (g # 0 => file'[g].updated)) /\ (~x.update => g # 0)
  <2>1. CASE file' = file
    BY <1>2, <1>10, <2>1, FirstUnique
  <2>2. CASE file' = Changed(file, h)
    <3>1. file' \in Seq(Entry)
      BY <1>2, <2>2, ChangedIs
    <3>2. CASE f # 0
      <4>1. IsFirst(file', x, f) /\ (file[f].updated => file'[f].updated)
        BY <1>2, <1>10, <2>2, <3>2, FirstStays
      <4>2. g = f
        BY <1>10, <3>1, <4>1, FirstUnique
      <4> QED BY <1>10, <3>2, <4>1, <4>2
    <3>3. CASE f = 0
      <4>1. x.update
        BY <1>10, <3>3
      <4>2. h.update \/ h.id # x.id
        BY <1>2, <1>3, <1>4, <1>5, <1>10 DEF OnceThenUpdates
      <4>3. IsFirst(file', x, 0)
        BY <1>2, <1>10, <2>2, <3>3, <4>2, FirstStays
      <4>4. g = 0
        BY <1>10, <3>1, <4>3, FirstUnique
      <4> QED BY <4>1, <4>4
    <3> QED BY <3>2, <3>3
  <2> QED BY <1>1, <1>4, <2>1, <2>2
<1>11. ASSUME NEW f, IsFirst(file, h, f), NEW g, IsFirst(file', h, g), file' = Changed(file, h)
       PROVE  (h.update => (g # 0 => file'[g].updated)) /\ (~h.update => g # 0)
  <2>1. file' \in Seq(Entry)
    BY <1>2, <1>11, ChangedIs
  <2>2. CASE f # 0
    <3>1. IsFirst(file', h, f) /\ (h.update => file'[f].updated)
      BY <1>2, <1>11, <2>2, FirstStays, ChangedIs
    <3>2. g = f
      BY <1>11, <2>1, <3>1, FirstUnique
    <3> QED BY <2>2, <3>1, <3>2
  <2>3. CASE f = 0
    <3>1. h.update => IsFirst(file', h, 0)
      BY <1>2, <1>11, <2>3, FirstStays
    <3>2. h.update => g = 0
      BY <1>11, <2>1, <3>1, FirstUnique
    <3>3. ~h.update => ~IsFirst(file', h, 0)
      BY <1>2, <1>11, <2>3, FirstStays
    <3> QED BY <1>11, <3>2, <3>3
  <2> QED BY <2>2, <2>3
<1>12. ASSUME NEW x \in done'
       PROVE  /\ \E j \in 1..Len(logged') : j < Reached' /\ x = logged'[j]
              /\ IsDone(x)'
  <2>1. file' \in Seq(Entry)
    BY <1>9 DEF FileInv
  <2> DEFINE f == Place(file, x.id)
             g == Place(file', x.id)
  <2>2. IsFirst(file, x, f) /\ IsFirst(file', x, g)
    BY <1>2, <2>1, FirstIs
  <2>3. /\ IsDone(x) <=> (IF x.update THEN f # 0 => file[f].updated ELSE f # 0)
        /\ IsDone(x)' <=> (IF x.update THEN g # 0 => file'[g].updated ELSE g # 0)
    BY DEF IsDone, FirstAt
  <2> HIDE DEF f, g
  <2>4. CASE x \in done
    <3>1. PICK j \in 1..Len(logged) : j < R /\ x = logged[j]
      BY <2>4 DEF DoneInv, R
    <3>2. x \in AnItem
      BY <1>2, <3>1
    <3>3. IsDone(x)
      BY <2>4 DEF DoneInv
    <3>4. j < Reached'
      BY <1>2, <1>3, <3>1
    <3>5. x.update \in BOOLEAN
      BY <3>2 DEF AnItem
    <3>6. (x.update => (g # 0 => file'[g].updated)) /\ (~x.update => g # 0)
      BY <1>10, <2>2, <2>3, <3>1, <3>2, <3>3
    <3> QED BY <1>1, <2>3, <3>1, <3>4, <3>5, <3>6
  <2>5. CASE x \notin done
    <3>1. Leaves /\ x = h /\ file' = Changed(file, h)
      BY <1>1, <1>4, <1>12, <2>5 DEF Retries, Leaves
    <3>2. R < Reached'
      BY <1>3, <3>1
    <3>3. (x.update => (g # 0 => file'[g].updated)) /\ (~x.update => g # 0)
      BY <1>11, <2>2, <3>1
    <3> QED BY <1>1, <1>3, <1>4, <2>3, <3>1, <3>2, <3>3
  <2> QED BY <2>4, <2>5
<1> QED BY <1>9, <1>12 DEF DoneInv

\* What a turn logs leaves the file, and what it logged before, as it is.
LEMMA FileFlush ==
  ASSUME TurnTypes, LoggedInv, QueueInv, FileInv, DoneInv, LoggedInv', NEW t \in Turns, Flush(t)
  PROVE  FileInv' /\ DoneInv'
<1>1. /\ Len(logged') - Len(queue') = Len(logged) - Len(queue)
      /\ Len(logged) <= Len(logged') /\ \A p \in 1..Len(logged) : logged'[p] = logged[p]
      /\ UNCHANGED <<file, done>>
  BY QueueFlush
<1>2. Len(logged) \in Nat /\ Len(logged') \in Nat /\ OnceThenUpdates(logged') /\ Reached' = Reached
      /\ file \in Seq(Entry) /\ Len(file) \in Nat
  BY <1>1 DEF LoggedInv, Reached, FileInv
<1>3. \A j \in 1..Len(logged) : \A id : j \in 1..Len(logged') /\ (Appends(j, id)' <=> Appends(j, id))
  BY <1>1, <1>2 DEF Appends
<1>4. ASSUME NEW id, NEW j \in 1..Len(logged), Appends(j, id), NEW k \in 1..Len(logged'), Appends(k, id)'
      PROVE  k = j
  BY <1>2, <1>3, <1>4 DEF Appends, OnceThenUpdates
<1>5. FileInv'
  <2>1. \A p \in 1..Len(file) : \E j \in 1..Len(logged) : j <= Reached /\ Appends(j, file[p].id)
    BY DEF FileInv
  <2>2. \A p \in 1..Len(file') : \E j \in 1..Len(logged') : j <= Reached' /\ Appends(j, file[p].id)'
    <3> TAKE p \in 1..Len(file')
    <3>1. PICK j \in 1..Len(logged) : j <= Reached /\ Appends(j, file[p].id)
      BY <1>1, <2>1
    <3>2. PICK id : id = file[p].id
      OBVIOUS
    <3>3. Appends(j, id)' /\ j \in 1..Len(logged')
      BY <1>3, <3>1, <3>2
    <3> QED BY <1>1, <1>2, <3>1, <3>2, <3>3 DEF Appends
  <2>3. ASSUME NEW p \in 1..Len(file'), NEW q \in 1..Len(file'), NEW j \in 1..Len(logged'), NEW k \in 1..Len(logged'),
               p < q, Appends(j, file[p].id)', Appends(k, file[q].id)'
        PROVE  j <= k
    <3>1. PICK x : x = file[p].id
      OBVIOUS
    <3>2. PICK y : y = file[q].id
      OBVIOUS
    <3>3. Appends(j, x)' /\ Appends(k, y)'
      BY <1>1, <2>3, <3>1, <3>2 DEF Appends
    <3>4. PICK m \in 1..Len(logged) : Appends(m, x)
      BY <1>1, <2>1, <3>1
    <3>5. PICK n \in 1..Len(logged) : Appends(n, y)
      BY <1>1, <2>1, <3>2
    <3>6. m <= n
      BY <1>1, <2>3, <3>1, <3>2, <3>4, <3>5 DEF FileInv
    <3> QED BY <1>4, <3>3, <3>4, <3>5, <3>6
  <2> QED BY <1>1, <1>2, <2>2, <2>3 DEF FileInv
<1>6. ASSUME NEW x \in done'
      PROVE  /\ \E j \in 1..Len(logged') : j < Reached' /\ x = logged'[j]
             /\ IsDone(x)'
  <2>1. PICK j \in 1..Len(logged) : j < Reached /\ x = logged[j]
    BY <1>1 DEF DoneInv
  <2>2. IsDone(x)
    BY <1>1 DEF DoneInv
  <2>3. IsDone(x)'
    BY <1>1, <2>2 DEF IsDone, FirstAt
  <2> QED BY <1>1, <1>2, <1>3, <2>1, <2>3
<1> QED BY <1>5, <1>6 DEF DoneInv

-----------------------------------------------------------------------------
(* The invariant.                                                          *)

\* It holds before the first turn begins.
LEMMA InitIInv ==
  ASSUME Init
  PROVE  IInv
<1>1. TurnTypes
  <2>1. TypingTypeOK /\ owner \in [Turns -> Nat]
    <3>1. <<>> \in Seq(TimerStates) /\ Len(<<>>) = 0 /\ \A t \in Turns : MaxTimers[t] \in Nat
      BY AgentTurnAssumption
    <3> QED BY <3>1 DEF Init, TypingInit, TypingTypeOK
  <2>2. phase \in [Turns -> Phases]
    BY DEF Init, Phases
  <2>3. /\ sends \in [Turns -> Seq(Sendings)] /\ transcript \in [Turns -> Seq(AnItem)]
        /\ buffered \in [Turns -> Seq(Turns \X Nat)] /\ delivered = {}
    BY DEF Init
  <2>4. reply \in [Turns -> Reply]
    <3>1. [status |-> "none", body |-> <<>>] \in Reply
      BY DEF Reply
    <3> QED BY <3>1 DEF Init
  <2> QED BY <2>1, <2>2, <2>3, <2>4 DEF TurnTypes
<1>2. \A t \in Turns : sends[t] = <<>> /\ transcript[t] = <<>> /\ buffered[t] = <<>>
  BY DEF Init
<1>3. Len(<<>>) = 0 /\ \A S : <<>> \in Seq(S)
  BY EmptySeq
<1>4. \A t \in Turns : Len(sends[t]) = 0 /\ Len(transcript[t]) = 0
  BY <1>2, <1>3
<1>5. SendInv
  <2>1. \A t \in Turns : MaxSends[t] \in Nat /\ 0 <= MaxSends[t] + 1 /\ 0 <= MaxSends[t] /\ 1..0 = {}
    BY AgentTurnAssumption
  <2> QED BY <1>4, <2>1 DEF SendInv
<1>6. TypingInv /\ ReportInv /\ RecordInv
  BY <1>1, <1>4 DEF TypingInv, ReportInv, RecordInv, OnceThenUpdates, Init
<1>7. BufferInv
  <2>1. ASSUME NEW t \in Turns PROVE Range(buffered[t]) = {}
    <3>1. DOMAIN buffered[t] = {}
      BY <1>2
    <3> QED BY <3>1 DEF Range
  <2> QED BY <2>1 DEF BufferInv
<1>8. ReplyInv
  BY DEF ReplyInv, Init
<1>9. logged = <<>> /\ queue = <<>> /\ file = <<>> /\ broken = FALSE /\ done = {} /\ lost = {}
  BY DEF Init, FileInit
<1>10. LoggedInv
  BY <1>3, <1>9 DEF LoggedInv, OnceThenUpdates
<1>11. QueueInv
  <2>1. \A k \in 1..Len(queue) : FALSE
    BY <1>3, <1>9
  <2>2. Len(queue) <= Len(logged)
    BY <1>3, <1>9
  <2> QED BY <1>3, <1>9, <2>1, <2>2 DEF QueueInv, LostOnlyBehindFailure
<1>12. FileInv /\ DoneInv
  BY <1>3, <1>9 DEF FileInv, DoneInv
<1> QED BY <1>1, <1>5, <1>6, <1>7, <1>8, <1>10, <1>11, <1>12 DEF IInv

\* Every step keeps it.
LEMMA StepIInv ==
  ASSUME IInv, [Next]_vars
  PROVE  IInv'
<1> USE DEF IInv
<1>1. UNCHANGED vars \/ LogStep \/ \E t \in Turns : Turns1(t) \/ Sends(t)
  BY Steps
<1>2. ASSUME UNCHANGED <<typingVars, phase, sends, transcript, buffered, reply, delivered>>
      PROVE  /\ TurnTypes' /\ SendInv' /\ TypingInv' /\ ReportInv'
             /\ RecordInv' /\ BufferInv' /\ ReplyInv'
             /\ logged' = logged => LoggedInv'
  <2>1. timer' = timer /\ owner' = owner
    BY <1>2 DEF typingVars
  <2>2. TurnTypes'
    BY <1>2, <2>1 DEF TurnTypes, TypingTypeOK
  <2>3. SendInv'
    BY <1>2, <2>1 DEF SendInv, SendType
  <2>4. TypingInv'
    BY <1>2, <2>1 DEF TypingInv, Quiets
  <2>5. ReportInv'
    BY <1>2 DEF ReportInv
  <2>6. RecordInv'
    BY <1>2 DEF RecordInv, OfTurn, Kept, OnceThenUpdates
  <2>7. BufferInv' /\ ReplyInv'
    BY <1>2 DEF BufferInv, ReplyInv
  <2>8. ASSUME logged' = logged PROVE LoggedInv'
    BY <1>2, <2>8 DEF LoggedInv, OnceThenUpdates, WellLogged, Kept
  <2> QED BY <2>2, <2>3, <2>4, <2>5, <2>6, <2>7, <2>8
<1>3. ASSUME UNCHANGED fileVars PROVE QueueInv' /\ FileInv' /\ DoneInv'
  BY <1>3 DEF fileVars, QueueInv, LostOnlyBehindFailure, FileInv, Reached, Appends, DoneInv, IsDone, FirstAt
<1>4. CASE UNCHANGED vars
  BY <1>2, <1>3, <1>4 DEF vars, fileVars
<1>5. CASE LogStep
  <2>1. UNCHANGED <<typingVars, phase, sends, transcript, buffered, reply, delivered>>
    BY <1>5 DEF LogStep
  <2>2. logged' = logged /\ QueueInv'
    BY <1>5, LogSteps, QueueLogStep DEF FileInv
  <2>3. FileInv' /\ DoneInv'
    BY <1>5, FileLogStep
  <2> QED BY <1>2, <2>1, <2>2, <2>3
<1>6. ASSUME NEW t \in Turns, Turns1(t) \/ Sends(t) PROVE IInv'
  <2>1. TurnTypes' /\ SendInv' /\ TypingInv' /\ ReportInv'
    BY <1>6, TypesStep, SendStepInv, TypingStepInv, ReportStepInv
  <2>2. RecordInv' /\ BufferInv' /\ ReplyInv' /\ LoggedInv'
    BY <1>6, RecordStepInv, BufferStepInv, ReplyStepInv, LoggedStepInv
  <2>3. CASE Flush(t)
    BY <2>1, <2>2, <2>3, QueueFlush, FileFlush
  <2>4. CASE ~Flush(t)
    <3>1. UNCHANGED fileVars
      BY <1>6, <2>4 DEF Turns1, Sends, Begin, HandlerReturns, HandlerThrows, EndTurn, StartTyping,
                        StopTyping, TypingStep
    <3> QED BY <1>3, <2>1, <2>2, <3>1
  <2> QED BY <2>3, <2>4
<1> QED BY <1>1, <1>4, <1>5, <1>6

\* IInv is an invariant of any interleaving of turns, their sends and the file.
THEOREM IInvHolds == Spec => []IInv
<1>1. Init => IInv
  BY InitIInv
<1>2. IInv /\ [Next]_vars => IInv'
  BY StepIInv
<1> QED BY <1>1, <1>2, PTL DEF Spec

-----------------------------------------------------------------------------
(* What it is for.                                                         *)

\* IInv gives the type of every variable.
LEMMA IInvTypes ==
  ASSUME IInv
  PROVE  TypeOK
<1> USE DEF IInv
<1>1. TypingTypeOK /\ phase \in [Turns -> Phases]
  BY DEF TurnTypes
<1>2. ASSUME NEW t \in Turns
      PROVE  /\ Len(sends[t]) <= MaxSends[t] + 1
             /\ \A i \in DOMAIN sends[t] : SendType(t, sends[t][i])
             /\ Range(transcript[t]) \subseteq ItemsOf(t)
             /\ Range(buffered[t]) \subseteq {<<t, i>> : i \in DOMAIN sends[t]}
  <2>1. /\ DOMAIN sends[t] = 1..Len(sends[t]) /\ DOMAIN transcript[t] = 1..Len(transcript[t])
    BY DEF TurnTypes
  <2>2. \A p \in 1..Len(transcript[t]) : transcript[t][p] \in ItemsOf(t)
    BY DEF RecordInv, OfTurn
  <2>3. Range(transcript[t]) \subseteq ItemsOf(t)
    BY <2>1, <2>2 DEF Range
  <2> QED BY <2>1, <2>3 DEF SendInv, BufferInv
<1>3. \A p \in 1..Len(logged) : logged[p] \in Items
  <2>1. ASSUME NEW p \in 1..Len(logged) PROVE logged[p] \in Items
    <3>1. logged[p] \in AnItem /\ WellLogged(logged[p])
      BY DEF LoggedInv
    <3> QED BY <3>1 DEF WellLogged, AnItem, Items
  <2> QED BY <2>1
<1>4. ASSUME NEW k \in DOMAIN queue PROVE queue[k].item \in Items /\ queue[k].failed \in 0..Attempts - 1
  <2>1. k \in 1..Len(queue) /\ Len(queue) \in Nat /\ Len(logged) \in Nat /\ Len(queue) <= Len(logged)
    BY DEF QueueInv, LoggedInv
  <2>2. Len(logged) - Len(queue) + k \in 1..Len(logged)
    BY <2>1
  <2> QED BY <1>3, <2>1, <2>2 DEF QueueInv
<1>5. done \subseteq Items
  BY <1>3 DEF DoneInv
<1> QED BY <1>1, <1>2, <1>4, <1>5 DEF TypeOK, QueueInv, RecordInv

\* The entries of the file are in the order of the log: two activities whose
\* append resolved are there in that order.
LEMMA IInvFile ==
  ASSUME IInv
  PROVE  FileKeepsLogged
<1> USE DEF IInv
<1>1. /\ file \in Seq(Entry) /\ Len(file) \in Nat /\ logged \in Seq(AnItem)
      /\ DOMAIN logged = 1..Len(logged) /\ Len(logged) \in Nat
  BY DEF FileInv, LoggedInv
<1>2. ASSUME NEW j \in DOMAIN logged, NEW k \in DOMAIN logged, j < k,
             {logged[j], logged[k]} \subseteq done, ~logged[j].update, ~logged[k].update
      PROVE  FirstAt(logged[j]) < FirstAt(logged[k])
  <2>1. PICK x \in AnItem : x = logged[j]
    BY <1>1
  <2>2. PICK y \in AnItem : y = logged[k]
    BY <1>1
  <2>3. IsFirst(file, x, FirstAt(x)) /\ IsFirst(file, y, FirstAt(y))
    BY <1>1, FirstIs DEF FirstAt
  <2>4. FirstAt(x) # 0 /\ FirstAt(y) # 0
    BY <1>2, <2>1, <2>2 DEF DoneInv, IsDone
  <2>5. PICK f : f = FirstAt(x)
    OBVIOUS
  <2>6. PICK g : g = FirstAt(y)
    OBVIOUS
  <2>7. /\ f \in 1..Len(file) /\ g \in 1..Len(file)
        /\ file[f].id = x.id /\ file[g].id = y.id
    BY <2>3, <2>4, <2>5, <2>6 DEF IsFirst
  <2>8. Appends(j, x.id) /\ Appends(k, y.id) /\ j \in 1..Len(logged) /\ k \in 1..Len(logged)
    BY <1>1, <1>2, <2>1, <2>2 DEF Appends
  <2>9. x.id # y.id
    BY <1>1, <1>2, <2>1, <2>2, <2>8 DEF LoggedInv, OnceThenUpdates
  <2>10. ~(g < f)
    <3>1. ASSUME g < f PROVE k <= j
      BY <2>7, <2>8, <3>1 DEF FileInv
    <3> QED BY <1>1, <1>2, <2>8, <3>1
  <2>11. f # g
    BY <2>7, <2>9
  <2> QED BY <2>1, <2>2, <2>5, <2>6, <2>7, <2>10, <2>11
<1> QED BY <1>2 DEF FileKeepsLogged, DoneInv, IsDone

\* What is logged of a turn is with the channel, or in the reply that is given.
LEMMA IInvDelivered ==
  ASSUME IInv
  PROVE  LoggedWasDelivered
<1> USE DEF IInv
<1>1. SUFFICES ASSUME NEW item \in Range(logged), NEW t, t = item.id[1]
      PROVE  \/ item = Incoming(t)
             \/ item \in delivered
             \/ /\ t \in ExpectReplies /\ ~item.update
                /\ reply[t].status # "none" => item.id \in Range(reply[t].body)
  BY DEF LoggedWasDelivered
<1>2. item \in AnItem /\ WellLogged(item)
  <2>1. PICK p \in 1..Len(logged) : item = logged[p]
    BY DEF Range, LoggedInv
  <2> QED BY <2>1 DEF LoggedInv
<1>3. t \in Turns /\ Kept(t, item) /\ reply[t].status # "failed"
  BY <1>1, <1>2 DEF AnItem, WellLogged
<1>4. CASE t \in ExpectReplies /\ ~item.update /\ item.id \in Range(buffered[t])
  BY <1>3, <1>4 DEF ReplyInv
<1> QED BY <1>3, <1>4 DEF Kept

\* A message that has passed the handlers has stopped the timers before it.
LEMMA IInvQuiet ==
  ASSUME IInv
  PROVE  NoTypingBehindMessage
<1>1. \A t \in Turns : DOMAIN sends[t] = 1..Len(sends[t])
  BY DEF IInv, TurnTypes
<1> QED BY <1>1 DEF IInv, TypingInv, Quiets, NoTypingBehindMessage

\* The state of turns, timers, sends and file has its type in every state.
THEOREM TypeCorrect == Spec => []TypeOK
BY IInvHolds, IInvTypes, PTL

\* startTypingTimer: behind a message no typing indicator of an earlier timer
\* arrives, however many timers and sends of a turn overlap.
THEOREM NoLateTyping == Spec => []NoTypingBehindMessage
BY IInvHolds, IInvQuiet, PTL

\* TranscriptLoggerMiddleware.onTurn: what is logged of a turn was delivered.
THEOREM LogIsTruthful == Spec => []LoggedWasDelivered
BY IInvHolds, IInvDelivered, PTL

\* withFileLock: what resolved is in the file, in the order of the log, and only
\* what failed or waited behind a failure is rejected.
THEOREM FileIsFaithful == Spec => []TranscriptSurvives
<1>1. IInv => TranscriptSurvives
  BY IInvFile DEF IInv, QueueInv, TranscriptSurvives
<1> QED BY <1>1, IInvHolds, PTL

===============================================================================
