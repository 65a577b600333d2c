------------------------ MODULE NamedPipeServiceProofs ------------------------
(***************************************************************************)
(* Proofs about the life cycle of the named-pipe server.                   *)
(*                                                                         *)
(* They assume nothing of the application: the history unawaited records   *)
(* whether it started the service again with a start or a stop under way,  *)
(* and what is promised then is part of the invariants.  The ready promise *)
(* settles when each stop was awaited; that no pipe is forgotten, nothing  *)
(* stale is published and ready never lies also needs each start awaited.  *)
(***************************************************************************)
EXTENDS NamedPipeServiceProps, TLAPS

-----------------------------------------------------------------------------
(* The invariants.                                                         *)

\* When each stop was awaited, only the promise whose resolvers the service holds
\* can be pending, of those that a start made; a service at rest after a stop has
\* none.
ReadyInv ==
  /\ "stop" \notin unawaited => \A c \in Starts : ready[c] = "pending" => holder = c
  /\ StopSettlesReady

\* A service that runs holds the controller of its one start, which no stop
\* has aborted, and no stop is under way; a start that is under way when the
\* service has stopped is aborted.
ControlInv ==
  /\ running <=> controller # None
  /\ controller \notin aborted
  /\ running => \A k \in Stops : Idle(k)
  /\ \A k \in Stops : pc[k] \in {"idle", "disposing", "closing", "returned"}
  /\ \A c \in Starts :
       /\ pc[c] = "idle" => c # controller /\ c \notin aborted
       /\ ~Idle(c) /\ running => controller = c
       /\ ~Idle(c) /\ ~running => c \in aborted
  /\ \A c, d \in Starts : ~Idle(c) /\ ~Idle(d) => c = d

\* What the connect loop awaits is what the fields name, until a stop that has
\* ended clears them.
LoopInv ==
  \A c \in Starts :
    /\ pc[c] \in {"connecting", "unwinding", "serving"} =>
         /\ at[c] \in Conns
         /\ connection \in {at[c], None}
         /\ running => connection = at[c]
    /\ pc[c] = "connecting" =>
         /\ signal[at[c]] = c /\ phase[at[c]] # "up"
         /\ running => at[c] \notin lostReader
    /\ pc[c] = "unwinding" => phase[at[c]] \in {"closing", "closed"}

\* A disconnect ends the protocol and closes the connection that the fields
\* name, as long as they name one.
DisconnectInv ==
  \A c \in Calls :
    /\ pc[c] = "disposing" => protocol \in {at[c], None}
    /\ pc[c] = "closing" =>
         /\ connection \in {at[c], None}
         /\ at[c] # None => phase[at[c]] \in {"binding", "closing", "closed"}
         /\ \A n \in Conns : proto[n] # "up"

\* The fields are set only while the loop holds what they name.
FieldInv ==
  /\ connection # None =>
       \E c \in Starts : pc[c] \in {"connecting", "unwinding", "serving", "disposing", "closing"}
  /\ protocol # None => \E c \in Starts : pc[c] \in {"serving", "disposing", "closing"}
  /\ published # None => running /\ \E c \in Starts : pc[c] = "serving"
  /\ PublishedIsLive

\* Somebody awaits every pipe that is not closed, or the fields name it.
PipeInv ==
  \A n \in Conns :
    /\ phase[n] \in {"binding", "listening"} =>
         \E c \in Starts : pc[c] = "connecting" /\ at[c] = n
    /\ phase[n] \in {"listening", "up"} => n = connection
    /\ phase[n] = "closing" => \E c \in Calls : pc[c] \in {"closing", "unwinding"} /\ at[c] = n
    /\ proto[n] = "up" => n = protocol

IInv == ControlInv /\ LoopInv /\ DisconnectInv /\ FieldInv /\ PipeInv

\* They hold as long as each call was awaited before the service was started.
AwaitedInv == unawaited = {} => IInv

-----------------------------------------------------------------------------
(* Types.                                                                  *)

\* Every action keeps every variable in its type (TypeOK).
LEMMA TypeStep == TypeOK /\ [Next]_vars => TypeOK'
<1> SUFFICES ASSUME TypeOK, [Next]_vars PROVE TypeOK'
  OBVIOUS
<1> USE ServiceAssumption DEF TypeOK, Calls, Cycles
<1>1. ASSUME NEW c \in Starts, Start(c) PROVE TypeOK'
  <2>1. /\ running' = TRUE /\ controller' = c /\ holder' = c
        /\ ready' = [ready EXCEPT ![c] = "pending"]
        /\ UNCHANGED <<autoReconnect, aborted, protocol, published, strays, foreign>>
        /\ unawaited' \subseteq {"start", "stop"}
    BY <1>1 DEF Start, UnderWay
  <2>2. PICK n \in Conns :
          /\ connection' = n
          /\ phase' = [phase EXCEPT ![n] = "binding"]
          /\ half' = [half EXCEPT ![n] = 1]
          /\ signal' = [signal EXCEPT ![n] = c]
          /\ lostReader' = lostReader \ {n}
          /\ proto' = [proto EXCEPT ![n] = "none"]
          /\ reads' = [reads EXCEPT ![n] = None]
          /\ pc' = [pc EXCEPT ![c] = "connecting"] /\ at' = [at EXCEPT ![c] = n]
    BY <1>1 DEF Start, BeginConnect, GoTo, Free
  <2> QED
    BY <2>1, <2>2
<1>2. ASSUME NEW c \in Starts, BindFails(c) PROVE TypeOK'
  BY <1>2 DEF BindFails, Unwind, GoTo, stopVars, fieldVars, readyVars, protoVars
<1>3. ASSUME NEW c \in Starts, IncomingConnects(c) PROVE TypeOK'
  <2>1. at[c] \in Conns
    BY <1>3 DEF IncomingConnects, Accepts
  <2> QED
    BY <1>3, <2>1 DEF IncomingConnects, stopVars, fieldVars, readyVars, protoVars
<1>4. ASSUME NEW c \in Starts, OutgoingConnects(c) PROVE TypeOK'
  <2>1. /\ UNCHANGED <<autoReconnect, stopVars, connection, half, lostReader, strays, foreign, unawaited>>
        /\ signal' \in [Conns -> Starts \union {None}]
    BY <1>4 DEF OutgoingConnects
  <2>2. phase' \in [Conns -> {"binding", "listening", "up", "closing", "closed"}]
    BY <1>4 DEF OutgoingConnects
  <2>3. holder' \in Cycles \union {None}
        /\ ready' \in [Cycles -> {"none", "pending", "resolved", "rejected"}]
    BY <1>4 DEF OutgoingConnects, SettleReady, readyVars
  <2>4. {protocol, published}' \subseteq Conns \union {None}
    BY <1>4 DEF OutgoingConnects, Disconnect
  <2>5. /\ proto' \in [Conns -> {"none", "up", "ended"}]
        /\ reads' \in [Conns -> Conns \union {None}]
    BY <1>4 DEF OutgoingConnects, protoVars
  <2>6. /\ pc' \in [Calls -> {"idle", "connecting", "unwinding", "serving", "disposing", "closing",
                               "delay", "returned"}]
        /\ at' \in [Calls -> Conns \union {None}]
        /\ \A d \in Calls : pc'[d] = "connecting" => at'[d] \in Conns
    BY <1>4 DEF OutgoingConnects, Disconnect, GoTo
  <2> QED
    BY <2>1, <2>2, <2>3, <2>4, <2>5, <2>6 DEF stopVars
<1>5. ASSUME NEW k \in Stops, Stop(k) PROVE TypeOK'
  BY ZenonT(60), <1>5 DEF Stop, Abort, Disconnect, GoTo, readyVars, connVars, protoVars
<1>6. ASSUME NEW c \in Starts, ConnAborts(c) PROVE TypeOK'
  BY <1>6 DEF ConnAborts, Unwind, GoTo, stopVars, fieldVars, readyVars, protoVars
<1>7. ASSUME NEW c \in Starts, Caught(c) PROVE TypeOK'
  BY <1>7 DEF Caught, SettleReady, Disconnect, GoTo, stopVars, readyVars, connVars, protoVars
<1>8. ASSUME NEW c \in Starts, LoopWakes(c) PROVE TypeOK'
  BY <1>8 DEF LoopWakes, Disconnect, GoTo, stopVars, readyVars, connVars, protoVars
<1>9. ASSUME NEW c \in Starts, DelayOver(c) PROVE TypeOK'
  <2>1. UNCHANGED <<autoReconnect, stopVars, protocol, published, readyVars, strays, foreign, unawaited>>
    BY <1>9 DEF DelayOver
  <2>2. CASE running
    <3>1. PICK n \in Conns :
            /\ connection' = n
            /\ phase' = [phase EXCEPT ![n] = "binding"]
            /\ half' = [half EXCEPT ![n] = 1]
            /\ signal' = [signal EXCEPT ![n] = controller]
            /\ lostReader' = lostReader \ {n}
            /\ proto' = [proto EXCEPT ![n] = "none"]
            /\ reads' = [reads EXCEPT ![n] = None]
            /\ pc' = [pc EXCEPT ![c] = "connecting"] /\ at' = [at EXCEPT ![c] = n]
      BY <1>9, <2>2 DEF DelayOver, BeginConnect, GoTo, Free
    <3> QED
      BY <2>1, <3>1 DEF stopVars, readyVars
  <2>3. CASE ~running
    <3>1. /\ pc' = [pc EXCEPT ![c] = "returned"] /\ at' = [at EXCEPT ![c] = None]
          /\ UNCHANGED <<connection, connVars, protoVars>>
      BY <1>9, <2>3 DEF DelayOver, GoTo
    <3> QED
      BY <2>1, <3>1 DEF stopVars, readyVars, connVars, protoVars
  <2> QED
    BY <2>2, <2>3
<1>10. ASSUME NEW c \in Calls, ProtocolDisposed(c) PROVE TypeOK'
  BY <1>10 DEF ProtocolDisposed, Dispose, GoTo, stopVars, fieldVars, readyVars
<1>11. ASSUME NEW c \in Calls, ConnectionDisposed(c) PROVE TypeOK'
  BY <1>11 DEF ConnectionDisposed, LoopTurns, StopReturns, SettleReady, GoTo, stopVars, readyVars,
               connVars, protoVars
<1>12. ASSUME NEW n \in Conns, Bind(n) PROVE TypeOK'
  BY <1>12 DEF Bind, stopVars, fieldVars, readyVars, protoVars
<1>13. ASSUME NEW n \in Conns, ProtocolEnds(n) PROVE TypeOK'
  BY <1>13 DEF ProtocolEnds, stopVars, fieldVars, readyVars, connVars
<1>14. ASSUME NEW n \in Conns, StrayConnects(n) \/ StrayLeaves(n) PROVE TypeOK'
  <2>1. strays' \in [Conns -> 0..MaxStrays]
    BY <1>14 DEF StrayConnects, StrayLeaves, Strays
  <2>2. UNCHANGED <<autoReconnect, stopVars, fieldVars, readyVars, connVars, protoVars, pc, at, foreign,
                    unawaited>>
    BY <1>14 DEF StrayConnects, StrayLeaves, Strays
  <2> QED
    BY <2>1, <2>2 DEF stopVars, fieldVars, readyVars, connVars, protoVars
<1>15. ASSUME NEW n \in Conns, CloseDone(n) PROVE TypeOK'
  BY <1>15 DEF CloseDone, stopVars, fieldVars, readyVars, protoVars
<1>16. CASE ForeignLeaves
  BY <1>16 DEF ForeignLeaves, stopVars, fieldVars, readyVars, connVars, protoVars
<1>17. CASE UNCHANGED vars
  BY <1>17 DEF vars, stopVars, fieldVars, readyVars, connVars, protoVars
<1> QED
  BY <1>1, <1>2, <1>3, <1>4, <1>5, <1>6, <1>7, <1>8, <1>9, <1>10, <1>11, <1>12, <1>13, <1>14,
     <1>15, <1>16, <1>17 DEF Next, Resume, ClientConnects

-----------------------------------------------------------------------------
(* The ready promise.                                                      *)

\* Settling the promise that is held settles the only one that may be pending.
LEMMA SettleClears ==
  ASSUME TypeOK, NEW how \in {"resolved", "rejected"}, SettleReady(how),
         \A c \in Starts : ready[c] = "pending" => holder = c
  PROVE  \A c \in Starts : ready'[c] # "pending"
<1> SUFFICES ASSUME NEW c \in Starts PROVE ready'[c] # "pending"
  OBVIOUS
<1>1. ready \in [Cycles -> {"none", "pending", "resolved", "rejected"}] /\ c \in Cycles /\ holder \in Cycles \union {None}
  BY DEF TypeOK, Cycles
<1>2. CASE holder = None
  BY <1>1, <1>2, ServiceAssumption DEF SettleReady, Cycles
<1>3. CASE holder # None
  BY <1>1, <1>3 DEF SettleReady
<1> QED
  BY <1>2, <1>3

\* A step that settles the promise or leaves it alone, and neither stops the
\* service nor ends a stop, keeps the invariant.
LEMMA ReadyFrame ==
  ASSUME TypeOK, ReadyInv,
         UNCHANGED readyVars \/ \E how \in {"resolved", "rejected"} : SettleReady(how),
         running' = running, unawaited' = unawaited, \A k \in Stops : Idle(k)' => Idle(k)
  PROVE  ReadyInv'
<1>1. CASE UNCHANGED readyVars
  BY <1>1 DEF ReadyInv, StopSettlesReady, readyVars
<1>2. CASE \E how \in {"resolved", "rejected"} : SettleReady(how)
  <2>1. "stop" \notin unawaited => \A c \in Starts : ready'[c] # "pending"
    BY <1>2, SettleClears DEF ReadyInv
  <2> QED
    BY <2>1 DEF ReadyInv, StopSettlesReady
<1> QED
  BY <1>1, <1>2

\* Every action keeps ReadyInv, for every caller.
LEMMA ReadyStep == TypeOK /\ ReadyInv /\ [Next]_vars => ReadyInv'
<1> SUFFICES ASSUME TypeOK, ReadyInv, [Next]_vars PROVE ReadyInv'
  OBVIOUS
<1>t. /\ pc \in [Calls -> {"idle", "connecting", "unwinding", "serving", "disposing", "closing",
                          "delay", "returned"}]
      /\ ready \in [Cycles -> {"none", "pending", "resolved", "rejected"}]
  BY DEF TypeOK
<1>1. ASSUME NEW c \in Starts, Start(c) PROVE ReadyInv'
  <2>1. "stop" \notin unawaited' => "stop" \notin unawaited /\ \A d \in Starts : ready[d] # "pending"
    BY <1>1 DEF Start, UnderWay, ReadyInv, StopSettlesReady
  <2>2. running' = TRUE /\ holder' = c /\ ready' = [ready EXCEPT ![c] = "pending"]
    BY <1>1 DEF Start
  <2> QED
    BY <1>t, <2>1, <2>2 DEF ReadyInv, StopSettlesReady, Cycles
<1>2. ASSUME NEW c \in Starts, BindFails(c) \/ ConnAborts(c) PROVE ReadyInv'
  <2>1. UNCHANGED <<readyVars, unawaited>> /\ running' = running /\ \A k \in Stops : pc'[k] = pc[k]
    BY <1>t, <1>2, ServiceAssumption DEF BindFails, ConnAborts, Unwind, GoTo, stopVars,
       readyVars, Calls
  <2> QED
    BY <2>1, ReadyFrame DEF Idle
<1>3. ASSUME NEW c \in Starts, IncomingConnects(c) PROVE ReadyInv'
  <2>1. UNCHANGED <<readyVars, unawaited>> /\ running' = running /\ pc' = pc
    BY <1>3 DEF IncomingConnects, stopVars, readyVars
  <2> QED
    BY <2>1, ReadyFrame DEF Idle
<1>4. ASSUME NEW c \in Starts, OutgoingConnects(c) PROVE ReadyInv'
  <2>1. /\ UNCHANGED readyVars \/ \E how \in {"resolved", "rejected"} : SettleReady(how)
        /\ running' = running /\ unawaited' = unawaited
    BY <1>4 DEF OutgoingConnects, stopVars
  <2>2. \A k \in Stops : pc'[k] = pc[k]
    BY <1>t, <1>4, ServiceAssumption DEF OutgoingConnects, Disconnect, GoTo, Calls
  <2> QED
    BY <2>1, <2>2, ReadyFrame DEF Idle
<1>5. ASSUME NEW k \in Stops, Stop(k) PROVE ReadyInv'
  <2>1. ~Idle(k)' /\ UNCHANGED <<readyVars, unawaited>>
    BY <1>t, <1>5 DEF Stop, Disconnect, GoTo, Idle, Calls
  <2> QED
    BY <2>1 DEF ReadyInv, StopSettlesReady, readyVars
<1>6. ASSUME NEW c \in Starts, Caught(c) PROVE ReadyInv'
  <2>1. /\ UNCHANGED readyVars \/ \E how \in {"resolved", "rejected"} : SettleReady(how)
        /\ running' = running /\ unawaited' = unawaited
    BY <1>6 DEF Caught, stopVars
  <2>2. \A k \in Stops : pc'[k] = pc[k]
    BY <1>t, <1>6, ServiceAssumption DEF Caught, Disconnect, GoTo, Calls
  <2> QED
    BY <2>1, <2>2, ReadyFrame DEF Idle
<1>7. ASSUME NEW c \in Starts, LoopWakes(c) \/ DelayOver(c) PROVE ReadyInv'
  <2>1. UNCHANGED <<readyVars, unawaited>> /\ running' = running
    BY <1>7 DEF LoopWakes, DelayOver, stopVars, readyVars
  <2>2. \A k \in Stops : pc'[k] = pc[k]
    BY <1>t, <1>7, ServiceAssumption DEF LoopWakes, DelayOver, BeginConnect, Disconnect, GoTo, Calls
  <2> QED
    BY <2>1, <2>2, ReadyFrame DEF Idle
<1>8. ASSUME NEW c \in Calls, ProtocolDisposed(c) PROVE ReadyInv'
  <2>1. UNCHANGED <<readyVars, unawaited>> /\ running' = running
    BY <1>8 DEF ProtocolDisposed, stopVars, readyVars
  <2>2. \A k \in Stops : Idle(k)' => Idle(k)
    BY <1>t, <1>8 DEF ProtocolDisposed, GoTo, Calls, Idle
  <2> QED
    BY <2>1, <2>2, ReadyFrame
<1>9. ASSUME NEW c \in Calls, ConnectionDisposed(c) PROVE ReadyInv'
  <2>1. CASE c \in Starts
    <3>1. LoopTurns(c) /\ UNCHANGED <<running, unawaited>>
      BY <1>9, <2>1, ServiceAssumption DEF ConnectionDisposed, stopVars
    <3>2. UNCHANGED readyVars /\ \A k \in Stops : pc'[k] = pc[k]
      BY <1>t, <2>1, <3>1, ServiceAssumption DEF LoopTurns, GoTo, Calls
    <3> QED
      BY <3>1, <3>2, ReadyFrame DEF Idle
  <2>2. CASE c \in Stops
    <3>1. StopReturns(c)
      BY <1>9, <2>2, ServiceAssumption DEF ConnectionDisposed
    <3>2. /\ unawaited' = unawaited
          /\ "stop" \notin unawaited => \A d \in Starts : ready'[d] # "pending"
      BY <1>9, <3>1, SettleClears DEF StopReturns, ReadyInv, ConnectionDisposed
    <3> QED
      BY <3>2 DEF ReadyInv, StopSettlesReady
  <2> QED
    BY <2>1, <2>2 DEF Calls
<1>10. ASSUME NEW n \in Conns, Bind(n) \/ CloseDone(n) \/ ProtocolEnds(n) \/ StrayConnects(n) \/ StrayLeaves(n)
       PROVE ReadyInv'
  <2>1. UNCHANGED <<readyVars, unawaited>> /\ running' = running /\ pc' = pc
    BY <1>10 DEF Bind, CloseDone, ProtocolEnds, StrayConnects, StrayLeaves, Strays,
       stopVars, readyVars
  <2> QED
    BY <2>1, ReadyFrame DEF Idle
<1>11. ASSUME ForeignLeaves \/ UNCHANGED vars PROVE ReadyInv'
  <2>1. UNCHANGED <<readyVars, unawaited>> /\ running' = running /\ pc' = pc
    BY <1>11 DEF ForeignLeaves, vars, stopVars, readyVars
  <2> QED
    BY <2>1, ReadyFrame DEF Idle
<1> QED
  BY <1>1, <1>2, <1>3, <1>4, <1>5, <1>6, <1>7, <1>8, <1>9, <1>10, <1>11 DEF Next, Resume,
     ClientConnects

-----------------------------------------------------------------------------
(* The pipes and the fields.                                               *)

\* A call of start() that may connect.
LEMMA StartStep ==
  ASSUME TypeOK, IInv, NEW c \in Starts, Start(c), unawaited' = {} PROVE IInv'
<1> USE ServiceAssumption DEF TypeOK, IInv, Idle, Calls, Cycles
<1>0. /\ unawaited = {} /\ \A d \in Calls : Idle(d)
      /\ pc[c] = "idle" /\ ~running /\ running' = TRUE /\ controller' = c
      /\ UNCHANGED <<aborted, protocol, published>>
  BY DEF Start, UnderWay
<1>1. PICK n \in Conns :
        /\ connection' = n
        /\ phase' = [phase EXCEPT ![n] = "binding"]
        /\ signal' = [signal EXCEPT ![n] = c]
        /\ lostReader' = lostReader \ {n}
        /\ proto' = [proto EXCEPT ![n] = "none"]
        /\ pc' = [pc EXCEPT ![c] = "connecting"] /\ at' = [at EXCEPT ![c] = n]
  BY DEF Start, BeginConnect, Free, GoTo
<1>2. connection = None /\ protocol = None /\ published = None
  BY <1>0 DEF FieldInv
<1>3. \A m \in Conns : phase[m] = "closed" /\ proto[m] # "up"
  BY <1>0, <1>2 DEF PipeInv
<1>4. ControlInv'
  BY <1>0, <1>1 DEF ControlInv
<1>5. LoopInv'
  BY <1>0, <1>1 DEF LoopInv
<1>6. DisconnectInv'
  BY <1>0, <1>1 DEF DisconnectInv
<1>7. FieldInv'
  BY <1>0, <1>1, <1>2 DEF FieldInv, PublishedIsLive
<1>8. PipeInv'
  BY <1>0, <1>1, <1>2, <1>3 DEF PipeInv
<1> QED
  BY <1>4, <1>5, <1>6, <1>7, <1>8

\* A listener that cannot bind.
LEMMA BindFailsStep ==
  ASSUME TypeOK, IInv, NEW c \in Starts, BindFails(c) PROVE IInv'
<1> USE ServiceAssumption DEF TypeOK, IInv, Idle, Calls, Cycles
<1>1. ControlInv'
  BY DEF ControlInv, BindFails, Unwind, GoTo, stopVars
<1>2. LoopInv'
  BY DEF LoopInv, BindFails, Unwind, GoTo, stopVars, fieldVars
<1>3. DisconnectInv'
  BY DEF DisconnectInv, BindFails, Unwind, GoTo, fieldVars, protoVars
<1>4. FieldInv'
  BY DEF FieldInv, PublishedIsLive, BindFails, Unwind, GoTo, stopVars, fieldVars, protoVars
<1>5. PipeInv'
  BY DEF PipeInv, BindFails, Unwind, GoTo, fieldVars, protoVars
<1> QED
  BY <1>1, <1>2, <1>3, <1>4, <1>5

\* A connection that is given up for the signal of its controller.
LEMMA ConnAbortsStep ==
  ASSUME TypeOK, IInv, NEW c \in Starts, ConnAborts(c) PROVE IInv'
<1> USE ServiceAssumption DEF TypeOK, IInv, Idle, Calls, Cycles
<1>1. ControlInv'
  BY DEF ControlInv, ConnAborts, Unwind, GoTo, stopVars
<1>2. LoopInv'
  BY DEF LoopInv, ConnAborts, Unwind, GoTo, stopVars, fieldVars
<1>3. DisconnectInv'
  BY DEF DisconnectInv, ConnAborts, Unwind, GoTo, fieldVars, protoVars
<1>4. FieldInv'
  BY DEF LoopInv, FieldInv, PublishedIsLive, ConnAborts, Unwind, GoTo, fieldVars
<1>5. PipeInv'
  BY DEF PipeInv, ConnAborts, Unwind, GoTo, fieldVars, protoVars
<1> QED
  BY <1>1, <1>2, <1>3, <1>4, <1>5

\* The relay connects to the incoming pipe.
LEMMA IncomingConnectsStep ==
  ASSUME TypeOK, IInv, NEW c \in Starts, IncomingConnects(c) PROVE IInv'
<1> USE ServiceAssumption DEF TypeOK, IInv, Idle, Calls, Cycles
<1>1. ControlInv'
  BY DEF ControlInv, IncomingConnects, stopVars
<1>2. LoopInv'
  BY DEF LoopInv, IncomingConnects, Accepts, stopVars, fieldVars
<1>3. DisconnectInv'
  BY DEF DisconnectInv, IncomingConnects, fieldVars, protoVars
<1>4. FieldInv'
  BY DEF FieldInv, PublishedIsLive, IncomingConnects, Accepts, stopVars, fieldVars,
     protoVars
<1>5. PipeInv'
  BY DEF PipeInv, IncomingConnects, Accepts, fieldVars, protoVars
<1> QED
  BY <1>1, <1>2, <1>3, <1>4, <1>5

\* The relay connects to the outgoing pipe, and the protocol starts.
LEMMA OutgoingConnectsStep ==
  ASSUME TypeOK, IInv, NEW c \in Starts, OutgoingConnects(c) PROVE IInv'
<1> USE ServiceAssumption DEF TypeOK, IInv, Idle, Calls, Cycles
<1>1. ControlInv'
  BY DEF ControlInv, OutgoingConnects, Accepts, Disconnect, GoTo, stopVars
<1>2. LoopInv'
  BY DEF LoopInv, OutgoingConnects, Accepts, Disconnect, GoTo, stopVars
<1>3. DisconnectInv'
  BY DEF ControlInv, LoopInv, DisconnectInv, OutgoingConnects, Accepts, Cancelled, GoTo
<1>4. FieldInv'
  BY DEF ControlInv, LoopInv, FieldInv, PublishedIsLive, OutgoingConnects, Accepts,
     Cancelled, GoTo, stopVars
<1>5. PipeInv'
  BY DEF ControlInv, FieldInv, PipeInv, OutgoingConnects, Accepts, Disconnect, GoTo,
     protoVars
<1> QED
  BY <1>1, <1>2, <1>3, <1>4, <1>5

\* A call of stop().
LEMMA StopStep ==
  ASSUME TypeOK, IInv, NEW k \in Stops, Stop(k) PROVE IInv'
<1> USE ServiceAssumption DEF TypeOK, IInv, Idle, Calls, Cycles
<1>1. ControlInv'
  <2>1. /\ running' = FALSE /\ controller' = None
        /\ aborted' = aborted \union ({controller} \ {None})
        /\ pc' = [pc EXCEPT ![k] = "disposing"]
    BY DEF Stop, Abort, Disconnect, GoTo
  <2>2. \A c \in Starts : pc'[c] = pc[c] /\ (pc[c] = "idle" => c # controller)
    BY <2>1 DEF ControlInv
  <2>3. \A c \in Starts : ~Idle(c) => c \in aborted'
    BY <2>1 DEF ControlInv
  <2> QED
    BY <2>1, <2>2, <2>3 DEF ControlInv
<1>2. LoopInv'
  BY DEF LoopInv, Stop, Disconnect, GoTo, connVars
<1>3. DisconnectInv'
  BY DEF DisconnectInv, Stop, Disconnect, GoTo, connVars, protoVars
<1>4. FieldInv'
  BY DEF FieldInv, PublishedIsLive, Stop, Disconnect, GoTo
<1>5. PipeInv'
  BY DEF PipeInv, Stop, Disconnect, GoTo, connVars, protoVars
<1> QED
  BY <1>1, <1>2, <1>3, <1>4, <1>5

\* The connect loop handles an error.
LEMMA CaughtStep ==
  ASSUME TypeOK, IInv, NEW c \in Starts, Caught(c) PROVE IInv'
<1> USE ServiceAssumption DEF TypeOK, IInv, Idle, Calls, Cycles
<1>1. ControlInv'
  BY DEF ControlInv, Caught, Disconnect, GoTo, stopVars
<1>2. LoopInv'
  BY DEF LoopInv, Caught, Disconnect, GoTo, stopVars, connVars
<1>3. DisconnectInv'
  BY DEF DisconnectInv, Caught, Disconnect, GoTo, connVars, protoVars
<1>4. FieldInv'
  BY DEF FieldInv, PublishedIsLive, Caught, Disconnect, GoTo
<1>5. PipeInv'
  BY DEF PipeInv, Caught, Disconnect, GoTo, connVars, protoVars
<1> QED
  BY <1>1, <1>2, <1>3, <1>4, <1>5

\* The connect loop sees that the protocol is over.
LEMMA LoopWakesStep ==
  ASSUME TypeOK, IInv, NEW c \in Starts, LoopWakes(c) PROVE IInv'
<1> USE ServiceAssumption DEF TypeOK, IInv, Idle, Calls, Cycles
<1>1. ControlInv'
  BY DEF ControlInv, LoopWakes, Disconnect, GoTo, stopVars
<1>2. LoopInv'
  BY DEF LoopInv, LoopWakes, Disconnect, GoTo, stopVars, connVars
<1>3. DisconnectInv'
  BY DEF DisconnectInv, LoopWakes, Disconnect, GoTo, connVars, protoVars
<1>4. FieldInv'
  BY DEF FieldInv, PublishedIsLive, LoopWakes, Disconnect, GoTo
<1>5. PipeInv'
  BY DEF PipeInv, LoopWakes, Disconnect, GoTo, connVars, protoVars
<1> QED
  BY <1>1, <1>2, <1>3, <1>4, <1>5

\* The delay before the next connection is over.
LEMMA DelayOverStep ==
  ASSUME TypeOK, IInv, NEW c \in Starts, DelayOver(c) PROVE IInv'
<1> USE ServiceAssumption DEF TypeOK, IInv, Idle, Calls, Cycles
<1>1. ControlInv'
  BY DEF ControlInv, DelayOver, BeginConnect, GoTo, stopVars
<1>2. LoopInv'
  BY DEF ControlInv, LoopInv, DelayOver, BeginConnect, Free, GoTo
<1>3. DisconnectInv'
  BY DEF ControlInv, DisconnectInv, DelayOver, BeginConnect, GoTo, connVars, protoVars
<1>4. FieldInv'
  BY DEF ControlInv, FieldInv, PublishedIsLive, DelayOver, BeginConnect, GoTo
<1>5. PipeInv'
  BY DEF ControlInv, FieldInv, PipeInv, DelayOver, BeginConnect, GoTo, connVars, protoVars
<1> QED
  BY <1>1, <1>2, <1>3, <1>4, <1>5

\* _disconnect goes on behind the dispose of the protocol.
LEMMA ProtocolDisposedStep ==
  ASSUME TypeOK, IInv, NEW c \in Calls, ProtocolDisposed(c) PROVE IInv'
<1> USE ServiceAssumption DEF TypeOK, IInv, Idle, Calls, Cycles
<1>1. ControlInv'
  BY DEF ControlInv, ProtocolDisposed, GoTo, stopVars
<1>2. LoopInv'
  <2>0. /\ pc[c] = "disposing" /\ pc' = [pc EXCEPT ![c] = "closing"]
        /\ at' = [at EXCEPT ![c] = connection]
    BY DEF ProtocolDisposed, GoTo
  <2>1. ASSUME NEW d \in Starts, pc'[d] \in {"connecting", "unwinding", "serving"}
        PROVE  pc'[d] = pc[d] /\ at'[d] = at[d] /\ ~running
    <3>1. d # c /\ pc'[d] = pc[d] /\ at'[d] = at[d] /\ ~Idle(d) /\ ~Idle(c)
      BY <2>0, <2>1
    <3>2. c \notin Starts
      BY <3>1 DEF ControlInv
    <3> QED
      BY <3>1, <3>2 DEF ControlInv
  <2>2. UNCHANGED <<running, connection, signal>>
    BY DEF ProtocolDisposed, Dispose, stopVars, fieldVars
  <2>3. \A n \in Conns : /\ phase'[n] = phase[n] \/ (phase[n] \in {"listening", "up"} /\ phase'[n] = "closing")
                         /\ phase[n] # "up" => phase'[n] # "up"
    BY DEF ProtocolDisposed, Dispose
  <2>4. ASSUME NEW d \in Starts, pc'[d] \in {"connecting", "unwinding", "serving"}
        PROVE  /\ pc'[d] = pc[d] /\ at'[d] = at[d] /\ ~running'
               /\ at'[d] \in Conns /\ connection' \in {at'[d], None}
               /\ pc'[d] = "connecting" => signal'[at'[d]] = d /\ phase'[at'[d]] # "up"
               /\ pc'[d] = "unwinding" => phase'[at'[d]] \in {"closing", "closed"}
    <3>1. pc'[d] = pc[d] /\ at'[d] = at[d] /\ ~running
      BY <2>1, <2>4
    <3>2. /\ at[d] \in Conns /\ connection \in {at[d], None}
          /\ pc[d] = "connecting" => signal[at[d]] = d /\ phase[at[d]] # "up"
          /\ pc[d] = "unwinding" => phase[at[d]] \in {"closing", "closed"}
      BY <2>4, <3>1 DEF LoopInv
    <3> QED
      BY <3>1, <3>2, <2>2, <2>3
  <2> QED
    BY <2>4 DEF LoopInv
<1>3. DisconnectInv'
  <2>1. /\ pc' = [pc EXCEPT ![c] = "closing"] /\ at' = [at EXCEPT ![c] = connection]
        /\ UNCHANGED fieldVars
        /\ pc[c] = "disposing"
    BY DEF ProtocolDisposed, GoTo
  <2>2. \A n \in Conns : proto'[n] # "up"
    BY DEF ProtocolDisposed, DisconnectInv, PipeInv
  <2>3. \A n \in Conns : phase[n] \in {"binding", "closing", "closed"} =>
                           phase'[n] \in {"binding", "closing", "closed"}
    BY DEF ProtocolDisposed, Dispose
  <2>4. connection # None => phase'[connection] \in {"binding", "closing", "closed"}
    BY DEF ProtocolDisposed, Dispose
  <2> QED
    BY ZenonT(60), <2>1, <2>2, <2>3, <2>4 DEF DisconnectInv, fieldVars
<1>4. FieldInv'
  BY DEF ControlInv, FieldInv, PublishedIsLive, ProtocolDisposed, GoTo, fieldVars
<1>5. PipeInv'
  BY DEF PipeInv, ProtocolDisposed, Dispose, GoTo, fieldVars
<1> QED
  BY <1>1, <1>2, <1>3, <1>4, <1>5

\* _disconnect goes on behind the dispose of the connection.
LEMMA ConnectionDisposedStep ==
  ASSUME TypeOK, IInv, NEW c \in Calls, ConnectionDisposed(c) PROVE IInv'
<1> USE ServiceAssumption DEF TypeOK, IInv, Idle, Calls, Cycles
<1>1. ControlInv'
  BY DEF ControlInv, ConnectionDisposed, LoopTurns, StopReturns, GoTo, stopVars
<1>2. LoopInv'
  BY DEF ControlInv, LoopInv, ConnectionDisposed, LoopTurns, StopReturns, GoTo, stopVars,
     connVars
<1>3. DisconnectInv'
  BY DEF DisconnectInv, ConnectionDisposed, LoopTurns, StopReturns, GoTo, connVars,
     protoVars
<1>4. FieldInv'
  BY DEF LoopInv, DisconnectInv, FieldInv, PublishedIsLive, ConnectionDisposed
<1>5. PipeInv'
  BY DEF DisconnectInv, PipeInv, ConnectionDisposed, LoopTurns, StopReturns, Disposed, GoTo,
     connVars, protoVars
<1> QED
  BY <1>1, <1>2, <1>3, <1>4, <1>5

\* A listener binds.
LEMMA BindStep ==
  ASSUME TypeOK, IInv, NEW n \in Conns, Bind(n) PROVE IInv'
<1> USE ServiceAssumption DEF TypeOK, IInv, Idle, Calls, Cycles
<1>1. ControlInv'
  BY DEF ControlInv, Bind, stopVars
<1>2. LoopInv'
  BY DEF LoopInv, Bind, stopVars, fieldVars
<1>3. DisconnectInv'
  BY DEF ControlInv, LoopInv, DisconnectInv, PipeInv, Bind, Cancelled
<1>4. FieldInv'
  BY DEF FieldInv, PublishedIsLive, Bind, stopVars, fieldVars, protoVars
<1>5. PipeInv'
  BY DEF ControlInv, LoopInv, PipeInv, Bind, Cancelled, fieldVars, protoVars
<1> QED
  BY <1>1, <1>2, <1>3, <1>4, <1>5

\* A listener that was closed has let go of its pipe.
LEMMA CloseDoneStep ==
  ASSUME TypeOK, IInv, NEW n \in Conns, CloseDone(n) PROVE IInv'
<1> USE ServiceAssumption DEF TypeOK, IInv, Idle, Calls, Cycles
<1>1. ControlInv'
  BY DEF ControlInv, CloseDone, stopVars
<1>2. LoopInv'
  BY DEF LoopInv, CloseDone, stopVars, fieldVars
<1>3. DisconnectInv'
  BY DEF DisconnectInv, CloseDone, fieldVars, protoVars
<1>4. FieldInv'
  BY DEF FieldInv, PublishedIsLive, CloseDone, stopVars, fieldVars, protoVars
<1>5. PipeInv'
  BY DEF PipeInv, CloseDone, fieldVars, protoVars
<1> QED
  BY <1>1, <1>2, <1>3, <1>4, <1>5

\* The protocol ends of itself.
LEMMA ProtocolEndsStep ==
  ASSUME TypeOK, IInv, NEW n \in Conns, ProtocolEnds(n) PROVE IInv'
<1> USE ServiceAssumption DEF TypeOK, IInv, Idle, Calls, Cycles
<1>1. ControlInv'
  BY DEF ControlInv, ProtocolEnds, stopVars
<1>2. LoopInv'
  BY DEF LoopInv, ProtocolEnds, stopVars, fieldVars, connVars
<1>3. DisconnectInv'
  BY DEF DisconnectInv, ProtocolEnds, fieldVars
<1>4. FieldInv'
  BY DEF FieldInv, PublishedIsLive, ProtocolEnds, stopVars, fieldVars, connVars
<1>5. PipeInv'
  BY DEF PipeInv, ProtocolEnds, fieldVars, connVars
<1> QED
  BY <1>1, <1>2, <1>3, <1>4, <1>5

\* A step that touches none of the fields the invariant reads keeps it.
LEMMA FrameStep ==
  ASSUME IInv, UNCHANGED <<stopVars, fieldVars, connVars, protoVars, pc, at>>
  PROVE  IInv'
BY DEF IInv, ControlInv, LoopInv, DisconnectInv, FieldInv, PipeInv, PublishedIsLive, Idle,
       stopVars, fieldVars, connVars, protoVars

\* Every action of the service, its callers and its environment keeps the
\* invariants, unless it is a start that leaves a call unawaited.
LEMMA StepIInv == TypeOK /\ AwaitedInv /\ [Next]_vars => AwaitedInv'
<1> SUFFICES ASSUME TypeOK, AwaitedInv, [Next]_vars, unawaited' = {} PROVE IInv'
  BY DEF AwaitedInv
<1>0. IInv
  <2>1. unawaited \subseteq unawaited'
    BY DEF Next, vars, Resume, ClientConnects, Start, BindFails, IncomingConnects, OutgoingConnects,
       Unwind, Stop, ConnAborts, Caught, LoopWakes, DelayOver, ProtocolDisposed,
       ConnectionDisposed, Bind, CloseDone, ProtocolEnds, StrayConnects, StrayLeaves, Strays,
       ForeignLeaves
  <2> QED
    BY <2>1 DEF AwaitedInv
<1>1. ASSUME NEW c \in Starts, Start(c) \/ BindFails(c) \/ ClientConnects(c) PROVE IInv'
  BY <1>0, <1>1, StartStep, BindFailsStep, IncomingConnectsStep, OutgoingConnectsStep DEF ClientConnects
<1>2. ASSUME NEW k \in Stops, Stop(k) PROVE IInv'
  BY <1>0, <1>2, StopStep
<1>3. ASSUME NEW c \in Calls, Resume(c) PROVE IInv'
  BY <1>0, <1>3, ConnAbortsStep, CaughtStep, LoopWakesStep, DelayOverStep, ProtocolDisposedStep,
     ConnectionDisposedStep DEF Resume
<1>4. ASSUME NEW n \in Conns, Bind(n) \/ CloseDone(n) \/ ProtocolEnds(n) PROVE IInv'
  BY <1>0, <1>4, BindStep, CloseDoneStep, ProtocolEndsStep
<1>5. ASSUME NEW n \in Conns, StrayConnects(n) \/ StrayLeaves(n) PROVE IInv'
  BY <1>0, <1>5, FrameStep DEF StrayConnects, StrayLeaves, Strays
<1>6. CASE ForeignLeaves
  BY <1>0, <1>6, FrameStep DEF ForeignLeaves
<1>7. CASE UNCHANGED vars
  BY <1>0, <1>7, FrameStep DEF vars
<1> QED
  BY <1>1, <1>2, <1>3, <1>4, <1>5, <1>6, <1>7 DEF Next

-----------------------------------------------------------------------------
(* The theorems.                                                           *)

\* The program starts with no pipe, no protocol and no call under way.
LEMMA Initially == Init => TypeOK /\ ReadyInv /\ AwaitedInv
<1> SUFFICES ASSUME Init PROVE TypeOK /\ ReadyInv /\ AwaitedInv
  OBVIOUS
<1> USE ServiceAssumption DEF Init, Calls, Cycles
<1>1. TypeOK
  <2>1. /\ half \in [Conns -> 1..2] /\ strays \in [Conns -> 0..MaxStrays]
        /\ ready \in [Cycles -> {"none", "pending", "resolved", "rejected"}]
        /\ signal \in [Conns -> Starts \union {None}] /\ reads \in [Conns -> Conns \union {None}]
    OBVIOUS
  <2> QED
    BY <2>1 DEF TypeOK
<1>2. ReadyInv
  BY DEF ReadyInv, StopSettlesReady
<1>3. IInv
  BY DEF IInv, ControlInv, LoopInv, DisconnectInv, FieldInv, PipeInv, PublishedIsLive, Idle
<1> QED
  BY <1>1, <1>2, <1>3 DEF AwaitedInv

\* TypeOK holds of every behaviour, however the application calls start and stop.
THEOREM TypeCorrect == Spec => []TypeOK
<1>1. Init => TypeOK
  BY Initially
<1>2. TypeOK /\ [Next]_vars => TypeOK'
  BY TypeStep
<1> QED
  BY <1>1, <1>2, PTL DEF Spec

\* Nobody waits for ever on `ready` of a service that is stopped (stop rejects
\* what start promised), when each stop was awaited before the next start,
\* whether or not the loops of older starts are still under way.
THEOREM StoppedIsSettled == Spec => []StopSettlesReady
<1>1. Init => TypeOK /\ ReadyInv
  BY Initially
<1>2. TypeOK /\ ReadyInv /\ [Next]_vars => (TypeOK /\ ReadyInv)'
  BY TypeStep, ReadyStep
<1>3. ReadyInv => StopSettlesReady
  BY DEF ReadyInv
<1> QED
  BY <1>1, <1>2, <1>3, PTL DEF Spec

\* The loop, the disconnects, the fields and the pipes agree (IInv) in every
\* state before the service is started with a call under way.
THEOREM IInvHolds == Spec => []AwaitedInv
<1>1. Init => TypeOK /\ AwaitedInv
  BY Initially
<1>2. TypeOK /\ AwaitedInv /\ [Next]_vars => (TypeOK /\ AwaitedInv)'
  BY TypeStep, StepIInv
<1> QED
  BY <1>1, <1>2, PTL DEF Spec

\* The invariant says that the bind of a connection the fields do not name is
\* aborted, and that what is open is held by a call that is under way.
LEMMA IInvLosesNothing == TypeOK /\ AwaitedInv => NothingIsLost
<1> SUFFICES ASSUME TypeOK, IInv PROVE PublishedIsLive /\ OpenIsNamed /\ IdleIsReleased
  BY DEF AwaitedInv, NothingIsLost
<1> USE ServiceAssumption DEF TypeOK, IInv
<1>1. PublishedIsLive
  BY DEF FieldInv
<1>2. OpenIsNamed
  <2>1. ASSUME NEW n \in Conns, phase[n] = "binding", n # connection PROVE Cancelled(n)
    <3>1. PICK c \in Starts : pc[c] = "connecting" /\ at[c] = n
      BY <2>1 DEF PipeInv
    <3>2. ~running /\ signal[n] = c
      BY <2>1, <3>1 DEF LoopInv
    <3> QED
      BY <3>1, <3>2 DEF ControlInv, Idle, Cancelled
  <2> QED
    BY <2>1 DEF OpenIsNamed, PipeInv
<1>3. IdleIsReleased
  <2> SUFFICES ASSUME \A c \in Calls : Idle(c)
               PROVE  /\ \A n \in Conns : phase[n] = "closed" /\ proto[n] # "up"
                      /\ published = None
    BY DEF IdleIsReleased
  <2>1. connection = None /\ protocol = None /\ published = None
    BY DEF FieldInv, Idle, Calls
  <2> QED
    BY <2>1 DEF PipeInv, Idle, Calls
<1> QED
  BY <1>1, <1>2, <1>3

\* No open pipe, reading protocol or published handler is ever out of the
\* service's hands: _disconnect always reaches what a connect left open, as long
\* as each call was awaited before the service was started again.
THEOREM LosesNothing == Spec => []NothingIsLost
<1>1. Init => TypeOK /\ AwaitedInv
  BY Initially
<1>2. TypeOK /\ AwaitedInv /\ [Next]_vars => (TypeOK /\ AwaitedInv)'
  BY TypeStep, StepIInv
<1>3. TypeOK /\ AwaitedInv => NothingIsLost
  BY IInvLosesNothing
<1> QED
  BY <1>1, <1>2, <1>3, PTL DEF Spec

\* Only the end of a connect resolves a promise, and the connection that its
\* protocol reads is then the one whose two pipes have just been joined.
LEMMA ResolvedByConnect ==
  ASSUME TypeOK, IInv, [Next]_vars, NEW c \in Cycles, ready[c] = "pending", ready'[c] = "resolved"
  PROVE  published' # None /\ phase'[reads'[published']] = "up" /\ reads'[published'] \notin lostReader'
<1> USE ServiceAssumption DEF TypeOK, Calls, Cycles
<1>1. ASSUME NEW d \in Starts, OutgoingConnects(d)
      PROVE  published' # None /\ phase'[reads'[published']] = "up" /\ reads'[published'] \notin lostReader'
  <2>1. /\ at[d] \in Conns /\ connection \in {at[d], None}
        /\ pc[d] = "connecting" /\ signal[at[d]] = d /\ d \notin aborted
    BY <1>1 DEF OutgoingConnects, Accepts, IInv, LoopInv, Cancelled
  <2>2. running /\ at[d] \notin lostReader
    BY <2>1 DEF IInv, ControlInv, LoopInv, Idle
  <2>3. ~(running /\ ~autoReconnect /\ SettleReady("rejected")) /\ ~UNCHANGED readyVars
    BY DEF SettleReady, readyVars
  <2>4. connection = at[d]
    BY <1>1, <2>1, <2>3 DEF OutgoingConnects
  <2>5. /\ published' = at[d] /\ lostReader' = lostReader
        /\ reads' = [reads EXCEPT ![at[d]] = at[d]] /\ phase' = [phase EXCEPT ![at[d]] = "up"]
    BY <1>1, <2>1, <2>4 DEF OutgoingConnects
  <2> QED
    BY <2>1, <2>2, <2>5
<1>2. ~\E d \in Starts : Start(d) \/ BindFails(d) \/ IncomingConnects(d)
  BY DEF Start, BindFails, IncomingConnects, Unwind, readyVars
<1>3. ~\E k \in Stops : Stop(k)
  BY DEF Stop, readyVars
<1>4. ~\E d \in Calls : Resume(d)
  BY DEF Resume, ConnAborts, Unwind, Caught, LoopWakes, DelayOver, ProtocolDisposed,
         ConnectionDisposed, LoopTurns, StopReturns, SettleReady, readyVars
<1>5. ~\E n \in Conns : Bind(n) \/ CloseDone(n) \/ ProtocolEnds(n) \/ StrayConnects(n) \/ StrayLeaves(n)
  BY DEF Bind, CloseDone, ProtocolEnds, StrayConnects, StrayLeaves, Strays, readyVars
<1>6. ~ForeignLeaves /\ ~UNCHANGED vars
  BY DEF ForeignLeaves, vars, readyVars
<1> QED
  BY <1>1, <1>2, <1>3, <1>4, <1>5, <1>6 DEF Next, ClientConnects

\* `ready` tells the truth: it resolves only with both pipes of the published
\* protocol connected, and is not left pending by a stop; the first when each
\* call was awaited before the service was started again, the second when each
\* stop was.
THEOREM ReadyTellsTheTruth == Spec => ReadyIsTrue
<1>1. Init => TypeOK /\ AwaitedInv
  BY Initially
<1>2. TypeOK /\ AwaitedInv /\ [Next]_vars => (TypeOK /\ AwaitedInv)'
  BY TypeStep, StepIInv
<1>3. TypeOK /\ AwaitedInv /\ [Next]_vars => [unawaited = {} => ReadyResolvesConnected]_vars
  BY ResolvedByConnect DEF AwaitedInv, ReadyResolvesConnected
<1> QED
  BY <1>1, <1>2, <1>3, StoppedIsSettled, PTL DEF Spec, ReadyIsTrue

=============================================================================
