--------------------------- MODULE NamedPipeService ---------------------------
(***************************************************************************)
(* The life cycle of the named-pipe server                                 *)
(* (packages/agents-hosting-directline-namedpipes/src/namedPipeServer.ts,  *)
(* transport/namedPipeConnection.ts): start runs the connect loop, stop    *)
(* aborts and disconnects it, and both run _disconnect, whose awaits       *)
(* interleave on the shared fields.                                        *)
(*                                                                         *)
(* A call of start or stop is a process; each action is its run from one   *)
(* await to the next.  A connection's name also names the protocol that    *)
(* its _connect creates; names of closed connections are used again.       *)
(***************************************************************************)
EXTENDS Integers, FiniteSets

CONSTANTS
  Starts,     \* calls of start()
  Stops,      \* calls of stop()
  Conns,      \* names of connections, numbers
  Initial,    \* the cycle of the ready promise the constructor makes
  None,
  MaxStrays   \* bound: client sockets beyond the first, per connection

Calls == Starts \union Stops
Cycles == Starts \union {Initial}

ASSUME ServiceAssumption ==
  /\ Starts \intersect Stops = {} /\ Initial \notin Starts
  /\ Conns \subseteq Nat /\ None \notin Calls \union Cycles \union Conns
  /\ MaxStrays \in Nat

VARIABLES
  autoReconnect,  \* _autoReconnect
  running,        \* _running
  controller,     \* _abortController: the call of start that made it, or None
  aborted,        \* the abort controllers that are aborted
  connection,     \* _connection
  protocol,       \* _protocol
  published,      \* the protocol of the message handler
  holder,         \* the cycle of _readyResolve and _readyReject, or None
  ready,          \* the ready promise of each cycle
  phase,          \* NamedPipeConnection: what its waitForConnection is at
  half,           \* 1 while the incoming pipe is bound, then 2
  signal,         \* the abort controller it listens to, while it waits
  lostReader,     \* connections disposed while they bound the outgoing pipe: no _reader
  strays,         \* sockets accepted after the first, never read nor closed
  proto,          \* NamedPipeProtocol: none, up or ended
  reads,          \* the connection whose transports a protocol uses, until disposed
  pc,             \* where each call is
  at,             \* the connection or protocol it awaits
  foreign,        \* environment: a previous process still holds the pipes
  unawaited       \* history: the kinds of calls that start was called without awaiting

fieldVars == <<connection, protocol, published>>
readyVars == <<holder, ready>>
stopVars  == <<running, controller, aborted>>
connVars  == <<phase, half, signal, lostReader>>
protoVars == <<proto, reads>>
vars == <<autoReconnect, stopVars, fieldVars, readyVars, connVars, strays, protoVars,
          pc, at, foreign, unawaited>>

Init ==
  /\ autoReconnect \in BOOLEAN
  /\ running = FALSE /\ controller = None /\ aborted = {}
  /\ connection = None /\ protocol = None /\ published = None
  /\ holder = Initial /\ ready = [c \in Cycles |-> IF c = Initial THEN "pending" ELSE "none"]
  /\ phase = [n \in Conns |-> "closed"] /\ half = [n \in Conns |-> 1]
  /\ signal = [n \in Conns |-> None] /\ lostReader = {}
  /\ strays = [n \in Conns |-> 0]
  /\ proto = [n \in Conns |-> "none"] /\ reads = [n \in Conns |-> None]
  /\ pc = [c \in Calls |-> "idle"] /\ at = [c \in Calls |-> None]
  /\ foreign \in BOOLEAN /\ unawaited = {}

-----------------------------------------------------------------------------
(* Helpers.                                                                *)

GoTo(c, where, what) == pc' = [pc EXCEPT ![c] = where] /\ at' = [at EXCEPT ![c] = what]

\* _resolveReady and _rejectReady: only the first settles a promise.
SettleReady(how) ==
  /\ holder' = None
  /\ ready' = IF holder = None THEN ready ELSE [ready EXCEPT ![holder] = how]

Cancelled(n) == signal[n] \in aborted

\* A name nothing refers to.
Free == {n \in Conns : /\ phase[n] = "closed"
                       /\ n \notin {connection, protocol, published}
                       /\ \A c \in Calls : at[c] # n
                       /\ \A m \in Conns : ~(proto[m] = "up" /\ n \in {m, reads[m]})}

\* _connect up to its await: a connection is made and starts to bind.
BeginConnect(c, control) ==
  \E n \in Free :
    /\ \A m \in Free : n <= m
    /\ connection' = n
    /\ phase' = [phase EXCEPT ![n] = "binding"]
    /\ half' = [half EXCEPT ![n] = 1]
    /\ signal' = [signal EXCEPT ![n] = control]
    /\ lostReader' = lostReader \ {n}
    /\ proto' = [proto EXCEPT ![n] = "none"]
    /\ reads' = [reads EXCEPT ![n] = None]
    /\ GoTo(c, "connecting", n)

\* NamedPipeConnection.dispose closes what is open.  It does not end the
\* retries of a bind: only the abort signal does.
Dispose(n) ==
  /\ phase' = [m \in Conns |->
       IF m = n /\ phase[n] \in {"listening", "up"} THEN "closing" ELSE phase[m]]
  /\ lostReader' = lostReader \union {m \in Conns \intersect {n} : phase[n] = "binding" /\ half[n] = 2}
  /\ UNCHANGED <<half, signal>>

\* _disconnect up to its first await.
Disconnect(c) ==
  /\ published' = None
  /\ GoTo(c, "disposing", protocol)

-----------------------------------------------------------------------------
(* start and stop.                                                         *)

Idle(c) == pc[c] \in {"idle", "returned"}

\* The calls that are under way, by kind: the application may call start all
\* the same, and startNamedPipeServer does not even give it the promise of the
\* start it made.
UnderWay ==
  {kind \in {"start", "stop"} : \E c \in (IF kind = "start" THEN Starts ELSE Stops) : ~Idle(c)}

\* start: nothing is done when the service runs already.
Start(c) ==
  /\ pc[c] = "idle"
  /\ ~running
  /\ unawaited' = unawaited \union UnderWay
  /\ running' = TRUE
  /\ controller' = c
  /\ holder' = c
  /\ ready' = [ready EXCEPT ![c] = "pending"]
  /\ BeginConnect(c, c)
  /\ UNCHANGED <<autoReconnect, aborted, protocol, published, strays, foreign>>

\* Mutant: a stop without a controller aborts it all the same.
AbortUnguarded == aborted' = aborted \union {controller}

Abort == aborted' = aborted \union ({controller} \ {None})

Stop(k) ==
  /\ pc[k] = "idle"
  /\ running' = FALSE
  /\ Abort
  /\ controller' = None
  /\ Disconnect(k)
  /\ UNCHANGED <<autoReconnect, connection, protocol, readyVars, connVars, strays, protoVars,
                 foreign, unawaited>>

-----------------------------------------------------------------------------
(* waitForConnection.                                                      *)

\* Another process, or another connection of this one, has the pipe open.
Held(n) ==
  \/ foreign
  \/ \E m \in Conns \ {n} :
       \/ phase[m] \in {"up", "closing"}
       \/ phase[m] = "listening" /\ half[n] <= half[m]
       \/ phase[m] = "binding" /\ half[n] < half[m]

Bind(n) ==
  /\ phase[n] = "binding" /\ ~Cancelled(n) /\ ~Held(n)
  /\ phase' = [phase EXCEPT ![n] = "listening"]
  /\ UNCHANGED <<autoReconnect, stopVars, fieldVars, readyVars, half, signal, lostReader, strays,
                 protoVars, pc, at, foreign, unawaited>>

\* waitForConnection rejects: its catch disposes the connection.
Unwind(c) ==
  /\ phase' = [phase EXCEPT ![at[c]] = IF @ = "closed" THEN @ ELSE "closing"]
  /\ signal' = [signal EXCEPT ![at[c]] = None]
  /\ GoTo(c, "unwinding", at[c])
  /\ UNCHANGED <<autoReconnect, stopVars, fieldVars, readyVars, half, lostReader, strays,
                 protoVars, foreign, unawaited>>

\* The pipe was in use at each of the 30 attempts.
BindFails(c) ==
  /\ pc[c] = "connecting" /\ phase[at[c]] = "binding" /\ ~Cancelled(at[c])
  /\ Held(at[c])
  /\ Unwind(c)

\* Mutant: the abort signal is examined between attempts only.
ConnAbortsBetweenAttempts(c) ==
  /\ pc[c] = "connecting" /\ Cancelled(at[c]) /\ phase[at[c]] = "binding"
  /\ Unwind(c)

\* The abort listener rejects the wait, or the next attempt notices.
ConnAborts(c) ==
  /\ pc[c] = "connecting" /\ Cancelled(at[c])
  /\ Unwind(c)

Accepts(c, h) ==
  /\ pc[c] = "connecting"
  /\ phase[at[c]] = "listening" /\ half[at[c]] = h /\ ~Cancelled(at[c])

\* Mutant: ready resolves as soon as one pipe is connected.
IncomingConnectsReady(c) ==
  /\ Accepts(c, 1)
  /\ phase' = [phase EXCEPT ![at[c]] = "binding"]
  /\ half' = [half EXCEPT ![at[c]] = 2]
  /\ SettleReady("resolved")
  /\ UNCHANGED <<autoReconnect, stopVars, fieldVars, signal, lostReader, strays,
                 protoVars, pc, at, foreign, unawaited>>

IncomingConnects(c) ==
  /\ Accepts(c, 1)
  /\ phase' = [phase EXCEPT ![at[c]] = "binding"]
  /\ half' = [half EXCEPT ![at[c]] = 2]
  /\ UNCHANGED <<autoReconnect, stopVars, fieldVars, readyVars, signal, lostReader, strays,
                 protoVars, pc, at, foreign, unawaited>>

\* The wait resolves and the rest of _connect runs: it reads _connection anew.
OutgoingConnects(c) ==
  /\ Accepts(c, 2)
  /\ phase' = [phase EXCEPT ![at[c]] = "up"]
  /\ signal' = [signal EXCEPT ![at[c]] = None]
  /\ IF connection = None
       THEN /\ IF running /\ ~autoReconnect THEN SettleReady("rejected") ELSE UNCHANGED readyVars
            /\ Disconnect(c)
            /\ UNCHANGED <<protocol, protoVars>>
       ELSE /\ protocol' = at[c]
            /\ proto' = [proto EXCEPT ![at[c]] = "up"]
            /\ reads' = [reads EXCEPT ![at[c]] = connection]
            /\ published' = at[c]
            /\ SettleReady("resolved")
            /\ GoTo(c, "serving", at[c])
  /\ UNCHANGED <<autoReconnect, stopVars, connection, half, lostReader, strays,
                 foreign, unawaited>>

-----------------------------------------------------------------------------
(* The rest of the connect loop, and of _disconnect.                       *)

\* The catch of the loop, once the connection is disposed.
Caught(c) ==
  /\ pc[c] = "unwinding" /\ phase[at[c]] = "closed"
  /\ IF running /\ ~autoReconnect THEN SettleReady("rejected") ELSE UNCHANGED readyVars
  /\ Disconnect(c)
  /\ UNCHANGED <<autoReconnect, stopVars, connection, protocol, connVars, strays, protoVars,
                 foreign, unawaited>>

\* Mutant: the loop reconnects without disposing what it had.
LoopWakesToReconnect(c) ==
  /\ pc[c] = "serving" /\ proto[at[c]] = "ended"
  /\ GoTo(c, "delay", None)
  /\ UNCHANGED <<autoReconnect, stopVars, fieldVars, readyVars, connVars, strays, protoVars,
                 foreign, unawaited>>

\* The completion of the protocol.
LoopWakes(c) ==
  /\ pc[c] = "serving" /\ proto[at[c]] = "ended"
  /\ Disconnect(c)
  /\ UNCHANGED <<autoReconnect, stopVars, connection, protocol, readyVars, connVars, strays,
                 protoVars, foreign, unawaited>>

\* protocol.dispose has ended: within 500 ms, whatever the peer does.
ProtocolDisposed(c) ==
  /\ pc[c] = "disposing"
  /\ proto' = [n \in Conns |-> IF n = at[c] THEN "ended" ELSE proto[n]]
  /\ reads' = [n \in Conns |-> IF n = at[c] THEN None ELSE reads[n]]
  /\ Dispose(connection)
  /\ GoTo(c, "closing", connection)
  /\ UNCHANGED <<autoReconnect, stopVars, fieldVars, readyVars, strays, foreign, unawaited>>

StopReturns(k) == GoTo(k, "returned", None) /\ SettleReady("rejected")

LoopTurns(c) ==
  /\ GoTo(c, IF running /\ autoReconnect THEN "delay" ELSE "returned", None)
  /\ UNCHANGED readyVars

Disposed(n) == n = None \/ phase[n] \in {"closed", "binding"}

\* connection.dispose has ended, and with it _disconnect.
ConnectionDisposed(c) ==
  /\ pc[c] = "closing"
  /\ \A n \in {at[c]} \ {None} : Disposed(n)
  /\ protocol' = None /\ connection' = None
  /\ \/ c \in Starts /\ LoopTurns(c)
     \/ c \in Stops /\ StopReturns(c)
  /\ UNCHANGED <<autoReconnect, stopVars, published, connVars, strays, protoVars,
                 foreign, unawaited>>

\* The second before a reconnect is over.
DelayOver(c) ==
  /\ pc[c] = "delay"
  /\ IF running
       THEN BeginConnect(c, controller)
       ELSE GoTo(c, "returned", None) /\ UNCHANGED <<connection, connVars, protoVars>>
  /\ UNCHANGED <<autoReconnect, stopVars, protocol, published, readyVars, strays,
                 foreign, unawaited>>

-----------------------------------------------------------------------------
(* The environment.                                                        *)

\* The servers of a disposed connection close when no socket is left.
CloseDone(n) ==
  /\ phase[n] = "closing" /\ strays[n] = 0
  /\ phase' = [phase EXCEPT ![n] = "closed"]
  /\ half' = [half EXCEPT ![n] = 1]
  /\ lostReader' = lostReader \ {n}
  /\ UNCHANGED <<autoReconnect, stopVars, fieldVars, readyVars, signal, strays,
                 protoVars, pc, at, foreign, unawaited>>

\* The read loop ends: the client has left, or the watchdog disposed it.
ProtocolEnds(n) ==
  /\ proto[n] = "up"
  /\ proto' = [proto EXCEPT ![n] = "ended"]
  /\ UNCHANGED <<autoReconnect, stopVars, fieldVars, readyVars, connVars, strays, reads, pc, at,
                 foreign, unawaited>>

Strays(n, k) ==
  /\ strays' = [strays EXCEPT ![n] = k]
  /\ UNCHANGED <<autoReconnect, stopVars, fieldVars, readyVars, connVars, protoVars, pc, at,
                 foreign, unawaited>>

\* A server goes on accepting after its first socket.
StrayConnects(n) ==
  /\ phase[n] = "up" \/ (phase[n] \in {"binding", "listening"} /\ half[n] = 2)
  /\ strays[n] < MaxStrays
  /\ Strays(n, strays[n] + 1)

StrayLeaves(n) == strays[n] > 0 /\ Strays(n, strays[n] - 1)

ForeignLeaves ==
  /\ foreign
  /\ foreign' = FALSE
  /\ UNCHANGED <<autoReconnect, stopVars, fieldVars, readyVars, connVars, strays, protoVars,
                 pc, at, unawaited>>

-----------------------------------------------------------------------------

\* The awaits of a call end.
Resume(c) ==
  \/ c \in Starts /\ (ConnAborts(c) \/ Caught(c) \/ LoopWakes(c) \/ DelayOver(c))
  \/ ProtocolDisposed(c)
  \/ ConnectionDisposed(c)

ClientConnects(c) == IncomingConnects(c) \/ OutgoingConnects(c)

Next ==
  \/ \E c \in Starts : Start(c) \/ BindFails(c) \/ ClientConnects(c)
  \/ \E k \in Stops : Stop(k)
  \/ \E c \in Calls : Resume(c)
  \/ \E n \in Conns : Bind(n) \/ CloseDone(n) \/ ProtocolEnds(n) \/ StrayConnects(n) \/ StrayLeaves(n)
  \/ ForeignLeaves

Spec == Init /\ [][Next]_vars

\* The event loop resumes what is due, the operating system binds and closes,
\* a previous process ends, and a client connects to a pipe that listens.
LoopFairness ==
  /\ \A c \in Calls : WF_vars(Resume(c))
  /\ \A n \in Conns : WF_vars(Bind(n)) /\ WF_vars(CloseDone(n))
  /\ WF_vars(ForeignLeaves)
  /\ \A c \in Starts : WF_vars(ClientConnects(c))

\* Clients beyond the first leave.
StrayFairness == \A n \in Conns : WF_vars(StrayLeaves(n))

StubbornSpec == Spec /\ LoopFairness
FairSpec == StubbornSpec /\ StrayFairness

=============================================================================
