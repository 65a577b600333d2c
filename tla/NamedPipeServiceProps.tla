------------------------ MODULE NamedPipeServiceProps ------------------------
(***************************************************************************)
(* What NamedPipeService promises to the application and to outbound sends *)
(***************************************************************************)
EXTENDS NamedPipeService

\* The type of every variable.
TypeOK ==
  /\ autoReconnect \in BOOLEAN /\ running \in BOOLEAN /\ foreign \in BOOLEAN
  /\ controller \in Starts \union {None} /\ aborted \subseteq Starts
  /\ {connection, protocol, published} \subseteq Conns \union {None}
  /\ holder \in Cycles \union {None}
  /\ ready \in [Cycles -> {"none", "pending", "resolved", "rejected"}]
  /\ phase \in [Conns -> {"binding", "listening", "up", "closing", "closed"}]
  /\ half \in [Conns -> 1..2] /\ signal \in [Conns -> Starts \union {None}]
  /\ lostReader \subseteq Conns /\ strays \in [Conns -> 0..MaxStrays]
  /\ proto \in [Conns -> {"none", "up", "ended"}] /\ reads \in [Conns -> Conns \union {None}]
  /\ pc \in [Calls -> {"idle", "connecting", "unwinding", "serving", "disposing", "closing",
                       "delay", "returned"}]
  /\ at \in [Calls -> Conns \union {None}]
  /\ \A c \in Calls : pc[c] = "connecting" => at[c] \in Conns
  /\ unawaited \subseteq {"start", "stop"}

\* `ready` "rejects if stop() is called before a connection succeeds": when the
\* service is stopped and every stop has returned, nobody waits on ready.  So it
\* is when each stop was awaited before the next start; no start need be.
StopSettlesReady ==
  ("stop" \notin unawaited /\ ~running /\ \A k \in Stops : Idle(k)) =>
    \A c \in Starts : ready[c] # "pending"

\* Outbound sends are routed to the current protocol, over open sockets: the
\* teardown unpublishes a protocol before it disposes its connection.
PublishedIsLive ==
  published # None =>
    /\ published = protocol
    /\ reads[published] = connection /\ phase[connection] = "up"

\* No open pipe or reading protocol is forgotten: what the fields do not name
\* cannot be disposed by anyone, and would hold the pipe's name for good.  (A
\* bind whose signal is aborted ends by itself.)
OpenIsNamed ==
  \A n \in Conns :
    /\ phase[n] \in {"listening", "up"} => n = connection
    /\ phase[n] = "binding" => n = connection \/ Cancelled(n)
    /\ proto[n] = "up" => n = protocol

\* When no call is under way the pipes are closed, no protocol reads, and
\* outbound calls are refused: an application that restarts meets no leftover.
IdleIsReleased ==
  (\A c \in Calls : Idle(c)) =>
    /\ \A n \in Conns : phase[n] = "closed" /\ proto[n] # "up"
    /\ published = None

\* All three: whatever is open or published is held by the service, and given
\* back when it rests, as long as each start and stop was awaited before the
\* service was started again.
NothingIsLost == unawaited = {} => PublishedIsLive /\ OpenIsNamed /\ IdleIsReleased

\* `ready` "resolves when the first connection is established in the current
\* start cycle": the promise of a cycle resolves only in a step after which
\* both pipes of the published protocol are connected, with a transport on each.
ReadyResolvesConnected ==
  \A c \in Cycles : ready[c] = "pending" /\ ready'[c] = "resolved" =>
    /\ published' # None
    /\ phase'[reads'[published']] = "up" /\ reads'[published'] \notin lostReader'

\* So it is documented, for a caller who can await no more than each stop: the
\* loop of the old start may outlive the stop and use the fields of the new one.
ReadyMeansConnected == [][("stop" \notin unawaited) => ReadyResolvesConnected]_vars

\* Both together: `ready` settles when each stop was awaited, and never with a
\* false answer when each start was awaited too.
ReadyIsTrue == []StopSettlesReady /\ [][unawaited = {} => ReadyResolvesConnected]_vars

\* "If autoReconnect is enabled, reconnects on disconnect": a service that runs
\* gets a protocol again after any disconnect.
Reconnects ==
  (running /\ autoReconnect) ~> (published # None \/ ~running \/ unawaited # {})

\* "Stops the server and disconnects": a stop returns, and the call of start
\* it stops returns as well.
StopEndsAll ==
  \A k \in Stops : (pc[k] = "disposing") ~> ((\A c \in Calls : Idle(c)) \/ unawaited # {})

\* Both together: neither a service that runs nor one that stops gets stuck.
NeverStuck == Reconnects /\ StopEndsAll

=============================================================================
