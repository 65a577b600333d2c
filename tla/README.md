# TLA+ models of the Microsoft 365 Agents SDK for JavaScript

TLA+ specifications of the concurrent parts of the SDK in `src/packages`, the TLC
configurations that check them on small instances, and TLAPS proofs of the properties
that matter most. Paths below are relative to `src/`.

Run `tlc -config X.cfg M` on a configuration and `tlapm M.tla` on a proof module.

## 1. Inventory

The SDK turns an HTTP request, or a message on a pair of named pipes, into a *turn*: an
adapter authenticates it, runs middleware, and calls the application's route, which sends
activities back. Everything runs on one event loop, so that code is atomic between two
awaits; the hard behaviour is in what happens *between* them.

| Component (package) | State | Operations | Hard behaviour | Correct when |
|---|---|---|---|---|
| **Outbound send queue** (`agents-hosting-directline-namedpipes/src/createLocalAdapter.ts`) | slots in use, FIFO of waiting sends, `setImmediate` callbacks, `Promise.race` with a timer | `sendActivities` of each turn; a send starts, is answered, fails or times out | answers race timers, a settled send hands its slot on, sends are deferred past the end of the turn | no slot leaks, no send starves, sends stay in order, a batch is accepted whole or not at all |
| **Framing protocol** (`.../protocol/namedPipeProtocol.ts`, `namedPipeMessageHandler.ts`) | read loop, stream reassembly maps, in-flight dispatches, pending requests, write chain, timers | read a frame; dispatch, respond; `sendRequest`; `dispose`; health check | frames in any order, budgets over two maps, cancel frames, write failures, silent peers, five parties that may settle one request | every call ends once, no message waits although complete, budgets hold, slots match handlers |
| **Server life cycle** (`.../namedPipeServer.ts`, `transport/namedPipeConnection.ts`) | the current connection, protocol, abort controller, ready promise | `start` with its connect loop, `stop`, `_disconnect`, the wait for both pipes | loop and stop interleave at every await over the same fields; restart; names held by another process | nothing leaks, `ready` settles and tells the truth, the service reconnects and stops |
| **Frame codec** (`.../transport/header.ts`) | none | encode, decode, exact reads | none | round trip |
| **Streaming response** (`agents-hosting/src/app/streaming/streamingResponse.ts`) | queue of factories, coalescing flag, sequence, stream id, cancel and end flags | queue text or an update, `endStream`, `reset`, the drain loop | text is appended while the loop waits for the channel; sends fail | one ordered stream, one final message with all the text, truthful results |
| **Turn pipeline** (`agents-hosting/src/app/agentApplication.ts`, `turnContext.ts`, `baseAdapter.ts`, `cloudAdapter.ts`) | revocable context, handlers of sends, typing timers, the reply | `process`, `run`, `sendActivities`, start and stop of typing | typing sends against messages; sends nobody awaits against the end of the turn | no typing behind a message, a turn that is over comes to rest |
| **Turn state and agent state** (`agents-hosting/src/app/turnState.ts`, `state/agentState.ts`) | cached scopes, hashes, eTags | load, change, replace, delete, save | turns of one conversation load and save concurrently | an eTag refuses a write exactly when it must; a save that succeeds has stored everything |
| **Storage providers** (`agents-hosting/src/storage`, Cosmos, Blob) | items with eTags | read, write, delete of several keys | conflicts half way through a batch | eTag semantics |
| **User sign-in** (`agents-hosting/src/app/auth`) | stored session: handler, attempts, the activity to resume | ask, answer with a code or an invoke, cancel, discard | a flow over several turns, interleaved at every call of storage and token service | routes run signed in, the activity is resumed once, the stored session is what the user knows |
| **Transcript logging** (`agents-hosting/src/transcript`) | chain of operations per file | log, update, retry | failure of an operation in a chain | order, nothing lost but what failed and what waited behind it |
| **Token caches** (`agents-hosting/src/auth`) | tokens with expiry | get, exchange | expiry boundaries, concurrent refresh | never an expired token |
| **Dialogs** (`agents-hosting-dialogs/src`) | nested dialog stacks, last access | begin, continue, end, replace, cancel, reprompt, expire | long sequences of legal calls, calls nested in calls | every instance is ended once; the result of a turn tells who waits |
| **Proactive messages, agent-to-agent calls** (`agents-hosting/src/app/proactive`, `agent-client`) | stored conversation references | send, continue, answer | an answer before its record is stored | each answer finds its turn |
| **Copilot Studio client** (`agents-copilotstudio-client`) | conversation id, sequence | start, post, end | posts that overlap | one conversation, ordered activities |
| Channel extensions, web hosts, activity schema, telemetry, recognizers | little or none | glue, data models | little | unit tests |

How they interact: the named-pipe *server* creates a *connection* and a *protocol* and
publishes the protocol to a message handler; the *protocol* dispatches each inbound request
to the activity handler, i.e. to a turn; the turn's `sendActivities` goes through the *send
queue*, whose immediates call `sendRequest` of the published protocol. A streaming response
lives in one turn and sends through that turn's context. A turn of the application signs the
user in (`SignIn`), loads its state (`TurnState`), runs its route, which may run dialogs
(`Dialogs`), sends activities while it types, is logged (`AgentTurn`) and saves its state.

`PROJECT.json` lists these components with their status and, under `hazards`, the places
where each can go wrong in a way tests would hardly reach, with the properties that cover
them.

## 2. What is modelled

### 2.1 The send queue: `PipeSendQueue`

`LocalPipeAdapter.sendActivities` (`createLocalAdapter.ts:78-229`). A *send* is its index in
`accepted`, the history of accepted activities; `pendingSends` is the code's counter,
`sendQueue` its queue, `immediates` the callbacks handed to `setImmediate`, `racing` the
sends whose `Promise.race` of answer and timer has not settled. A *turn* is a handler that
calls `sendActivities` any number of times, may await I/O once, and returns, at which point
its response frame joins `wire`, the write queue.

| Action | Code |
|---|---|
| `SendActivities(t, k, invoke)` | the whole call with a batch of `k` pipe activities: the capacity check before the loop, the loop with its own limit, a possible `invokeResponse` |
| `DoSend` | the immediate of the oldest send runs: its request frame is queued, the race starts |
| `Answer(s)`, `SendTimeout(s)` | either side of the race; the first one runs the `finally`, which passes the slot to the head of the queue (`ReleaseSlot`) |
| `BeginTurn`, `AwaitIO`, `ResumeTurn`, `EndTurn` | the turn around it |

`Quiet` is run-to-completion: no callback runs while a turn executes.

### 2.2 The protocol: `NamedPipeProtocol`, `PipeRequests`

One end of the pipe. The peer is the environment: it sends requests, streams, responses,
cancel frames and malformed frames in any order, or falls silent; the pipe may close.

* *Reading*: `RecvRequest`, `RecvResponse`, `RecvEmptyResponse`, `RecvStream` (with the
  refusals by buffer count, stream size and retained bytes, and the dispatch of whatever it
  completes), `DrainDone` (the bytes a peer sends after an `end` flag that came too early),
  `RecvCancelStream`, `RecvCancelAll`, `RecvIgnored`, `RecvMalformed`, `ReadCloses`, and
  `EndLoop`, the `finally` of the read loop. A frame's header and payload are consumed by
  one action except where the code awaits in the middle with an effect in between (drain).
* *Dispatch*: `StartDispatch` checks the overload limit and takes a slot; `HandlerReturns`
  and `HandlerThrows` answer; `Finally` frees the slot; cancels abort.
* *Requests*: `SendRequest`, `WriteDone`/`WriteFails` for the head of the write chain,
  `RequestTimeout`, `HealthCheck`, `StartDispose`/`EndDispose`.

A message is its id and the set of its streams; a stream is a byte count. Descriptors, JSON
and status codes are left out. `PipeRequests` is the caller's abstract view: a call is
issued, is sent, and ends exactly once, with an answer or an error, which may come before all
of it is sent. A call that was sent has to end; one that is still being sent need not, as a
write has no timeout (finding 5). `NamedPipeProtocolProps` states the refinement mapping
(`Calls`, `ImplementsPipeRequests`).

### 2.3 The service: `NamedPipeService`

Each call of `start` and `stop` is a process whose program counter is the await it is at.
Its steps are the runs between awaits: `Start`, `LoopWakes`, `OutgoingConnects`, `Caught`,
`ProtocolDisposed`, `ConnectionDisposed`, `LoopTurns`, `DelayOver`, `Abort`/`Stop`,
`StopReturns`. The connection has its own steps (`Bind`, `BindFails`, `Accepts`,
`IncomingConnects`, `ConnAborts`, `CloseDone`), as has the environment (another process
that holds a pipe's name, clients beyond the first, a peer that closes). The
application starts and stops the service as it likes; `unawaited` is history: whether it has
started the service again while a `start`, or a `stop`, was still under way, and each property
says which of the two it needs.

### 2.4 The streamed answer: `StreamingResponse`

The queue holds the kinds of the factories. A factory runs when the drain loop takes it
(`Take`, `Make`), so that a chunk carries all the text appended by then, and is the final
message if the stream has ended meanwhile. `SendAccepted` and `DelayOver` are the two awaits
of a successful send. The channel's answer may carry an id or none, as with `expectReplies`
and with the named pipe (`{ id: '' }`); `named` is history: the activities it gave an id.
`SendFails` covers the three classes of errors the code tells apart
(stopped by the user, not a streaming interaction, anything else). The application calls
`QueueInformativeUpdate`, `QueueTextChunk`, `EndStream` and `Reset` and awaits the last two.

### 2.5 State and storage: `TurnState`

Turns of one user in one conversation that are handled at the same time. A turn has an
*entry* per scope (`TurnStateEntry`): the object it works on, the hash of what was loaded, the
deletion mark. Objects live in `heap`, because `FileStorage.read` returns its own: two turns
may hold the same one. The three providers differ in `Aliases` (live objects), `Accepts` (eTag
check before a write) and in whether a save is one step (`SaveLocally`: memory and file
providers write key after key without yielding, and stop at the first conflict) or a set of
requests (`SaveRemotely`: Cosmos DB, whose answers come one by one through `OpLands`,
`OpRefused` and `OpFails`, also after the turn has failed). `Load` and `LoadFails`, `Edit`
(change in place, replace, delete), `BeforeTurnStops`, `StartRoute`, `HandlerSaves`,
`HandlerThrows`, `EndRoute`, `AfterTurnRefuses` are `runTurn` around it.

### 2.6 Sign-in: `SignIn`

One user on one channel; every turn runs `authorizationManager.process` and the handler's
`signin`, interrupted at each call of the storage and of the token service. `ReadSession`,
`Discard`, `Authorize`, `Approve` and `Reject` are `process`, which starts over with the
stored activity after REVALIDATE (`cur`, `queue`); `SignIn`, `WriteCategory`, `Exchange`,
`GetToken`, `WriteSession` and `WriteAttempts` are the handler. The session is one record
with an eTag; whether the storage checks it (`versioned`) and whether the channel is Teams
(`teams`), where invokes are answered, is chosen at the start. Activities: two kinds of
messages, six digits, and the sign-in invokes, well formed or not; a typing activity skips
sign-in altogether (`agentApplication.ts:706`) and is no activity of the model. The
application's callbacks for success and failure may throw, which fails the turn, also after
its invoke was answered. `misses` (answers that were no code, since the card was sent) and
`redeemed` (turns whose answer the service gave a token for) are history.

### 2.7 A turn and its transcript: `TypingTimer`, `TranscriptFile`, `AgentTurn`

`TypingTimer` has the timers a turn started and the one that owns the indicator;
`TranscriptFile` the chain of operations on one file (`withFileLock`) with read, write and
retry as separate steps. `AgentTurn` composes both with the turn: a send passes the handlers
of the timers (`PassHandler`, which waits for a typing send under way), goes to the channel or
into the buffer (`Reach`), lands or fails; the handler may await it or not. `HandlerReturns`,
`HandlerThrows`, `ReportError`, `Flush`, `Answer`, `EndTurn` are the end of the turn; the
context is revoked with `EndTurn`.

### 2.8 Dialogs: `Dialogs`

One conversation. A turn is a stack of calls: a call in tail position replaces its caller,
one that looks at a result (`run`, a component, a cancellation) stays below. `stack` maps a
context to its instances; a component keeps its inner stack under its own number, and
contexts made from a `TurnContext` are not linked to a parent, which is what `findDialog` sees.
`BeginTurn`, `RunBegins`, `RunEnds` are `DialogManager.onTurn` with the load, the expiry and
the save; `Begin`, `Continue`, `End`, `Resume`, `Cancel...` the methods of `DialogContext` with
what each class of dialog does in them; `Step` is the code of a waterfall step, which may make
any call of its context and throw. A component may be overridden to interrupt its dialogs
(`Help`), a dialog to intercept a cancellation (`Interceptors`).

An error that a step, a prompt or a reprompt throws (`StepThrows`, `PromptThrows`,
`RepromptThrows`) bubbles from the active dialog through its components. If one of them handles
it (`ErrorHandlers`), `internalRun` runs the turn again over the stacks as they are
(`RunsAgain`); otherwise the turn throws and saves nothing (`TurnThrows`). Any dialog may be the
root dialog or the initial dialog of a component.

History tells what became of the instances: `told`, how often `endDialog` was called on an
instance in turns that were saved; `lost`, how often in turns that threw, after which the
instance is back (`failures` counts these turns); `cut`, whether a cancellation has passed its
dialogs by; `spared`, whether one has passed those of the root. Proving the properties showed
cases that take three levels: a dialog below a component that is cancelled as it begins may
have sent its prompt already, and a cancellation that is intercepted deep inside leaves every
context between. The instance is built for them; `EndedOnce` and `WaitingIsHeard` name them.

### Module structure

```
PipeSendQueue      <- PipeSendQueueProps     <- MCPipeSendQueue
                                             <- PipeSendQueueProofs     (TLAPS)
NamedPipeProtocol  <- NamedPipeProtocolProps <- MCNamedPipeProtocol     (2 cfgs)
                      (INSTANCE PipeRequests)<- NamedPipeProtocolProofs (TLAPS)
NamedPipeService   <- NamedPipeServiceProps  <- MCNamedPipeService      (2 cfgs)
                                             <- NamedPipeServiceProofs  (TLAPS)
StreamingResponse  <- StreamingResponseProps                            (2 cfgs)
                                             <- StreamingResponseProofs (TLAPS)
TurnState          <- TurnStateProps         <- MCTurnState
                                             <- TurnStateProofs         (TLAPS)
SignIn             <- SignInProps            <- MCSignIn
                                             <- SignInProofs            (TLAPS)
TypingTimer, TranscriptFile <- AgentTurn <- AgentTurnProps <- MCAgentTurn
                                             <- AgentTurnProofs         (TLAPS)
Dialogs            <- DialogsProps           <- MCDialogs               (2 cfgs)
                                             <- DialogsProofs           (TLAPS)
```

Definitions commented `Mutant:` are wrong variants of the definition that follows them. They
are used by no specification; substituting one must make a property fail, which shows that
the property depends on that piece of code.

## 3. What the runs show

| Run | Instance | Shows |
|---|---|---|
| `send_queue` | 2 turns, 1 slot, queue of 2, batches up to 2, 3 sends (549 k states) | slots are conserved and none is unused while a send waits; batches are all or nothing; sends stay in order, behind the response of a turn that does not yield; every accepted send settles |
| `pipe_inbound` | 2 requests with a stream each, one of declared length, 1 slot, 5 frames (536 k) | retained bytes within budget and slots that match handlers; no complete request waits; one answer per request |
| `pipe_calls` | 1 call whose answer has a stream, 4 frames, a timeout of 2 ticks (143 k) | no call is dropped without being told; `sendRequest` implements `PipeRequests`, liveness included; a relay that falls silent with a request outstanding is dropped by the watchdog |
| `service` | 2 starts, 2 stops, awaited or not, 3 connections, 2 surplus clients that leave, cut by `FewTroubles` (300 k) | if each start and stop is awaited before the next start, nothing is lost or left open, `ready` tells the truth, the service reconnects and `stop` ends everything; `ready` settles if the stops are awaited |
| `service_restart` | same, not cut | **violated**: with the stops awaited, `ready` resolves only over a connection that is up and has its reader |
| `streaming` | 3 chunks, 2 updates, 1 reset, a channel that gives ids or none (85 k) | no text is stuck, chunks coalesce, one ordered stream with one complete final message; `endStream` and `reset` return |
| `streaming_result` | same | **violated**: Success means that the final message was accepted |
| `turn_state` | 2 turns, 2 scopes, 1 edit of each turn's own, 3 providers (476 k) | an eTag refuses a write exactly when it must; no dirty reads where copies are handed out; a save that succeeds is complete, one that fails locally leaves a prefix |
| `sign_in` | 3 activities, 2 at a time, 2 conversations, a route with 2 handlers, 1 attempt, callbacks that may throw (435 k) | routes run signed in; an activity is resumed once; a session is stored while the user is asked, with the attempts that are left; truthful invoke replies; turns end |
| `agent_turn` | 1 turn with 2 timers, a message and an error report; or 2 turns on one file, one of them buffering, 2 attempts (243 k) | no typing behind a message; what is logged was delivered; the transcript survives failures; a turn that is over comes to rest |
| `dialogs` | 3 turns, up to 6 instances on three levels: a root waterfall that begins a component, which starts another one, whose waterfall borrows the prompt of the root; a waterfall that helps on interruption; the root waterfall and the outer component intercept cancellations, the inner one handles errors; no expiry (508 k) | every instance is ended once in the turns that are saved; the result of a turn tells who waits; turns end |
| `dialogs_expiry` | same, 2 ticks | **violated**: a conversation that is used within `expireAfter` keeps its dialogs |

**Why the bounds are enough.** The send queue's control depends on the comparisons of two
counters with their limits: a slot and a queue of two reach every combination of
free/full, which with one slot and a queue of two takes three sends; the theorems of section 4
remove the bound. Two
requests are the least for which slots, budgets and write order matter between messages;
five frames deliver both requests with their streams and one more (a cancel, a duplicate or
a late continuation). A budget of 3 with streams of up to 2 makes the retained-bytes check
bite. `Timeout` is 1 tick for the reader and 2 for the calls, where the watchdog has to
see a silence that is shorter than a timeout: ticks and timers interleave freely with
everything. Three connections let an old, a current and a next connection coexist; names of
closed connections are used again. `FewTroubles` cuts what a caller who did not
await does besides: such a behaviour goes on without surplus clients and previous processes, and
has either a start unawaited or a stop. The theorems of section 4 know no such bound; that
`NeverStuck` holds is only needed of callers who await, for whom nothing is cut. In the streaming response, three chunks are one in
flight, one queued and one coalesced; two updates can stand on both sides of a chunk. Two
turns and two scopes are the least for a lost update and for a save that fails half way; a
turn of Cosmos DB saves once, as its requests already interleave with everything. Three
activities are a question, a wrong answer and a right one, or an answer that overlaps another;
one attempt makes the limit bite at the first wrong code. Two timers are an old owner and a
new one; the code tries an append three times, two show a retry and a final failure. Three
turns and six instances start the root waterfall, nest dialogs three deep, interrupt or
cancel them, fail, and come back; a conversation that has no room for its dialogs is not continued.
Expiry only empties a conversation at the start of a turn; the theorems of `DialogsProofs` cover
it.

`CHECK_DEADLOCK FALSE` is set everywhere because each system really rests: all turns done,
all calls returned, the bounds used up.

**Fairness.** Weak fairness is assumed of what the event loop runs by itself and of timers:
immediates, send and request timers, the watchdog, resumed awaits. A turn's handler returns
(`send_queue`), a send is accepted or rejected by the channel (`streaming`, `agent_turn`; the
connector's HTTP call ends), storage and token service answer or fail (`sign_in`), the file
system answers (`agent_turn`), the code of a waterfall step returns (`dialogs`), clients
eventually connect, a previous process eventually frees the pipes and a surplus client
eventually leaves (`service`). Each process has its own fairness condition. Nothing is assumed
of the relay's reads and answers, so that a write on the pipe may never end, of the peer's
frames, of the user's activities, of the application's calls, or of the handler of an
`agent_turn`, which may never end. `TurnsEnd` of the dialogs has a hypothesis of its own: errors
are not handled for ever, as `internalRun` runs again after each; and steps begin finitely
many dialogs, the bound `MaxBegins`.

### Disagreements found

Shown by a run:

1. **Failure reported as success** (`streamingResponse.ts:217`, run `streaming_result`).
   A send that fails while `endStream` waits drops the final message, and the result is
   Success. If the channel refused streaming, no plain message is sent in its place either,
   and a second call says that the stream has ended.
2. **Expiry counts from the first turn** (`dialogManager.ts:211`, run `dialogs_expiry`). Under
   the comment "Update last access time" the value just read is written back. A conversation
   in constant use loses its dialogs once `expireAfter` has passed since its first turn, and
   again on every later turn.

3. **Restart after an awaited stop** (`namedPipeServer.ts:184`, run `service_restart`).
   `stop` does not wait for the loop of `start`, whose promise `startNamedPipeServer` (`:262`)
   keeps from its caller. The old loop goes on over the fields of the new start: it disposes
   the new connection or replaces it (`:160`, `:183`), and `ready` resolves over a connection
   without a reader, or before the pipes are connected; `:46` says "Resolves when the first
   connection is established in the current start cycle."

Met while modelling; each is in the model, and the property about it is stated so as to allow
it, or the run assumes it away:

4. **Acknowledgement after requests** (`createLocalAdapter.ts:147`). The comment promises that
   the inbound response is queued before the outbound activities, thanks to `setImmediate`. It
   is, if the handler does not await I/O after its first send (`AckFirstIfNoYield`, theorem
   `AckPrecedesSends`); otherwise the immediate runs first.
5. **A write has no timeout** (`namedPipeProtocol.ts:203`, `namedPipeTransport.ts:186`).
   `sendRequest` awaits its writes before it looks at the answer or the timeout. A relay that
   answers a request before it has read all of it, and then stops reading, holds the caller in
   the write: no request is pending, so that the watchdog does not see the silence either.
   `PipeRequests` lets a call be sent for ever; teardown ends it.
6. **Surplus clients** (`namedPipeConnection.ts:219`; without the fairness that such a client
   leaves, `NeverStuck` fails). A second client socket is accepted and ignored; closing the
   server waits for it, and the service never reconnects while it stays.
7. **Updates after the final message** (`streamingResponse.ts:385`). Chunk and update are
   queued, `endStream` is called: the chunk becomes the final message and the update follows it
   with the same sequence number, which `OneOrderedStream` admits.
8. **Streams without an id** (`streamingResponse.ts:507`). The stream id is the id the channel
   gave to the first activity it gave one. The named pipe (`createLocalAdapter.ts:218`) and
   `expectReplies` give none: no activity of the answer names its stream. `OneStream` says which
   id each activity carries.
9. **Unsaved turns** (`agentApplication.ts:790`; `:674` lists "Saves turn state" as a step of
   every turn). The state is saved after the afterTurn handlers, and only if there are any.
10. **Attempts that are not left** (`azureBotAuthorization.ts:535`). After a refused code the
    handler writes the session with the eTag it read, although the same turn may have written
    it (`:274`): with a storage that checks eTags that fails the turn, and the session is gone
    although the user was told that attempts are left.
11. **One attempt too many is shown** (`azureBotAuthorization.ts:534`). The user is shown the
    attempts before this one is subtracted; `:88` says "the number of attempts left". When 1 is
    shown, 0 is stored and the next answer is refused (`:265`), right or wrong. `AttemptsCounted`
    says what is stored: the maximum less the answers that were no code.
12. **Success that fails** (`azureBotAuthorization.ts:477`). A token exchange is answered 200 before
    the application's success callback is awaited; if that throws, the session is deleted
    (`authorizationManager.ts:281`) and the turn fails after its 200. `TruthfulReply` asks of a
    200 only that the service gave a token.
13. **A discarded session authorizes** (`authorizationManager.ts:196`). A turn that finds the
    session of another conversation discards it and passes without the tokens of its route;
    `RunsSignedIn` makes the exception, and a test expects it.
14. **Cancelled, and a dialog waits** (`componentDialog.ts:61`). A component that is cancelled as
    it begins returns `cancelled` whatever the dialog below did when it was resumed; if that is
    a waterfall that goes on to a prompt, the turn reports `cancelled` while the prompt waits.
    `dialogTurnStatus.ts:31` says "All dialogs on the stack were cancelled and the stack is empty."
    `WaitingIsHeard` makes the exception with `spared`, which also stands for a cancellation that
    a dialog intercepted.
15. **Components and borrowed dialogs** (`componentDialog.ts:149`, `:172`). The context for
    reprompts and cancellations has no parent: a dialog that was found in the set of a parent
    is popped without its `endDialog`, and a reprompt throws. As a turn that throws saves
    nothing, the same answer may fail on every later turn, and each of these turns calls
    `endDialog` again on the instances it took from their stacks before it threw: `EndedOnce` bounds
    these calls by the turns that threw.
16. **Live objects** (`fileStorage.ts:104`). `FileStorage` returns the objects it keeps: turns see
    each other's unsaved changes, and a turn that fails leaves its own behind.

A consequence of cancellation that no run refutes, because the limit is only a comment:
cancel frames free the slots of handlers that keep running (`namedPipeProtocol.ts:520`), so
that more than `MAX_INFLIGHT_DISPATCHES` handlers may run. `SlotsMatchHandlers` says what
does hold: the map has the handlers that were not aborted.

## 4. What is proved

### `PipeSendQueueProofs`

For any set of turns and any limits (`SendQueueAssumption`: the slot limit is a positive
natural, the other constants naturals):

* `SendQueueInvariant`: `Spec => []IInv`. `IInv` conjoins `TypeOK`, `SlotConservation`,
  `WorkConserving`, `QueueInOrder` and `RacingStarted`. None of the first three is
  inductive alone: that a settled send hands on exactly its slot needs the slot count, and
  to know that the send it starts is not already racing needs the order of the queue and
  that only started sends race. `QueueInOrder` says that immediates and queue together hold
  the consecutive numbers above `Started`.
* From it: `SendQueueTypeOK`, `SlotsAreConserved`, `QueueIsWorkConserving`.
* `BatchesAreAllOrNothing`: `TakesAll` shows that when the check before the loop passes, the
  loop's own limit never binds.
* `SendsAreFifo`: `WireInOrder` is inductive relative to `IInv`, because a started send has
  the number `Started + 1`.
* `AckPrecedesSends`: its invariant relates each immediate and queued send to the state of
  its turn: while a turn has not yielded, its sends wait and its response comes first.

The proofs have one lemma per action (`EnqueueIInv`, `DoSendIInv`, `SettleIInv`,
`TurnStepType`) and per kind of step.

### `StreamingResponseProofs`

For any number of chunks, updates and resets (`StreamAssumption`: the bounds are naturals):

* `StreamInvariant`: `Spec => []SInv`. `NothingUnsent` speaks of a resting loop only; its
  strengthening says where the newest text is while the loop runs (`TextOnItsWay`: a chunk
  waits, the activity in flight has the text, or the channel has), which needs that the flag
  is set exactly while a chunk waits (`FlagTells`) and that what the delay follows has been
  accepted (`Drained`). `PlainAnswer` covers the channel after a fallback, `StreamOpen` says
  that the stream id is the first one the channel gave, and that there is none before.
* From it: `StreamTypeOK`, `NoTextIsStuck`, `ChunksAreCoalesced`, `AnswersAreOneStream`.
* `FInv` adds `Ordered` (numbers and texts of what was sent, is being sent and will be) and
  `Finals` (after `endStream` the last chunk waits, is being sent as the final message, or
  has been accepted); from it `UpdatesAreInOrder` and `OneFinalMessage`.

`TakeStep`, `TakeKind`, `QueueStep` and `QueueKind` say what the drain loop and
`queueActivity` do with any queue; the per-action lemmas cite them.

`SlotsAreWellUsed`, `RequestsReachRelayInOrder` and `AnswersAreOneOrderedStream` put these
together as the properties the runs check.

### `NamedPipeProtocolProofs`

For any messages, streams, limits and number of frames (`ProtocolAssumption`: in-requests and
streams are finite sets, limits naturals, `None` is none of the values):

* `IInvHolds`: `Spec => []IInv`, one part for each group of variables. `ReadInv` is
  `NoReadyMessageWaits` with the drain that holds it up. `DispatchInv` relates a handler to its
  answers, its slot and the bytes it holds: `AnsweredOnce` alone is not inductive, because a
  request that still waits for its streams must be known to have no handler and no answer yet.
  `RequestInv` says that the map of pending requests is exactly the calls whose promise is
  pending; `QueueInv`, that a call has at most one frame in the write queue, while it writes.
  `RetainedBounded` needs sums over sets: `SumOver` counts bytes as the pairs of a stream and a
  number up to its size, so that `SumSplit`, `SumSet`, `SumTaken` are facts about the
  cardinality of finite sets, not inductions.
* From it: `TypeCorrect`, `NothingReadyWaits`, `BudgetsAreKept`, `OneAnswer`, `NoOrphans`.
* `CallsAreRequests`: `Spec => Calls!SafeSpec`, the refinement of `PipeRequests` without its
  fairness: an initial state maps to an initial state, and a step to an issue, an answer, an
  error or a stutter. That a call whose promise is settled is not settled again is
  `RequestInv`.

`StepEffects` says once what every step may do to each group (`RequestEffect`, `QueueEffect`,
`DispatchEffect`); each part of the invariant has one lemma over these effects.

### `NamedPipeServiceProofs`

For any number of calls, connections and surplus clients, and an application that calls
`start` and `stop` whenever it likes. `TypeCorrect` and `StoppedIsSettled` need no more than that
only the promise whose resolvers the service holds can be pending (`ReadyInv`), as long as each
stop was awaited. `LosesNothing` and `ReadyTellsTheTruth` speak of behaviours in which each start
and each stop was awaited before the service was started again, which finding 3 shows they
must; nothing of the kind is assumed of the specification. Their `IInv` has five parts: the controller belongs to
the one `start` under way and is aborted once the service stops (`ControlInv`); what the loop
awaits is what the fields name (`LoopInv`); a `_disconnect` works on what the fields name, as
long as they do (`DisconnectInv`); the fields are set only while the loop holds what they name
(`FieldInv`); and every pipe that is not closed is named by a field or awaited (`PipeInv`).
There is one lemma per action, with one step per part.

### `TurnStateProofs`

For any turns, sequence of scopes and set of providers (`TurnStateAssumption`,
`NoneAssumption`). The eTag argument is `Vouched`: a value that a turn may still write carries
an eTag that, if it is the stored one, says that the value holds every mark the store holds;
and it is the stored one unless somebody has stored the key since. It is kept for the object
a turn works on (`CopyInv`) and for each request under way (`RequestInv`), as the answers of Cosmos DB may
come after the turn has gone on. `AwaitInv` says that what an awaited save asked for is stored
or still under way; `OpsInv` and `TurnInv` bound the requests and saves. From it: `TypeCorrect`,
`TagsHold`, `DirtyReadsNever`, `SavesHold`. The file provider, which hands out live objects, is
covered where the property speaks of it.

### `SignInProofs`

For any number of turns, handlers and attempts (`SignInAssumption`). Whatever turns overlap,
the handlers of the activity a turn will go on with have approved or are still in its queue
(`TurnOK`, `QueueOK`), and `ReplyOK` follows an invoke from no status to its last one: a 200 stands
only when the service gave a token (`redeemed`), the user gave up, or a code is still to be
redeemed; from these `RoutesAreSignedIn` and `RepliesAreTruthful`. While turns do not overlap, `AloneInv` says
what the turn at work knows of the session at each of its stages, the attempts left among it
(`AttemptsLeft`, the maximum less `misses`), and that an activity which
was resumed is neither stored nor at work again; from it `ResumedAtMostOnce` and
`SessionIsKnown`. `StepIInv` collects what a step of one turn has to show; each stage has a
lemma.

### `AgentTurnProofs`

For any number of turns, of timers and sends of each, and of attempts
(`AgentTurnAssumption`):

* `IInvHolds`: `Spec => []IInv`. `Quiets` strengthens `NoTypingBehindMessage` to messages that
  are still passing the handlers: the timers passed are idle, the one it waits at is not armed,
  and no timer from before the message owns the indicator, or it could be armed again.
  `RecordInv`, `BufferInv` and `ReplyInv` say where a recorded activity is: with the channel or
  in the reply; `LoggedInv`, that it stays there.
* `QueueInv` says that the queue holds the last operations of the log in their order, and that
  only the first has read the file, and has read what it is now: the lock at work. `FileInv`
  says that the entries of the file are appended activities of the log up to the operation
  that runs, in the order of the log, repeated at most where an attempt was repeated; `DoneInv`,
  that what resolved is there. As `OnceThenUpdates` lets an activity be logged once, before its
  updates, a repeated append lies behind all that came before it.
* From it: `TypeCorrect`, `NoLateTyping`, `LogIsTruthful`, `FileIsFaithful`.

`SendSteps` reduces the actions of a send to six effects (`Enters`, `Buffers`, `Posts`,
`IsRevoked`, `Lands`, `Fails`), `StepQuiets` says what no step does to a timer (`Quieter`), and
`LogSteps` what a step of the file does; each part of the invariant has one lemma over these.

### `DialogsProofs`

For any dialogs, members, step counts, turns and instances, any dialog as the root dialog or as
the first of a component, and any dialogs that handle cancellations or errors
(`DialogsAssumption`: the classes of dialogs are disjoint, a waterfall has a step, the root dialog
is in the root's set and a component's initial dialog in the component's, which no chain of
initial dialogs leads back to, or its `beginDialog` would not end; bounds are naturals):

* `CallsFollowStacks`: `Spec => []IInv`. `EndedOnce` and `WaitingIsHeard` speak of the moments
  when no call is under way or of instances alone; in between, what a call may do to a stack
  depends on the calls that wait for it. `StacksOK` says that stacks nest, hold an instance once
  and that an instance is told as it leaves (`History`); `CallsOK`, which calls may stand on
  which and that each works in the context its caller leads to; `FullOK`, that a component
  without dialogs is the active one of its context and about to be ended; `ChildrenOK`, that a
  call that waits for a component still finds it there, or a cancellation has passed it by;
  `RunningOK` and `ReturnedOK`, what a call may count on as it runs and what its result says;
  `PromptOK`, that the instance that prompted last waits, is about to leave or has left;
  `LostOK`, that a turn which throws brings back instances that it told once at most, so that
  there is one lost call per failure; `SavedOK`, that the stacks are sound in the stored
  conversation too, which a turn that throws falls back to.
* A turn whose error is handled goes on with the stacks of the moment of the throw: `ThrownIsFull`
  shows that no component is without dialogs then, if the error finds a handler, and `RunStep`
  that a new run may start there.
* From it: `TypeCorrect`, `ToldAsTheyLeave`, `ResultsTellTheTruth`. The first and third are
  parts of `IInv`; for the second, `PassedBy` takes the outermost of the contexts around an
  instance that is no longer on a stack of the conversation.

The recursive functions of the model run along the nesting, which is well founded as a
component is older than what it begins: `LiveUnfolds`, `DescentUnfolds` and `LineageUnfolds`
give their equations, and the rest of what is needed about them goes by a least or greatest
counterexample (`Least`, `Greatest`). `SameTree`, `PopTree`, `PushTree` and their `History`
counterparts say what leaving a stack alone, taking its top and beginning a dialog do to the
tree; each action has a lemma that reduces it to a kind of step (`WaitStep`,
`ReturnStep`, `ChainStep`, `EnterStep`, `CancelStep`, `EndingStep`, `CutStep`, ...).

### Only model-checked

Liveness (`EverySendSettles`, `DeadRelayIsDropped`, `NeverStuck`, `CallsReturn`, both `TurnsEnd`,
`TurnsComeToRest`, and the liveness half of the refinement of `PipeRequests`) is out of the
prover's reach and stays with TLC. Every invariant and
every action property of a passing run has a theorem.

## 5. Abstractions and limits

* One write queue per behaviour of the send queue: a reconnect replaces the protocol, but
  sends of an old one fail like any other.
* `updateActivity` and `deleteActivity` await a request inside a turn; they keep no state in
  the adapter and are not actions of the send queue.
* In `NamedPipeService`, promise reactions that follow each other without I/O in between
  (`_connect` after `waitForConnection`) are one step. Delays are steps of no duration.
* In `NamedPipeProtocol` the clock counts ticks; the ratio of the timeouts is not kept, and
  the health check runs only when the tick count says silence is long enough.
* In `StreamingResponse` a failed send ends the drain loop in the same run; in the code some
  microtasks lie between, in which only an application that does not await would act. Empty
  texts, citations, labels, attachments and setters are left out.
* In `TurnState` a conversation has its turns and no other writer; custom keys, `load` with
  force and property paths are left out. Once deleted, an entry that is replaced stays deleted
  (`turnStateEntry.ts:75`), as in the code.
* In `SignIn` the token service is what it answers: a token, none, or an error. Agentic and
  connector handlers, sign-out and on-behalf-of exchanges are left out. Messages and cards to
  the user are assumed to be sent.
* In `AgentTurn` the handler makes any calls in any order. A file torn by a partial write,
  invoke responses, the order of routes and middleware and long-running turns are left out.
* In `Dialogs` turns do not overlap, the storage keeps copies, messages to the user are assumed to
  be sent, a dialog that handles the error event leaves the stacks as they are, and dialogs are
  not redeployed while a conversation lasts; validators and recognizers are the choice whether an
  answer is valid, or throw. Code of a step calls its own context only. A prompt that is continued
  with `stepCount` (`prompt.ts:256`) is left out: only adaptive dialogs set it, which this
  repository does not have.

## 6. Not modelled, and why

The frame codec is a pure conversion of 48 bytes with a unit-tested round trip. The activity
schema, telemetry, web hosts, channel extensions, card factories, recognizers and choices are
data models or glue without protocol state. HTTP, JWT signatures and MSAL are services; the
token caches hold a token per key with one reader. A proactive conversation record is read and
written by one call each; the turns it leads to are those of `TurnState`. The WebChat
connection of the Copilot Studio client is the one state machine left for later. Vendored
data, samples, test agents, build scripts and compatibility baselines are no part of the
program.

## 7. Plan

Done: `StreamingResponse`, `NamedPipeProtocol`, `NamedPipeService`, `PipeSendQueue`,
`TurnState`, `SignIn`, `TypingTimer`, `TranscriptFile`, `AgentTurn`, `Dialogs`.

Theorems: each safety property of a passing run has one. What is left is liveness, which this
prover does not reach.

Models worth writing later: the WebChat connection; two protocol ends and a lossy relay
composed with the send queue, for the deadlock question of an update awaited inside a turn
(`createLocalAdapter.ts:257`).
