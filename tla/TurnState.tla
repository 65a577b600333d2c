------------------------------ MODULE TurnState ------------------------------
(***************************************************************************)
(* Turns of one conversation that load, change and save its state:         *)
(*   - packages/agents-hosting/src/app/agentApplication.ts, runTurn, and   *)
(*     app/proactive/proactive.ts: when a turn loads and saves;            *)
(*   - app/turnState.ts, turnStateEntry.ts: scopes, change detection;      *)
(*   - storage/memoryStorage.ts, storage/fileStorage.ts and                *)
(*     agents-hosting-storage-cosmos: what a read and a write do.          *)
(*                                                                         *)
(* A value is abstracted to its marks, the turns whose changes it holds,   *)
(* and the eTag property it carries.  Values are objects on a heap, since  *)
(* FileStorage hands out the objects it stores.                            *)
(***************************************************************************)
EXTENDS Naturals, Sequences, FiniteSets, Functions

CONSTANTS
  Turns,       \* turns of the conversation
  Scopes,      \* the storage keys of a turn, in the order save visits them
  Providers,   \* subset of {"memory", "file", "cosmos"}
  SavesAfter,  \* turns of an application with an afterTurn handler, or proactive
  OwnSaves,    \* bound: calls of save by the handler of a turn, for each provider
  Edits,       \* bound: times the handlers of a turn change its state
  Disk,        \* the owner of the copies a provider keeps
  None

Keys == Range(Scopes)
Before(j, k) == \E m, n \in DOMAIN Scopes : Scopes[m] = j /\ Scopes[n] = k /\ m < n

ASSUME TurnStateAssumption ==
  /\ Scopes \in Seq(Keys) /\ Cardinality(Keys) = Len(Scopes)
  /\ Providers \subseteq {"memory", "file", "cosmos"}
  /\ SavesAfter \subseteq Turns
  /\ OwnSaves \in [Providers -> Nat] /\ Edits \in Nat
  /\ Disk \notin Turns

\* An object read by a turn, one it made to replace it, and a provider's copy.
Loaded(t, k) == <<t, k, "loaded">>
Fresh(t, k)  == <<t, k, "fresh">>
Copy(k)      == <<Disk, k, "copy">>
Objects == {Loaded(t, k) : t \in Turns, k \in Keys} \union
           {Fresh(t, k) : t \in Turns, k \in Keys} \union {Copy(k) : k \in Keys}

ASSUME NoneAssumption == None \notin Objects

Empty == [marks |-> {}, eTag |-> 0]

VARIABLES
  provider,  \* the storage of the application
  store,     \* the object stored under a key, or None
  heap,      \* the value of every object
  nextTag,   \* the eTag counter of the provider
  pc,        \* where each turn is
  toRead,    \* keys that the load of a turn has not read yet
  entry,     \* TurnStateEntry of each turn and scope
  ops,       \* operations of a save under way at the service
  edits,     \* changes made by the handlers of a turn
  saves,     \* calls of save per turn
  asked,     \* history: what the last save of a turn asked of the provider
  stored,    \* history: what of it the provider has done
  touched,   \* history: <<t, k>>: somebody stored k after t had read it
  refused,   \* history: <<t, k>>: the provider refused a write by its eTag
  lost       \* history: marks that a write with an eTag removed

storeVars == <<store, heap, nextTag>>
history == <<touched, refused, lost>>
vars == <<provider, storeVars, pc, toRead, entry, edits, ops, saves, asked, stored, history>>

Init ==
  /\ provider \in Providers
  /\ \E full \in SUBSET Keys :
       store = [k \in Keys |-> IF k \in full THEN Copy(k) ELSE None]
  /\ heap = [o \in Objects |-> IF provider # "file" /\ o[1] = Disk
                                 THEN [marks |-> {}, eTag |-> 1] ELSE Empty]
  /\ nextTag = 2
  /\ pc = [t \in Turns |-> "idle"]
  /\ toRead = [t \in Turns |-> Keys]
  /\ entry = [t \in Turns |-> [k \in Keys |->
                 [ref |-> Loaded(t, k), deleted |-> FALSE, hash |-> Empty]]]
  /\ ops = {}
  /\ edits = [t \in Turns |-> 0] /\ saves = [t \in Turns |-> 0]
  /\ asked = [t \in Turns |-> {}] /\ stored = [t \in Turns |-> {}]
  /\ touched = {} /\ refused = {} /\ lost = {}

-----------------------------------------------------------------------------
(* The storage providers.                                                  *)

Item(k) == heap[store[k]]

\* Mutant: every provider hands out the object it keeps.
AliasesAlways(k) == store[k] # None

\* FileStorage.read returns the objects it keeps; the others return copies.
Aliases(k) == provider = "file" /\ store[k] # None

\* Mutant: an item that exists is always overwritten.
AcceptsAnyTag(k, value) == provider = "file" \/ store[k] # None \/ value.eTag = 0

\* The eTag check of a write.
Accepts(k, value) ==
  \/ provider = "file"
  \/ store[k] = None
  \/ value.eTag = 0
  \/ store[k] # None /\ value.eTag = Item(k).eTag

\* An item that was deleted meanwhile: Cosmos DB may insert or refuse it.
MayRefuse(k, value) ==
  provider = "cosmos" /\ store[k] = None /\ value.eTag # 0

\* Mutant: the counter is increased before it is used.
PositionFromOne(k, ks) == Cardinality({j \in ks : Before(j, k)}) + 1

\* The order in which a write assigns its eTags.
Position(k, ks) == Cardinality({j \in ks : Before(j, k)})

\* Turn t stores its values for the keys ws and deletes those of ds.
Put(t, ws, ds, value, ref) ==
  /\ store' = [k \in Keys |->
       IF k \in ds THEN None
       ELSE IF k \notin ws THEN store[k]
       ELSE IF provider = "file" THEN ref[k] ELSE Copy(k)]
  /\ IF provider = "file"
       THEN UNCHANGED <<heap, nextTag>>
       ELSE /\ heap' = [o \in Objects |->
                 IF o[1] = Disk /\ o[2] \in ws
                   THEN [marks |-> value[o[2]].marks, eTag |-> nextTag + Position(o[2], ws)]
                   ELSE heap[o]]
            /\ nextTag' = nextTag + Cardinality(ws)
  /\ touched' = touched \union {r \in Turns \X (ws \union ds) : r[2] \notin toRead[r[1]]}
  /\ lost' = lost \union
       UNION {{<<m, k>> : m \in Item(k).marks \ value[k].marks} :
              k \in {j \in ws : store[j] # None /\ value[j].eTag # 0 /\ provider # "file"}}

-----------------------------------------------------------------------------
(* load.                                                                   *)

\* The values of ks arrive: all at once, or one by one from Cosmos DB.
Fetch(t, ks) ==
  /\ entry' = [entry EXCEPT ![t] = [k \in Keys |->
       IF k \notin ks THEN entry[t][k]
       ELSE [ref     |-> IF Aliases(k) THEN store[k] ELSE Loaded(t, k),
             deleted |-> FALSE,
             hash    |-> IF store[k] # None THEN Item(k) ELSE Empty]]]
  /\ heap' = [o \in Objects |->
       IF \E k \in ks : o = Loaded(t, k) /\ store[k] # None /\ ~Aliases(k)
         THEN Item(o[2]) ELSE heap[o]]

\* When all have arrived, runTurn looks for a route; without one it ends.
Load(t) ==
  /\ pc[t] \in {"idle", "loading"}
  /\ \E ks \in SUBSET toRead[t] :
       /\ ks # {}
       /\ IF provider = "cosmos" THEN Cardinality(ks) = 1 ELSE ks = toRead[t]
       /\ Fetch(t, ks)
       /\ toRead' = [toRead EXCEPT ![t] = @ \ ks]
       /\ \E next \in IF toRead[t] = ks THEN {"before", "ended"} ELSE {"loading"} :
            pc' = [pc EXCEPT ![t] = next]
  /\ UNCHANGED <<provider, store, nextTag, edits, ops, saves, asked, stored, history>>

LoadFails(t) ==
  /\ pc[t] \in {"idle", "loading"} /\ provider = "cosmos"
  /\ pc' = [pc EXCEPT ![t] = "ended"]
  /\ UNCHANGED <<provider, storeVars, toRead, entry, edits, ops, saves, asked, stored, history>>

-----------------------------------------------------------------------------
(* What a handler does with the state.                                     *)

\* File downloaders and beforeTurn handlers, then the route.
Running(t) == pc[t] \in {"before", "running"}

\* entry.value of a deleted entry is a new empty object.
Target(t, k) == IF entry[t][k].deleted THEN Fresh(t, k) ELSE entry[t][k].ref

\* state.conversation.x = 1, state.conversation = {..}, deleteConversationState().
EditedEntry(t, k, edit) ==
  [ref     |-> CASE edit = "set" -> Target(t, k)
                 [] edit = "replace" -> Fresh(t, k)
                 [] OTHER -> entry[t][k].ref,
   deleted |-> edit = "delete" \/ (entry[t][k].deleted /\ edit # "set"),
   hash    |-> entry[t][k].hash]

\* A value that replaces a scope carries no eTag.  (Bound: one per turn and scope.)
NeedsNewObject(t, k, edit) ==
  edit = "replace" \/ (edit = "set" /\ entry[t][k].deleted)

\* What a handler does to the scopes between two awaits.
Edit(t) ==
  /\ Running(t) /\ edits[t] < Edits
  /\ \E edit \in [Keys -> {"keep", "set", "replace", "delete"}] :
       /\ \A k \in Keys : NeedsNewObject(t, k, edit[k]) => entry[t][k].ref # Fresh(t, k)
       /\ entry' = [entry EXCEPT ![t] = [k \in Keys |-> EditedEntry(t, k, edit[k])]]
       /\ heap' = [o \in Objects |->
            IF \E k \in Keys : edit[k] \in {"set", "replace"}
                               /\ o = EditedEntry(t, k, edit[k]).ref
              THEN [heap[o] EXCEPT !.marks = @ \union {t}] ELSE heap[o]]
  /\ edits' = [edits EXCEPT ![t] = @ + 1]
  /\ UNCHANGED <<provider, store, nextTag, pc, toRead, ops, saves, asked, stored, history>>

-----------------------------------------------------------------------------
(* save.                                                                   *)

Value(t, k)  == heap[entry[t][k].ref]
Deletions(t) == {k \in Keys : entry[t][k].deleted}

Changes(t) == {k \in Keys : ~entry[t][k].deleted /\ Value(t, k) # entry[t][k].hash}
Requests(ws, ds) == {<<k, "write">> : k \in ws} \union {<<k, "delete">> : k \in ds}
Unsaved(t) == Requests(Changes(t), Deletions(t))

\* MemoryStorage.write throws at the first conflict.
Tried(t) ==
  {k \in Changes(t) : \A j \in Changes(t) : Before(j, k) => Accepts(j, Value(t, j))}
Accepted(t) == {k \in Tried(t) : Accepts(k, Value(t, k))}

\* A save that failed ends the turn, unless the handler made and caught it.
AfterFailure(then) == IF then = "running" THEN {"running", "ended"} ELSE {"ended"}

\* MemoryStorage and FileStorage: the write, then the delete, in one run.
SaveLocally(t, then) ==
  LET ws == Accepted(t)
  IN /\ Put(t, ws, Deletions(t), [k \in Keys |-> Value(t, k)], [k \in Keys |-> entry[t][k].ref])
     /\ stored' = [stored EXCEPT ![t] = Requests(ws, Deletions(t))]
     /\ refused' = refused \union ({t} \X (Tried(t) \ ws))
     /\ \E next \in IF ws = Changes(t) THEN {then} ELSE AfterFailure(then) :
          pc' = [pc EXCEPT ![t] = next]
     /\ UNCHANGED ops

\* Cosmos DB: the requests are sent together, and each has its own fate.
SaveRemotely(t, then) ==
  /\ ops' = ops \union {[turn |-> t, key |-> u[1], op |-> u[2], save |-> saves[t] + 1,
                         then |-> then, value |-> Value(t, u[1])] : u \in Unsaved(t)}
  /\ stored' = [stored EXCEPT ![t] = {}]
  /\ pc' = [pc EXCEPT ![t] = IF Unsaved(t) = {} THEN then ELSE "saving"]
  /\ UNCHANGED <<storeVars, history>>

\* TurnState.save, on the way to then.
Save(t, then) ==
  /\ saves' = [saves EXCEPT ![t] = @ + 1]
  /\ asked' = [asked EXCEPT ![t] = Unsaved(t)]
  /\ IF provider = "cosmos" THEN SaveRemotely(t, then) ELSE SaveLocally(t, then)
  /\ UNCHANGED <<provider, toRead, entry, edits>>

\* Mutant: Promise.race for Promise.all.
SaveEndsWithFirst(o) == TRUE

SaveEnds(o) == ~\E p \in ops \ {o} : p.turn = o.turn /\ p.save = o.save

\* The turn that awaits the operation goes on when it was the last of its
\* save, and at once when it failed: the others stay under way.
Conclude(o, done) ==
  /\ ops' = ops \ {o}
  /\ stored' = IF done /\ o.save = saves[o.turn]
                 THEN [stored EXCEPT ![o.turn] = @ \union {<<o.key, o.op>>}] ELSE stored
  /\ IF pc[o.turn] # "saving" \/ o.save # saves[o.turn] THEN UNCHANGED pc
     ELSE IF ~done THEN \E next \in AfterFailure(o.then) : pc' = [pc EXCEPT ![o.turn] = next]
     ELSE pc' = [pc EXCEPT ![o.turn] = IF SaveEnds(o) THEN o.then ELSE @]
  /\ UNCHANGED <<provider, toRead, entry, edits, saves, asked>>

Land(o) ==
  /\ o.op = "delete" \/ Accepts(o.key, o.value)
  /\ Put(o.turn, IF o.op = "write" THEN {o.key} ELSE {}, IF o.op = "delete" THEN {o.key} ELSE {},
         [k \in Keys |-> o.value], [k \in Keys |-> None])
  /\ UNCHANGED refused

OpLands(o) == Land(o) /\ Conclude(o, TRUE)

OpRefused(o) ==
  /\ o.op = "write" /\ (~Accepts(o.key, o.value) \/ MayRefuse(o.key, o.value))
  /\ refused' = refused \union {<<o.turn, o.key>>}
  /\ Conclude(o, FALSE)
  /\ UNCHANGED <<storeVars, touched, lost>>

\* Any other error: the service may have done what it was asked.
OpFails(o) ==
  /\ Land(o) \/ UNCHANGED <<storeVars, history>>
  /\ Conclude(o, FALSE)

-----------------------------------------------------------------------------
(* runTurn, after load.                                                    *)

\* A beforeTurn handler returns false: the state is saved, no route runs.
BeforeTurnStops(t) == pc[t] = "before" /\ Save(t, "stopped")

Goes(t, from, to) ==
  /\ pc[t] \in from
  /\ pc' = [pc EXCEPT ![t] = to]
  /\ UNCHANGED <<provider, storeVars, toRead, entry, edits, ops, saves, asked, stored, history>>

StartRoute(t) == Goes(t, {"before"}, "running")

HandlerSaves(t) == pc[t] = "running" /\ saves[t] < OwnSaves[provider] /\ Save(t, "running")

HandlerThrows(t) == Goes(t, {"before", "running"}, "ended")

\* The route returns: only the afterTurn handlers lead to a save.
EndRoute(t) ==
  \/ t \in SavesAfter /\ pc[t] = "running" /\ Save(t, "saved")
  \/ t \notin SavesAfter /\ Goes(t, {"running"}, "done")

\* An afterTurn handler returns false.
AfterTurnRefuses(t) == t \in SavesAfter /\ Goes(t, {"running"}, "ended")

Next ==
  \/ \E t \in Turns :
       \/ Load(t) \/ LoadFails(t) \/ Edit(t) \/ BeforeTurnStops(t) \/ StartRoute(t)
       \/ HandlerSaves(t) \/ HandlerThrows(t) \/ EndRoute(t) \/ AfterTurnRefuses(t)
  \/ \E o \in ops : OpLands(o) \/ OpRefused(o) \/ OpFails(o)

Spec == Init /\ [][Next]_vars

=============================================================================
