---------------------------- MODULE TurnStateProps ----------------------------
(***************************************************************************)
(* What loading and saving the state of a turn promises.                   *)
(***************************************************************************)
EXTENDS TurnState

ObjectValue == [marks : SUBSET Turns, eTag : Nat]
AnyRequest == Keys \X {"write", "delete"}

TypeOK ==
  /\ provider \in Providers
  /\ \A k \in Keys : store[k] # None => IF provider = "file" THEN store[k] \in Objects
                                                            ELSE store[k] = Copy(k)
  /\ heap \in [Objects -> ObjectValue]
  /\ nextTag \in Nat /\ \A o \in Objects : heap[o].eTag < nextTag
  /\ pc \in [Turns -> {"idle", "loading", "before", "running", "saving", "stopped", "saved",
                       "done", "ended"}]
  /\ toRead \in [Turns -> SUBSET Keys]
  /\ entry \in [Turns -> [Keys -> [ref : Objects, deleted : BOOLEAN,
                                   hash : ObjectValue]]]
  /\ \A o \in ops : o.turn \in Turns /\ <<o.key, o.op>> \in AnyRequest /\ o.save <= saves[o.turn]
  /\ edits \in [Turns -> 0..Edits]
  /\ saves \in [Turns -> 0..(OwnSaves[provider] + 1)]
  /\ asked \in [Turns -> SUBSET AnyRequest] /\ stored \in [Turns -> SUBSET AnyRequest]
  /\ \A t \in Turns : stored[t] \subseteq asked[t]
  /\ touched \subseteq Turns \X Keys /\ refused \subseteq Turns \X Keys
  /\ lost \subseteq Turns \X Keys

(***************************************************************************)
(* Optimistic concurrency: whatever turns of a conversation do meanwhile,  *)
(* a write that carries the eTag its turn loaded never drops a change that *)
(* another turn has stored.  (Values without an eTag are written blindly:  *)
(* the first ones of a key, and those that replaced a scope.)              *)
(***************************************************************************)
NoLostUpdate == lost = {}

(***************************************************************************)
(* A write is refused for its eTag only when the key has been written or   *)
(* deleted since the turn read it; the writer may have been the turn       *)
(* itself, in an earlier save.                                             *)
(***************************************************************************)
RefusedMeansStale == refused \subseteq touched

(***************************************************************************)
(* Both together: an eTag refuses a write exactly when it must.            *)
(***************************************************************************)
TagsGuardWrites == NoLostUpdate /\ RefusedMeansStale

(***************************************************************************)
(* A turn never sees, and so never stores, what another turn has changed   *)
(* but not asked to save: MemoryStorage and Cosmos DB hand out copies.     *)
(***************************************************************************)
NoDirtyRead ==
  provider # "file" =>
    \A t \in Turns, k \in Keys : Value(t, k).marks \subseteq {t} \union {u \in Turns : saves[u] > 0}

(***************************************************************************)
(* A turn that ends with its save has stored every changed scope and       *)
(* deleted every deleted one, although the requests end in any order.      *)
(***************************************************************************)
SaveEndsWithAll ==
  \A t \in Turns : pc[t] \in {"saved", "stopped"} => stored[t] = asked[t]

(***************************************************************************)
(* The write of several scopes is not atomic, but in a local provider what *)
(* a failed save leaves is a prefix: no scope is stored after one that was *)
(* refused.                                                                *)
(***************************************************************************)
PartialSavesArePrefixes ==
  provider # "cosmos" =>
    \A t \in Turns, j, k \in Keys :
      Before(j, k) /\ <<j, "write">> \in asked[t] /\ <<k, "write">> \in stored[t] =>
        <<j, "write">> \in stored[t]

(***************************************************************************)
(* Both together: all of a save that succeeds, the first part of one that  *)
(* does not.                                                               *)
(***************************************************************************)
SavedMeansStored == SaveEndsWithAll /\ PartialSavesArePrefixes

=============================================================================
