--------------------------- MODULE TurnStateProofs ---------------------------
(***************************************************************************)
(* Proofs about loading and saving the state of a turn, for every number   *)
(* of turns and scopes and every provider.                                 *)
(*                                                                         *)
(* The argument for the eTags: a value that a turn may still write (in its *)
(* object, or in a request under way) is vouched for by its eTag.  As long *)
(* as nobody has stored the key since the turn read it, that eTag is the   *)
(* stored one; and if it is the stored one, the value was made from what   *)
(* is stored, so that it holds every mark the store holds.                 *)
(***************************************************************************)
EXTENDS TurnStateProps, FiniteSetTheorems, TLAPS

Savers == {u \in Turns : saves[u] > 0}

\* What the eTag of a value that turn t may write for k says.
Vouched(t, k, value) ==
  value.eTag # 0 =>
    /\ store[k] # None /\ value.eTag = Item(k).eTag => Item(k).marks \subseteq value.marks
    /\ <<t, k>> \notin touched => store[k] # None /\ value.eTag = Item(k).eTag

Operation == [turn : Turns, key : Keys, op : {"write", "delete"}, save : Nat,
              then : {"running", "stopped", "saved"}, value : ObjectValue]

\* Requests under way, and the turns that sent them.
OpsInv ==
  /\ provider # "cosmos" => ops = {}
  /\ ops \subseteq Operation
  /\ \A o \in ops : /\ o.value.eTag < nextTag
                    /\ o.save \in 1..saves[o.turn] /\ toRead[o.turn] = {}
                    /\ o.save = saves[o.turn] => <<o.key, o.op>> \in asked[o.turn]

\* A turn has read every scope before its handlers run, and saves at most
\* once more than its handler asks for.
TurnInv ==
  \A t \in Turns :
    /\ pc[t] \notin {"idle", "loading", "ended"} => toRead[t] = {}
    /\ pc[t] \in {"idle", "loading", "before", "running"} => saves[t] <= OwnSaves[provider]
    /\ pc[t] = "saving" => \A o \in ops : o.turn = t /\ o.save = saves[t] /\ o.then = "running"
                                            => saves[t] <= OwnSaves[provider]

\* What a save asks for is stored or still under way while the turn awaits it.
AwaitInv ==
  \A t \in Turns : pc[t] = "saving" =>
    \A r \in asked[t] \ stored[t] : \E o \in ops : /\ o.turn = t /\ o.save = saves[t]
                                                   /\ r = <<o.key, o.op>>

\* The objects of a provider that keeps copies.
CopyInv ==
  provider # "file" =>
    \A k \in Keys :
      /\ heap[Copy(k)].marks \subseteq Savers
      /\ \A t \in Turns :
           /\ entry[t][k].ref \in {Loaded(t, k), Fresh(t, k)}
           /\ heap[Fresh(t, k)].eTag = 0
           /\ k \in toRead[t] => heap[Loaded(t, k)].eTag = 0
           /\ Vouched(t, k, heap[Loaded(t, k)])
           /\ heap[Loaded(t, k)].marks \subseteq {t} \union Savers
           /\ heap[Fresh(t, k)].marks \subseteq {t} \union Savers

RequestInv ==
  \A o \in ops : Vouched(o.turn, o.key, o.value) /\ o.value.marks \subseteq Savers

IInv ==
  /\ TypeOK
  /\ OpsInv /\ TurnInv /\ AwaitInv
  /\ CopyInv /\ RequestInv
  /\ TagsGuardWrites
  /\ SavedMeansStored

-----------------------------------------------------------------------------
(* The order of the scopes, and the eTags a write gives.                   *)

\* The scopes are finitely many, in the order of Scopes.
LEMMA ScopeOrder ==
  /\ IsFiniteSet(Keys)
  /\ \A k \in Keys : ~Before(k, k)
  /\ \A i, j, k \in Keys : Before(i, j) /\ Before(j, k) => Before(i, k)
<1> DEFINE n == Len(Scopes)
<1>1. n \in Nat /\ Scopes \in [1..n -> Keys] /\ DOMAIN Scopes = 1..n
  BY TurnStateAssumption
<1>2. Scopes \in Surjection(1..n, Keys)
  BY <1>1 DEF Surjection, Keys, Range
<1>3. IsFiniteSet(1..n) /\ Cardinality(1..n) = n
  BY <1>1, FS_Interval
<1>4. IsFiniteSet(Keys) /\ Scopes \in Injection(1..n, Keys)
  BY <1>2, <1>3, FS_Surjection, TurnStateAssumption
<1>5. \A a, b \in 1..n : Scopes[a] = Scopes[b] => a = b
  BY <1>4 DEF Injection, IsInjective
<1>6. ASSUME NEW k \in Keys PROVE ~Before(k, k)
  BY <1>1, <1>5 DEF Before
<1>7. ASSUME NEW i \in Keys, NEW j \in Keys, NEW k \in Keys, Before(i, j), Before(j, k)
      PROVE  Before(i, k)
  <2>1. PICK a \in 1..n, b \in 1..n : Scopes[a] = i /\ Scopes[b] = j /\ a < b
    BY <1>1, <1>7 DEF Before
  <2>2. PICK c \in 1..n, d \in 1..n : Scopes[c] = j /\ Scopes[d] = k /\ c < d
    BY <1>1, <1>7 DEF Before
  <2>3. b = c
    BY <1>5, <2>1, <2>2
  <2>4. a < d
    BY <1>1, <2>1, <2>2, <2>3
  <2> QED BY <1>1, <2>1, <2>2, <2>4 DEF Before
<1> QED BY <1>4, <1>6, <1>7

\* The place of a key among those written is below their number.
LEMMA PositionBound ==
  ASSUME NEW ws \in SUBSET Keys
  PROVE  /\ Cardinality(ws) \in Nat
         /\ \A k \in ws : Position(k, ws) \in Nat /\ Position(k, ws) < Cardinality(ws)
<1>1. IsFiniteSet(ws)
  BY ScopeOrder, FS_Subset
<1>2. Cardinality(ws) \in Nat
  BY <1>1, FS_CardinalityType
<1>3. ASSUME NEW k \in ws PROVE Position(k, ws) \in Nat /\ Position(k, ws) < Cardinality(ws)
  <2> DEFINE before == {j \in ws : Before(j, k)}
  <2>1. before \subseteq ws /\ before # ws
    BY ScopeOrder
  <2>2. IsFiniteSet(before) /\ Cardinality(before) <= Cardinality(ws)
        /\ (Cardinality(before) = Cardinality(ws) => before = ws)
    BY <1>1, <2>1, FS_Subset
  <2>3. Cardinality(before) \in Nat
    BY <2>2, FS_CardinalityType
  <2>4. Cardinality(before) < Cardinality(ws)
    BY <1>2, <2>1, <2>2, <2>3
  <2> QED BY <2>3, <2>4 DEF Position
<1> QED BY <1>2, <1>3

-----------------------------------------------------------------------------
(* Objects, and what storing values does.                                  *)

\* The objects of the store and of the turns are told apart.
LEMMA ObjectFacts ==
  /\ \A k \in Keys : /\ Copy(k) \in Objects /\ Copy(k) # None
                     /\ Copy(k)[1] = Disk /\ Copy(k)[2] = k
  /\ \A t \in Turns, k \in Keys :
       /\ Loaded(t, k) \in Objects /\ Fresh(t, k) \in Objects
       /\ Loaded(t, k)[1] = t /\ Fresh(t, k)[1] = t
       /\ Loaded(t, k) # Fresh(t, k) /\ t # Disk
  /\ \A o \in Objects : o[1] = Disk => o[2] \in Keys /\ o = Copy(o[2])
<1>1. \A t \in Turns : t # Disk
  BY TurnStateAssumption
<1> QED BY <1>1, NoneAssumption DEF Objects, Copy, Loaded, Fresh

\* What storing ws and deleting ds does where the provider keeps copies.
Stores(ws, ds, value) ==
  /\ \A k \in Keys : store'[k] = IF k \in ds THEN None ELSE IF k \in ws THEN Copy(k) ELSE store[k]
  /\ heap' \in [Objects -> ObjectValue] /\ nextTag' \in Nat /\ nextTag <= nextTag'
  /\ \A o \in Objects : heap'[o].eTag < nextTag'
  /\ \A u \in Turns, k \in Keys : /\ heap'[Loaded(u, k)] = heap[Loaded(u, k)]
                                  /\ heap'[Fresh(u, k)] = heap[Fresh(u, k)]
  /\ \A k \in ws : heap'[Copy(k)].marks = value[k].marks /\ heap'[Copy(k)].eTag >= nextTag
  /\ \A k \in Keys \ ws : heap'[Copy(k)] = heap[Copy(k)]
  /\ touched \subseteq touched' /\ touched' \subseteq Turns \X Keys
  /\ \A u \in Turns, k \in ws \union ds : k \notin toRead[u] => <<u, k>> \in touched'

\* A provider other than the file stores copies.
LEMMA PutCopies ==
  ASSUME TypeOK, provider # "file", NEW t \in Turns, NEW ws \in SUBSET Keys,
         NEW ds \in SUBSET Keys, NEW value \in [Keys -> ObjectValue], NEW ref,
         Put(t, ws, ds, value, ref)
  PROVE  Stores(ws, ds, value)
<1> USE DEF ObjectValue
<1>1. /\ store' = [k \in Keys |-> IF k \in ds THEN None
                                   ELSE IF k \notin ws THEN store[k] ELSE Copy(k)]
      /\ heap' = [o \in Objects |->
           IF o[1] = Disk /\ o[2] \in ws
             THEN [marks |-> value[o[2]].marks, eTag |-> nextTag + Position(o[2], ws)]
             ELSE heap[o]]
      /\ nextTag' = nextTag + Cardinality(ws)
      /\ touched' = touched \union {r \in Turns \X (ws \union ds) : r[2] \notin toRead[r[1]]}
  BY DEF Put
<1>2. /\ heap \in [Objects -> ObjectValue] /\ \A o \in Objects : heap[o].eTag < nextTag
      /\ touched \subseteq Turns \X Keys
  BY DEF TypeOK
<1>3. nextTag \in Nat
  BY DEF TypeOK
<1>4. Cardinality(ws) \in Nat
      /\ \A k \in ws : Position(k, ws) \in Nat /\ Position(k, ws) < Cardinality(ws)
  BY PositionBound
<1>5. nextTag' \in Nat /\ nextTag <= nextTag'
  BY <1>1, <1>3, <1>4
<1>6. ASSUME NEW o \in Objects
      PROVE  heap'[o] \in ObjectValue /\ heap'[o].eTag < nextTag'
  <2>1. CASE o[1] = Disk /\ o[2] \in ws
    <3>1. heap'[o] = [marks |-> value[o[2]].marks, eTag |-> nextTag + Position(o[2], ws)]
      BY <1>1, <2>1
    <3>2. value[o[2]].marks \in SUBSET Turns
      BY <2>1
    <3> QED BY <1>1, <1>3, <1>4, <2>1, <3>1, <3>2
  <2>2. CASE ~(o[1] = Disk /\ o[2] \in ws)
    <3>1. heap'[o] = heap[o]
      BY <1>1, <2>2
    <3>2. heap[o].eTag \in Nat
      BY <1>2
    <3> QED BY <1>2, <1>3, <1>5, <3>1, <3>2
  <2> QED BY <2>1, <2>2
<1>7. heap' \in [Objects -> ObjectValue]
  BY <1>1, <1>6
<1>8. ASSUME NEW u \in Turns, NEW k \in Keys
      PROVE  heap'[Loaded(u, k)] = heap[Loaded(u, k)] /\ heap'[Fresh(u, k)] = heap[Fresh(u, k)]
  BY <1>1, ObjectFacts
<1>9. ASSUME NEW k \in Keys
      PROVE  /\ k \in ws => /\ heap'[Copy(k)].marks = value[k].marks
                            /\ heap'[Copy(k)].eTag >= nextTag
             /\ k \notin ws => heap'[Copy(k)] = heap[Copy(k)]
  <2>1. Copy(k) \in Objects /\ Copy(k)[1] = Disk /\ Copy(k)[2] = k
    BY ObjectFacts
  <2>2. heap'[Copy(k)] = IF k \in ws
            THEN [marks |-> value[k].marks, eTag |-> nextTag + Position(k, ws)] ELSE heap[Copy(k)]
    BY <1>1, <2>1
  <2> QED BY <1>3, <1>4, <2>2
<1>10. touched \subseteq touched' /\ touched' \subseteq Turns \X Keys
  BY <1>1, <1>2
<1>11. \A u \in Turns, k \in ws \union ds : k \notin toRead[u] => <<u, k>> \in touched'
  BY <1>1
<1> QED BY <1>1, <1>5, <1>6, <1>7, <1>8, <1>9, <1>10, <1>11 DEF Stores

\* Storing keeps every outstanding value vouched for.
LEMMA StoresVouches ==
  ASSUME TypeOK, provider # "file", NEW ws \in SUBSET Keys, NEW ds \in SUBSET Keys, NEW value,
         Stores(ws, ds, value), toRead' = toRead,
         NEW u \in Turns, NEW k \in Keys, NEW v \in ObjectValue,
         v.eTag < nextTag, k \in toRead[u] => v.eTag = 0, Vouched(u, k, v)
  PROVE  Vouched(u, k, v)'
<1> SUFFICES ASSUME v.eTag # 0
             PROVE  /\ store'[k] # None /\ v.eTag = heap'[store'[k]].eTag
                         => heap'[store'[k]].marks \subseteq v.marks
                    /\ <<u, k>> \notin touched' => store'[k] # None
                                                   /\ v.eTag = heap'[store'[k]].eTag
  BY DEF Vouched, Item
<1>1. /\ store'[k] = IF k \in ds THEN None ELSE IF k \in ws THEN Copy(k) ELSE store[k]
      /\ heap' \in [Objects -> ObjectValue]
      /\ k \in ws => heap'[Copy(k)].eTag >= nextTag
      /\ k \notin ws => heap'[Copy(k)] = heap[Copy(k)]
      /\ touched \subseteq touched'
      /\ k \in ws \union ds /\ k \notin toRead[u] => <<u, k>> \in touched'
  BY DEF Stores
<1>2. store[k] # None => store[k] = Copy(k)
  BY DEF TypeOK
<1>3. CASE k \in ws \union ds
  <2>1. <<u, k>> \in touched'
    BY <1>1, <1>3
  <2>2. store'[k] # None => heap'[store'[k]].eTag >= nextTag
    BY <1>1, <1>3
  <2>3. store'[k] # None => v.eTag # heap'[store'[k]].eTag
    <3>1. nextTag \in Nat /\ v.eTag \in Nat
      BY DEF TypeOK, ObjectValue
    <3>2. store'[k] # None => heap'[store'[k]].eTag \in Nat
      BY <1>1, <1>3, ObjectFacts DEF ObjectValue
    <3> QED BY <2>2, <3>1, <3>2
  <2> QED BY <2>1, <2>3
<1>4. CASE k \notin ws \union ds
  <2>1. store'[k] = store[k] /\ (store[k] # None => heap'[store[k]] = heap[store[k]])
    BY <1>1, <1>2, <1>4
  <2>2. /\ store[k] # None /\ v.eTag = heap[store[k]].eTag => heap[store[k]].marks \subseteq v.marks
        /\ <<u, k>> \notin touched => store[k] # None /\ v.eTag = heap[store[k]].eTag
    BY DEF Vouched, Item
  <2> QED BY <1>1, <2>1, <2>2
<1> QED BY <1>3, <1>4

\* A write that is accepted, of values that are vouched for, loses nothing.
LEMMA PutLosesNothing ==
  ASSUME NEW t \in Turns, NEW ws \in SUBSET Keys, NEW ds, NEW value, NEW ref,
         Put(t, ws, ds, value, ref),
         provider # "file" => \A k \in ws : Accepts(k, value[k]) /\ Vouched(t, k, value[k])
  PROVE  lost' = lost
<1>1. lost' = lost \union
        UNION {{<<m, k>> : m \in Item(k).marks \ value[k].marks} :
               k \in {j \in ws : store[j] # None /\ value[j].eTag # 0 /\ provider # "file"}}
  BY DEF Put
<1>2. ASSUME NEW k \in ws, store[k] # None, value[k].eTag # 0, provider # "file"
      PROVE  Item(k).marks \ value[k].marks = {}
  <2>1. value[k].eTag = Item(k).eTag
    BY <1>2 DEF Accepts
  <2> QED BY <1>2, <2>1 DEF Vouched
<1> QED BY <1>1, <1>2

-----------------------------------------------------------------------------
(* Initial states, and steps that leave the store alone.                   *)

\* The initial states satisfy the invariant.
LEMMA InitIInv == Init => IInv
<1> SUFFICES ASSUME Init PROVE IInv
  OBVIOUS
<1> USE DEF Init
<1>1. \A o \in Objects : heap[o] \in ObjectValue /\ heap[o].eTag < 2 /\ heap[o].marks = {}
  BY DEF ObjectValue, Empty
<1>2. \A t \in Turns, k \in Keys : heap[Loaded(t, k)] = Empty /\ heap[Fresh(t, k)] = Empty
  BY ObjectFacts
<1>3. provider \in Providers /\ OwnSaves[provider] \in Nat /\ Edits \in Nat
  BY TurnStateAssumption
<1>4. TypeOK
  <2>1. \A k \in Keys : store[k] # None => store[k] = Copy(k)
    OBVIOUS
  <2>2. Empty \in ObjectValue
    BY DEF Empty, ObjectValue
  <2>3. heap \in [Objects -> ObjectValue] /\ nextTag \in Nat /\ \A o \in Objects : heap[o].eTag < nextTag
    BY <1>1
  <2>4. entry \in [Turns -> [Keys -> [ref : Objects, deleted : BOOLEAN, hash : ObjectValue]]]
    BY <2>2, ObjectFacts
  <2> QED BY <1>3, <2>1, <2>3, <2>4, ObjectFacts DEF TypeOK
<1>5. OpsInv
  BY DEF OpsInv
<1>6. TurnInv
  BY <1>3 DEF TurnInv
<1>7. AwaitInv
  BY DEF AwaitInv
<1>8. CopyInv
  <2> SUFFICES ASSUME NEW k \in Keys
               PROVE  /\ heap[Copy(k)].marks \subseteq Savers
                      /\ \A t \in Turns :
                           /\ entry[t][k].ref \in {Loaded(t, k), Fresh(t, k)}
                           /\ heap[Fresh(t, k)].eTag = 0
                           /\ k \in toRead[t] => heap[Loaded(t, k)].eTag = 0
                           /\ Vouched(t, k, heap[Loaded(t, k)])
                           /\ heap[Loaded(t, k)].marks \subseteq {t} \union Savers
                           /\ heap[Fresh(t, k)].marks \subseteq {t} \union Savers
    BY DEF CopyInv
  <2>1. heap[Copy(k)].marks = {}
    BY <1>1, ObjectFacts
  <2>2. Empty.eTag = 0 /\ Empty.marks = {}
    BY DEF Empty
  <2>3. ASSUME NEW t \in Turns
        PROVE  /\ entry[t][k].ref = Loaded(t, k)
               /\ heap[Loaded(t, k)].eTag = 0 /\ heap[Loaded(t, k)].marks = {}
               /\ heap[Fresh(t, k)].eTag = 0 /\ heap[Fresh(t, k)].marks = {}
    <3>1. entry[t][k].ref = Loaded(t, k)
      OBVIOUS
    <3> QED BY <1>2, <2>2, <3>1
  <2>4. \A t \in Turns : Vouched(t, k, heap[Loaded(t, k)])
    BY <2>3 DEF Vouched
  <2> HIDE DEF Init
  <2> QED BY <2>1, <2>3, <2>4
<1>9. RequestInv
  BY DEF RequestInv
<1>10. TagsGuardWrites
  BY DEF TagsGuardWrites, NoLostUpdate, RefusedMeansStale
<1>11. SavedMeansStored
  BY DEF SavedMeansStored, SaveEndsWithAll, PartialSavesArePrefixes
<1> QED BY <1>4, <1>5, <1>6, <1>7, <1>8, <1>9, <1>10, <1>11 DEF IInv

\* Where neither the store nor its copies change, values stay vouched for.
LEMMA SameStoreVouches ==
  ASSUME TypeOK, provider # "file", store' = store, touched' = touched, NEW k \in Keys,
         heap'[Copy(k)] = heap[Copy(k)], NEW u, NEW v, Vouched(u, k, v)
  PROVE  Vouched(u, k, v)'
BY DEF TypeOK, Vouched, Item

\* A step of one turn that changes nothing but where it is.
LEMMA QuietIInv ==
  ASSUME IInv, NEW t \in Turns, NEW to \in {"running", "done", "ended"},
         pc' = [pc EXCEPT ![t] = to],
         to # "ended" => toRead[t] = {},
         to = "running" => saves[t] <= OwnSaves[provider],
         UNCHANGED <<provider, storeVars, toRead, entry, edits, ops, saves, asked, stored, history>>
  PROVE  IInv'
<1> USE DEF storeVars, history
<1>1. TypeOK'
  BY DEF IInv, TypeOK, Item
<1>2. OpsInv'
  BY DEF IInv, OpsInv
<1>3. TurnInv'
  BY DEF IInv, TypeOK, TurnInv
<1>4. AwaitInv'
  BY DEF IInv, TypeOK, AwaitInv
<1>5. CopyInv'
  BY DEF IInv, CopyInv, Vouched, Item, Savers
<1>6. RequestInv'
  BY DEF IInv, RequestInv, Vouched, Item, Savers
<1>7. TagsGuardWrites'
  BY DEF IInv, TagsGuardWrites, NoLostUpdate, RefusedMeansStale
<1>8. SavedMeansStored'
  BY DEF IInv, TypeOK, SavedMeansStored, SaveEndsWithAll, PartialSavesArePrefixes
<1> QED BY <1>1, <1>2, <1>3, <1>4, <1>5, <1>6, <1>7, <1>8 DEF IInv

\* Load keeps the invariant.
LEMMA LoadIInv == ASSUME IInv, NEW t \in Turns, Load(t) PROVE IInv'
<1>1. PICK ks \in SUBSET toRead[t] :
        /\ ks # {}
        /\ Fetch(t, ks)
        /\ toRead' = [toRead EXCEPT ![t] = @ \ ks]
        /\ \E next \in IF toRead[t] = ks THEN {"before", "ended"} ELSE {"loading"} :
             pc' = [pc EXCEPT ![t] = next]
  BY DEF Load
<1>2. /\ pc[t] \in {"idle", "loading"}
      /\ UNCHANGED <<provider, store, nextTag, edits, ops, saves, asked, stored, history>>
  BY DEF Load
<1>3. TypeOK /\ ks \subseteq Keys /\ toRead \in [Turns -> SUBSET Keys]
  BY DEF IInv, TypeOK
<1>4. /\ pc' \in [Turns -> {"idle", "loading", "before", "running", "saving", "stopped", "saved",
                            "done", "ended"}]
      /\ \A u \in Turns \ {t} : pc'[u] = pc[u] /\ toRead'[u] = toRead[u] /\ entry'[u] = entry[u]
      /\ pc'[t] \in {"before", "loading", "ended"} /\ (pc'[t] = "before" => toRead'[t] = {})
      /\ toRead' \in [Turns -> SUBSET Keys] /\ toRead'[t] = toRead[t] \ ks
  BY <1>1, <1>3 DEF Fetch, TypeOK
<1>5. \A k \in Keys : store[k] # None => store[k] \in Objects /\ Item(k) \in ObjectValue
                                          /\ Item(k).eTag < nextTag
  BY <1>3, ObjectFacts DEF TypeOK, Item
<1>6. heap' = [o \in Objects |->
       IF \E k \in ks : o = Loaded(t, k) /\ store[k] # None /\ ~Aliases(k)
         THEN Item(o[2]) ELSE heap[o]]
  BY <1>1 DEF Fetch
<1>7. ASSUME NEW o \in Objects PROVE heap'[o] \in ObjectValue /\ heap'[o].eTag < nextTag
  <2>1. CASE \E k \in ks : o = Loaded(t, k) /\ store[k] # None /\ ~Aliases(k)
    <3>1. PICK k \in ks : o = Loaded(t, k) /\ store[k] # None
      BY <2>1
    <3>2. o[2] = k
      BY <3>1 DEF Loaded
    <3>3. heap'[o] = Item(k)
      BY <1>6, <2>1, <3>2
    <3> QED BY <1>3, <1>5, <3>1, <3>3
  <2>2. CASE ~\E k \in ks : o = Loaded(t, k) /\ store[k] # None /\ ~Aliases(k)
    <3>1. heap'[o] = heap[o]
      BY <1>6, <2>2
    <3> QED BY <1>3, <3>1 DEF TypeOK
  <2> QED BY <2>1, <2>2
<1>8. ASSUME NEW k \in Keys
      PROVE  entry'[t][k] \in [ref : Objects, deleted : BOOLEAN, hash : ObjectValue]
  <2>1. entry'[t][k] = IF k \notin ks THEN entry[t][k]
            ELSE [ref     |-> IF Aliases(k) THEN store[k] ELSE Loaded(t, k),
                  deleted |-> FALSE,
                  hash    |-> IF store[k] # None THEN Item(k) ELSE Empty]
    BY <1>1, <1>3 DEF Fetch, TypeOK
  <2>2. Aliases(k) => store[k] \in Objects
    BY <1>5 DEF Aliases
  <2>3. Empty \in ObjectValue /\ Loaded(t, k) \in Objects
    BY ObjectFacts DEF Empty, ObjectValue
  <2>4. CASE k \notin ks
    BY <1>3, <2>1, <2>4 DEF TypeOK
  <2>5. CASE k \in ks
    <3>1. (IF store[k] # None THEN Item(k) ELSE Empty) \in ObjectValue
      BY <1>5, <2>3
    <3>2. (IF Aliases(k) THEN store[k] ELSE Loaded(t, k)) \in Objects
      BY <2>2, <2>3
    <3> QED BY <2>1, <2>5, <3>1, <3>2
  <2> QED BY <2>4, <2>5
<1>9. entry' \in [Turns -> [Keys -> [ref : Objects, deleted : BOOLEAN, hash : ObjectValue]]]
  <2> DEFINE Entry == [ref : Objects, deleted : BOOLEAN, hash : ObjectValue]
             new == [k \in Keys |->
                       IF k \notin ks THEN entry[t][k]
                       ELSE [ref     |-> IF Aliases(k) THEN store[k] ELSE Loaded(t, k),
                             deleted |-> FALSE,
                             hash    |-> IF store[k] # None THEN Item(k) ELSE Empty]]
  <2>1. entry' = [entry EXCEPT ![t] = new] /\ entry \in [Turns -> [Keys -> Entry]]
    BY <1>1, <1>3 DEF Fetch, TypeOK
  <2>2. entry'[t] = new
    BY <2>1
  <2>3. \A k \in Keys : new[k] \in Entry
    BY <1>8, <2>2
  <2> HIDE DEF Entry
  <2>4. new \in [Keys -> Entry]
    BY <2>3
  <2> HIDE DEF new
  <2>5. entry' \in [Turns -> [Keys -> Entry]]
    BY <2>1, <2>4
  <2> QED BY <2>5 DEF Entry
<1>10. TypeOK'
  <2>1. heap' \in [Objects -> ObjectValue]
    BY <1>6, <1>7
  <2> QED BY <1>2, <1>3, <1>4, <1>7, <1>9, <2>1 DEF TypeOK, history
<1>11. OpsInv'
  <2>1. \A o \in ops : toRead[o.turn] = {} /\ o.turn # t
    BY <1>1 DEF IInv, OpsInv
  <2> QED BY <1>2, <1>4, <2>1 DEF IInv, OpsInv, Operation
<1>12. TurnInv'
  BY <1>2, <1>4 DEF IInv, TurnInv
<1>13. AwaitInv'
  BY <1>2, <1>4 DEF IInv, AwaitInv
<1>14. ASSUME provider # "file"
       PROVE  \A k \in Keys : /\ heap'[Copy(k)] = heap[Copy(k)]
                              /\ \A u \in Turns : heap'[Fresh(u, k)] = heap[Fresh(u, k)]
                              /\ \A u \in Turns :
                                   heap'[Loaded(u, k)] = IF u = t /\ k \in ks /\ store[k] # None
                                                           THEN Item(k) ELSE heap[Loaded(u, k)]
  <2> SUFFICES ASSUME NEW k \in Keys, NEW u \in Turns
               PROVE  /\ heap'[Copy(k)] = heap[Copy(k)]
                      /\ heap'[Fresh(u, k)] = heap[Fresh(u, k)]
                      /\ heap'[Loaded(u, k)] = IF u = t /\ k \in ks /\ store[k] # None
                                                 THEN Item(k) ELSE heap[Loaded(u, k)]
    BY <1>6, ObjectFacts DEF Copy, Loaded
  <2>1. /\ \A j \in ks : Copy(k) # Loaded(t, j) /\ Fresh(u, k) # Loaded(t, j)
        /\ \A j \in ks : Loaded(u, k) = Loaded(t, j) <=> u = t /\ j = k
        /\ ~Aliases(k) /\ Loaded(u, k)[2] = k
    BY <1>3, <1>14 DEF Copy, Loaded, Fresh, Aliases
  <2>2. heap'[Copy(k)] = heap[Copy(k)] /\ heap'[Fresh(u, k)] = heap[Fresh(u, k)]
    BY <1>6, <2>1, ObjectFacts
  <2>3. (\E j \in ks : Loaded(u, k) = Loaded(t, j) /\ store[j] # None /\ ~Aliases(j))
          <=> (u = t /\ k \in ks /\ store[k] # None)
    BY <1>3, <2>1
  <2> QED BY <1>6, <2>1, <2>2, <2>3, ObjectFacts
<1>15. ASSUME provider # "file", NEW k \in Keys, NEW u \in Turns
       PROVE  /\ entry'[u][k].ref \in {Loaded(u, k), Fresh(u, k)}
              /\ k \in toRead'[u] => heap'[Loaded(u, k)].eTag = 0
              /\ Vouched(u, k, heap[Loaded(u, k)])'
              /\ heap'[Loaded(u, k)].marks \subseteq {u} \union Savers
  <2>1. /\ entry[u][k].ref \in {Loaded(u, k), Fresh(u, k)}
        /\ k \in toRead[u] => heap[Loaded(u, k)].eTag = 0
        /\ Vouched(u, k, heap[Loaded(u, k)])
        /\ heap[Loaded(u, k)].marks \subseteq {u} \union Savers
        /\ heap[Copy(k)].marks \subseteq Savers
    BY <1>15 DEF IInv, CopyInv
  <2>2. CASE u = t /\ k \in ks
    <3>1. entry'[t][k].ref = Loaded(t, k)
      BY <1>1, <1>3, <1>15, <2>2 DEF Fetch, TypeOK, Aliases
    <3>2. k \notin toRead'[t]
      BY <1>4, <2>2
    <3>3. CASE store[k] # None
      <4>1. store[k] = Copy(k) /\ heap'[Copy(k)] = heap[Copy(k)]
            /\ heap'[Loaded(t, k)] = heap[Copy(k)]
        BY <1>3, <1>14, <1>15, <2>2, <3>3 DEF TypeOK, Item
      <4>2. Vouched(t, k, heap[Loaded(t, k)])'
        BY <1>2, <3>3, <4>1 DEF Vouched, Item
      <4>3. heap'[Loaded(t, k)].marks \subseteq {t} \union Savers
        BY <2>1, <4>1
      <4> QED BY <2>2, <3>1, <3>2, <4>2, <4>3
    <3>4. CASE store[k] = None
      <4>1. heap'[Loaded(t, k)] = heap[Loaded(t, k)] /\ heap[Loaded(t, k)].eTag = 0
        BY <1>14, <1>15, <2>1, <2>2, <3>4
      <4> QED BY <2>1, <2>2, <3>1, <3>2, <4>1 DEF Vouched
    <3> QED BY <3>3, <3>4
  <2>3. CASE ~(u = t /\ k \in ks)
    <3>1. heap'[Loaded(u, k)] = heap[Loaded(u, k)] /\ heap'[Copy(k)] = heap[Copy(k)]
      BY <1>14, <1>15, <2>3
    <3>2. entry'[u][k] = entry[u][k]
      BY <1>1, <1>3, <2>3 DEF Fetch, TypeOK
    <3>3. toRead'[u] \subseteq toRead[u]
      BY <1>4
    <3>4. Vouched(u, k, heap[Loaded(u, k)])'
      BY <1>2, <1>3, <1>15, <2>1, <3>1 DEF TypeOK, Vouched, Item, history
    <3> QED BY <2>1, <3>1, <3>2, <3>3, <3>4
  <2> QED BY <2>2, <2>3
<1>16. CopyInv'
  <2>1. Savers' = Savers
    BY <1>2 DEF Savers
  <2>2. ASSUME provider # "file", NEW k \in Keys PROVE heap'[Copy(k)].marks \subseteq Savers'
    BY <1>14, <2>1, <2>2 DEF IInv, CopyInv
  <2>3. ASSUME provider # "file", NEW k \in Keys, NEW u \in Turns
        PROVE  /\ heap'[Fresh(u, k)].eTag = 0
               /\ heap'[Fresh(u, k)].marks \subseteq {u} \union Savers'
    BY <1>14, <2>1, <2>3 DEF IInv, CopyInv
  <2> QED BY <1>2, <1>15, <2>1, <2>2, <2>3 DEF CopyInv
<1>17. RequestInv'
  <2> SUFFICES ASSUME NEW o \in ops
               PROVE  Vouched(o.turn, o.key, o.value)' /\ o.value.marks \subseteq Savers'
    BY <1>2 DEF RequestInv
  <2>1. provider = "cosmos" /\ o.key \in Keys
    BY DEF IInv, OpsInv, Operation
  <2>2. heap'[Copy(o.key)] = heap[Copy(o.key)]
    BY <1>14, <2>1
  <2>3. Vouched(o.turn, o.key, o.value) /\ o.value.marks \subseteq Savers
    BY DEF IInv, RequestInv
  <2> QED BY <1>2, <1>3, <2>1, <2>2, <2>3, SameStoreVouches DEF Savers, history
<1>18. TagsGuardWrites'
  BY <1>2 DEF IInv, TagsGuardWrites, NoLostUpdate, RefusedMeansStale, history
<1>19. SavedMeansStored'
  BY <1>2, <1>4 DEF IInv, SavedMeansStored, SaveEndsWithAll, PartialSavesArePrefixes
<1> QED BY <1>10, <1>11, <1>12, <1>13, <1>16, <1>17, <1>18, <1>19 DEF IInv

\* Edit keeps the invariant.
LEMMA EditIInv == ASSUME IInv, NEW t \in Turns, Edit(t) PROVE IInv'
<1>1. PICK edit \in [Keys -> {"keep", "set", "replace", "delete"}] :
        /\ \A k \in Keys : NeedsNewObject(t, k, edit[k]) => entry[t][k].ref # Fresh(t, k)
        /\ entry' = [entry EXCEPT ![t] = [k \in Keys |-> EditedEntry(t, k, edit[k])]]
        /\ heap' = [o \in Objects |->
             IF \E k \in Keys : edit[k] \in {"set", "replace"}
                                /\ o = EditedEntry(t, k, edit[k]).ref
               THEN [heap[o] EXCEPT !.marks = @ \union {t}] ELSE heap[o]]
  BY DEF Edit
<1>2. /\ pc[t] \in {"before", "running"} /\ edits[t] < Edits
      /\ edits' = [edits EXCEPT ![t] = @ + 1]
      /\ UNCHANGED <<provider, store, nextTag, pc, toRead, ops, saves, asked, stored, history>>
  BY DEF Edit, Running
<1>3. TypeOK
  BY DEF IInv
<1> DEFINE Entry == [ref : Objects, deleted : BOOLEAN, hash : ObjectValue]
           new == [k \in Keys |-> EditedEntry(t, k, edit[k])]
           edited(o) == \E k \in Keys : edit[k] \in {"set", "replace"}
                                        /\ o = EditedEntry(t, k, edit[k]).ref
<1>4. entry \in [Turns -> [Keys -> Entry]] /\ heap \in [Objects -> ObjectValue]
  BY <1>3 DEF TypeOK
<1>5. ASSUME NEW k \in Keys
      PROVE  /\ EditedEntry(t, k, edit[k]) \in Entry
             /\ EditedEntry(t, k, edit[k]).ref \in {entry[t][k].ref, Fresh(t, k)}
  <2>1. entry[t][k] \in Entry /\ Fresh(t, k) \in Objects
    BY <1>4, ObjectFacts
  <2>2. EditedEntry(t, k, edit[k]).ref \in {entry[t][k].ref, Fresh(t, k)}
    BY DEF EditedEntry, Target
  <2>3. EditedEntry(t, k, edit[k]).hash = entry[t][k].hash
        /\ EditedEntry(t, k, edit[k]).deleted \in BOOLEAN
    BY DEF EditedEntry
  <2>4. EditedEntry(t, k, edit[k]) = [ref |-> EditedEntry(t, k, edit[k]).ref,
                                      deleted |-> EditedEntry(t, k, edit[k]).deleted,
                                      hash |-> EditedEntry(t, k, edit[k]).hash]
    BY DEF EditedEntry
  <2> HIDE DEF Entry
  <2>5. entry[t][k].ref \in Objects /\ entry[t][k].hash \in ObjectValue
    BY <2>1 DEF Entry
  <2>6. EditedEntry(t, k, edit[k]) \in Entry
    BY <2>1, <2>2, <2>3, <2>4, <2>5 DEF Entry
  <2> QED BY <2>2, <2>6
<1>6. entry' \in [Turns -> [Keys -> Entry]] /\ \A u \in Turns \ {t} : entry'[u] = entry[u]
  <2> HIDE DEF Entry
  <2>1. new \in [Keys -> Entry]
    BY <1>5
  <2>2. entry' = [entry EXCEPT ![t] = new]
    BY <1>1
  <2> HIDE DEF new
  <2> QED BY <1>4, <2>1, <2>2
<1>7. \A k \in Keys : entry'[t][k].ref \in {entry[t][k].ref, Fresh(t, k)}
  BY <1>1, <1>4, <1>5
<1>8. ASSUME NEW o \in Objects
      PROVE  /\ heap'[o] \in ObjectValue /\ heap'[o].eTag = heap[o].eTag
             /\ heap[o].marks \subseteq heap'[o].marks
             /\ heap'[o].marks \subseteq heap[o].marks \union {t}
             /\ ~edited(o) => heap'[o] = heap[o]
  <2>1. heap'[o] = IF edited(o) THEN [heap[o] EXCEPT !.marks = @ \union {t}] ELSE heap[o]
    BY <1>1
  <2> HIDE DEF edited
  <2>2. heap[o] \in ObjectValue
    BY <1>4
  <2>3. CASE edited(o)
    <3>1. heap'[o] = [heap[o] EXCEPT !.marks = @ \union {t}]
      BY <2>1, <2>3
    <3> QED BY <2>2, <2>3, <3>1 DEF ObjectValue
  <2>4. CASE ~edited(o)
    BY <2>1, <2>2, <2>4
  <2> QED BY <2>3, <2>4
<1>9. heap' \in [Objects -> ObjectValue] /\ \A o \in Objects : heap'[o].eTag < nextTag
  <2>1. heap' \in [Objects -> ObjectValue]
    BY <1>1, <1>8
  <2> QED BY <1>3, <1>8, <2>1 DEF TypeOK
<1>10. TypeOK'
  <2>1. edits' \in [Turns -> 0..Edits]
    BY <1>2, <1>3, TurnStateAssumption DEF TypeOK
  <2>2. /\ provider \in Providers
        /\ \A k \in Keys : store[k] # None => IF provider = "file" THEN store[k] \in Objects
                                                                  ELSE store[k] = Copy(k)
        /\ nextTag \in Nat
        /\ \A o \in ops : o.turn \in Turns /\ <<o.key, o.op>> \in AnyRequest /\ o.save <= saves[o.turn]
        /\ saves \in [Turns -> 0..(OwnSaves[provider] + 1)]
    BY <1>3 DEF TypeOK
  <2> QED BY <1>2, <1>3, <1>6, <1>9, <2>1, <2>2 DEF TypeOK, history
<1>11. OpsInv' /\ TurnInv' /\ AwaitInv'
  BY <1>2 DEF IInv, OpsInv, TurnInv, AwaitInv
<1>12. ASSUME provider # "file", NEW k \in Keys
       PROVE  /\ heap'[Copy(k)] = heap[Copy(k)]
              /\ \A u \in Turns \ {t} : /\ heap'[Loaded(u, k)] = heap[Loaded(u, k)]
                                        /\ heap'[Fresh(u, k)] = heap[Fresh(u, k)]
  <2>1. \A j \in Keys : EditedEntry(t, j, edit[j]).ref \in {Loaded(t, j), Fresh(t, j)}
    BY <1>5, <1>12 DEF IInv, CopyInv
  <2>2. \A o \in Objects : o[1] # t => ~edited(o)
    BY <2>1, ObjectFacts
  <2> HIDE DEF edited
  <2>3. \A o \in Objects : o[1] # t => heap'[o] = heap[o]
    BY <1>8, <2>2
  <2> QED BY <2>3, ObjectFacts
<1>13. CopyInv'
  <2> SUFFICES ASSUME provider # "file", NEW k \in Keys, NEW u \in Turns
               PROVE  /\ heap'[Copy(k)].marks \subseteq Savers'
                      /\ entry'[u][k].ref \in {Loaded(u, k), Fresh(u, k)}
                      /\ heap'[Fresh(u, k)].eTag = 0
                      /\ k \in toRead'[u] => heap'[Loaded(u, k)].eTag = 0
                      /\ Vouched(u, k, heap[Loaded(u, k)])'
                      /\ heap'[Loaded(u, k)].marks \subseteq {u} \union Savers'
                      /\ heap'[Fresh(u, k)].marks \subseteq {u} \union Savers'
    BY <1>2, <1>12 DEF CopyInv, IInv, Savers
  <2>1. Savers' = Savers
    BY <1>2 DEF Savers
  <2>2. /\ heap[Copy(k)].marks \subseteq Savers
        /\ entry[u][k].ref \in {Loaded(u, k), Fresh(u, k)}
        /\ heap[Fresh(u, k)].eTag = 0
        /\ k \in toRead[u] => heap[Loaded(u, k)].eTag = 0
        /\ Vouched(u, k, heap[Loaded(u, k)])
        /\ heap[Loaded(u, k)].marks \subseteq {u} \union Savers
        /\ heap[Fresh(u, k)].marks \subseteq {u} \union Savers
    BY DEF IInv, CopyInv
  <2>3. heap'[Copy(k)] = heap[Copy(k)]
    BY <1>12
  <2>4. Loaded(u, k) \in Objects /\ Fresh(u, k) \in Objects
    BY ObjectFacts
  <2>5. entry'[u][k].ref \in {Loaded(u, k), Fresh(u, k)}
    <3>1. CASE u = t
      BY <1>7, <2>2, <3>1
    <3>2. CASE u # t
      BY <1>6, <2>2, <3>2
    <3> QED BY <3>1, <3>2
  <2>6. /\ heap'[Loaded(u, k)].eTag = heap[Loaded(u, k)].eTag
        /\ heap'[Fresh(u, k)].eTag = heap[Fresh(u, k)].eTag
        /\ heap[Loaded(u, k)].marks \subseteq heap'[Loaded(u, k)].marks
    BY <1>8, <2>4
  <2>7. Vouched(u, k, heap[Loaded(u, k)])'
    <3>1. store'[k] # None => store[k] = Copy(k)
      BY <1>2, <1>3 DEF TypeOK
    <3> QED BY <1>2, <2>2, <2>3, <2>6, <3>1 DEF Vouched, Item, history
  <2>8. heap'[Loaded(u, k)].marks \subseteq {u} \union Savers
        /\ heap'[Fresh(u, k)].marks \subseteq {u} \union Savers
    <3>1. CASE u = t
      BY <1>8, <2>2, <2>4, <3>1
    <3>2. CASE u # t
      BY <1>12, <2>2, <3>2
    <3> QED BY <3>1, <3>2
  <2> QED BY <1>2, <2>1, <2>2, <2>3, <2>5, <2>6, <2>7, <2>8
<1>14. RequestInv'
  <2> SUFFICES ASSUME NEW o \in ops
               PROVE  Vouched(o.turn, o.key, o.value)' /\ o.value.marks \subseteq Savers'
    BY <1>2 DEF RequestInv
  <2>1. provider = "cosmos" /\ o.key \in Keys
    BY DEF IInv, OpsInv, Operation
  <2>2. heap'[Copy(o.key)] = heap[Copy(o.key)]
    BY <1>12, <2>1
  <2>3. Vouched(o.turn, o.key, o.value) /\ o.value.marks \subseteq Savers
    BY DEF IInv, RequestInv
  <2> QED BY <1>2, <1>3, <2>1, <2>2, <2>3, SameStoreVouches DEF Savers, history
<1>15. TagsGuardWrites' /\ SavedMeansStored'
  BY <1>2 DEF IInv, TagsGuardWrites, NoLostUpdate, RefusedMeansStale, history, SavedMeansStored,
              SaveEndsWithAll, PartialSavesArePrefixes
<1> QED BY <1>10, <1>11, <1>13, <1>14, <1>15 DEF IInv

-----------------------------------------------------------------------------
(* A save.                                                                 *)

\* What a turn may write where the provider keeps copies.
LEMMA ValueVouched ==
  ASSUME IInv, provider # "file", NEW t \in Turns, NEW k \in Keys
  PROVE  Vouched(t, k, Value(t, k)) /\ Value(t, k).marks \subseteq {t} \union Savers
<1>1. /\ entry[t][k].ref \in {Loaded(t, k), Fresh(t, k)}
      /\ heap[Fresh(t, k)].eTag = 0 /\ Vouched(t, k, heap[Loaded(t, k)])
      /\ heap[Loaded(t, k)].marks \subseteq {t} \union Savers
      /\ heap[Fresh(t, k)].marks \subseteq {t} \union Savers
  BY DEF IInv, CopyInv
<1>2. Vouched(t, k, heap[Fresh(t, k)])
  BY <1>1 DEF Vouched
<1> QED BY <1>1, <1>2 DEF Value

\* What a turn holds of a key has a value.
LEMMA ValueType ==
  ASSUME TypeOK, NEW t \in Turns, NEW k \in Keys
  PROVE  Value(t, k) \in ObjectValue /\ Value(t, k).eTag < nextTag /\ entry[t][k].ref \in Objects
BY DEF TypeOK, Value

\* Storing accepted values keeps the objects of the turns vouched for.
LEMMA CopyStores ==
  ASSUME IInv, provider # "file", NEW ws \in SUBSET Keys, NEW ds \in SUBSET Keys, NEW value,
         Stores(ws, ds, value), UNCHANGED <<provider, toRead, entry>>,
         Savers \subseteq Savers', \A k \in ws : value[k].marks \subseteq Savers'
  PROVE  CopyInv'
<1>1. TypeOK
  BY DEF IInv
<1>2. ASSUME NEW k \in Keys PROVE heap'[Copy(k)].marks \subseteq Savers'
  <2>1. heap[Copy(k)].marks \subseteq Savers
    BY DEF IInv, CopyInv
  <2>2. CASE k \in ws
    BY <2>2 DEF Stores
  <2>3. CASE k \notin ws
    BY <2>1, <2>3 DEF Stores
  <2> QED BY <2>2, <2>3
<1>3. ASSUME NEW k \in Keys, NEW u \in Turns
      PROVE  /\ entry'[u][k].ref \in {Loaded(u, k), Fresh(u, k)}
             /\ heap'[Fresh(u, k)].eTag = 0
             /\ k \in toRead'[u] => heap'[Loaded(u, k)].eTag = 0
             /\ Vouched(u, k, heap[Loaded(u, k)])'
             /\ heap'[Loaded(u, k)].marks \subseteq {u} \union Savers'
             /\ heap'[Fresh(u, k)].marks \subseteq {u} \union Savers'
  <2>1. /\ entry[u][k].ref \in {Loaded(u, k), Fresh(u, k)}
        /\ heap[Fresh(u, k)].eTag = 0
        /\ k \in toRead[u] => heap[Loaded(u, k)].eTag = 0
        /\ Vouched(u, k, heap[Loaded(u, k)])
        /\ heap[Loaded(u, k)].marks \subseteq {u} \union Savers
        /\ heap[Fresh(u, k)].marks \subseteq {u} \union Savers
    BY DEF IInv, CopyInv
  <2>2. heap'[Loaded(u, k)] = heap[Loaded(u, k)] /\ heap'[Fresh(u, k)] = heap[Fresh(u, k)]
    BY DEF Stores
  <2>3. heap[Loaded(u, k)] \in ObjectValue /\ heap[Loaded(u, k)].eTag < nextTag
    BY <1>1, ObjectFacts DEF TypeOK
  <2> DEFINE v == heap[Loaded(u, k)]
  <2>4. ASSUME NEW w \in ObjectValue, w.eTag < nextTag, k \in toRead[u] => w.eTag = 0,
               Vouched(u, k, w)
        PROVE  Vouched(u, k, w)'
    BY <1>1, <2>4, StoresVouches
  <2>5. PICK w \in ObjectValue : w = v
    BY <2>3
  <2>6. Vouched(u, k, w)'
    BY <2>1, <2>3, <2>4, <2>5
  <2>7. Vouched(u, k, heap[Loaded(u, k)])'
    BY <2>2, <2>5, <2>6 DEF Vouched
  <2> QED BY <2>1, <2>2, <2>7
<1> QED BY <1>2, <1>3 DEF CopyInv

\* A provider that refuses a write has been written since.
LEMMA RefusalIsStale ==
  ASSUME NEW t, NEW k, NEW value, Vouched(t, k, value), ~Accepts(k, value)
  PROVE  <<t, k>> \in touched
BY DEF Vouched, Accepts

\* A save that is done at once keeps the invariant.
LEMMA SaveLocallyIInv ==
  ASSUME IInv, NEW t \in Turns, NEW then \in {"running", "stopped", "saved"},
         pc[t] \in {"before", "running"}, then = "running" => saves[t] < OwnSaves[provider],
         provider # "cosmos", Save(t, then)
  PROVE  IInv'
<1> DEFINE ws == Accepted(t)
           ds == Deletions(t)
           value == [k \in Keys |-> Value(t, k)]
           ref == [k \in Keys |-> entry[t][k].ref]
<1>1. /\ saves' = [saves EXCEPT ![t] = @ + 1]
      /\ asked' = [asked EXCEPT ![t] = Unsaved(t)]
      /\ Put(t, ws, ds, value, ref)
      /\ stored' = [stored EXCEPT ![t] = Requests(ws, ds)]
      /\ refused' = refused \union ({t} \X (Tried(t) \ ws))
      /\ \E next \in IF ws = Changes(t) THEN {then} ELSE AfterFailure(then) :
           pc' = [pc EXCEPT ![t] = next]
      /\ UNCHANGED <<ops, provider, toRead, entry, edits>>
  BY DEF Save, SaveLocally
<1>2. /\ TypeOK /\ ops = {} /\ toRead[t] = {}
      /\ saves \in [Turns -> 0..(OwnSaves[provider] + 1)] /\ saves[t] <= OwnSaves[provider]
      /\ OwnSaves[provider] \in Nat
  BY TurnStateAssumption DEF IInv, OpsInv, TurnInv, TypeOK
<1>3. /\ Changes(t) \subseteq Keys /\ Tried(t) \subseteq Changes(t) /\ ws \subseteq Tried(t)
      /\ ds \subseteq Keys
      /\ \A k \in ws : Accepts(k, value[k])
  BY DEF Changes, Tried, Accepted, Deletions
<1>4. value \in [Keys -> ObjectValue] /\ \A k \in Keys : ref[k] \in Objects
  BY <1>2, ValueType
<1>5. /\ saves' \in [Turns -> 0..(OwnSaves[provider] + 1)]
      /\ saves'[t] = saves[t] + 1 /\ \A u \in Turns \ {t} : saves'[u] = saves[u]
  BY <1>1, <1>2
<1>6. /\ pc' \in [Turns -> {"idle", "loading", "before", "running", "saving", "stopped", "saved",
                            "done", "ended"}]
      /\ \A u \in Turns \ {t} : pc'[u] = pc[u]
      /\ pc'[t] \in {then, "ended"}
      /\ pc'[t] \in {"stopped", "saved"} => ws = Changes(t)
  BY <1>1, <1>2 DEF TypeOK, AfterFailure
<1>7. /\ asked' \in [Turns -> SUBSET AnyRequest] /\ stored' \in [Turns -> SUBSET AnyRequest]
      /\ \A u \in Turns : stored'[u] \subseteq asked'[u]
      /\ asked'[t] = Requests(Changes(t), ds)
      /\ stored'[t] = Requests(ws, ds)
      /\ \A u \in Turns \ {t} : asked'[u] = asked[u] /\ stored'[u] = stored[u]
  <2>1. Unsaved(t) = Requests(Changes(t), ds) /\ Unsaved(t) \in SUBSET AnyRequest
    BY <1>3 DEF Unsaved, Requests, AnyRequest
  <2>2. asked' \in [Turns -> SUBSET AnyRequest] /\ asked'[t] = Unsaved(t)
        /\ \A u \in Turns \ {t} : asked'[u] = asked[u]
    BY <1>1, <1>2, <2>1 DEF TypeOK
  <2>3. Requests(ws, ds) \subseteq Unsaved(t)
    BY <1>3, <2>1 DEF Requests
  <2>4. stored' \in [Turns -> SUBSET AnyRequest] /\ stored'[t] = Requests(ws, ds)
        /\ \A u \in Turns \ {t} : stored'[u] = stored[u]
    BY <1>1, <1>2, <2>1, <2>3 DEF TypeOK
  <2> QED BY <1>2, <2>1, <2>2, <2>3, <2>4 DEF TypeOK
<1>8. /\ touched \subseteq touched' /\ touched' \subseteq Turns \X Keys
      /\ refused' \subseteq Turns \X Keys
  <2>1. touched' = touched \union {r \in Turns \X (ws \union ds) : r[2] \notin toRead[r[1]]}
    BY <1>1 DEF Put
  <2> HIDE DEF ws, ds
  <2>2. touched \subseteq Turns \X Keys /\ refused \subseteq Turns \X Keys
    BY <1>2 DEF TypeOK
  <2> QED BY <1>1, <1>3, <2>1, <2>2
<1>9. provider # "file" => Stores(ws, ds, value)
  BY <1>1, <1>2, <1>3, <1>4, PutCopies
<1>10. \A k \in Keys : store'[k] # None => IF provider = "file" THEN store'[k] \in Objects
                                                               ELSE store'[k] = Copy(k)
  <2>1. CASE provider = "file"
    <3>1. \A k \in Keys : store'[k] = IF k \in ds THEN None ELSE IF k \notin ws THEN store[k] ELSE ref[k]
      BY <1>1, <2>1 DEF Put
    <3> HIDE DEF ref, ds, ws
    <3> QED BY <1>2, <1>4, <2>1, <3>1 DEF TypeOK
  <2>2. CASE provider # "file"
    <3> HIDE DEF ref, ds, ws, value
    <3> QED BY <1>2, <1>9, <2>2 DEF TypeOK, Stores
  <2> QED BY <2>1, <2>2
<1>11. heap' \in [Objects -> ObjectValue] /\ nextTag' \in Nat /\ \A o \in Objects : heap'[o].eTag < nextTag'
  <2>1. CASE provider = "file"
    BY <1>1, <1>2, <2>1 DEF Put, TypeOK
  <2>2. CASE provider # "file"
    BY <1>9, <2>2 DEF Stores
  <2> QED BY <2>1, <2>2
<1>12. lost' = lost
  <2>1. provider # "file" => \A k \in ws : Accepts(k, value[k]) /\ Vouched(t, k, value[k])
    BY <1>3, ValueVouched
  <2> HIDE DEF ws, ds, value, ref
  <2> QED BY <1>1, <1>3, <2>1, PutLosesNothing
<1> HIDE DEF ref
<1>13. TypeOK'
  <2>1. provider \in Providers /\ toRead \in [Turns -> SUBSET Keys] /\ edits \in [Turns -> 0..Edits]
        /\ entry \in [Turns -> [Keys -> [ref : Objects, deleted : BOOLEAN, hash : ObjectValue]]]
        /\ lost \subseteq Turns \X Keys
    BY <1>2 DEF TypeOK
  <2> QED BY <1>1, <1>2, <1>5, <1>6, <1>7, <1>8, <1>10, <1>11, <1>12, <2>1 DEF TypeOK
<1>14. OpsInv'
  BY <1>1, <1>2 DEF OpsInv
<1>15. TurnInv'
  <2> SUFFICES ASSUME NEW u \in Turns
               PROVE  /\ pc'[u] \notin {"idle", "loading", "ended"} => toRead[u] = {}
                      /\ pc'[u] \in {"idle", "loading", "before", "running"}
                           => saves'[u] <= OwnSaves[provider]
    BY <1>1, <1>2 DEF TurnInv
  <2>1. CASE u = t
    BY <1>2, <1>5, <1>6, <2>1
  <2>2. CASE u # t
    BY <1>5, <1>6, <2>2 DEF IInv, TurnInv
  <2> QED BY <2>1, <2>2
<1>16. AwaitInv'
  <2> SUFFICES ASSUME NEW u \in Turns, pc'[u] = "saving"
               PROVE  asked'[u] \subseteq stored'[u]
    BY DEF AwaitInv
  <2>1. u # t
    BY <1>6
  <2> QED BY <1>2, <1>6, <1>7, <2>1 DEF IInv, AwaitInv
<1>17. CopyInv'
  <2>1. CASE provider = "file"
    BY <1>1, <2>1 DEF CopyInv
  <2>2. CASE provider # "file"
    <3>1. Savers \subseteq Savers' /\ t \in Savers'
      BY <1>2, <1>5 DEF Savers
    <3>2. \A k \in ws : value[k].marks \subseteq Savers'
      BY <1>3, <2>2, <3>1, ValueVouched
    <3> HIDE DEF ws, ds, value
    <3> QED BY <1>1, <1>3, <1>9, <2>2, <3>1, <3>2, CopyStores
  <2> QED BY <2>1, <2>2
<1>18. RequestInv'
  BY <1>1, <1>2 DEF RequestInv
<1>19. TagsGuardWrites'
  <2>1. ASSUME NEW k \in Tried(t) \ ws PROVE <<t, k>> \in touched
    <3>1. k \in Keys /\ ~Accepts(k, Value(t, k))
      BY <1>3 DEF Accepted
    <3>2. provider # "file"
      BY <3>1 DEF Accepts
    <3> QED BY <3>1, <3>2, ValueVouched, RefusalIsStale
  <2> HIDE DEF ws
  <2>2. lost = {} /\ refused \subseteq touched
    BY DEF IInv, TagsGuardWrites, NoLostUpdate, RefusedMeansStale
  <2> QED BY <1>1, <1>8, <1>12, <2>1, <2>2 DEF TagsGuardWrites, NoLostUpdate, RefusedMeansStale
<1>20. SavedMeansStored'
  <2>1. SaveEndsWithAll'
    <3> SUFFICES ASSUME NEW u \in Turns, pc'[u] \in {"saved", "stopped"}
                 PROVE  stored'[u] = asked'[u]
      BY DEF SaveEndsWithAll
    <3>1. CASE u = t
      BY <1>6, <1>7, <3>1
    <3>2. CASE u # t
      BY <1>6, <1>7, <3>2 DEF IInv, SavedMeansStored, SaveEndsWithAll
    <3> QED BY <3>1, <3>2
  <2>2. PartialSavesArePrefixes'
    <3> SUFFICES ASSUME NEW u \in Turns, NEW j \in Keys, NEW k \in Keys, Before(j, k),
                        <<j, "write">> \in asked'[u], <<k, "write">> \in stored'[u]
                 PROVE  <<j, "write">> \in stored'[u]
      BY DEF PartialSavesArePrefixes
    <3>1. CASE u = t
      <4>1. j \in Changes(t) /\ k \in ws
        BY <1>7, <3>1 DEF Requests
      <4>2. k \in Tried(t) /\ Accepts(j, Value(t, j))
        BY <1>3, <4>1 DEF Tried
      <4>3. j \in Tried(t)
        BY <1>3, <4>1, <4>2, ScopeOrder DEF Tried
      <4>4. j \in ws
        BY <4>2, <4>3 DEF Accepted
      <4> QED BY <1>7, <3>1, <4>4 DEF Requests
    <3>2. CASE u # t
      BY <1>7, <3>2 DEF IInv, SavedMeansStored, PartialSavesArePrefixes
    <3> QED BY <3>1, <3>2
  <2> QED BY <2>1, <2>2 DEF SavedMeansStored
<1> QED BY <1>13, <1>14, <1>15, <1>16, <1>17, <1>18, <1>19, <1>20 DEF IInv

\* A save that leaves its requests to the server keeps the invariant.
LEMMA SaveRemotelyIInv ==
  ASSUME IInv, NEW t \in Turns, NEW then \in {"running", "stopped", "saved"},
         pc[t] \in {"before", "running"}, then = "running" => saves[t] < OwnSaves[provider],
         provider = "cosmos", Save(t, then)
  PROVE  IInv'
<1> DEFINE new == {[turn |-> t, key |-> u[1], op |-> u[2], save |-> saves[t] + 1,
                    then |-> then, value |-> Value(t, u[1])] : u \in Unsaved(t)}
<1>1. /\ saves' = [saves EXCEPT ![t] = @ + 1]
      /\ asked' = [asked EXCEPT ![t] = Unsaved(t)]
      /\ ops' = ops \union new
      /\ stored' = [stored EXCEPT ![t] = {}]
      /\ pc' = [pc EXCEPT ![t] = IF Unsaved(t) = {} THEN then ELSE "saving"]
      /\ UNCHANGED <<provider, store, heap, nextTag, touched, refused, lost, toRead, entry, edits>>
  BY DEF Save, SaveRemotely, storeVars, history
<1>2. /\ TypeOK /\ toRead[t] = {}
      /\ saves \in [Turns -> 0..(OwnSaves[provider] + 1)] /\ saves[t] <= OwnSaves[provider]
      /\ OwnSaves[provider] \in Nat /\ saves[t] \in Nat
  <2>1. saves \in [Turns -> 0..(OwnSaves[provider] + 1)] /\ OwnSaves[provider] \in Nat
    BY TurnStateAssumption DEF IInv, TypeOK
  <2>2. saves[t] \in Nat
    BY <2>1
  <2> QED BY <2>1, <2>2 DEF IInv, TurnInv
<1>3. /\ saves' \in [Turns -> 0..(OwnSaves[provider] + 1)]
      /\ saves'[t] = saves[t] + 1 /\ \A u \in Turns \ {t} : saves'[u] = saves[u]
  BY <1>1, <1>2
<1>4. Unsaved(t) \in SUBSET AnyRequest
  BY DEF Unsaved, Requests, AnyRequest, Changes, Deletions
<1>5. /\ asked' \in [Turns -> SUBSET AnyRequest] /\ asked'[t] = Unsaved(t)
      /\ stored' \in [Turns -> SUBSET AnyRequest] /\ stored'[t] = {}
      /\ \A u \in Turns \ {t} : asked'[u] = asked[u] /\ stored'[u] = stored[u]
  BY <1>1, <1>2, <1>4 DEF TypeOK
<1>6. /\ pc' \in [Turns -> {"idle", "loading", "before", "running", "saving", "stopped", "saved",
                            "done", "ended"}]
      /\ \A u \in Turns \ {t} : pc'[u] = pc[u]
      /\ pc'[t] = IF Unsaved(t) = {} THEN then ELSE "saving"
  BY <1>1, <1>2 DEF TypeOK
<1>7. ASSUME NEW o \in new
      PROVE  /\ o.turn = t /\ o.save = saves[t] + 1 /\ o.then = then
             /\ o.key \in Keys /\ <<o.key, o.op>> \in Unsaved(t) /\ o.value = Value(t, o.key)
             /\ o \in Operation
  <2>1. PICK u \in Unsaved(t) :
          o = [turn |-> t, key |-> u[1], op |-> u[2], save |-> saves[t] + 1,
               then |-> then, value |-> Value(t, u[1])]
    OBVIOUS
  <2>2. u = <<u[1], u[2]>> /\ u[1] \in Keys /\ u[2] \in {"write", "delete"}
    BY <1>4 DEF AnyRequest
  <2>3. Value(t, u[1]) \in ObjectValue
    BY <1>2, <2>2, ValueType
  <2> QED BY <1>2, <2>1, <2>2, <2>3 DEF Operation
<1>8. \A r \in Unsaved(t) : \E o \in new : r = <<o.key, o.op>> /\ o.turn = t /\ o.save = saves[t] + 1
  <2> SUFFICES ASSUME NEW r \in Unsaved(t)
               PROVE  \E o \in new : r = <<o.key, o.op>> /\ o.turn = t /\ o.save = saves[t] + 1
    OBVIOUS
  <2> DEFINE o == [turn |-> t, key |-> r[1], op |-> r[2], save |-> saves[t] + 1,
                   then |-> then, value |-> Value(t, r[1])]
  <2>1. o \in new /\ r = <<r[1], r[2]>>
    BY <1>4 DEF AnyRequest
  <2>2. o.key = r[1] /\ o.op = r[2] /\ o.turn = t /\ o.save = saves[t] + 1
    OBVIOUS
  <2> HIDE DEF o, new
  <2> QED BY <2>1, <2>2
<1> HIDE DEF new
<1>9. \A o \in ops : /\ o \in Operation /\ o.value.eTag < nextTag
                     /\ o.save \in 1..saves[o.turn] /\ toRead[o.turn] = {}
                     /\ o.save = saves[o.turn] => <<o.key, o.op>> \in asked[o.turn]
  BY DEF IInv, OpsInv
<1>10. ASSUME NEW o \in ops
       PROVE  /\ o.turn = t => o.save # saves'[t]
              /\ o.save \in 1..saves'[o.turn]
              /\ o.save = saves'[o.turn] => o.turn # t /\ <<o.key, o.op>> \in asked[o.turn]
  <2>1. o.turn \in Turns
    BY <1>9 DEF Operation
  <2>2. CASE o.turn = t
    <3>1. o.save \in 1..saves[t]
      BY <1>9, <2>2
    <3>2. o.save # saves[t] + 1 /\ o.save \in 1..(saves[t] + 1)
      BY <1>2, <3>1
    <3> QED BY <1>3, <2>2, <3>2
  <2>3. CASE o.turn # t
    BY <1>3, <1>9, <2>1, <2>3
  <2> QED BY <2>2, <2>3
<1>11. OpsInv'
  <2>1. ops' \subseteq Operation
    BY <1>1, <1>7, <1>9
  <2>2. ASSUME NEW o \in ops'
        PROVE  /\ o.value.eTag < nextTag'
               /\ o.save \in 1..saves'[o.turn] /\ toRead'[o.turn] = {}
               /\ o.save = saves'[o.turn] => <<o.key, o.op>> \in asked'[o.turn]
    <3>1. CASE o \in new
      BY <1>1, <1>2, <1>3, <1>5, <1>7, <3>1, ValueType
    <3>2. CASE o \in ops
      <4>1. o.turn \in Turns
        BY <1>9, <3>2 DEF Operation
      <4> QED BY <1>1, <1>5, <1>9, <1>10, <3>2, <4>1
    <3> QED BY <1>1, <3>1, <3>2
  <2> QED BY <1>1, <2>1, <2>2 DEF OpsInv
<1>12. TypeOK'
  <2>1. \A o \in ops' : o.turn \in Turns /\ <<o.key, o.op>> \in AnyRequest /\ o.save <= saves'[o.turn]
    <3> SUFFICES ASSUME NEW o \in ops'
                 PROVE  o.turn \in Turns /\ <<o.key, o.op>> \in AnyRequest /\ o.save <= saves'[o.turn]
      OBVIOUS
    <3>1. o \in Operation /\ o.save \in 1..saves'[o.turn]
      BY <1>11 DEF OpsInv
    <3>2. o.turn \in Turns /\ <<o.key, o.op>> \in AnyRequest
      BY <3>1 DEF Operation, AnyRequest
    <3>3. saves'[o.turn] \in Nat
      BY <1>2, <1>3, <3>2
    <3> QED BY <3>1, <3>2, <3>3
  <2>2. \A u \in Turns : stored'[u] \subseteq asked'[u]
    BY <1>2, <1>5 DEF TypeOK
  <2> QED BY <1>1, <1>2, <1>3, <1>5, <1>6, <2>1, <2>2 DEF TypeOK
<1>13. TurnInv'
  <2> SUFFICES ASSUME NEW u \in Turns
               PROVE  /\ pc'[u] \notin {"idle", "loading", "ended"} => toRead[u] = {}
                      /\ pc'[u] \in {"idle", "loading", "before", "running"}
                           => saves'[u] <= OwnSaves[provider]
                      /\ pc'[u] = "saving" =>
                           \A o \in ops' : o.turn = u /\ o.save = saves'[u] /\ o.then = "running"
                                            => saves'[u] <= OwnSaves[provider]
    BY <1>1 DEF TurnInv
  <2>1. CASE u = t
    <3>1. then = "running" => saves'[t] <= OwnSaves[provider]
      BY <1>2, <1>3
    <3> QED BY <1>1, <1>2, <1>6, <1>7, <1>10, <2>1, <3>1
  <2>2. CASE u # t
    <3>1. \A o \in new : o.turn # u
      BY <1>7, <2>2
    <3> QED BY <1>1, <1>3, <1>6, <2>2, <3>1 DEF IInv, TurnInv
  <2> QED BY <2>1, <2>2
<1>14. AwaitInv'
  <2> SUFFICES ASSUME NEW u \in Turns, pc'[u] = "saving", NEW r \in asked'[u] \ stored'[u]
               PROVE  \E o \in ops' : o.turn = u /\ o.save = saves'[u] /\ r = <<o.key, o.op>>
    BY DEF AwaitInv
  <2>1. CASE u = t
    BY <1>1, <1>3, <1>5, <1>8, <2>1
  <2>2. CASE u # t
    BY <1>1, <1>3, <1>5, <1>6, <2>2 DEF IInv, AwaitInv
  <2> QED BY <2>1, <2>2
<1>15. Savers \subseteq Savers' /\ t \in Savers'
  BY <1>2, <1>3 DEF Savers
<1>16. ASSUME NEW u, NEW k, NEW v, Vouched(u, k, v) PROVE Vouched(u, k, v)'
  BY <1>1, <1>16 DEF Vouched, Item
<1>17. CopyInv'
  <2>1. ASSUME provider # "file", NEW k \in Keys PROVE heap'[Copy(k)].marks \subseteq Savers'
    BY <1>1, <1>15, <2>1 DEF IInv, CopyInv
  <2>2. ASSUME provider # "file", NEW k \in Keys, NEW u \in Turns
        PROVE  /\ entry'[u][k].ref \in {Loaded(u, k), Fresh(u, k)}
               /\ heap'[Fresh(u, k)].eTag = 0
               /\ k \in toRead'[u] => heap'[Loaded(u, k)].eTag = 0
               /\ Vouched(u, k, heap[Loaded(u, k)])'
               /\ heap'[Loaded(u, k)].marks \subseteq {u} \union Savers'
               /\ heap'[Fresh(u, k)].marks \subseteq {u} \union Savers'
    <3>1. /\ entry[u][k].ref \in {Loaded(u, k), Fresh(u, k)}
          /\ heap[Fresh(u, k)].eTag = 0
          /\ k \in toRead[u] => heap[Loaded(u, k)].eTag = 0
          /\ Vouched(u, k, heap[Loaded(u, k)])
          /\ heap[Loaded(u, k)].marks \subseteq {u} \union Savers
          /\ heap[Fresh(u, k)].marks \subseteq {u} \union Savers
      BY <2>2 DEF IInv, CopyInv
    <3>2. Vouched(u, k, heap[Loaded(u, k)])'
      BY <1>1, <3>1 DEF Vouched, Item
    <3> QED BY <1>1, <1>15, <3>1, <3>2
  <2> QED BY <1>1, <2>1, <2>2 DEF CopyInv
<1>18. RequestInv'
  <2> SUFFICES ASSUME NEW o \in ops'
               PROVE  Vouched(o.turn, o.key, o.value)' /\ o.value.marks \subseteq Savers'
    BY DEF RequestInv
  <2>1. CASE o \in ops
    BY <1>15, <1>16, <2>1 DEF IInv, RequestInv
  <2>2. CASE o \in new
    <3>1. o.turn = t /\ o.key \in Keys /\ o.value = Value(t, o.key)
      BY <1>7, <2>2
    <3>2. Vouched(t, o.key, o.value) /\ o.value.marks \subseteq {t} \union Savers
      BY <3>1, ValueVouched
    <3> QED BY <1>15, <1>16, <3>1, <3>2
  <2> QED BY <1>1, <2>1, <2>2
<1>19. TagsGuardWrites'
  BY <1>1 DEF IInv, TagsGuardWrites, NoLostUpdate, RefusedMeansStale
<1>20. SavedMeansStored'
  <2>1. SaveEndsWithAll'
    <3> SUFFICES ASSUME NEW u \in Turns, pc'[u] \in {"saved", "stopped"}
                 PROVE  stored'[u] = asked'[u]
      BY DEF SaveEndsWithAll
    <3>1. CASE u = t
      BY <1>5, <1>6, <3>1
    <3>2. CASE u # t
      BY <1>5, <1>6, <3>2 DEF IInv, SavedMeansStored, SaveEndsWithAll
    <3> QED BY <3>1, <3>2
  <2> QED BY <1>1, <2>1 DEF SavedMeansStored, PartialSavesArePrefixes
<1> QED BY <1>11, <1>12, <1>13, <1>14, <1>17, <1>18, <1>19, <1>20 DEF IInv

\* A save keeps the invariant.
LEMMA SaveIInv ==
  ASSUME IInv, NEW t \in Turns, NEW then \in {"running", "stopped", "saved"},
         pc[t] \in {"before", "running"}, then = "running" => saves[t] < OwnSaves[provider],
         Save(t, then)
  PROVE  IInv'
BY SaveLocallyIInv, SaveRemotelyIInv

-----------------------------------------------------------------------------
(* The requests of a save end.                                             *)

\* What the end of a request leaves true about turns and requests.
Concluded ==
  /\ pc' \in [Turns -> {"idle", "loading", "before", "running", "saving", "stopped", "saved",
                        "done", "ended"}]
  /\ stored' \in [Turns -> SUBSET AnyRequest] /\ \A u \in Turns : stored'[u] \subseteq asked'[u]
  /\ OpsInv' /\ TurnInv' /\ AwaitInv' /\ SavedMeansStored'

\* A request of a save settles, and with the last of them the save.
LEMMA ConcludeStep ==
  ASSUME IInv, NEW o \in ops, NEW done \in BOOLEAN, Conclude(o, done), provider = "cosmos",
         nextTag' \in Nat, nextTag <= nextTag'
  PROVE  Concluded
<1> DEFINE t == o.turn
           request == <<o.key, o.op>>
<1>1. /\ ops' = ops \ {o}
      /\ stored' = IF done /\ o.save = saves[t] THEN [stored EXCEPT ![t] = @ \union {request}] ELSE stored
      /\ IF pc[t] # "saving" \/ o.save # saves[t] THEN UNCHANGED pc
         ELSE IF ~done THEN \E next \in AfterFailure(o.then) : pc' = [pc EXCEPT ![t] = next]
         ELSE pc' = [pc EXCEPT ![t] = IF SaveEnds(o) THEN o.then ELSE @]
      /\ UNCHANGED <<provider, toRead, entry, edits, saves, asked>>
  BY DEF Conclude
<1>2. /\ TypeOK /\ o \in Operation /\ t \in Turns /\ toRead[t] = {}
      /\ request \in AnyRequest /\ o.then \in {"running", "stopped", "saved"}
      /\ o.save = saves[t] => request \in asked[t]
  BY DEF IInv, OpsInv, Operation, AnyRequest
<1> HIDE DEF request
<1>3. /\ stored' \in [Turns -> SUBSET AnyRequest] /\ \A u \in Turns : stored'[u] \subseteq asked'[u]
      /\ \A u \in Turns : stored[u] \subseteq stored'[u]
      /\ \A u \in Turns \ {t} : stored'[u] = stored[u]
      /\ done /\ o.save = saves[t] => stored'[t] = stored[t] \union {request}
      /\ ~(done /\ o.save = saves[t]) => stored'[t] = stored[t]
  <2>1. CASE done /\ o.save = saves[t]
    <3>1. stored' = [stored EXCEPT ![t] = @ \union {request}]
      BY <1>1, <2>1
    <3> QED BY <1>1, <1>2, <2>1, <3>1 DEF TypeOK
  <2>2. CASE ~(done /\ o.save = saves[t])
    BY <1>1, <1>2, <2>2 DEF TypeOK
  <2> QED BY <2>1, <2>2
<1>4. /\ pc' \in [Turns -> {"idle", "loading", "before", "running", "saving", "stopped", "saved",
                            "done", "ended"}]
      /\ \A u \in Turns \ {t} : pc'[u] = pc[u]
      /\ pc[t] # "saving" \/ o.save # saves[t] => pc'[t] = pc[t]
      /\ pc[t] = "saving" /\ o.save = saves[t] /\ ~done => pc'[t] \in AfterFailure(o.then)
      /\ pc[t] = "saving" /\ o.save = saves[t] /\ done
           => pc'[t] = IF SaveEnds(o) THEN o.then ELSE "saving"
  <2>1. pc \in [Turns -> {"idle", "loading", "before", "running", "saving", "stopped", "saved",
                            "done", "ended"}]
    BY <1>2 DEF TypeOK
  <2>2. CASE pc[t] # "saving" \/ o.save # saves[t]
    BY <1>1, <2>1, <2>2
  <2>3. CASE pc[t] = "saving" /\ o.save = saves[t] /\ ~done
    <3>1. PICK next \in AfterFailure(o.then) : pc' = [pc EXCEPT ![t] = next]
      BY <1>1, <2>3
    <3>2. next \in {"running", "ended"}
      BY DEF AfterFailure
    <3> QED BY <1>2, <2>1, <2>3, <3>1, <3>2
  <2>4. CASE pc[t] = "saving" /\ o.save = saves[t] /\ done
    <3>1. pc' = [pc EXCEPT ![t] = IF SaveEnds(o) THEN o.then ELSE @]
      BY <1>1, <2>4
    <3> QED BY <1>2, <2>1, <2>4, <3>1
  <2> QED BY <2>2, <2>3, <2>4
<1>5. OpsInv'
  <2>1. /\ ops \subseteq Operation
        /\ \A p \in ops : /\ p.value.eTag < nextTag
                          /\ p.save \in 1..saves[p.turn] /\ toRead[p.turn] = {}
                          /\ p.save = saves[p.turn] => <<p.key, p.op>> \in asked[p.turn]
    BY DEF IInv, OpsInv
  <2>2. ASSUME NEW p \in ops PROVE p.value.eTag < nextTag'
    <3>1. p.value.eTag \in Nat /\ nextTag \in Nat
      BY <1>2, <2>1 DEF Operation, ObjectValue, TypeOK
    <3>2. p.value.eTag < nextTag
      BY <2>1
    <3> QED BY <3>1, <3>2
  <2>3. ASSUME NEW p \in ops'
        PROVE  /\ p \in Operation /\ p.value.eTag < nextTag'
               /\ p.save \in 1..saves'[p.turn] /\ toRead'[p.turn] = {}
               /\ p.save = saves'[p.turn] => <<p.key, p.op>> \in asked'[p.turn]
    BY <1>1, <2>1, <2>2
  <2> QED BY <1>1, <2>3 DEF OpsInv
<1>6. TurnInv'
  <2> SUFFICES ASSUME NEW u \in Turns
               PROVE  /\ pc'[u] \notin {"idle", "loading", "ended"} => toRead[u] = {}
                      /\ pc'[u] \in {"idle", "loading", "before", "running"}
                           => saves[u] <= OwnSaves[provider]
                      /\ pc'[u] = "saving" =>
                           \A p \in ops' : p.turn = u /\ p.save = saves[u] /\ p.then = "running"
                                            => saves[u] <= OwnSaves[provider]
    BY <1>1 DEF TurnInv
  <2>1. /\ pc[u] \notin {"idle", "loading", "ended"} => toRead[u] = {}
        /\ pc[u] \in {"idle", "loading", "before", "running"} => saves[u] <= OwnSaves[provider]
        /\ pc[u] = "saving" =>
             \A p \in ops : p.turn = u /\ p.save = saves[u] /\ p.then = "running"
                             => saves[u] <= OwnSaves[provider]
    BY DEF IInv, TurnInv
  <2>2. CASE pc'[u] = pc[u]
    BY <1>1, <2>1, <2>2
  <2>3. CASE pc'[u] # pc[u]
    <3>1. u = t /\ pc[t] = "saving" /\ o.save = saves[t]
      BY <1>4, <2>3
    <3>2. pc'[t] \in {o.then, "running", "ended"} /\ (pc'[t] = "running" => o.then = "running")
      BY <1>2, <1>4, <2>3, <3>1 DEF AfterFailure
    <3> QED BY <1>2, <2>1, <3>1, <3>2
  <2> QED BY <2>2, <2>3
<1>7. AwaitInv'
  <2> SUFFICES ASSUME NEW u \in Turns, pc'[u] = "saving", NEW r \in asked[u] \ stored'[u]
               PROVE  \E p \in ops' : p.turn = u /\ p.save = saves[u] /\ r = <<p.key, p.op>>
    BY <1>1 DEF AwaitInv
  <2>1. pc[u] = "saving"
    <3>1. CASE u = t
      BY <1>2, <1>4, <3>1 DEF AfterFailure
    <3>2. CASE u # t
      BY <1>4, <3>2
    <3> QED BY <3>1, <3>2
  <2>2. PICK p \in ops : p.turn = u /\ p.save = saves[u] /\ r = <<p.key, p.op>>
    BY <1>3, <2>1 DEF IInv, AwaitInv
  <2>3. p # o
    <3> SUFFICES ASSUME p = o PROVE FALSE
      OBVIOUS
    <3>1. u = t /\ o.save = saves[t] /\ r = request
      BY <2>2 DEF request
    <3>2. done
      BY <1>4, <2>1, <3>1 DEF AfterFailure
    <3> QED BY <1>3, <3>1, <3>2
  <2> QED BY <1>1, <2>2, <2>3
<1>8. SavedMeansStored'
  <2>1. SaveEndsWithAll'
    <3> SUFFICES ASSUME NEW u \in Turns, pc'[u] \in {"saved", "stopped"}
                 PROVE  stored'[u] = asked[u]
      BY <1>1 DEF SaveEndsWithAll
    <3>1. CASE pc'[u] = pc[u]
      <4>1. stored[u] = asked[u]
        BY <3>1 DEF IInv, SavedMeansStored, SaveEndsWithAll
      <4> QED BY <1>1, <1>3, <4>1
    <3>2. CASE pc'[u] # pc[u]
      <4>1. u = t /\ pc[t] = "saving" /\ o.save = saves[t]
        BY <1>4, <3>2
      <4>2. done /\ SaveEnds(o)
        BY <1>4, <3>2, <4>1 DEF AfterFailure
      <4>3. ASSUME NEW r \in asked[t] \ stored[t] PROVE r = request
        <5>1. PICK p \in ops : p.turn = t /\ p.save = saves[t] /\ r = <<p.key, p.op>>
          BY <1>2, <4>1, <4>3 DEF IInv, AwaitInv
        <5>2. p = o
          BY <4>1, <4>2, <5>1 DEF SaveEnds
        <5> QED BY <5>1, <5>2 DEF request
      <4> QED BY <1>1, <1>2, <1>3, <4>1, <4>2, <4>3
    <3> QED BY <3>1, <3>2
  <2> QED BY <1>1, <2>1 DEF SavedMeansStored, PartialSavesArePrefixes
<1> QED BY <1>3, <1>4, <1>5, <1>6, <1>7, <1>8 DEF Concluded

\* A request that lands stores the copy of its key.
LEMMA LandStores ==
  ASSUME IInv, NEW o \in ops, Land(o), Conclude(o, TRUE) \/ Conclude(o, FALSE)
  PROVE  /\ CopyInv' /\ RequestInv' /\ lost' = lost /\ touched \subseteq touched'
         /\ touched' \subseteq Turns \X Keys
         /\ \A k \in Keys : store'[k] # None => store'[k] = Copy(k)
         /\ heap' \in [Objects -> ObjectValue] /\ nextTag' \in Nat /\ nextTag <= nextTag'
         /\ \A x \in Objects : heap'[x].eTag < nextTag'
<1> DEFINE ws == IF o.op = "write" THEN {o.key} ELSE {}
           ds == IF o.op = "delete" THEN {o.key} ELSE {}
           value == [k \in Keys |-> o.value]
<1>1. /\ TypeOK /\ provider = "cosmos" /\ ops \subseteq Operation
      /\ \A p \in ops : p.value.eTag < nextTag /\ toRead[p.turn] = {}
  BY DEF IInv, OpsInv
<1>2. /\ o.turn \in Turns /\ o.key \in Keys /\ o.value \in ObjectValue /\ o.op \in {"write", "delete"}
      /\ ws \subseteq Keys /\ ds \subseteq Keys
  BY <1>1 DEF Operation
<1>3. /\ Put(o.turn, ws, ds, value, [k \in Keys |-> None])
      /\ ws # {} => Accepts(o.key, o.value)
  BY DEF Land
<1>4. value \in [Keys -> ObjectValue] /\ \A k \in ws : k = o.key /\ value[k] = o.value
  BY <1>2
<1> HIDE DEF ws, ds, value
<1>5. Stores(ws, ds, value)
  BY <1>1, <1>2, <1>3, <1>4, PutCopies
<1>6. ops' \subseteq ops /\ UNCHANGED <<provider, toRead, entry, saves>> /\ Savers' = Savers
  BY DEF Conclude, Savers
<1>7. \A p \in ops : Vouched(p.turn, p.key, p.value) /\ p.value.marks \subseteq Savers
  BY DEF IInv, RequestInv
<1>8. lost' = lost
  <2>1. \A k \in ws : Accepts(k, value[k]) /\ Vouched(o.turn, k, value[k])
    BY <1>3, <1>4, <1>7
  <2> QED BY <1>2, <1>3, <2>1, PutLosesNothing
<1>9. CopyInv'
  <2>1. \A k \in ws : value[k].marks \subseteq Savers'
    BY <1>4, <1>6, <1>7
  <2> QED BY <1>1, <1>2, <1>5, <1>6, <2>1, CopyStores
<1>10. ASSUME NEW p \in ops PROVE Vouched(p.turn, p.key, p.value)'
  <2>1. p.turn \in Turns /\ p.key \in Keys /\ p.value \in ObjectValue
    BY <1>1 DEF Operation
  <2>2. PICK u \in Turns, k \in Keys, v \in ObjectValue : u = p.turn /\ k = p.key /\ v = p.value
    BY <2>1
  <2>3. v.eTag < nextTag /\ k \notin toRead[u] /\ Vouched(u, k, v)
    BY <1>1, <1>7, <2>2
  <2>4. Vouched(u, k, v)'
    BY <1>1, <1>2, <1>5, <1>6, <2>3, StoresVouches
  <2> QED BY <2>2, <2>4
<1>11. RequestInv'
  BY <1>6, <1>7, <1>10 DEF RequestInv
<1>12. \A k \in Keys : store'[k] # None => store'[k] = Copy(k)
  BY <1>1, <1>5 DEF Stores, TypeOK
<1> QED BY <1>5, <1>8, <1>9, <1>11, <1>12 DEF Stores

\* A request that ends has been done, or leaves the store as it was.
LEMMA OpStepIInv ==
  ASSUME IInv, NEW o \in ops, NEW done \in BOOLEAN, Conclude(o, done),
         \/ Land(o)
         \/ /\ UNCHANGED <<storeVars, touched, lost>>
            /\ refused' \subseteq refused \union {<<o.turn, o.key>>}
            /\ refused' \subseteq touched
  PROVE  IInv'
<1>1. /\ TypeOK /\ o \in Operation /\ provider = "cosmos"
      /\ o.turn \in Turns /\ o.key \in Keys
  BY DEF IInv, OpsInv, Operation
<1>2. UNCHANGED <<provider, toRead, entry, edits, saves, asked>> /\ ops' \subseteq ops
  BY DEF Conclude
<1>3. /\ CopyInv' /\ RequestInv' /\ lost' = lost /\ touched \subseteq touched'
      /\ touched' \subseteq Turns \X Keys
      /\ \A k \in Keys : store'[k] # None => store'[k] = Copy(k)
      /\ heap' \in [Objects -> ObjectValue] /\ nextTag' \in Nat /\ nextTag <= nextTag'
      /\ \A x \in Objects : heap'[x].eTag < nextTag'
      /\ refused' \subseteq touched'
  <2>1. refused \subseteq touched
    BY DEF IInv, TagsGuardWrites, RefusedMeansStale
  <2>2. CASE Land(o)
    <3>1. refused' = refused
      BY <2>2 DEF Land
    <3>2. Conclude(o, TRUE) \/ Conclude(o, FALSE)
      OBVIOUS
    <3> QED BY <2>1, <2>2, <3>1, <3>2, LandStores
  <2>3. CASE /\ UNCHANGED <<storeVars, touched, lost>>
             /\ refused' \subseteq touched
    <3>1. UNCHANGED <<store, heap, nextTag, touched, lost>>
      BY <2>3 DEF storeVars
    <3>2. CopyInv' /\ RequestInv'
      BY <1>2, <3>1 DEF IInv, CopyInv, RequestInv, Vouched, Item, Savers
    <3>3. nextTag <= nextTag'
      BY <1>1, <3>1 DEF TypeOK
    <3> QED BY <1>1, <2>3, <3>1, <3>2, <3>3 DEF TypeOK
  <2> QED BY <2>2, <2>3
<1>4. Concluded
  BY <1>1, <1>3, ConcludeStep
<1>5. TypeOK'
  <2>1. \A p \in ops' : p.turn \in Turns /\ <<p.key, p.op>> \in AnyRequest /\ p.save <= saves'[p.turn]
    BY <1>1, <1>2 DEF TypeOK
  <2>2. /\ provider' \in Providers /\ toRead' \in [Turns -> SUBSET Keys]
        /\ entry' \in [Turns -> [Keys -> [ref : Objects, deleted : BOOLEAN, hash : ObjectValue]]]
        /\ edits' \in [Turns -> 0..Edits] /\ saves' \in [Turns -> 0..(OwnSaves[provider'] + 1)]
        /\ asked' \in [Turns -> SUBSET AnyRequest] /\ lost' \subseteq Turns \X Keys
    BY <1>1, <1>2, <1>3 DEF TypeOK
  <2>3. refused' \subseteq Turns \X Keys
    BY <1>3
  <2> QED BY <1>1, <1>2, <1>3, <1>4, <2>1, <2>2, <2>3 DEF TypeOK, Concluded
<1>6. TagsGuardWrites'
  BY <1>3 DEF IInv, TagsGuardWrites, NoLostUpdate, RefusedMeansStale
<1> QED BY <1>3, <1>4, <1>5, <1>6 DEF IInv, Concluded

\* What becomes of a request keeps the invariant.
LEMMA OpsIInv == ASSUME IInv, NEW o \in ops, OpLands(o) \/ OpRefused(o) \/ OpFails(o) PROVE IInv'
<1>1. refused \subseteq touched
  BY DEF IInv, TagsGuardWrites, RefusedMeansStale
<1>2. CASE OpLands(o)
  BY <1>2, OpStepIInv DEF OpLands
<1>3. CASE OpRefused(o)
  <2>1. <<o.turn, o.key>> \in touched
    <3>1. Vouched(o.turn, o.key, o.value)
      BY DEF IInv, RequestInv
    <3> QED BY <1>3, <3>1 DEF OpRefused, Vouched, Accepts, MayRefuse
  <2> QED BY <1>1, <1>3, <2>1, OpStepIInv DEF OpRefused
<1>4. CASE OpFails(o)
  <2>1. CASE Land(o)
    BY <1>4, <2>1, OpStepIInv DEF OpFails
  <2>2. CASE UNCHANGED <<storeVars, history>>
    BY <1>1, <1>4, <2>2, OpStepIInv DEF OpFails, history
  <2> QED BY <1>4, <2>1, <2>2 DEF OpFails
<1> QED BY <1>2, <1>3, <1>4

-----------------------------------------------------------------------------
(* The theorems.                                                           *)

\* A turn that goes on without a save keeps the invariant.
LEMMA GoesIInv ==
  ASSUME IInv, NEW t \in Turns, NEW from \in SUBSET {"before", "running"},
         NEW to \in {"running", "done", "ended"}, Goes(t, from, to)
  PROVE  IInv'
<1>1. toRead[t] = {} /\ saves[t] <= OwnSaves[provider]
  BY DEF Goes, IInv, TurnInv
<1> QED BY <1>1, QuietIInv DEF Goes

\* Every step keeps the invariant.
LEMMA NextIInv == IInv /\ [Next]_vars => IInv'
<1> SUFFICES ASSUME IInv, [Next]_vars PROVE IInv'
  OBVIOUS
<1>1. ASSUME NEW t \in Turns, Load(t) PROVE IInv'
  BY <1>1, LoadIInv
<1>2. ASSUME NEW t \in Turns, LoadFails(t) PROVE IInv'
  BY <1>2, QuietIInv DEF LoadFails
<1>3. ASSUME NEW t \in Turns, Edit(t) PROVE IInv'
  BY <1>3, EditIInv
<1>4. ASSUME NEW t \in Turns, BeforeTurnStops(t) PROVE IInv'
  BY <1>4, SaveIInv DEF BeforeTurnStops
<1>5. ASSUME NEW t \in Turns, HandlerSaves(t) PROVE IInv'
  BY <1>5, SaveIInv DEF HandlerSaves
<1>6. ASSUME NEW t \in Turns, EndRoute(t) PROVE IInv'
  BY <1>6, SaveIInv, GoesIInv DEF EndRoute
<1>7. ASSUME NEW t \in Turns, StartRoute(t) \/ HandlerThrows(t) \/ AfterTurnRefuses(t) PROVE IInv'
  BY <1>7, GoesIInv DEF StartRoute, HandlerThrows, AfterTurnRefuses
<1>8. ASSUME NEW o \in ops, OpLands(o) \/ OpRefused(o) \/ OpFails(o) PROVE IInv'
  BY <1>8, OpsIInv
<1>9. CASE UNCHANGED vars
  <2> USE <1>9 DEF vars, storeVars, history
  <2>1. TypeOK'
    BY DEF IInv, TypeOK
  <2>2. OpsInv' /\ TurnInv' /\ AwaitInv'
    BY DEF IInv, OpsInv, TurnInv, AwaitInv
  <2>3. CopyInv' /\ RequestInv'
    BY DEF IInv, CopyInv, RequestInv, Vouched, Item, Savers
  <2>4. TagsGuardWrites' /\ SavedMeansStored'
    BY DEF IInv, TagsGuardWrites, NoLostUpdate, RefusedMeansStale, SavedMeansStored,
           SaveEndsWithAll, PartialSavesArePrefixes
  <2> QED BY <2>1, <2>2, <2>3, <2>4 DEF IInv
<1> QED BY <1>1, <1>2, <1>3, <1>4, <1>5, <1>6, <1>7, <1>8, <1>9 DEF Next

(***************************************************************************)
(* The inductive invariant holds in every reachable state.                 *)
(***************************************************************************)
THEOREM IInvHolds == Spec => []IInv
BY InitIInv, NextIInv, PTL DEF Spec

(***************************************************************************)
(* The state stays within its types: among others, no turn saves more than *)
(* once after its handler's own saves, and every object a provider keeps   *)
(* has an eTag that was handed out.                                        *)
(***************************************************************************)
THEOREM TypeCorrect == Spec => []TypeOK
<1>1. IInv => TypeOK
  BY DEF IInv
<1> QED BY <1>1, IInvHolds, PTL

(***************************************************************************)
(* An eTag refuses a write exactly when it must: a write that carries one  *)
(* drops no change another turn has stored, and one that is refused is     *)
(* stale.                                                                  *)
(***************************************************************************)
THEOREM TagsHold == Spec => []TagsGuardWrites
<1>1. IInv => TagsGuardWrites
  BY DEF IInv
<1> QED BY <1>1, IInvHolds, PTL

(***************************************************************************)
(* A turn never sees what another turn has changed but not asked to save,  *)
(* where the provider hands out copies.                                    *)
(***************************************************************************)
THEOREM DirtyReadsNever == Spec => []NoDirtyRead
<1>1. IInv => NoDirtyRead
  BY ValueVouched DEF NoDirtyRead, Savers
<1> QED BY <1>1, IInvHolds, PTL

(***************************************************************************)
(* A turn that ends with its save has stored all it asked for, and a save  *)
(* that fails in a local provider has stored a prefix.                     *)
(***************************************************************************)
THEOREM SavesHold == Spec => []SavedMeansStored
<1>1. IInv => SavedMeansStored
  BY DEF IInv
<1> QED BY <1>1, IInvHolds, PTL

=============================================================================
