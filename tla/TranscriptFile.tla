---------------------------- MODULE TranscriptFile ----------------------------
(***************************************************************************)
(* The transcript file of a conversation: FileTranscriptLogger,            *)
(* packages/agents-hosting/src/transcript/fileTranscriptLogger.ts.         *)
(*                                                                         *)
(* Operations on one file are chained by withFileLock: queue holds those   *)
(* not settled, in the order of the calls.  Each is a read of the file and *)
(* a write of what the read saw with the change made, tried Attempts times.*)
(* An attempt that fails has written all of its change or none of it: a    *)
(* file torn by a partial write is not modelled.                           *)
(***************************************************************************)
EXTENDS Naturals, Sequences, SequencesExt

CONSTANTS
  Attempts,  \* maxRetries of logActivity
  None

VARIABLES
  file,    \* the activities of the file, with TRUE once an update replaced one
  queue,   \* operations of the chain: the activity, its attempts, what it read
  broken,  \* the chain rejects: an operation failed and others wait behind it
  logged,  \* history: the calls of logActivity, in their order
  done,    \* history: activities whose operation resolved
  lost     \* history: of each rejected operation, whether it was tried, and behind another

fileVars == <<file, queue, broken, logged, done, lost>>

FileInit == file = <<>> /\ queue = <<>> /\ broken = FALSE 
            /\ logged = <<>> /\ done = {} /\ lost = {}

\* Mutant: operations on a file are not chained.
RunningUnchained == DOMAIN queue

\* The operations withFileLock lets run: the first, once all before it settled.
Running == IF broken THEN {} ELSE 1..IF queue = <<>> THEN 0 ELSE 1

\* logActivity of each item: "behind" is history, an operation was there before it.
Log(items) ==
  /\ queue' = queue \o [k \in DOMAIN items |->
       [item |-> items[k], failed |-> 0, read |-> None, behind |-> k > 1 \/ queue # <<>>]]
  /\ logged' = logged \o items
  /\ UNCHANGED <<file, broken, done, lost>>

\* The first activity of a file that has an id, 0 when there is none.
Place(content, id) == SelectInSeq(content, LAMBDA a : a.id = id)

\* logActivityToFile appends; messageUpdateAsync replaces the first of that id.
Changed(content, item) ==
  IF item.update
  THEN LET at == Place(content, item.id)
       IN IF at = 0 THEN content ELSE [content EXCEPT ![at].updated = TRUE]
  ELSE Append(content, [id |-> item.id, updated |-> FALSE])

ReadFile(k) ==
  /\ queue[k].read = None
  /\ queue' = [queue EXCEPT ![k].read = file]
  /\ UNCHANGED <<file, broken, logged, done, lost>>

WriteFile(k) ==
  /\ queue[k].read # None
  /\ file' = Changed(queue[k].read, queue[k].item)
  /\ done' = done \union {queue[k].item}
  /\ queue' = RemoveAt(queue, k)
  /\ UNCHANGED <<broken, logged, lost>>

Rejected(op, tried) == [tried |-> tried, behind |-> op.behind]

\* An attempt throws, before its write or (closing the file) after it.  After
\* the last one the operation is rejected and with it all that wait behind it.
AttemptFails(k) ==
  /\ \/ UNCHANGED file
     \/ queue[k].read # None /\ file' = Changed(queue[k].read, queue[k].item)
  /\ IF queue[k].failed + 1 < Attempts
     THEN /\ queue' = [queue EXCEPT ![k].failed = @ + 1, ![k].read = None]
          /\ UNCHANGED <<broken, lost>>
     ELSE /\ queue' = RemoveAt(queue, k)
          /\ broken' = (Len(queue) > 1)
          /\ lost' = lost \union {Rejected(queue[k], TRUE)}
  /\ UNCHANGED <<logged, done>>

\* existingLock.then skips the operation behind a rejected one.  The entry of
\* _fileLocks goes with the last of the chain.
RejectQueued ==
  /\ broken
  /\ queue' = Tail(queue)
  /\ broken' = (Len(queue) > 1)
  /\ lost' = lost \union {Rejected(Head(queue), FALSE)}
  /\ UNCHANGED <<file, logged, done>>

FileStep == RejectQueued \/ \E k \in Running : ReadFile(k) \/ WriteFile(k) \/ AttemptFails(k)

=============================================================================
