----------------------- MODULE StreamingResponseProps -----------------------
(***************************************************************************)
(* What a streamed answer promises to the client and to the application.   *)
(***************************************************************************)
EXTENDS StreamingResponse

Activities == [kind : {"informative", "chunk", "final"}, seq : Nat, text : Nat, id : Nat]

\* The type of every variable.
TypeOK ==
  /\ queue \in Seq({"informative", "chunk"})
  /\ inFlight \in Activities \union {NoActivity} /\ delaying \in BOOLEAN
  /\ chunkQueued \in BOOLEAN /\ ended \in BOOLEAN
  /\ canceled \in BOOLEAN /\ userCanceled \in BOOLEAN /\ streaming \in BOOLEAN
  /\ message \in 0..MaxChunks /\ nextSequence \in Nat \ {0} /\ streamId \in Nat
  /\ caller \in {"free", "ending", "resetting"}
  /\ result \in {"none", "Success", "UserCanceled", "Error"}
  /\ sent \in Seq(Activities) /\ named \subseteq Nat
  /\ failure \in {"none", "user", "error", "fallback"}
  /\ updates \in 0..MaxUpdates /\ resets \in 0..MaxResets

\* Chunks are coalesced under a flag that several paths set and clear: when the
\* loop rests, the client has all the text that was queued.
NothingUnsent ==
  inFlight = NoActivity /\ streaming /\ failure = "none" =>
    message = 0 \/ \E i \in DOMAIN sent : sent[i].text = message

\* At most one typing activity waits for text: a fast producer does not make a
\* backlog for a slow channel.
ChunksCoalesce ==
  \A i, j \in DOMAIN queue : queue[i] = "chunk" /\ queue[j] = "chunk" => i = j

\* n is the first of the numbers in S, or 0 if there is none.
IsFirst(n, S) == IF S = {} THEN n = 0 ELSE n \in S /\ \A m \in S : n <= m

\* The activities of an answer belong to one stream: each carries the id of the
\* first one that the channel had named when it was accepted, also after a reset
\* while the loop was sending; none as long as the channel has named none.
OneStream ==
  \A i \in DOMAIN sent : IsFirst(sent[i].id, {j \in named : j < i})

\* Sequence numbers rise along the updates of a stream up to its final message,
\* and text is never taken back.
InOrder ==
  \A i, j \in DOMAIN sent : i < j /\ sent[i].kind # "final" =>
    /\ sent[i].seq < sent[j].seq
    /\ sent[j].kind # "informative" => sent[i].text <= sent[j].text

\* An answer has one final message, no chunk follows it, and if no send failed
\* it is there, with all the text, when endStream returns.
Final(a) == a.kind = "final"
FinalOnce ==
  /\ \A i, j \in DOMAIN sent : Final(sent[i]) /\ j > i => sent[j].kind = "informative"
  /\ result = "Success" /\ failure = "none" =>
       \E i \in DOMAIN sent : Final(sent[i]) /\ sent[i].text = message

\* All three: the client sees one stream, in order, with one end.
OneOrderedStream == OneStream /\ InOrder /\ FinalOnce

\* endStream and reset return, whatever the channel answers.
CallsReturn == caller # "free" ~> caller = "free"

\* The results of endStream (streamingResponse.ts:18-34): Success says that "The
\* operation was successful", a user who stopped the stream and an error have
\* results of their own, and a channel that does not stream gets a plain message.
ResultIsTrue ==
  result = "Success" => \E i \in DOMAIN sent : Final(sent[i])

=============================================================================
