----------------------------- MODULE MCAgentTurn -----------------------------
(***************************************************************************)
(* One turn that types while it sends a message and reports an error; or   *)
(* two turns, one that sends to the channel and one that buffers for the   *)
(* reply, which write to one transcript.                                   *)
(***************************************************************************)
EXTENDS AgentTurnProps

CONSTANTS typing, sending, buffering

MCTurns == {typing, sending, buffering}
MCExpectReplies == {buffering}
MCTogether == {{typing}, {sending, buffering}}
MCKinds == (typing :> {"message", "quiet"}) @@ (sending :> {"message"}) @@ (buffering :> {"quiet"})
MCMaxTimers == (typing :> 2) @@ (sending :> 0) @@ (buffering :> 0)
MCMaxSends == (typing :> 1) @@ (sending :> 2) @@ (buffering :> 1)
MCMaxUpdates == (typing :> 0) @@ (sending :> 1) @@ (buffering :> 0)
=============================================================================
