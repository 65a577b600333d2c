--------------------------- MODULE MCPipeSendQueue ---------------------------
(***************************************************************************)
(* The send queue on small instances: two turns, a short queue.            *)
(***************************************************************************)
EXTENDS PipeSendQueueProps

CONSTANTS t1, t2

MCTurns == {t1, t2}

=============================================================================
