---------------------------- MODULE MCTurnState ----------------------------
(***************************************************************************)
(* Two turns of one user in one conversation, over every provider.         *)
(***************************************************************************)
EXTENDS TurnStateProps

CONSTANTS t1, t2, conversation, user

MCTurns == {t1, t2}
MCScopes == <<conversation, user>>
MCProviders == {"memory", "file", "cosmos"}
MCOwnSaves == [p \in MCProviders |-> IF p = "cosmos" THEN 0 ELSE 1]

\* One turn of an application with an afterTurn handler, one of one without.
MCSavesAfter == {t1}

\* The entries of a turn that is over are read by nobody, nor its objects when
\* the provider keeps copies: states that differ there have the same future.
Over(t) == pc[t] \in {"stopped", "saved", "ended"}
LiveView ==
  <<provider, store, nextTag, pc, toRead, ops, saves, history,
    [t \in Turns |-> IF Over(t) THEN None ELSE <<entry[t], edits[t]>>],
    [t \in Turns |-> IF Over(t) /\ stored[t] = asked[t] THEN None ELSE <<asked[t], stored[t]>>],
    [o \in Objects |-> IF provider # "file" /\ o[1] # Disk /\ Over(o[1]) THEN None ELSE heap[o]]>>

=============================================================================
