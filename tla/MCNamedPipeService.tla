-------------------------- MODULE MCNamedPipeService --------------------------
(***************************************************************************)
(* The life cycle with two calls of start and two of stop.                 *)
(***************************************************************************)
EXTENDS NamedPipeServiceProps
CONSTANTS start1, start2, stop1, stop2

\* A bound: a caller who did not await goes on without surplus clients and
\* previous processes, and either with the start unawaited or with the stop.
FewTroubles ==
  unawaited # {} =>
    /\ unawaited # {"start", "stop"}
    /\ ~foreign /\ \A n \in Conns : strays[n] = 0
=============================================================================
