------------------------------ MODULE MCSignIn ------------------------------
(***************************************************************************)
(* Two conversations, a route with two sign-in handlers.                   *)
(***************************************************************************)
EXTENDS SignInProps

CONSTANTS c1, c2, graph, github

MCConversations == {c1, c2}
MCRoute == <<graph, github>>

=============================================================================
