----------------------------- MODULE TypingTimer -----------------------------
(***************************************************************************)
(* The typing indicator of a turn: AgentApplication.startTypingTimer and   *)
(* stopTypingTimer, packages/agents-hosting/src/app/agentApplication.ts.   *)
(*                                                                         *)
(* Each call of startTypingTimer makes a timer of its own, and the handler *)
(* it registers with onSendActivities stays for the rest of the turn.  The *)
(* timer that TYPING_TIMER_STATE_KEY names owns the indicator: only it is  *)
(* armed again after a send, and only it is found by stopTypingTimer.      *)
(***************************************************************************)
EXTENDS Naturals, Sequences

CONSTANTS
  Turns,     \* turns of the conversation
  MaxTimers  \* bound: timers started by a turn

VARIABLES
  timer,  \* timer[t][n]: the n-th timer of turn t
  owner   \* the timer under TYPING_TIMER_STATE_KEY of a turn, 0 when there is none

typingVars == <<timer, owner>>

TimerStates == {"armed", "sending", "idle"}

TypingTypeOK ==
  /\ timer \in [Turns -> Seq(TimerStates)]
  /\ \A t \in Turns : Len(timer[t]) <= MaxTimers[t] /\ owner[t] \in 0..Len(timer[t])

TypingInit == timer = [t \in Turns |-> <<>>] /\ owner = [t \in Turns |-> 0]

\* state.stop(): clears the timeout; a send under way goes on.  The key is
\* deleted whoever it names.
StopTimer(t, n) ==
  /\ timer' = [timer EXCEPT ![t][n] = IF @ = "armed" THEN "idle" ELSE @]
  /\ owner' = [owner EXCEPT ![t] = 0]

StopOwner(t) == IF owner[t] = 0 THEN UNCHANGED typingVars ELSE StopTimer(t, owner[t])

StartTimer(t) ==
  /\ owner[t] = 0
  /\ Len(timer[t]) < MaxTimers[t]
  /\ timer' = [timer EXCEPT ![t] = Append(@, "armed")]
  /\ owner' = [owner EXCEPT ![t] = Len(timer[t]) + 1]

\* onTimeout: the send starts, or fails at once when the context is revoked.
Fire(t, n, revoked) ==
  /\ timer[t][n] = "armed"
  /\ IF revoked
     THEN StopTimer(t, n)
     ELSE timer' = [timer EXCEPT ![t][n] = "sending"] /\ UNCHANGED owner

\* What follows a send: the owner is armed again.
TypingLands(t, n) ==
  /\ timer[t][n] = "sending"
  /\ timer' = [timer EXCEPT ![t][n] = IF owner[t] = n THEN "armed" ELSE "idle"]
  /\ UNCHANGED owner

\* The catch of onTimeout: it stops, and deletes the key of a later timer too.
TypingFails(t, n) ==
  /\ timer[t][n] = "sending"
  /\ timer' = [timer EXCEPT ![t][n] = "idle"]
  /\ owner' = [owner EXCEPT ![t] = 0]

=============================================================================
