---------------------------- MODULE PipeRequests ----------------------------
(***************************************************************************)
(* The abstract specification of a request/response channel, as a caller   *)
(* of sendRequest sees it: each call is issued once, is sent, and ends     *)
(* once, with a response or an error, which may come before all of it is   *)
(* sent.  A teardown fails any number of calls at once.  Sending takes as  *)
(* long as the peer likes; only a call that was sent has to end.           *)
(***************************************************************************)
CONSTANT Requests

VARIABLE state

Open == {"sending", "waiting"}

TypeOK == state \in [Requests -> Open \union {"idle", "ok", "failed"}]

Init == state = [r \in Requests |-> "idle"]

Issue(r) ==
  /\ state[r] = "idle"
  /\ state' = [state EXCEPT ![r] = "sending"]

\* The channel is known to be broken: the call fails at once.
Refuse(r) ==
  /\ state[r] = "idle"
  /\ state' = [state EXCEPT ![r] = "failed"]

Sent(r) ==
  /\ state[r] = "sending"
  /\ state' = [state EXCEPT ![r] = "waiting"]

Resolve(r) ==
  /\ state[r] \in Open
  /\ state' = [state EXCEPT ![r] = "ok"]

Fail(rs) ==
  /\ \A r \in rs : state[r] \in Open
  /\ state' = [r \in Requests |-> IF r \in rs THEN "failed" ELSE state[r]]

Next ==
  \/ \E r \in Requests : Issue(r) \/ Refuse(r) \/ Sent(r) \/ Resolve(r)
  \/ \E rs \in SUBSET Requests : Fail(rs)

End(r) == Resolve(r) \/ \E rs \in SUBSET Requests : r \in rs /\ Fail(rs)

\* What may happen, and what must.
SafeSpec == Init /\ [][Next]_state
Spec == SafeSpec /\ \A r \in Requests : WF_state(state[r] = "waiting" /\ End(r))

=============================================================================
