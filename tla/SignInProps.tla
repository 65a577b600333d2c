----------------------------- MODULE SignInProps -----------------------------
(***************************************************************************)
(* What the sign-in of a user promises.                                    *)
(***************************************************************************)
EXTENDS SignIn

Sessions == [activity : Turns, id : Handlers, attempts : 0..MaxAttempts, signin : BOOLEAN,
             tag : 0..(nextTag - 1)]

Stages == {"idle", "reading", "next", "discarding", "revalidate", "category", "prompted",
           "exchange", "token", "card", "approved", "rejected", "throwing", "authorized",
           "unauthorized", "failed"}

TypeOK ==
  /\ teams \in BOOLEAN /\ versioned \in BOOLEAN
  /\ nextTag \in Nat \ {0} /\ session \in Sessions \union {None}
  /\ signed \subseteq Handlers
  /\ pc \in [Turns -> Stages]
  /\ act \in [Turns -> Messages \union Invokes \union {None}]
  /\ conv \in [Turns -> Conversations \union {None}]
  /\ cur \in [Turns -> Turns]
  /\ active \in [Turns -> Sessions \union {None}]
  /\ queue \in [Turns -> Seq(Handlers)]
  /\ reply \in [Turns -> Statuses \union {None}]
  /\ approved \in [Turns -> SUBSET Handlers]
  /\ redeemed \subseteq Turns /\ discards \subseteq Turns /\ resumed \in [Turns -> SUBSET Turns]
  /\ misses \in Nat /\ asked \in BOOLEAN /\ overlapped \in BOOLEAN

Quiescent == \A t \in Turns : ~Working(t)

(***************************************************************************)
(* Whatever turns of the user overlap, and however often the activity is   *)
(* switched, a turn reaches its route only when every handler of that      *)
(* route has given it a token.  The one exception is in the code: a turn   *)
(* that discards the session of another conversation passes at once.       *)
(***************************************************************************)
RunsSignedIn ==
  \A t \in Turns : pc[t] = "authorized" /\ t \notin discards =>
                     ToSet(HandlersOf(cur[t])) \subseteq approved[t]

(***************************************************************************)
(* The activity that started a sign-in is resumed at most once, and no     *)
(* sign-in invoke reaches a route, while turns of the user do not overlap. *)
(* (When they do, two answers may both have read the session.)             *)
(***************************************************************************)
ResumesOnce ==
  ~overlapped =>
    \A t \in Turns : /\ \A u, v \in resumed[t] : u = v
                     /\ resumed[t] # {} /\ t \notin discards => act[t] \notin Invokes

(***************************************************************************)
(* Between turns there is a session exactly when the user has been asked   *)
(* to sign in and has not been told the outcome: no card is dead, and no   *)
(* forgotten session swallows the next message.                            *)
(***************************************************************************)
SessionMeansAsked == ~overlapped /\ Quiescent => (session # None <=> asked)

(***************************************************************************)
(* Of the attempts at the code that a card allows (invalidSignInRetryMax,  *)
(* azureBotAuthorization.ts:77), an answer that is no code costs one, and  *)
(* nothing else does: neither a token exchange nor the mark of a sign-in   *)
(* invoke.  (The number shown to the user, :534, is one more than remain.) *)
(***************************************************************************)
AttemptsCounted ==
  ~overlapped /\ Quiescent /\ session # None => session.attempts = MaxAttempts - misses

(***************************************************************************)
(* Both together: what is stored of a sign-in is what the user knows of it.*)
(***************************************************************************)
SessionIsWhatUserKnows == SessionMeansAsked /\ AttemptsCounted

(***************************************************************************)
(* On Microsoft Teams the last status sent for an invoke says what became  *)
(* of the sign-in: 200 when the service gave a token for it or the user    *)
(* gave up; 200 whenever a handler approved; and codeVerification's 200,   *)
(* sent before the code is redeemed, is corrected when the turn fails.     *)
(* (The 200 to a token exchange is not: after it the application's own     *)
(* success handler may still fail the turn.)                               *)
(***************************************************************************)
TruthfulReply ==
  \A t \in Turns :
    teams /\ Ended(t) /\ act[t] \in Invokes =>
      /\ reply[t] = 200 => t \in redeemed \/ act[t] \in {"verifyCancel", "failure"}
      /\ approved[t] # {} => reply[t] = 200
      /\ act[t] \in Verifications /\ pc[t] = "failed" /\ approved[t] = {} => reply[t] # 200

(***************************************************************************)
(* Every turn ends: process calls itself after REVALIDATE, and that call   *)
(* does not revalidate again and again.                                    *)
(***************************************************************************)
TurnsEnd == \A t \in Turns : pc[t] = "reading" ~> Ended(t)

=============================================================================
