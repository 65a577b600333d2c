------------------------------- MODULE SignIn -------------------------------
(***************************************************************************)
(* Sign-in of one user on one channel:                                     *)
(*   - packages/agents-hosting/src/app/auth/authorizationManager.ts,       *)
(*     process: what every turn does before it is routed;                  *)
(*   - auth/handlers/azureBotAuthorization.ts, signin and what it calls;   *)
(*   - auth/handlerStorage.ts: the session, one record per user.           *)
(*                                                                         *)
(* A turn is interrupted at every call of the storage and of the token     *)
(* service; messages to the user are sent before the call that follows.    *)
(***************************************************************************)
EXTENDS Integers, Sequences, FiniteSets, SequencesExt

CONSTANTS
  MaxTurns,       \* bound: activities received from the user
  MaxOverlap,     \* bound: turns of the user handled at a time
  Conversations,
  Home,           \* the conversation of the first activity
  Route,          \* the sign-in handlers of the route of "ask"
  MaxAttempts,    \* invalidSignInRetryMax
  None

Turns == 1..MaxTurns
Handlers == ToSet(Route)

ASSUME SignInAssumption ==
  /\ MaxTurns \in Nat /\ MaxOverlap \in Nat /\ MaxAttempts \in Nat \ {0}
  /\ Route \in Seq(Handlers) /\ Cardinality(Handlers) = Len(Route)
  /\ Home \in Conversations

(***************************************************************************)
(* Messages: one for the route that needs sign-in, one for another route,  *)
(* and six digits.  Invokes: signin/verifyState with a code, without one   *)
(* and cancelled; signin/tokenExchange, well formed or not; signin/failure.*)
(***************************************************************************)
Messages == {"ask", "talk", "code"}
Verifications == {"verify", "verifyBad", "verifyCancel"}
Invokes == Verifications \union {"exchange", "exchangeBad", "failure"}

Statuses == {200, 400, 404, 412, 500}

ASSUME NoneAssumption ==
  /\ None \notin Messages \union Invokes /\ None \notin Statuses
  /\ None \notin [activity : Turns, id : Handlers, attempts : Nat, signin : BOOLEAN, tag : Nat]

VARIABLES
  teams,     \* the channel is Microsoft Teams
  versioned, \* the storage checks eTags
  session,   \* the record of HandlerStorage, or None
  nextTag,   \* the eTag counter of the storage
  signed,    \* handlers whose token the token service holds
  pc,        \* where each turn is
  act, conv, \* activity of each turn, its conversation
  cur,       \* the turn whose activity a turn is processing
  active,    \* the session a turn has read, or None
  queue,     \* handlers a turn has still to go through
  reply,     \* the invoke response of a turn
  approved,  \* history: handlers approved in a turn
  discards,  \* history: turns that discarded the session of another conversation
  resumed,   \* history: turns that passed with the activity of a turn
  redeemed,  \* history: turns with a sign-in answer that got a token for it
  misses,    \* history: answers to the present card that were no code
  asked,     \* history: the user has been asked to sign in and has no answer yet
  overlapped \* history: two turns have been handled at once

storage == <<session, nextTag>>
local == <<act, conv, cur, active, queue>>
history == <<approved, redeemed, discards, resumed, misses, asked, overlapped>>
vars == <<teams, versioned, storage, signed, pc, local, reply, history>>

Init ==
  /\ teams \in BOOLEAN /\ versioned \in BOOLEAN
  /\ session = None /\ nextTag = 1
  /\ signed = {}
  /\ pc = [t \in Turns |-> "idle"]
  /\ act = [t \in Turns |-> None] /\ conv = [t \in Turns |-> None]
  /\ cur = [t \in Turns |-> t]
  /\ active = [t \in Turns |-> None]
  /\ queue = [t \in Turns |-> <<>>]
  /\ reply = [t \in Turns |-> None]
  /\ approved = [t \in Turns |-> {}] /\ discards = {} /\ resumed = [t \in Turns |-> {}]
  /\ redeemed = {} /\ misses = 0 /\ asked = FALSE /\ overlapped = FALSE

Ended(t) == pc[t] \in {"authorized", "unauthorized", "failed"}
Working(t) == pc[t] # "idle" /\ ~Ended(t)

Goto(t, to) == pc' = [pc EXCEPT ![t] = to]
\* sendInvokeResponse: on Microsoft Teams only.
Replies(t, status) == reply' = IF teams THEN [reply EXCEPT ![t] = status] ELSE reply

-----------------------------------------------------------------------------
(* HandlerStorage.                                                         *)

\* A record that was read is written back with the eTag it was read with.
Conflicts(read) == versioned /\ session # None /\ session.tag # read.tag

Write(record) ==
  /\ session' = [record EXCEPT !.tag = IF versioned THEN nextTag ELSE 0]
  /\ nextTag' = IF versioned THEN nextTag + 1 ELSE nextTag

\* Mutant: an error of the handler leaves the record.
DeleteUnlessThrown(t) ==
  session' = (IF pc[t] = "throwing" THEN session ELSE None) /\ UNCHANGED nextTag

\* Mutant: process calls itself before the record is gone.
DeleteUnlessRevalidated(t) ==
  session' = (IF pc[t] = "revalidate" THEN session ELSE None) /\ UNCHANGED nextTag

DeleteSession(t) == session' = None /\ UNCHANGED nextTag

-----------------------------------------------------------------------------
(* AuthorizationManager.process.                                           *)

HandlersOf(u) == IF act[u] = "ask" THEN Route ELSE <<>>

\* Mutant: only the handler of the session is gone through.
ActiveOnly(h, hs) == <<h>>

\* Handlers are sorted with the one of the session first.
ActiveFirst(h, hs) ==
  LET i == CHOOSE n \in DOMAIN hs : hs[n] = h
  IN [n \in DOMAIN hs |-> IF n = 1 THEN h ELSE IF n <= i THEN hs[n - 1] ELSE hs[n]]

Arrive(t) ==
  /\ pc[t] = "idle" /\ \A u \in Turns : u < t => pc[u] # "idle"
  /\ Cardinality({u \in Turns : Working(u)}) < MaxOverlap
  /\ \E a \in Messages \union Invokes, c \in IF t = 1 THEN {Home} ELSE Conversations :
       act' = [act EXCEPT ![t] = a] /\ conv' = [conv EXCEPT ![t] = c]
  /\ Goto(t, "reading")
  /\ overlapped' = (overlapped \/ \E u \in Turns : Working(u))
  /\ UNCHANGED <<teams, versioned, storage, signed, cur, active, queue, reply,
                 approved, redeemed, discards, resumed, misses, asked>>

\* A sign-in invoke without a session is refused.
RefusesInvoke(t) ==
  /\ session = None /\ act[t] \in Invokes
  /\ Goto(t, "unauthorized") /\ Replies(t, 400)
  /\ UNCHANGED <<active, queue>>

\* The session began in another conversation: it is dropped and the turn passes.
LeavesConversation(t) ==
  /\ session # None /\ conv[session.activity] # conv[t]
  /\ Goto(t, "discarding")
  /\ UNCHANGED <<active, queue, reply>>

Continues(t) ==
  /\ session # None => conv[session.activity] = conv[t]
  /\ session = None => act[t] \notin Invokes
  /\ active' = [active EXCEPT ![t] = session]
  /\ queue' = [queue EXCEPT ![t] = IF session = None THEN HandlersOf(t)
                                     ELSE ActiveFirst(session.id, HandlersOf(session.activity))]
  /\ Goto(t, "next")
  /\ UNCHANGED reply

ReadSession(t) ==
  /\ pc[t] = "reading"
  /\ RefusesInvoke(t) \/ LeavesConversation(t) \/ Continues(t)
  /\ UNCHANGED <<teams, versioned, storage, signed, act, conv, cur, history>>

Discard(t) ==
  /\ pc[t] = "discarding"
  /\ DeleteSession(t) /\ Goto(t, "authorized")
  /\ discards' = discards \union {t} /\ asked' = FALSE /\ misses' = 0
  /\ resumed' = [resumed EXCEPT ![t] = @ \union {t}]
  /\ UNCHANGED <<teams, versioned, signed, local, reply, approved, redeemed, overlapped>>

\* Every handler has approved.  A route without sign-in may sign the user out.
Authorize(t) ==
  /\ pc[t] = "next" /\ queue[t] = <<>>
  /\ signed' \in IF act[cur[t]] = "talk" THEN SUBSET signed ELSE {signed}
  /\ Goto(t, "authorized")
  /\ resumed' = [resumed EXCEPT ![cur[t]] = @ \union {t}]
  /\ UNCHANGED <<teams, versioned, storage, local, reply, approved, redeemed, discards, misses,
                 asked, overlapped>>

\* Mutant: the activity that started the sign-in is not restored.
ContinuesWithAnswer(t) == cur[t]

\* The turn goes on with the activity that started the session.
ContinuesWith(t) == IF active[t] # None THEN active[t].activity ELSE cur[t]

Approve(t) ==
  /\ pc[t] = "approved"
  /\ DeleteSession(t)
  /\ approved' = [approved EXCEPT ![t] = @ \union {Head(queue[t])}]
  /\ cur' = [cur EXCEPT ![t] = ContinuesWith(t)]
  /\ active' = [active EXCEPT ![t] = None]
  /\ queue' = [queue EXCEPT ![t] = Tail(@)]
  /\ Goto(t, "next")
  /\ asked' = FALSE /\ misses' = 0
  /\ UNCHANGED <<teams, versioned, signed, act, conv, reply, redeemed, discards, resumed, overlapped>>

\* REJECTED, an error of the handler, and REVALIDATE: process starts again.
Reject(t) ==
  /\ pc[t] \in {"rejected", "throwing", "revalidate"}
  /\ DeleteSession(t)
  /\ Goto(t, CASE pc[t] = "rejected" -> "unauthorized"
               [] pc[t] = "throwing" -> "failed"
               [] pc[t] = "revalidate" -> "reading")
  /\ asked' = FALSE /\ misses' = 0
  /\ UNCHANGED <<teams, versioned, signed, local, reply, approved, redeemed, discards, resumed,
                 overlapped>>

-----------------------------------------------------------------------------
(* AzureBotAuthorization.signin.                                           *)

\* codeVerification: the text of a message, or the state of signin/verifyState.
Verify(t, a) ==
  \/ /\ a = "verifyCancel"
     /\ Goto(t, "rejected") /\ Replies(t, 200) /\ UNCHANGED misses
  \/ /\ a \in {"ask", "talk", "verifyBad"}
     /\ Goto(t, "prompted") /\ misses' = misses + 1 /\ UNCHANGED reply
  \/ /\ a \in {"code", "verify"}
     /\ Goto(t, "token") /\ Replies(t, 200) /\ UNCHANGED misses

\* Mutant: attempts are not limited.
ExhaustedNever(t) == FALSE

Exhausted(t) == active[t].attempts <= 0

\* What the handler does before its first call of the storage or the service.
SignIn(t) ==
  /\ pc[t] = "next" /\ queue[t] # <<>>
  /\ LET a == act[cur[t]]
     IN \/ active[t] = None /\ Goto(t, "token") /\ UNCHANGED <<misses, reply>>
        \/ /\ active[t] # None
           /\ \/ Exhausted(t) /\ Goto(t, "rejected") /\ UNCHANGED <<misses, reply>>
              \/ /\ ~Exhausted(t) /\ a \in Invokes
                 /\ Goto(t, "category") /\ UNCHANGED <<misses, reply>>
              \/ /\ ~Exhausted(t) /\ a \notin Invokes /\ active[t].signin /\ teams
                 /\ Goto(t, "revalidate") /\ UNCHANGED <<misses, reply>>
              \/ /\ ~Exhausted(t) /\ a \notin Invokes /\ ~(active[t].signin /\ teams)
                 /\ Verify(t, a)
  /\ UNCHANGED <<teams, versioned, storage, signed, local, approved, redeemed, discards, resumed,
                 asked, overlapped>>

\* handleSignInActivities, up to the call of the service.  After the answer to the
\* invoke it calls the application's failure handler, which may throw.
HandleInvoke(t, a) ==
  \/ a \in Verifications /\ Verify(t, a)
  \/ a = "exchange" /\ Goto(t, "exchange") /\ UNCHANGED <<misses, reply>>
  \/ /\ a \in {"exchangeBad", "failure"}
     /\ Replies(t, IF a = "failure" THEN 200 ELSE 400)
     /\ Goto(t, "rejected") \/ Goto(t, "throwing")
     /\ UNCHANGED misses

\* The session is marked: the user answers by sign-in invokes.
WriteCategory(t) ==
  /\ pc[t] = "category"
  /\ \/ /\ Conflicts(active[t]) /\ Goto(t, "throwing")
        /\ UNCHANGED <<storage, misses, reply>>
     \/ /\ ~Conflicts(active[t])
        /\ Write([active[t] EXCEPT !.signin = TRUE])
        /\ HandleInvoke(t, act[cur[t]])
  /\ UNCHANGED <<teams, versioned, signed, local, approved, redeemed, discards, resumed, asked,
                 overlapped>>

AttemptsAfter(read) == read.attempts - 1

WriteAttempts(t) ==
  /\ pc[t] = "prompted"
  /\ \/ Conflicts(active[t]) /\ Goto(t, "throwing") /\ UNCHANGED storage
     \/ /\ ~Conflicts(active[t])
        /\ Write([active[t] EXCEPT !.attempts = AttemptsAfter(active[t])])
        /\ Goto(t, "unauthorized")
  /\ UNCHANGED <<teams, versioned, signed, local, reply, history>>

\* exchangeTokenAsync; without a token the channel may try again.  The answer is
\* sent before the application's success handler is called, which may throw.
Exchange(t) ==
  /\ pc[t] = "exchange"
  /\ \/ /\ signed' = signed \union {Head(queue[t])} /\ redeemed' = redeemed \union {t}
        /\ Replies(t, 200)
        /\ Goto(t, "approved") \/ Goto(t, "throwing")
     \/ Replies(t, 412) /\ Goto(t, "unauthorized") /\ UNCHANGED <<signed, redeemed>>
     \/ Goto(t, "throwing") /\ UNCHANGED <<signed, redeemed, reply>>
  /\ UNCHANGED <<teams, versioned, storage, local, approved, discards, resumed, misses, asked,
                 overlapped>>

\* Mutant: the status that says so is forgotten.
RefusedCodeReply(t) == UNCHANGED reply

NoTokenReply(t) == Replies(t, 404)

\* setToken: getTokenOrSignInResource, with the code if there is one.  The success
\* handler of the application runs after the answer to a code; when it throws, the
\* answer is corrected.
GetToken(t) ==
  LET h == Head(queue[t])
      answers == active[t] # None
  IN /\ pc[t] = "token"
     /\ \/ /\ h \in signed \/ answers
           /\ signed' = signed \union {h}
           /\ \/ ~answers /\ Goto(t, "approved") /\ UNCHANGED <<redeemed, reply>>
              \/ /\ answers /\ redeemed' = redeemed \union {t}
                 /\ \/ Goto(t, "approved") /\ Replies(t, 200)
                    \/ Goto(t, "throwing") /\ Replies(t, 500)
           /\ UNCHANGED <<misses, asked>>
        \/ /\ h \notin signed /\ answers
           /\ Goto(t, "rejected") /\ NoTokenReply(t)
           /\ UNCHANGED <<signed, redeemed, misses, asked>>
        \/ /\ h \notin signed /\ ~answers
           /\ Goto(t, "card") /\ misses' = 0 /\ asked' = TRUE
           /\ UNCHANGED <<signed, redeemed, reply>>
        \/ /\ Goto(t, "throwing")
           /\ IF answers THEN Replies(t, 500) ELSE UNCHANGED reply
           /\ UNCHANGED <<signed, redeemed, misses, asked>>
     /\ UNCHANGED <<teams, versioned, storage, local, approved, discards, resumed, overlapped>>

\* The card has been sent; the session has no eTag and replaces any other.
WriteSession(t) ==
  /\ pc[t] = "card"
  /\ Write([activity |-> cur[t], id |-> Head(queue[t]), attempts |-> MaxAttempts,
            signin |-> FALSE, tag |-> 0])
  /\ Goto(t, "unauthorized")
  /\ UNCHANGED <<teams, versioned, signed, local, reply, history>>

Step(t) ==
  \/ ReadSession(t) \/ Discard(t) \/ Authorize(t) \/ Approve(t) \/ Reject(t)
  \/ SignIn(t) \/ WriteCategory(t) \/ WriteAttempts(t) \/ Exchange(t)
  \/ GetToken(t) \/ WriteSession(t)

Next == \E t \in Turns : Arrive(t) \/ Step(t)

Spec == Init /\ [][Next]_vars

\* The storage and the token service answer or fail.
FairSpec == Spec /\ \A t \in Turns : WF_vars(Step(t))

=============================================================================
