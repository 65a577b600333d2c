----------------------------- MODULE SignInProofs -----------------------------
(***************************************************************************)
(* Proofs about the sign-in of a user, for every number of turns, overlap, *)
(* handlers of a route and attempts.                                       *)
(*                                                                         *)
(* Two arguments run side by side.  Whatever turns overlap, the handlers   *)
(* of the activity a turn will go on with are those that have approved it  *)
(* and those still queued (TurnOK), and the last status sent for an invoke *)
(* fits how far it has come (ReplyOK).  While turns do not overlap, the    *)
(* one at work knows the session, and what it does to the session it also  *)
(* tells the user (AloneInv).                                              *)
(***************************************************************************)
EXTENDS SignInProps, SequenceTheorems, FiniteSetTheorems, TLAPS

Activities == Messages \union Invokes

\* States of a turn between two of its handlers, or within one.
Signing(t) == pc[t] \in {"next", "category", "prompted", "exchange", "token", "card", "approved"}

\* A session belongs to a handler of the route of an activity that arrived.
SessionOK(s) == pc[s.activity] # "idle" /\ s.id \in ToSet(HandlersOf(s.activity))

\* Where a turn is, against the activity and the handlers it goes through.
TurnOK(t) ==
  /\ pc[t] = "idle" => active[t] = None /\ reply[t] = None /\ approved[t] = {}
  /\ pc[t] # "idle" => act[t] \in Activities /\ pc[cur[t]] # "idle"
  /\ active[t] # None => SessionOK(active[t])
  /\ active[t] # None \/ pc[t] \in {"idle", "reading", "discarding"} => cur[t] = t
  /\ pc[t] \in {"category", "prompted", "exchange", "revalidate"} => active[t] # None
  /\ pc[t] \in {"category", "prompted"} => active[t].attempts > 0
  /\ pc[t] = "card" => active[t] = None

\* The handlers of the activity a turn goes on with have approved or are queued.
QueueOK(t) ==
  /\ Signing(t) =>
       /\ ToSet(queue[t]) \subseteq ToSet(HandlersOf(ContinuesWith(t)))
       /\ ToSet(HandlersOf(ContinuesWith(t))) \subseteq approved[t] \union ToSet(queue[t])
       /\ active[t] = None => act[cur[t]] \notin Invokes
       /\ pc[t] # "next" \/ active[t] # None => queue[t] # <<>>
  /\ pc[t] = "authorized" /\ t \notin discards => ToSet(HandlersOf(cur[t])) \subseteq approved[t]

\* What the last status sent for an invoke must say once its turn ends.
Truthful(t) ==
  /\ reply[t] = 200 => t \in redeemed \/ act[t] \in {"verifyCancel", "failure"}
  /\ approved[t] # {} => reply[t] = 200
  /\ act[t] \in Verifications /\ pc[t] \in {"throwing", "failed"} /\ approved[t] = {} =>
       reply[t] # 200

\* How far an invoke has come, and what has been replied to it.
ReplyOK(t) ==
  teams /\ act[t] \in Invokes =>
    /\ pc[t] # "revalidate"
    /\ pc[t] \in {"reading", "discarding", "category", "prompted", "exchange"}
         \/ (pc[t] = "next" /\ active[t] # None) => approved[t] = {} /\ reply[t] = None
    /\ pc[t] = "token" /\ active[t] # None => approved[t] = {} /\ reply[t] = 200
    /\ pc[t] \in {"next", "token", "card"} /\ active[t] = None => approved[t] # {} /\ reply[t] = 200
    /\ pc[t] = "exchange" => act[t] \notin Verifications
    /\ pc[t] = "approved" => reply[t] = 200 /\ t \in redeemed
    /\ approved[t] # {} => t \in redeemed
    /\ pc[t] \in {"rejected", "throwing"} \/ Ended(t) => Truthful(t)

\* Attempts that the answers to the present card have left.
AttemptsLeft == MaxAttempts - misses

\* What is stored of a sign-in is what the user knows of it.
Known == (session # None <=> asked) /\ (session # None => session.attempts = AttemptsLeft)

\* What a turn that works alone knows of the session.
AloneOK(t) ==
  /\ pc[t] = "reading" => Known
  /\ pc[t] = "next" /\ active[t] = None => session = None /\ ~asked
  /\ pc[t] \in {"next", "category"} /\ active[t] # None => asked /\ active[t].attempts = AttemptsLeft
  /\ pc[t] = "prompted" => asked /\ active[t].attempts = AttemptsLeft + 1
  /\ pc[t] = "exchange" => asked /\ session # None /\ session.attempts = AttemptsLeft
  /\ pc[t] = "card" => asked /\ misses = 0

\* A turn at work, and the session, are not those of an activity resumed before.
NotResumed(u) ==
  /\ session # None => session.activity # u
  /\ \A t \in Turns : Working(t) => cur[t] # u /\ ContinuesWith(t) # u

AloneInv ==
  ~overlapped =>
    /\ \A t, u \in Turns : Working(t) /\ Working(u) => t = u
    /\ Quiescent => Known
    /\ \A t \in Turns : Working(t) => AloneOK(t)
    /\ \A u \in Turns : /\ \A t, v \in resumed[u] : t = v
                        /\ resumed[u] # {} => NotResumed(u)

\* An activity that was resumed has arrived, and is no invoke unless it passed.
ResumedOK ==
  \A u \in Turns : resumed[u] # {} => pc[u] # "idle" /\ (u \notin discards => act[u] \notin Invokes)

IInv ==
  /\ TypeOK
  /\ session # None => SessionOK(session)
  /\ \A t \in Turns : TurnOK(t) /\ QueueOK(t) /\ ReplyOK(t)
  /\ ResumedOK
  /\ AloneInv

-----------------------------------------------------------------------------
(* Sequences of handlers, and the session.                                 *)

\* The members of a sequence are its first and those of the rest.
LEMMA ToSetParts ==
  ASSUME NEW S, NEW q \in Seq(S), q # <<>>
  PROVE  /\ Head(q) \in S /\ Tail(q) \in Seq(S)
         /\ ToSet(q) = {Head(q)} \union ToSet(Tail(q))
<1>1. Len(q) \in Nat \ {0} /\ Head(q) = q[1] /\ DOMAIN q = 1..Len(q)
  BY EmptySeq, HeadTailProperties
<1>2. /\ Tail(q) \in Seq(S) /\ Len(Tail(q)) = Len(q) - 1
      /\ \A i \in 1..Len(Tail(q)) : Tail(q)[i] = q[i + 1]
  BY HeadTailProperties
<1>3. DOMAIN Tail(q) = 1..(Len(q) - 1)
  BY <1>2
<1>4. ASSUME NEW i \in 1..Len(q) PROVE q[i] \in {Head(q)} \union ToSet(Tail(q))
  <2>1. CASE i = 1
    BY <1>1, <2>1
  <2>2. CASE i # 1
    <3>1. i - 1 \in 1..(Len(q) - 1) /\ Tail(q)[i - 1] = q[i]
      BY <1>1, <1>2, <2>2
    <3> QED BY <1>3, <3>1 DEF ToSet
  <2> QED BY <2>1, <2>2
<1>5. ASSUME NEW i \in 1..(Len(q) - 1) PROVE Tail(q)[i] \in ToSet(q)
  <2>1. i + 1 \in 1..Len(q) /\ Tail(q)[i] = q[i + 1]
    BY <1>1, <1>2
  <2> QED BY <1>1, <2>1 DEF ToSet
<1>6. q[1] \in ToSet(q) /\ q[1] \in S
  BY <1>1 DEF ToSet
<1> QED BY <1>1, <1>2, <1>3, <1>4, <1>5, <1>6 DEF ToSet

\* Sorting the handlers of a route loses none and adds none.
LEMMA ActiveFirstSorts ==
  ASSUME NEW hs \in Seq(Handlers), NEW h \in ToSet(hs)
  PROVE  /\ ActiveFirst(h, hs) \in Seq(Handlers) /\ ActiveFirst(h, hs) # <<>>
         /\ ToSet(ActiveFirst(h, hs)) = ToSet(hs)
<1> DEFINE i == CHOOSE n \in DOMAIN hs : hs[n] = h
           q == ActiveFirst(h, hs)
<1>1. Len(hs) \in Nat /\ DOMAIN hs = 1..Len(hs)
  OBVIOUS
<1>2. i \in 1..Len(hs) /\ hs[i] = h
  BY <1>1 DEF ToSet
<1>3. q = [n \in 1..Len(hs) |-> IF n = 1 THEN h ELSE IF n <= i THEN hs[n - 1] ELSE hs[n]]
  BY <1>1 DEF ActiveFirst
<1> HIDE DEF i, q
<1>4. \A n \in 1..Len(hs) : q[n] \in ToSet(hs)
  BY <1>1, <1>2, <1>3 DEF ToSet
<1>5. ASSUME NEW n \in 1..Len(hs) PROVE \E m \in 1..Len(hs) : q[m] = hs[n]
  <2>1. CASE n = i
    <3>1. q[1] = h
      BY <1>1, <1>2, <1>3
    <3> QED BY <1>1, <1>2, <2>1, <3>1
  <2>2. CASE n < i
    <3>1. n + 1 \in 1..Len(hs) /\ q[n + 1] = hs[n]
      BY <1>1, <1>2, <1>3, <2>2
    <3> QED BY <3>1
  <2>3. CASE n > i
    <3>1. q[n] = hs[n]
      BY <1>1, <1>2, <1>3, <2>3
    <3> QED BY <3>1
  <2> QED BY <1>1, <1>2, <2>1, <2>2, <2>3
<1>6. \A x \in ToSet(hs) : x \in Handlers
  BY <1>1 DEF ToSet
<1>7. q \in Seq(Handlers)
  BY <1>1, <1>3, <1>4, <1>6
<1>8. q # <<>> /\ ToSet(q) = ToSet(hs)
  <2>1. DOMAIN q = 1..Len(hs)
    BY <1>3
  <2>2. ToSet(q) = ToSet(hs)
    BY <1>1, <1>4, <1>5, <2>1 DEF ToSet
  <2> QED BY <1>1, <1>2, <2>1, <2>2
<1> QED BY <1>7, <1>8 DEF q

\* The handlers a turn asks to sign in.
LEMMA HandlersOfType ==
  ASSUME NEW u PROVE HandlersOf(u) \in Seq(Handlers) /\ (HandlersOf(u) # <<>> => act[u] = "ask")
BY SignInAssumption DEF HandlersOf

\* A record may have no attempt left.
LEMMA AttemptBounds ==
  MaxAttempts \in Nat \ {0} /\ 0 \in 0..MaxAttempts /\ MaxAttempts \in 0..MaxAttempts
BY SignInAssumption

\* Records that were valid stay so, as tags only grow.
LEMMA WriteType ==
  ASSUME TypeOK, NEW record \in Sessions, Write(record)
  PROVE  /\ nextTag' \in Nat \ {0} /\ Sessions \subseteq Sessions'
         /\ session' \in Sessions' /\ session' # None
         /\ session'.activity = record.activity /\ session'.id = record.id
         /\ session'.attempts = record.attempts
<1>1. nextTag \in Nat \ {0}
  BY DEF TypeOK
<1>2. nextTag' \in {nextTag, nextTag + 1}
  BY DEF Write
<1>3. Sessions \subseteq Sessions' /\ nextTag' \in Nat \ {0}
  BY <1>1, <1>2 DEF Sessions
<1>4. session' = [record EXCEPT !.tag = IF versioned THEN nextTag ELSE 0]
  BY DEF Write
<1>5. session' = [activity |-> record.activity, id |-> record.id, attempts |-> record.attempts,
                  signin |-> record.signin, tag |-> IF versioned THEN nextTag ELSE 0]
  BY <1>4 DEF Sessions
<1>6. (IF versioned THEN nextTag ELSE 0) \in 0..(nextTag' - 1)
  BY <1>1 DEF Write
<1>7. session' \in Sessions'
  BY <1>5, <1>6 DEF Sessions
<1>8. session' # None
  <2>1. MaxAttempts \in Nat
    BY SignInAssumption
  <2>2. session' \in [activity : Turns, id : Handlers, attempts : Nat, signin : BOOLEAN, tag : Nat]
    BY <1>3, <1>7, <2>1 DEF Sessions
  <2> QED BY <2>2, NoneAssumption
<1> QED BY <1>3, <1>5, <1>7, <1>8

-----------------------------------------------------------------------------
(* What the step of one turn leaves alone.                                 *)

Same(u) ==
  /\ pc'[u] = pc[u] /\ act'[u] = act[u] /\ cur'[u] = cur[u] /\ active'[u] = active[u]
  /\ queue'[u] = queue[u] /\ reply'[u] = reply[u] /\ approved'[u] = approved[u]
  /\ u \in discards' <=> u \in discards
  /\ u \in redeemed' <=> u \in redeemed

\* Activities that have arrived stay as they are.
ArrivedStay == \A u \in Turns : pc[u] # "idle" => pc'[u] # "idle" /\ act'[u] = act[u]

\* A turn that no step touches keeps its part of the invariant.
LEMMA OthersStay ==
  ASSUME IInv, NEW u \in Turns, Same(u), ArrivedStay, teams' = teams
  PROVE  (TurnOK(u) /\ QueueOK(u) /\ ReplyOK(u))'
<1>1. TypeOK /\ TurnOK(u) /\ QueueOK(u) /\ ReplyOK(u)
  BY DEF IInv
<1>2. /\ active[u] # None => active[u] \in Sessions /\ active[u].activity \in Turns
      /\ cur[u] \in Turns
  BY <1>1 DEF TypeOK, Sessions
<1> USE DEF Same
<1>3. TurnOK(u)'
  <2>1. active'[u] # None => SessionOK(active[u])'
    BY <1>1, <1>2 DEF TurnOK, SessionOK, ArrivedStay, HandlersOf
  <2> QED BY <1>1, <1>2, <2>1 DEF TurnOK, ArrivedStay
<1>4. ASSUME pc[u] # "idle" PROVE act'[cur[u]] = act[cur[u]]
  BY <1>1, <1>2, <1>4 DEF TurnOK, ArrivedStay
<1>5. ASSUME pc[u] # "idle"
      PROVE  ContinuesWith(u)' = ContinuesWith(u)
             /\ HandlersOf(ContinuesWith(u))' = HandlersOf(ContinuesWith(u))
             /\ HandlersOf(cur[u])' = HandlersOf(cur[u])
  <2>1. ContinuesWith(u)' = ContinuesWith(u)
    BY DEF ContinuesWith
  <2>2. pc[ContinuesWith(u)] # "idle" /\ ContinuesWith(u) \in Turns
    BY <1>1, <1>2, <1>5 DEF ContinuesWith, TurnOK, SessionOK
  <2>3. act'[ContinuesWith(u)] = act[ContinuesWith(u)]
    BY <2>2 DEF ArrivedStay
  <2> QED BY <1>4, <1>5, <2>1, <2>3 DEF HandlersOf
<1>6. QueueOK(u)'
  BY <1>1, <1>4, <1>5 DEF QueueOK, Signing
<1>7. ReplyOK(u)'
  BY <1>1 DEF ReplyOK, Truthful, Ended
<1> QED BY <1>3, <1>6, <1>7

\* The activities a turn may leave behind: its own, the one it goes on with, the session's.
Mine(t) == {cur[t], ContinuesWith(t)} \union IF session = None THEN {} ELSE {session.activity}

\* A step of a turn that does not reach a route.
GoesOn(t) ==
  /\ resumed' = resumed /\ discards' = discards
  /\ session' # None => session'.activity \in Mine(t)
  /\ Working(t)' => cur'[t] \in Mine(t) /\ ContinuesWith(t)' \in Mine(t)

\* A step with which a turn passes.
Passes(t) ==
  /\ resumed' = [resumed EXCEPT ![cur[t]] = @ \union {t}] /\ discards \subseteq discards'
  /\ cur[t] \notin discards' => act[cur[t]] \notin Invokes
  /\ ~Working(t)' /\ (~overlapped => session' = None)

\* What a step of one turn has to show to keep the invariant.
LEMMA StepIInv ==
  ASSUME IInv, NEW t \in Turns, Working(t), TypeOK', UNCHANGED <<teams, act, overlapped>>,
         pc'[t] # "idle", \A u \in Turns \ {t} : Same(u),
         session' # None => SessionOK(session)',
         TurnOK(t)', QueueOK(t)', ReplyOK(t)',
         GoesOn(t) \/ Passes(t),
         ~overlapped => IF Working(t)' THEN AloneOK(t)' ELSE Known'
  PROVE  IInv'
<1>1. TypeOK /\ TurnOK(t) /\ pc[t] # "idle" /\ cur[t] \in Turns /\ pc[cur[t]] # "idle"
  BY DEF IInv, TypeOK, Working, TurnOK
<1>2. ArrivedStay
  BY DEF ArrivedStay, Same
<1>3. \A u \in Turns : (TurnOK(u) /\ QueueOK(u) /\ ReplyOK(u))'
  <2> SUFFICES ASSUME NEW u \in Turns, u # t PROVE (TurnOK(u) /\ QueueOK(u) /\ ReplyOK(u))'
    OBVIOUS
  <2>1. Same(u)
    OBVIOUS
  <2> QED BY <1>2, <2>1, OthersStay
<1>4. ResumedOK'
  <2> SUFFICES ASSUME NEW u \in Turns, resumed'[u] # {}
               PROVE  pc'[u] # "idle" /\ (u \notin discards' => act[u] \notin Invokes)
    BY DEF ResumedOK
  <2>1. CASE resumed[u] # {}
    <3>1. pc[u] # "idle" /\ (u \notin discards => act[u] \notin Invokes)
      BY <2>1 DEF IInv, ResumedOK
    <3> QED BY <1>2, <3>1 DEF ArrivedStay, GoesOn, Passes
  <2>2. CASE resumed[u] = {}
    <3>1. Passes(t)
      BY <2>2 DEF GoesOn
    <3>2. u = cur[t]
      BY <1>1, <2>2, <3>1 DEF Passes, TypeOK
    <3> QED BY <1>1, <1>2, <3>1, <3>2 DEF ArrivedStay, Passes
  <2> QED BY <2>1, <2>2
<1>5. AloneInv'
  <2> SUFFICES ASSUME ~overlapped
               PROVE  /\ \A u, v \in Turns : Working(u)' /\ Working(v)' => u = v
                      /\ Quiescent' => Known'
                      /\ \A u \in Turns : Working(u)' => AloneOK(u)'
                      /\ \A u \in Turns : /\ \A w, v \in resumed'[u] : w = v
                                          /\ resumed'[u] # {} => NotResumed(u)'
    BY DEF AloneInv
  <2>1. /\ \A u \in Turns : Working(u) => u = t
        /\ \A u \in Turns : /\ \A w, v \in resumed[u] : w = v
                            /\ resumed[u] # {} => NotResumed(u)
    BY DEF IInv, AloneInv
  <2>2. \A u \in Turns : Working(u)' => u = t
    <3> SUFFICES ASSUME NEW u \in Turns, Working(u)', u # t PROVE FALSE
      OBVIOUS
    <3>1. pc'[u] = pc[u]
      BY DEF Same
    <3> QED BY <2>1, <3>1 DEF Working, Ended
  <2>3. Quiescent' => Known'
    BY DEF Quiescent
  <2>4. \A u \in Turns : Working(u)' => AloneOK(u)'
    BY <2>2
  <2>5. ASSUME NEW u \in Turns
        PROVE  /\ \A w, v \in resumed'[u] : w = v
               /\ resumed'[u] # {} => NotResumed(u)'
    <3>1. CASE resumed'[u] = resumed[u] /\ u \notin Mine(t) /\ GoesOn(t)
      BY <2>1, <2>2, <3>1 DEF GoesOn, NotResumed
    <3>2. CASE resumed'[u] = resumed[u] /\ Passes(t)
      BY <2>1, <2>2, <3>2 DEF Passes, NotResumed
    <3>3. CASE GoesOn(t)
      <4>1. resumed[u] # {} => u \notin Mine(t)
        BY <2>1 DEF NotResumed, Mine
      <4> QED BY <2>1, <3>1, <3>3, <4>1 DEF GoesOn
    <3>4. CASE Passes(t) /\ u = cur[t]
      <4>1. resumed[u] = {}
        BY <2>1, <3>4 DEF NotResumed
      <4>2. resumed'[u] = {t}
        BY <1>1, <3>4, <4>1 DEF Passes, TypeOK
      <4> QED BY <2>2, <3>4, <4>2 DEF Passes, NotResumed
    <3>5. CASE Passes(t) /\ u # cur[t]
      BY <1>1, <3>2, <3>5 DEF Passes, TypeOK
    <3> QED BY <3>3, <3>4, <3>5
  <2> QED BY <2>2, <2>3, <2>4, <2>5
<1> QED BY <1>3, <1>4, <1>5 DEF IInv

-----------------------------------------------------------------------------
(* The steps of a turn.                                                    *)

\* What every step of a turn may rely on, and what it leaves alone.
AtWork(t) ==
  /\ TypeOK /\ TurnOK(t) /\ QueueOK(t) /\ ReplyOK(t) /\ (~overlapped => AloneOK(t))
  /\ session # None => SessionOK(session) /\ session \in Sessions /\ pc'[session.activity] # "idle"
  /\ active[t] # None => /\ active[t] \in Sessions /\ active[t].activity \in Turns
                         /\ pc'[active[t].activity] # "idle"
  /\ cur[t] \in Turns /\ pc'[cur[t]] # "idle" /\ act[t] \in Activities
  /\ Working(t) /\ pc'[t] # "idle" /\ UNCHANGED <<teams, versioned, act, conv, overlapped>>
  /\ \A u \in Turns \ {t} : Same(u)
  /\ \A u : HandlersOf(u)' = HandlersOf(u)

\* A step of a turn at work changes nothing of the others.
LEMMA StepAtWork == ASSUME IInv, NEW t \in Turns, Step(t) PROVE AtWork(t)
<1>1. TypeOK
  BY DEF IInv
<1>2. /\ Working(t) /\ pc'[t] # "idle" /\ UNCHANGED <<teams, versioned, act, conv, overlapped>>
      /\ \A u \in Turns \ {t} : Same(u)
  <2> USE <1>1 DEF TypeOK, Goto, Replies, local, history, Same, Working, Ended
  <2>1. CASE ReadSession(t)
    BY <2>1 DEF ReadSession, RefusesInvoke, LeavesConversation, Continues
  <2>2. CASE Discard(t)
    BY <2>2 DEF Discard
  <2>3. CASE Authorize(t)
    BY <2>3 DEF Authorize
  <2>4. CASE Approve(t)
    BY <2>4 DEF Approve
  <2>5. CASE Reject(t)
    BY <2>5 DEF Reject
  <2>6. CASE SignIn(t)
    BY <2>6 DEF SignIn, Verify
  <2>7. CASE WriteCategory(t)
    BY <2>7 DEF WriteCategory, HandleInvoke, Verify
  <2>8. CASE WriteAttempts(t)
    BY <2>8 DEF WriteAttempts
  <2>9. CASE Exchange(t)
    BY <2>9 DEF Exchange
  <2>10. CASE GetToken(t)
    BY <2>10 DEF GetToken, NoTokenReply
  <2>11. CASE WriteSession(t)
    BY <2>11 DEF WriteSession
  <2> QED BY <2>1, <2>2, <2>3, <2>4, <2>5, <2>6, <2>7, <2>8, <2>9, <2>10, <2>11 DEF Step
<1>3. \A u \in Turns : pc[u] # "idle" => pc'[u] # "idle"
  BY <1>2 DEF Same
<1>4. TurnOK(t) /\ QueueOK(t) /\ ReplyOK(t) /\ (~overlapped => AloneOK(t)) /\ pc[t] # "idle"
  BY <1>2 DEF IInv, AloneInv, Working
<1>5. session # None => /\ SessionOK(session) /\ session \in Sessions
                        /\ pc'[session.activity] # "idle"
  BY <1>1, <1>3 DEF IInv, TypeOK, SessionOK, Sessions
<1>6. active[t] # None => /\ active[t] \in Sessions /\ active[t].activity \in Turns
                          /\ pc'[active[t].activity] # "idle"
  BY <1>1, <1>3, <1>4 DEF TurnOK, TypeOK, SessionOK, Sessions
<1>7. cur[t] \in Turns /\ pc'[cur[t]] # "idle" /\ act[t] \in Activities
  BY <1>1, <1>3, <1>4 DEF TurnOK, TypeOK
<1>8. \A u : HandlersOf(u)' = HandlersOf(u)
  BY <1>2 DEF HandlersOf
<1> QED BY <1>1, <1>2, <1>4, <1>5, <1>6, <1>7, <1>8 DEF AtWork

\* ReadSession keeps the invariant.
LEMMA ReadSessionIInv == ASSUME IInv, NEW t \in Turns, ReadSession(t) PROVE IInv'
<1>1. /\ pc[t] = "reading"
      /\ UNCHANGED <<teams, versioned, session, nextTag, signed, act, conv, cur, approved, redeemed, discards,
                     resumed, misses, asked, overlapped>>
  BY DEF ReadSession, storage, history
<1>2. /\ TypeOK /\ TurnOK(t) /\ QueueOK(t) /\ ReplyOK(t) /\ (~overlapped => AloneOK(t))
      /\ session # None => SessionOK(session)
  BY StepAtWork DEF Step, AtWork
<1>3. /\ session # None => session \in Sessions /\ pc'[session.activity] # "idle"
      /\ active[t] # None => pc'[active[t].activity] # "idle"
      /\ cur[t] = t /\ act[t] \in Activities /\ \A u : HandlersOf(u)' = HandlersOf(u)
  BY <1>1, StepAtWork DEF Step, AtWork, TurnOK
<1>4. Working(t) /\ pc'[t] # "idle" /\ \A u \in Turns \ {t} : Same(u)
  BY StepAtWork DEF Step, AtWork
<1>5. session # None => session.activity \in Turns
  BY <1>3 DEF Sessions
<1>6. Sessions' = Sessions
  BY <1>1 DEF Sessions
<1>7. session' # None => SessionOK(session)'
  BY <1>1, <1>2, <1>3 DEF SessionOK
<1>8. CASE RefusesInvoke(t)
  <2>1. /\ session = None /\ pc' = [pc EXCEPT ![t] = "unauthorized"] /\ UNCHANGED <<active, queue>>
        /\ reply' = IF teams THEN [reply EXCEPT ![t] = 400] ELSE reply
    BY <1>8 DEF RefusesInvoke, Goto, Replies
  <2>2. TypeOK'
    BY <1>1, <1>2, <1>3, <1>6, <2>1 DEF TypeOK, Stages, Statuses
  <2>3. pc'[t] = "unauthorized" /\ (teams => reply'[t] = 400)
    BY <1>2, <2>1 DEF TypeOK
  <2>4. TurnOK(t)' /\ QueueOK(t)'
    BY <1>1, <1>2, <1>3, <1>4, <2>1, <2>3 DEF TurnOK, QueueOK, Signing, SessionOK
  <2>5. ReplyOK(t)'
    BY <1>1, <1>2, <1>3, <2>3 DEF ReplyOK, Truthful
  <2>6. GoesOn(t) /\ ~Working(t)' /\ (~overlapped => Known')
    BY <1>1, <1>2, <1>3, <2>1, <2>3 DEF GoesOn, Working, Ended, AloneOK, Known, AttemptsLeft
  <2> QED BY <1>1, <1>4, <1>7, <2>2, <2>3, <2>4, <2>5, <2>6, StepIInv
<1>9. CASE LeavesConversation(t)
  <2>1. session # None /\ pc' = [pc EXCEPT ![t] = "discarding"] /\ UNCHANGED <<active, queue, reply>>
    BY <1>9 DEF LeavesConversation, Goto
  <2>2. TypeOK'
    BY <1>1, <1>2, <1>3, <1>6, <2>1 DEF TypeOK, Stages
  <2>3. pc'[t] = "discarding"
    BY <1>2, <2>1 DEF TypeOK
  <2>4. TurnOK(t)' /\ QueueOK(t)'
    BY <1>1, <1>2, <1>3, <1>4, <2>1, <2>3 DEF TurnOK, QueueOK, Signing, SessionOK
  <2>5. ReplyOK(t)'
    BY <1>1, <1>2, <1>3, <2>1, <2>3 DEF ReplyOK, Truthful, Ended
  <2>6. GoesOn(t) /\ (~overlapped => AloneOK(t)') /\ Working(t)'
    BY <1>1, <1>2, <1>3, <2>1, <2>3 DEF GoesOn, Working, Ended, AloneOK, Mine, ContinuesWith
  <2> QED BY <1>1, <1>4, <1>7, <2>2, <2>3, <2>4, <2>5, <2>6, StepIInv
<1>10. CASE Continues(t)
  <2>1. /\ session = None => act[t] \notin Invokes
        /\ active' = [active EXCEPT ![t] = session]
        /\ queue' = [queue EXCEPT ![t] = IF session = None THEN HandlersOf(t)
                                           ELSE ActiveFirst(session.id, HandlersOf(session.activity))]
        /\ pc' = [pc EXCEPT ![t] = "next"] /\ UNCHANGED reply
    BY <1>10 DEF Continues, Goto
  <2>2. session # None =>
          /\ ActiveFirst(session.id, HandlersOf(session.activity)) \in Seq(Handlers)
          /\ ActiveFirst(session.id, HandlersOf(session.activity)) # <<>>
          /\ ToSet(ActiveFirst(session.id, HandlersOf(session.activity)))
               = ToSet(HandlersOf(session.activity))
    BY <1>2, HandlersOfType, ActiveFirstSorts DEF SessionOK
  <2>3. HandlersOf(t) \in Seq(Handlers)
    BY HandlersOfType
  <2>4. /\ pc'[t] = "next" /\ active'[t] = session /\ queue'[t] \in Seq(Handlers)
        /\ session = None => queue'[t] = HandlersOf(t)
        /\ session # None => queue'[t] # <<>> /\ ToSet(queue'[t]) = ToSet(HandlersOf(session.activity))
    BY <1>2, <2>1, <2>2, <2>3 DEF TypeOK
  <2>5. TypeOK'
    <3>1. queue' \in [Turns -> Seq(Handlers)]
      BY <1>2, <2>1, <2>4 DEF TypeOK
    <3>2. active' \in [Turns -> Sessions \union {None}]
      BY <1>2, <1>3, <2>1 DEF TypeOK
    <3> QED BY <1>1, <1>2, <1>3, <1>6, <2>1, <3>1, <3>2 DEF TypeOK, Stages
  <2>6. TurnOK(t)'
    BY <1>1, <1>2, <1>3, <1>7, <2>1, <2>4 DEF TurnOK
  <2>7. /\ ContinuesWith(t)' = IF session = None THEN t ELSE session.activity
        /\ \A u : HandlersOf(u)' = HandlersOf(u)
    BY <1>1, <1>3, <2>4 DEF ContinuesWith, HandlersOf
  <2>8. QueueOK(t)'
    BY <1>1, <1>3, <2>1, <2>4, <2>7 DEF QueueOK, Signing
  <2>9. ReplyOK(t)'
    BY <1>1, <1>2, <1>3, <2>1, <2>4 DEF ReplyOK, Truthful, Ended
  <2>10. GoesOn(t) /\ (~overlapped => AloneOK(t)') /\ Working(t)'
    <3>1. GoesOn(t)
      BY <1>1, <1>3, <2>7 DEF GoesOn, Mine
    <3> QED BY <1>1, <1>2, <1>3, <2>4, <3>1 DEF Working, Ended, AloneOK, Known, AttemptsLeft
  <2> QED BY <1>1, <1>4, <1>7, <2>4, <2>5, <2>6, <2>8, <2>9, <2>10, StepIInv
<1> QED BY <1>8, <1>9, <1>10 DEF ReadSession

\* Discard keeps the invariant.
LEMMA DiscardIInv == ASSUME IInv, NEW t \in Turns, Discard(t) PROVE IInv'
<1>1. /\ pc[t] = "discarding" /\ session' = None /\ pc' = [pc EXCEPT ![t] = "authorized"]
      /\ discards' = discards \union {t} /\ asked' = FALSE /\ misses' = 0
      /\ resumed' = [resumed EXCEPT ![t] = @ \union {t}]
      /\ UNCHANGED <<nextTag, signed, cur, active, queue, reply, approved, redeemed>>
  BY DEF Discard, DeleteSession, Goto, local
<1>2. AtWork(t)
  BY StepAtWork DEF Step
<1>3. pc'[t] = "authorized" /\ cur[t] = t
  BY <1>1, <1>2 DEF AtWork, TypeOK, TurnOK
<1>4. TypeOK'
  BY <1>1, <1>2, AttemptBounds DEF AtWork, TypeOK, Stages, Sessions
<1>5. TurnOK(t)' /\ QueueOK(t)'
  BY <1>1, <1>2, <1>3 DEF AtWork, TurnOK, QueueOK, Signing, SessionOK
<1>6. ReplyOK(t)'
  BY <1>1, <1>2, <1>3, NoneAssumption DEF AtWork, ReplyOK, Truthful, Statuses
<1>7. Passes(t) /\ ~Working(t)' /\ Known'
  BY <1>1, <1>3 DEF Passes, Working, Ended, Known
<1> QED BY <1>1, <1>2, <1>3, <1>4, <1>5, <1>6, <1>7, StepIInv DEF AtWork

\* Authorize keeps the invariant.
LEMMA AuthorizeIInv == ASSUME IInv, NEW t \in Turns, Authorize(t) PROVE IInv'
<1>1. /\ pc[t] = "next" /\ queue[t] = <<>> /\ signed' \subseteq signed
      /\ pc' = [pc EXCEPT ![t] = "authorized"]
      /\ resumed' = [resumed EXCEPT ![cur[t]] = @ \union {t}]
      /\ UNCHANGED <<session, nextTag, cur, active, queue, reply, approved, redeemed, discards, misses,
                     asked>>
  BY DEF Authorize, Goto, local, storage
<1>2. AtWork(t)
  BY StepAtWork DEF Step
<1>3. /\ pc'[t] = "authorized" /\ active[t] = None
      /\ act[cur[t]] \notin Invokes /\ ToSet(HandlersOf(cur[t])) \subseteq approved[t]
  <2>1. active[t] = None /\ act[cur[t]] \notin Invokes
        /\ ToSet(HandlersOf(cur[t])) \subseteq approved[t] \union ToSet(queue[t])
    BY <1>1, <1>2 DEF AtWork, QueueOK, Signing, ContinuesWith
  <2>2. ToSet(queue[t]) = {}
    BY <1>1 DEF ToSet
  <2> QED BY <1>1, <1>2, <2>1, <2>2 DEF AtWork, TypeOK
<1>4. TypeOK'
  BY <1>1, <1>2 DEF AtWork, TypeOK, Stages, Sessions
<1>5. TurnOK(t)' /\ QueueOK(t)'
  BY <1>1, <1>2, <1>3 DEF AtWork, TurnOK, QueueOK, Signing
<1>6. ReplyOK(t)'
  BY <1>1, <1>2, <1>3 DEF AtWork, ReplyOK, Truthful
<1>7. Passes(t) /\ ~Working(t)' /\ (~overlapped => Known')
  BY <1>1, <1>2, <1>3 DEF AtWork, AloneOK, Passes, Working, Ended, Known
<1>8. session' # None => SessionOK(session)'
  BY <1>1, <1>2 DEF AtWork, SessionOK
<1> QED BY <1>1, <1>2, <1>3, <1>4, <1>5, <1>6, <1>7, <1>8, StepIInv DEF AtWork

\* Approve keeps the invariant.
LEMMA ApproveIInv == ASSUME IInv, NEW t \in Turns, Approve(t) PROVE IInv'
<1>1. /\ pc[t] = "approved" /\ session' = None
      /\ approved' = [approved EXCEPT ![t] = @ \union {Head(queue[t])}]
      /\ cur' = [cur EXCEPT ![t] = ContinuesWith(t)]
      /\ active' = [active EXCEPT ![t] = None]
      /\ queue' = [queue EXCEPT ![t] = Tail(@)]
      /\ pc' = [pc EXCEPT ![t] = "next"]
      /\ asked' = FALSE /\ misses' = 0
      /\ UNCHANGED <<nextTag, signed, reply, redeemed, discards, resumed>>
  BY DEF Approve, DeleteSession, Goto
<1>2. AtWork(t)
  BY StepAtWork DEF Step
<1>3. /\ queue[t] \in Seq(Handlers) /\ queue[t] # <<>>
      /\ ToSet(queue[t]) \subseteq ToSet(HandlersOf(ContinuesWith(t)))
      /\ ToSet(HandlersOf(ContinuesWith(t))) \subseteq approved[t] \union ToSet(queue[t])
      /\ ContinuesWith(t) \in Turns /\ pc'[ContinuesWith(t)] # "idle"
      /\ act[ContinuesWith(t)] \notin Invokes
  <2>1. /\ queue[t] \in Seq(Handlers) /\ queue[t] # <<>>
        /\ ToSet(queue[t]) \subseteq ToSet(HandlersOf(ContinuesWith(t)))
        /\ ToSet(HandlersOf(ContinuesWith(t))) \subseteq approved[t] \union ToSet(queue[t])
        /\ active[t] = None => act[cur[t]] \notin Invokes
    BY <1>1, <1>2 DEF AtWork, QueueOK, Signing, TypeOK
  <2>2. ContinuesWith(t) \in Turns /\ pc'[ContinuesWith(t)] # "idle"
    BY <1>2 DEF AtWork, ContinuesWith
  <2>3. active[t] # None => act[ContinuesWith(t)] = "ask"
    <3>1. active[t] # None => HandlersOf(active[t].activity) # <<>>
      BY <1>2 DEF AtWork, TurnOK, SessionOK, ToSet
    <3> QED BY <3>1, HandlersOfType DEF ContinuesWith
  <2> QED BY <2>1, <2>2, <2>3 DEF ContinuesWith, Invokes, Verifications
<1>4. /\ Head(queue[t]) \in Handlers /\ Tail(queue[t]) \in Seq(Handlers)
      /\ ToSet(queue[t]) = {Head(queue[t])} \union ToSet(Tail(queue[t]))
  BY <1>3, ToSetParts
<1>5. /\ pc'[t] = "next" /\ active'[t] = None /\ cur'[t] = ContinuesWith(t)
      /\ queue'[t] = Tail(queue[t]) /\ approved'[t] = approved[t] \union {Head(queue[t])}
      /\ ContinuesWith(t)' = ContinuesWith(t)
  BY <1>1, <1>2 DEF AtWork, TypeOK, ContinuesWith
<1>6. TypeOK'
  BY <1>1, <1>2, <1>3, <1>4, AttemptBounds DEF AtWork, TypeOK, Stages, Sessions
<1>7. TurnOK(t)'
  BY <1>1, <1>2, <1>3, <1>5 DEF AtWork, TurnOK
<1>8. QueueOK(t)'
  BY <1>1, <1>2, <1>3, <1>4, <1>5 DEF AtWork, QueueOK, Signing
<1>9. ReplyOK(t)'
  BY <1>1, <1>2, <1>5 DEF AtWork, ReplyOK, Ended
<1>10. GoesOn(t) /\ Working(t)' /\ AloneOK(t)'
  BY <1>1, <1>2, <1>5 DEF AtWork, GoesOn, Mine, Working, Ended, AloneOK
<1> QED BY <1>1, <1>2, <1>6, <1>7, <1>8, <1>9, <1>10, StepIInv DEF AtWork

\* Reject keeps the invariant.
LEMMA RejectIInv == ASSUME IInv, NEW t \in Turns, Reject(t) PROVE IInv'
<1> DEFINE to == CASE pc[t] = "rejected" -> "unauthorized"
                   [] pc[t] = "throwing" -> "failed"
                   [] pc[t] = "revalidate" -> "reading"
<1>1. /\ pc[t] \in {"rejected", "throwing", "revalidate"} /\ session' = None
      /\ pc' = [pc EXCEPT ![t] = to] /\ asked' = FALSE /\ misses' = 0
      /\ UNCHANGED <<nextTag, signed, cur, active, queue, reply, approved, redeemed, discards, resumed>>
  BY DEF Reject, DeleteSession, Goto, local
<1>2. AtWork(t)
  BY StepAtWork DEF Step
<1>3. /\ to \in {"unauthorized", "failed", "reading"}
      /\ to = "reading" <=> pc[t] = "revalidate"
      /\ to = "failed" <=> pc[t] = "throwing"
  BY <1>1
<1> HIDE DEF to
<1>4. pc'[t] = to
  BY <1>1, <1>2 DEF AtWork, TypeOK
<1>5. TypeOK'
  BY <1>1, <1>2, <1>3, AttemptBounds DEF AtWork, TypeOK, Stages, Sessions
<1>6. TurnOK(t)' /\ QueueOK(t)'
  BY <1>1, <1>2, <1>3, <1>4 DEF AtWork, TurnOK, QueueOK, Signing, SessionOK
<1>7. ReplyOK(t)'
  BY <1>1, <1>2, <1>3, <1>4 DEF AtWork, ReplyOK, Truthful, Ended
<1>8. GoesOn(t)
  BY <1>1, <1>2 DEF GoesOn, Mine, ContinuesWith
<1>9. IF Working(t)' THEN AloneOK(t)' ELSE Known'
  BY <1>1, <1>3, <1>4 DEF Working, Ended, AloneOK, Known
<1> QED BY <1>1, <1>2, <1>5, <1>6, <1>7, <1>8, <1>9, StepIInv DEF AtWork

\* A turn goes to its next stage.
LEMMA GotoFacts ==
  ASSUME TypeOK, NEW t \in Turns, NEW to \in Stages, Goto(t, to)
  PROVE  pc' \in [Turns -> Stages] /\ pc'[t] = to
BY DEF TypeOK, Goto

\* A reply to an invoke has a status.
LEMMA RepliesFacts ==
  ASSUME TypeOK, NEW t \in Turns, NEW status \in Statuses, Replies(t, status)
  PROVE  reply' \in [Turns -> Statuses \union {None}] /\ (teams => reply'[t] = status)
BY DEF TypeOK, Replies

\* What a handler says to a code, or to what is none.
LEMMA VerifyFacts ==
  ASSUME TypeOK, NEW t \in Turns, NEW a, Verify(t, a), active[t] \in Sessions
  PROVE  /\ pc' \in [Turns -> Stages] /\ reply' \in [Turns -> Statuses \union {None}]
         /\ misses' \in Nat
         /\ \/ pc'[t] = "rejected" /\ a = "verifyCancel" /\ (teams => reply'[t] = 200)
            \/ pc'[t] = "prompted" /\ misses' = misses + 1 /\ reply' = reply
            \/ pc'[t] = "token" /\ (teams => reply'[t] = 200)
<1>1. active[t].attempts \in 0..MaxAttempts /\ misses \in Nat /\ misses + 1 \in Nat
      /\ reply \in [Turns -> Statuses \union {None}]
  BY DEF TypeOK, Sessions
<1>2. "rejected" \in Stages /\ "prompted" \in Stages /\ "token" \in Stages /\ 200 \in Statuses
  BY DEF Stages, Statuses
<1> QED BY <1>1, <1>2, GotoFacts, RepliesFacts DEF Verify

\* SignIn keeps the invariant.
LEMMA SignInIInv == ASSUME IInv, NEW t \in Turns, SignIn(t) PROVE IInv'
<1>1. /\ pc[t] = "next" /\ queue[t] # <<>>
      /\ UNCHANGED <<session, nextTag, signed, cur, active, queue, approved, redeemed, discards, resumed,
                     asked>>
  BY DEF SignIn, local, storage
<1>2. AtWork(t)
  BY StepAtWork DEF Step
<1>3. /\ TypeOK /\ TurnOK(t) /\ QueueOK(t) /\ ReplyOK(t) /\ (~overlapped => AloneOK(t))
      /\ active[t] # None => active[t] \in Sessions /\ active[t].attempts \in 0..MaxAttempts /\ cur[t] = t
      /\ misses \in Nat /\ reply \in [Turns -> Statuses \union {None}]
      /\ UNCHANGED <<teams, act, overlapped>>
      /\ UNCHANGED <<active[t], queue[t], approved[t]>>
  BY <1>1, <1>2 DEF AtWork, TurnOK, TypeOK, Sessions
<1>4. /\ pc' \in [Turns -> Stages] /\ reply' \in [Turns -> Statuses \union {None}]
      /\ misses' \in Nat
      /\ \/ active[t] = None /\ pc'[t] = "token" /\ UNCHANGED <<misses, reply>>
         \/ active[t] # None /\ pc'[t] = "rejected" /\ UNCHANGED <<misses, reply>>
         \/ /\ active[t] # None /\ active[t].attempts > 0
            /\ \/ pc'[t] = "category" /\ UNCHANGED <<misses, reply>>
               \/ pc'[t] = "revalidate" /\ act[t] \notin Invokes
               \/ /\ act[t] \notin Invokes
                  /\ \/ pc'[t] = "rejected"
                     \/ pc'[t] = "prompted" /\ misses' = misses + 1
                     \/ pc'[t] = "token"
  <2>1. /\ "token" \in Stages /\ "rejected" \in Stages /\ "category" \in Stages
        /\ "revalidate" \in Stages
    BY DEF Stages
  <2>2. CASE active[t] = None /\ Goto(t, "token") /\ UNCHANGED <<misses, reply>>
    BY <1>3, <2>1, <2>2, GotoFacts
  <2>3. CASE active[t] # None /\ Goto(t, "rejected") /\ UNCHANGED <<misses, reply>>
    BY <1>3, <2>1, <2>3, GotoFacts
  <2>4. CASE /\ active[t] # None /\ ~Exhausted(t)
             /\ \/ Goto(t, "category") /\ UNCHANGED <<misses, reply>>
                \/ Goto(t, "revalidate") /\ act[t] \notin Invokes /\ UNCHANGED <<misses, reply>>
                \/ Verify(t, act[t]) /\ act[t] \notin Invokes
    <3>1. active[t].attempts > 0
      BY <1>3, <2>4 DEF Exhausted
    <3>2. CASE Goto(t, "category") /\ UNCHANGED <<misses, reply>>
      BY <1>3, <2>1, <2>4, <3>1, <3>2, GotoFacts
    <3>3. CASE Goto(t, "revalidate") /\ act[t] \notin Invokes /\ UNCHANGED <<misses, reply>>
      BY <1>3, <2>1, <2>4, <3>1, <3>3, GotoFacts
    <3>4. CASE Verify(t, act[t]) /\ act[t] \notin Invokes
      BY <1>3, <2>4, <3>1, <3>4, VerifyFacts
    <3> QED BY <2>4, <3>2, <3>3, <3>4
  <2> QED BY <1>3, <2>2, <2>3, <2>4 DEF SignIn
<1>5. TypeOK'
  BY <1>1, <1>2, <1>4 DEF AtWork, TypeOK, Sessions
<1>6. TurnOK(t)'
  BY <1>1, <1>2, <1>4 DEF AtWork, TurnOK, SessionOK
<1>7. QueueOK(t)'
  <2>1. ContinuesWith(t)' = ContinuesWith(t)
    BY <1>1 DEF ContinuesWith
  <2> QED BY <1>1, <1>2, <1>4, <2>1 DEF AtWork, QueueOK, Signing
<1>8. ReplyOK(t)'
  BY <1>1, <1>3, <1>4, NoneAssumption DEF ReplyOK, Truthful, Ended, Statuses
<1>9. GoesOn(t) /\ Working(t)'
  BY <1>1, <1>2, <1>4 DEF AtWork, GoesOn, Mine, Working, Ended, ContinuesWith
<1>10. ~overlapped => AloneOK(t)'
  BY <1>1, <1>3, <1>4, AttemptBounds DEF AloneOK, AttemptsLeft
<1>11. session' # None => SessionOK(session)'
  BY <1>1, <1>2 DEF AtWork, SessionOK
<1> QED BY <1>2, <1>5, <1>6, <1>7, <1>8, <1>9, <1>10, <1>11, StepIInv DEF AtWork

\* WriteCategory keeps the invariant.
LEMMA WriteCategoryIInv == ASSUME IInv, NEW t \in Turns, WriteCategory(t) PROVE IInv'
<1>1. /\ pc[t] = "category"
      /\ UNCHANGED <<signed, cur, active, queue, approved, redeemed, discards, resumed, asked>>
  BY DEF WriteCategory, local
<1>2. AtWork(t)
  BY StepAtWork DEF Step
<1>3. /\ TypeOK /\ TurnOK(t) /\ QueueOK(t) /\ ReplyOK(t) /\ (~overlapped => AloneOK(t))
      /\ active[t] # None /\ active[t] \in Sessions /\ cur[t] = t /\ active[t].attempts > 0
      /\ active[t].activity \in Turns /\ pc'[active[t].activity] # "idle" /\ SessionOK(active[t])
      /\ active[t].attempts \in 0..MaxAttempts
      /\ misses \in Nat /\ reply \in [Turns -> Statuses \union {None}]
      /\ UNCHANGED <<teams, act, overlapped>> /\ \A u : HandlersOf(u)' = HandlersOf(u)
  BY <1>1, <1>2 DEF AtWork, TurnOK, TypeOK, Sessions
<1>4. \/ /\ pc' \in [Turns -> Stages] /\ pc'[t] = "throwing"
         /\ UNCHANGED <<session, nextTag, misses, reply>>
      \/ /\ nextTag' \in Nat \ {0} /\ Sessions \subseteq Sessions' /\ session' \in Sessions'
         /\ session' # None /\ session'.activity = active[t].activity
         /\ session'.id = active[t].id /\ session'.attempts = active[t].attempts
         /\ pc' \in [Turns -> Stages] /\ reply' \in [Turns -> Statuses \union {None}]
         /\ misses' \in Nat
         /\ \/ pc'[t] = "rejected" /\ (teams => reply'[t] = 400 \/ act[t] \in {"verifyCancel", "failure"})
            \/ pc'[t] = "throwing" /\ act[t] \notin Verifications
                 /\ (teams => reply'[t] = 400 \/ act[t] = "failure")
            \/ pc'[t] = "prompted" /\ misses' = misses + 1 /\ reply' = reply
            \/ pc'[t] = "token" /\ (teams => reply'[t] = 200)
            \/ pc'[t] = "exchange" /\ act[t] \notin Verifications /\ UNCHANGED <<misses, reply>>
  <2>1. "throwing" \in Stages /\ "rejected" \in Stages /\ "exchange" \in Stages
    BY DEF Stages
  <2>2. CASE Goto(t, "throwing") /\ UNCHANGED <<storage, misses, reply>>
    BY <1>3, <2>1, <2>2, GotoFacts DEF storage
  <2>3. CASE Write([active[t] EXCEPT !.signin = TRUE]) /\ HandleInvoke(t, act[t])
    <3> DEFINE record == [active[t] EXCEPT !.signin = TRUE]
    <3>1. record \in Sessions /\ record.activity = active[t].activity /\ record.id = active[t].id
          /\ record.attempts = active[t].attempts
      BY <1>3 DEF Sessions
    <3> HIDE DEF record
    <3>2. Write(record)
      BY <2>3 DEF record
    <3>3. /\ nextTag' \in Nat \ {0} /\ Sessions \subseteq Sessions' /\ session' \in Sessions'
          /\ session' # None /\ session'.activity = record.activity
          /\ session'.id = record.id /\ session'.attempts = record.attempts
      BY <1>3, <3>1, <3>2, WriteType
    <3>4. /\ pc' \in [Turns -> Stages] /\ reply' \in [Turns -> Statuses \union {None}]
          /\ misses' \in Nat
          /\ \/ pc'[t] = "rejected" /\ (teams => reply'[t] = 400 \/ act[t] \in {"verifyCancel", "failure"})
             \/ pc'[t] = "throwing" /\ act[t] \notin Verifications
                  /\ (teams => reply'[t] = 400 \/ act[t] = "failure")
             \/ pc'[t] = "prompted" /\ misses' = misses + 1 /\ reply' = reply
             \/ pc'[t] = "token" /\ (teams => reply'[t] = 200)
             \/ pc'[t] = "exchange" /\ act[t] \notin Verifications /\ UNCHANGED <<misses, reply>>
      <4>1. CASE Verify(t, act[t])
        BY <1>3, <4>1, VerifyFacts
      <4>2. CASE act[t] = "exchange" /\ Goto(t, "exchange") /\ UNCHANGED <<misses, reply>>
        BY <1>3, <2>1, <4>2, GotoFacts DEF Verifications
      <4>3. CASE /\ act[t] \in {"exchangeBad", "failure"} /\ UNCHANGED misses
                 /\ Replies(t, IF act[t] = "failure" THEN 200 ELSE 400)
                 /\ Goto(t, "rejected") \/ Goto(t, "throwing")
        <5>1. (IF act[t] = "failure" THEN 200 ELSE 400) \in Statuses /\ act[t] \notin Verifications
          BY <4>3 DEF Statuses, Verifications
        <5>2. /\ reply' \in [Turns -> Statuses \union {None}]
              /\ teams => reply'[t] = IF act[t] = "failure" THEN 200 ELSE 400
          BY <1>3, <4>3, <5>1, RepliesFacts
        <5>3. pc' \in [Turns -> Stages] /\ pc'[t] \in {"rejected", "throwing"}
          BY <1>3, <2>1, <4>3, GotoFacts
        <5> QED BY <1>3, <4>3, <5>1, <5>2, <5>3
      <4> QED BY <2>3, <4>1, <4>2, <4>3 DEF HandleInvoke
    <3> QED BY <3>1, <3>3, <3>4
  <2> QED BY <1>3, <2>2, <2>3 DEF WriteCategory
<1>5. TypeOK'
  <2>1. Sessions \subseteq Sessions' /\ session' \in Sessions' \union {None}
        /\ nextTag' \in Nat \ {0}
    BY <1>3, <1>4 DEF TypeOK, Sessions
  <2>2. active' \in [Turns -> Sessions' \union {None}]
    BY <1>1, <1>3, <2>1 DEF TypeOK
  <2> QED BY <1>1, <1>2, <1>4, <2>1, <2>2 DEF AtWork, TypeOK
<1>6. session' # None => SessionOK(session)' /\ session'.activity \in Mine(t)
  <2>1. CASE session' = session
    BY <1>2, <2>1 DEF AtWork, SessionOK, Mine
  <2>2. CASE session'.activity = active[t].activity /\ session'.id = active[t].id
    BY <1>3, <2>2 DEF SessionOK, Mine, ContinuesWith
  <2> QED BY <1>4, <2>1, <2>2
<1>7. TurnOK(t)'
  BY <1>1, <1>2, <1>3, <1>4 DEF AtWork, TurnOK, SessionOK
<1>8. QueueOK(t)'
  <2>1. ContinuesWith(t)' = ContinuesWith(t)
    BY <1>1 DEF ContinuesWith
  <2> QED BY <1>1, <1>3, <1>4, <2>1 DEF QueueOK, Signing
<1>9. ReplyOK(t)'
  <2>1. UNCHANGED <<active[t], approved[t]>>
    BY <1>1
  <2> QED BY <1>1, <1>3, <1>4, <2>1, NoneAssumption DEF ReplyOK, Truthful, Ended, Statuses
<1>10. GoesOn(t) /\ Working(t)'
  BY <1>1, <1>4, <1>6 DEF GoesOn, Mine, Working, Ended, ContinuesWith
<1>11. ~overlapped => AloneOK(t)'
  BY <1>1, <1>3, <1>4, AttemptBounds DEF AloneOK, AttemptsLeft
<1> QED BY <1>2, <1>5, <1>6, <1>7, <1>8, <1>9, <1>10, <1>11, StepIInv DEF AtWork

\* WriteAttempts keeps the invariant.
LEMMA WriteAttemptsIInv == ASSUME IInv, NEW t \in Turns, WriteAttempts(t) PROVE IInv'
<1>1. /\ pc[t] = "prompted"
      /\ UNCHANGED <<signed, cur, active, queue, reply, approved, redeemed, discards, resumed, misses,
                     asked>>
  BY DEF WriteAttempts, local, history
<1>2. AtWork(t)
  BY StepAtWork DEF Step
<1>3. /\ TypeOK /\ TurnOK(t) /\ QueueOK(t) /\ ReplyOK(t) /\ (~overlapped => AloneOK(t))
      /\ active[t] # None /\ active[t] \in Sessions /\ cur[t] = t /\ active[t].attempts > 0
      /\ active[t].activity \in Turns /\ pc'[active[t].activity] # "idle" /\ SessionOK(active[t])
      /\ active[t].attempts \in 0..MaxAttempts
      /\ UNCHANGED <<teams, act, overlapped>> /\ \A u : HandlersOf(u)' = HandlersOf(u)
  BY <1>1, <1>2 DEF AtWork, TurnOK, TypeOK, Sessions
<1>4. \/ pc' \in [Turns -> Stages] /\ pc'[t] = "throwing" /\ UNCHANGED <<session, nextTag>>
      \/ /\ nextTag' \in Nat \ {0} /\ Sessions \subseteq Sessions' /\ session' \in Sessions'
         /\ session' # None /\ session'.activity = active[t].activity
         /\ session'.id = active[t].id /\ session'.attempts = active[t].attempts - 1
         /\ pc' \in [Turns -> Stages] /\ pc'[t] = "unauthorized"
  <2>1. "throwing" \in Stages /\ "unauthorized" \in Stages
    BY DEF Stages
  <2>2. CASE Goto(t, "throwing") /\ UNCHANGED storage
    BY <1>3, <2>1, <2>2, GotoFacts DEF storage
  <2>3. CASE /\ Write([active[t] EXCEPT !.attempts = AttemptsAfter(active[t])])
             /\ Goto(t, "unauthorized")
    <3> DEFINE record == [active[t] EXCEPT !.attempts = AttemptsAfter(active[t])]
    <3>1. record \in Sessions /\ record.activity = active[t].activity /\ record.id = active[t].id
          /\ record.attempts = active[t].attempts - 1
      <4>1. active[t].attempts - 1 \in 0..MaxAttempts
        BY <1>3, AttemptBounds
      <4> QED BY <1>3, <4>1 DEF Sessions, AttemptsAfter
    <3> HIDE DEF record
    <3>2. Write(record)
      BY <2>3 DEF record
    <3>3. /\ nextTag' \in Nat \ {0} /\ Sessions \subseteq Sessions' /\ session' \in Sessions'
          /\ session' # None /\ session'.activity = record.activity
          /\ session'.id = record.id /\ session'.attempts = record.attempts
      BY <1>3, <3>1, <3>2, WriteType
    <3> QED BY <1>3, <2>1, <2>3, <3>1, <3>3, GotoFacts
  <2> QED BY <2>2, <2>3 DEF WriteAttempts
<1>5. TypeOK'
  <2>1. Sessions \subseteq Sessions' /\ session' \in Sessions' \union {None}
        /\ nextTag' \in Nat \ {0}
    BY <1>3, <1>4 DEF TypeOK, Sessions
  <2>2. active' \in [Turns -> Sessions' \union {None}]
    BY <1>1, <1>3, <2>1 DEF TypeOK
  <2> QED BY <1>1, <1>2, <1>4, <2>1, <2>2 DEF AtWork, TypeOK
<1>6. session' # None => SessionOK(session)' /\ session'.activity \in Mine(t)
  <2>1. CASE session' = session
    BY <1>2, <2>1 DEF AtWork, SessionOK, Mine
  <2>2. CASE session'.activity = active[t].activity /\ session'.id = active[t].id
    BY <1>3, <2>2 DEF SessionOK, Mine, ContinuesWith
  <2> QED BY <1>4, <2>1, <2>2
<1>7. TurnOK(t)' /\ QueueOK(t)'
  BY <1>1, <1>2, <1>3, <1>4 DEF AtWork, TurnOK, QueueOK, Signing, SessionOK
<1>8. ReplyOK(t)'
  <2>1. UNCHANGED <<active[t], approved[t]>>
    BY <1>1
  <2> QED BY <1>1, <1>3, <1>4, <2>1, NoneAssumption DEF ReplyOK, Truthful, Ended, Statuses
<1>9. GoesOn(t)
  BY <1>1, <1>6 DEF GoesOn, Mine, ContinuesWith
<1>10. ~overlapped => IF Working(t)' THEN AloneOK(t)' ELSE Known'
  <2>1. AttemptsLeft' = AttemptsLeft /\ (~overlapped => asked /\ active[t].attempts - 1 = AttemptsLeft)
    <3>1. AttemptsLeft \in Int /\ active[t].attempts \in Int
      BY <1>3, AttemptBounds DEF TypeOK, AttemptsLeft
    <3> QED BY <1>1, <1>3, <3>1 DEF AloneOK, AttemptsLeft
  <2> QED BY <1>1, <1>3, <1>4, <2>1 DEF Working, Ended, AloneOK, Known
<1> QED BY <1>2, <1>5, <1>6, <1>7, <1>8, <1>9, <1>10, StepIInv DEF AtWork

\* Exchange keeps the invariant.
LEMMA ExchangeIInv == ASSUME IInv, NEW t \in Turns, Exchange(t) PROVE IInv'
<1>1. /\ pc[t] = "exchange"
      /\ UNCHANGED <<session, nextTag, cur, active, queue, approved, discards, resumed, misses, asked>>
      /\ redeemed \subseteq redeemed' /\ redeemed' \subseteq redeemed \union {t}
  BY DEF Exchange, local, storage, history
<1>2. AtWork(t)
  BY StepAtWork DEF Step
<1>3. /\ TypeOK /\ TurnOK(t) /\ QueueOK(t) /\ ReplyOK(t) /\ (~overlapped => AloneOK(t))
      /\ active[t] # None /\ cur[t] = t /\ Head(queue[t]) \in Handlers
      /\ reply \in [Turns -> Statuses \union {None}]
      /\ UNCHANGED <<teams, act, overlapped>> /\ UNCHANGED <<active[t], approved[t]>>
  <2>1. queue[t] \in Seq(Handlers) /\ queue[t] # <<>>
    BY <1>1, <1>2 DEF AtWork, QueueOK, Signing, TypeOK
  <2> QED BY <1>1, <1>2, <2>1, ToSetParts DEF AtWork, TurnOK, TypeOK
<1>4. /\ pc' \in [Turns -> Stages] /\ reply' \in [Turns -> Statuses \union {None}]
      /\ signed' \subseteq Handlers
      /\ \/ pc'[t] \in {"approved", "throwing"} /\ (teams => reply'[t] = 200) /\ t \in redeemed'
         \/ pc'[t] = "unauthorized" /\ (teams => reply'[t] = 412)
         \/ pc'[t] = "throwing" /\ reply' = reply
  <2>1. /\ "approved" \in Stages /\ "unauthorized" \in Stages /\ "throwing" \in Stages
        /\ 200 \in Statuses /\ 412 \in Statuses
    BY DEF Stages, Statuses
  <2>2. signed' \subseteq Handlers
    BY <1>3 DEF Exchange, TypeOK
  <2> QED BY <1>3, <2>1, <2>2, GotoFacts, RepliesFacts DEF Exchange
<1>5. TypeOK'
  BY <1>1, <1>2, <1>4 DEF AtWork, TypeOK, Sessions
<1>6. TurnOK(t)'
  BY <1>1, <1>2, <1>3, <1>4 DEF AtWork, TurnOK, SessionOK
<1>7. QueueOK(t)'
  <2>1. ContinuesWith(t)' = ContinuesWith(t)
    BY <1>1 DEF ContinuesWith
  <2> QED BY <1>1, <1>2, <1>4, <2>1 DEF AtWork, QueueOK, Signing
<1>8. ReplyOK(t)'
  BY <1>1, <1>3, <1>4, NoneAssumption DEF ReplyOK, Truthful, Ended, Statuses
<1>9. GoesOn(t)
  BY <1>1, <1>2 DEF AtWork, GoesOn, Mine, ContinuesWith
<1>10. ~overlapped => IF Working(t)' THEN AloneOK(t)' ELSE Known'
  BY <1>1, <1>3, <1>4 DEF Working, Ended, AloneOK, Known, AttemptsLeft
<1>11. session' # None => SessionOK(session)'
  BY <1>1, <1>2 DEF AtWork, SessionOK
<1> QED BY <1>2, <1>5, <1>6, <1>7, <1>8, <1>9, <1>10, <1>11, StepIInv DEF AtWork

\* GetToken keeps the invariant.
LEMMA GetTokenIInv == ASSUME IInv, NEW t \in Turns, GetToken(t) PROVE IInv'
<1>1. /\ pc[t] = "token"
      /\ UNCHANGED <<session, nextTag, cur, active, queue, approved, discards, resumed>>
      /\ redeemed \subseteq redeemed' /\ redeemed' \subseteq redeemed \union {t}
  BY DEF GetToken, local, storage
<1>2. AtWork(t)
  BY StepAtWork DEF Step
<1>3. /\ TypeOK /\ TurnOK(t) /\ QueueOK(t) /\ ReplyOK(t) /\ (~overlapped => AloneOK(t))
      /\ Head(queue[t]) \in Handlers /\ asked \in BOOLEAN
      /\ reply \in [Turns -> Statuses \union {None}] /\ misses \in Nat
      /\ UNCHANGED <<teams, act, overlapped>> /\ UNCHANGED <<active[t], approved[t]>>
  <2>1. queue[t] \in Seq(Handlers) /\ queue[t] # <<>>
    BY <1>1, <1>2 DEF AtWork, QueueOK, Signing, TypeOK
  <2> QED BY <1>1, <1>2, <2>1, ToSetParts DEF AtWork, TypeOK
<1>4. /\ pc' \in [Turns -> Stages] /\ reply' \in [Turns -> Statuses \union {None}]
      /\ signed' \subseteq Handlers /\ misses' \in Nat /\ asked' \in BOOLEAN
      /\ \/ pc'[t] = "card" /\ active[t] = None /\ misses' = 0 /\ asked' /\ reply' = reply
         \/ /\ pc'[t] \in {"approved", "throwing"} /\ active[t] = None
            /\ UNCHANGED <<reply, misses, asked>>
         \/ /\ pc'[t] = "approved" /\ active[t] # None /\ (teams => reply'[t] = 200)
            /\ t \in redeemed'
         \/ pc'[t] = "rejected" /\ active[t] # None /\ (teams => reply'[t] = 404)
         \/ pc'[t] = "throwing" /\ active[t] # None /\ (teams => reply'[t] = 500)
  <2>1. /\ "approved" \in Stages /\ "rejected" \in Stages /\ "throwing" \in Stages
        /\ "card" \in Stages /\ 200 \in Statuses /\ 404 \in Statuses /\ 500 \in Statuses
        /\ 0 \in 0..MaxAttempts
    BY AttemptBounds DEF Stages, Statuses
  <2>2. signed' \subseteq Handlers
    BY <1>3 DEF GetToken, TypeOK
  <2>3. CASE /\ Goto(t, "approved") /\ UNCHANGED <<misses, asked>>
             /\ \/ active[t] = None /\ UNCHANGED reply
                \/ active[t] # None /\ t \in redeemed' /\ Replies(t, 200)
    <3>1. pc' \in [Turns -> Stages] /\ pc'[t] = "approved"
      BY <1>3, <2>1, <2>3, GotoFacts
    <3>2. /\ reply' \in [Turns -> Statuses \union {None}]
          /\ active[t] # None /\ teams => reply'[t] = 200
          /\ active[t] = None => reply' = reply
      BY <1>3, <2>1, <2>3, RepliesFacts
    <3> QED BY <1>3, <2>1, <2>2, <2>3, <3>1, <3>2
  <2>4. CASE /\ active[t] # None /\ Goto(t, "rejected") /\ Replies(t, 404)
             /\ UNCHANGED <<misses, asked>>
    <3>1. pc' \in [Turns -> Stages] /\ pc'[t] = "rejected"
      BY <1>3, <2>1, <2>4, GotoFacts
    <3>2. /\ reply' \in [Turns -> Statuses \union {None}]
          /\ teams => reply'[t] = 404
      BY <1>3, <2>1, <2>4, RepliesFacts
    <3> QED BY <1>3, <2>1, <2>2, <2>4, <3>1, <3>2
  <2>5. CASE active[t] = None /\ Goto(t, "card") /\ misses' = 0 /\ asked' = TRUE /\ UNCHANGED reply
    <3>1. pc' \in [Turns -> Stages] /\ pc'[t] = "card"
      BY <1>3, <2>1, <2>5, GotoFacts
    <3> QED BY <1>3, <2>1, <2>2, <2>5, <3>1
  <2>6. CASE /\ Goto(t, "throwing") /\ UNCHANGED <<misses, asked>>
             /\ IF active[t] # None THEN Replies(t, 500) ELSE UNCHANGED reply
    <3>1. pc' \in [Turns -> Stages] /\ pc'[t] = "throwing"
      BY <1>3, <2>1, <2>6, GotoFacts
    <3>2. /\ reply' \in [Turns -> Statuses \union {None}]
          /\ active[t] # None /\ teams => reply'[t] = 500
          /\ active[t] = None => reply' = reply
      BY <1>3, <2>1, <2>6, RepliesFacts
    <3> QED BY <1>3, <2>1, <2>2, <2>6, <3>1, <3>2
  <2>7. \/ /\ active[t] = None /\ UNCHANGED reply
           /\ \/ Goto(t, "approved") /\ UNCHANGED <<misses, asked>>
              \/ Goto(t, "throwing") /\ UNCHANGED <<misses, asked>>
              \/ Goto(t, "card") /\ misses' = 0 /\ asked' = TRUE
        \/ /\ active[t] # None /\ UNCHANGED <<misses, asked>>
           /\ \/ Goto(t, "approved") /\ t \in redeemed' /\ Replies(t, 200)
              \/ Goto(t, "throwing") /\ Replies(t, 500)
              \/ Goto(t, "rejected") /\ Replies(t, 404)
    BY DEF GetToken, NoTokenReply
  <2> QED BY ZenonT(60), <2>3, <2>4, <2>5, <2>6, <2>7
<1>5. TypeOK'
  BY <1>1, <1>2, <1>4 DEF AtWork, TypeOK, Sessions
<1>6. TurnOK(t)'
  BY <1>1, <1>2, <1>3, <1>4 DEF AtWork, TurnOK, SessionOK
<1>7. QueueOK(t)'
  <2>1. ContinuesWith(t)' = ContinuesWith(t)
    BY <1>1 DEF ContinuesWith
  <2> QED BY <1>1, <1>2, <1>4, <2>1 DEF AtWork, QueueOK, Signing
<1>8. ReplyOK(t)'
  BY <1>1, <1>3, <1>4 DEF ReplyOK, Truthful, Ended
<1>9. GoesOn(t) /\ Working(t)'
  BY <1>1, <1>2, <1>4 DEF AtWork, GoesOn, Mine, Working, Ended, ContinuesWith
<1>10. ~overlapped => AloneOK(t)'
  BY <1>1, <1>3, <1>4 DEF AloneOK
<1>11. session' # None => SessionOK(session)'
  BY <1>1, <1>2 DEF AtWork, SessionOK
<1> QED BY <1>2, <1>5, <1>6, <1>7, <1>8, <1>9, <1>10, <1>11, StepIInv DEF AtWork

\* WriteSession keeps the invariant.
LEMMA WriteSessionIInv == ASSUME IInv, NEW t \in Turns, WriteSession(t) PROVE IInv'
<1> DEFINE record == [activity |-> cur[t], id |-> Head(queue[t]), attempts |-> MaxAttempts,
                      signin |-> FALSE, tag |-> 0]
<1>1. /\ pc[t] = "card" /\ Write(record) /\ Goto(t, "unauthorized")
      /\ UNCHANGED <<signed, cur, active, queue, reply, approved, redeemed, discards, resumed, misses,
                     asked>>
  BY DEF WriteSession, local, history
<1>2. AtWork(t)
  BY StepAtWork DEF Step
<1>3. /\ TypeOK /\ TurnOK(t) /\ QueueOK(t) /\ ReplyOK(t) /\ (~overlapped => AloneOK(t))
      /\ active[t] = None /\ cur[t] \in Turns /\ pc'[cur[t]] # "idle"
      /\ Head(queue[t]) \in Handlers /\ Head(queue[t]) \in ToSet(HandlersOf(cur[t]))
      /\ UNCHANGED <<teams, act, overlapped>> /\ \A u : HandlersOf(u)' = HandlersOf(u)
      /\ UNCHANGED <<active[t], approved[t]>>
  <2>1. /\ active[t] = None /\ queue[t] \in Seq(Handlers) /\ queue[t] # <<>>
        /\ ToSet(queue[t]) \subseteq ToSet(HandlersOf(cur[t]))
    BY <1>1, <1>2 DEF AtWork, TurnOK, QueueOK, Signing, TypeOK, ContinuesWith
  <2>2. Head(queue[t]) \in Handlers /\ Head(queue[t]) \in ToSet(queue[t])
    BY <2>1, ToSetParts
  <2> QED BY <1>1, <1>2, <2>1, <2>2 DEF AtWork
<1>4. pc' \in [Turns -> Stages] /\ pc'[t] = "unauthorized"
  BY <1>1, <1>3, GotoFacts DEF Stages
<1>5. /\ nextTag' \in Nat \ {0} /\ Sessions \subseteq Sessions' /\ session' \in Sessions'
      /\ session' # None /\ session'.activity = cur[t]
      /\ session'.id = Head(queue[t]) /\ session'.attempts = MaxAttempts
  <2>1. record \in Sessions
    BY <1>3, AttemptBounds DEF Sessions, TypeOK
  <2>2. /\ record.activity = cur[t] /\ record.id = Head(queue[t])
        /\ record.attempts = MaxAttempts
    OBVIOUS
  <2> HIDE DEF record
  <2>3. /\ nextTag' \in Nat \ {0} /\ Sessions \subseteq Sessions' /\ session' \in Sessions'
        /\ session' # None /\ session'.activity = record.activity
        /\ session'.id = record.id /\ session'.attempts = record.attempts
    BY <1>1, <1>3, <2>1, WriteType
  <2> QED BY <2>2, <2>3
<1> HIDE DEF record
<1>6. TypeOK'
  <2>1. active' \in [Turns -> Sessions' \union {None}]
    BY <1>1, <1>3, <1>5 DEF TypeOK
  <2> QED BY <1>1, <1>2, <1>4, <1>5, <2>1 DEF AtWork, TypeOK
<1>7. session' # None => SessionOK(session)' /\ session'.activity \in Mine(t)
  BY <1>3, <1>5 DEF SessionOK, Mine
<1>8. TurnOK(t)' /\ QueueOK(t)'
  BY <1>1, <1>2, <1>3, <1>4 DEF AtWork, TurnOK, QueueOK, Signing
<1>9. ReplyOK(t)'
  BY <1>1, <1>3, <1>4 DEF ReplyOK, Truthful, Ended
<1>10. GoesOn(t) /\ ~Working(t)'
  BY <1>1, <1>4, <1>7 DEF GoesOn, Working, Ended
<1>11. ~overlapped => Known'
  BY <1>1, <1>3, <1>5, AttemptBounds DEF AloneOK, Known, AttemptsLeft
<1> QED BY <1>2, <1>4, <1>6, <1>7, <1>8, <1>9, <1>10, <1>11, StepIInv DEF AtWork

-----------------------------------------------------------------------------
(* Initial states, and a turn that begins.                                 *)

\* The initial states satisfy the invariant.
LEMMA InitIInv == Init => IInv
<1> SUFFICES ASSUME Init PROVE IInv
  OBVIOUS
<1>1. TypeOK
  <2>1. <<>> \in Seq(Handlers) /\ 0 \in 0..MaxAttempts
    BY AttemptBounds
  <2>2. queue \in [Turns -> Seq(Handlers)] /\ active \in [Turns -> Sessions \union {None}]
        /\ session \in Sessions \union {None} /\ misses \in Nat /\ nextTag \in Nat \ {0}
    BY <2>1 DEF Init
  <2>3. pc \in [Turns -> Stages] /\ reply \in [Turns -> Statuses \union {None}]
    BY DEF Init, Stages
  <2> QED BY <2>2, <2>3 DEF Init, TypeOK
<1>2. \A t \in Turns : TurnOK(t) /\ QueueOK(t)
  BY DEF Init, TurnOK, QueueOK, Signing
<1>3. \A t \in Turns : ReplyOK(t)
  BY NoneAssumption DEF Init, ReplyOK
<1>4. ResumedOK
  BY DEF Init, ResumedOK
<1>5. AloneInv
  BY DEF Init, AloneInv, Working, Known, AttemptsLeft
<1> QED BY <1>1, <1>2, <1>3, <1>4, <1>5 DEF Init, IInv

\* Arrive keeps the invariant.
LEMMA ArriveIInv == ASSUME IInv, NEW t \in Turns, Arrive(t) PROVE IInv'
<1>1. /\ pc[t] = "idle" /\ pc' = [pc EXCEPT ![t] = "reading"]
      /\ overlapped' = (overlapped \/ \E u \in Turns : Working(u))
      /\ UNCHANGED <<teams, versioned, session, nextTag, signed, cur, active, queue, reply,
                     approved, redeemed, discards, resumed, misses, asked>>
  BY DEF Arrive, Goto, storage
<1>2. PICK a \in Activities, c \in Conversations :
        act' = [act EXCEPT ![t] = a] /\ conv' = [conv EXCEPT ![t] = c]
  BY SignInAssumption DEF Arrive, Activities
<1>3. /\ TypeOK /\ TurnOK(t) /\ QueueOK(t) /\ ReplyOK(t)
      /\ active[t] = None /\ reply[t] = None /\ approved[t] = {} /\ cur[t] = t
  BY <1>1 DEF IInv, TurnOK
<1>4. /\ pc'[t] = "reading" /\ act'[t] = a /\ ArrivedStay
      /\ \A u \in Turns \ {t} : Same(u)
  BY <1>1, <1>2, <1>3 DEF TypeOK, ArrivedStay, Same
<1>5. TypeOK'
  BY <1>1, <1>2, <1>3 DEF TypeOK, Stages, Sessions, Activities
<1>6. (TurnOK(t) /\ QueueOK(t) /\ ReplyOK(t))'
  BY <1>1, <1>3, <1>4 DEF TurnOK, QueueOK, ReplyOK, Signing, Ended
<1>7. \A u \in Turns : (TurnOK(u) /\ QueueOK(u) /\ ReplyOK(u))'
  <2> SUFFICES ASSUME NEW u \in Turns, u # t PROVE (TurnOK(u) /\ QueueOK(u) /\ ReplyOK(u))'
    BY <1>6
  <2>1. Same(u)
    BY <1>4
  <2> QED BY <1>1, <1>4, <2>1, OthersStay
<1>8. session' # None => SessionOK(session)'
  <2>1. session # None => SessionOK(session) /\ session.activity \in Turns
    BY <1>3 DEF IInv, TypeOK, Sessions
  <2> QED BY <1>1, <1>4, <2>1 DEF SessionOK, ArrivedStay, HandlersOf
<1>9. ResumedOK'
  BY <1>1, <1>4 DEF IInv, ResumedOK, ArrivedStay
<1>10. AloneInv'
  <2> SUFFICES ASSUME ~overlapped, \A u \in Turns : ~Working(u)
               PROVE  /\ \A u, v \in Turns : Working(u)' /\ Working(v)' => u = v
                      /\ Quiescent' => Known'
                      /\ \A u \in Turns : Working(u)' => AloneOK(u)'
                      /\ \A u \in Turns : /\ \A w, v \in resumed'[u] : w = v
                                          /\ resumed'[u] # {} => NotResumed(u)'
    BY <1>1 DEF AloneInv
  <2>1. /\ Known
        /\ \A u \in Turns : /\ \A w, v \in resumed[u] : w = v
                            /\ resumed[u] # {} => NotResumed(u) /\ u # t
    BY <1>1 DEF IInv, AloneInv, Quiescent, ResumedOK
  <2>2. \A u \in Turns : Working(u)' => u = t
    BY <1>4 DEF Same, Working, Ended
  <2>3. Working(t)' /\ AloneOK(t)'
    BY <1>1, <1>4, <2>1 DEF Working, Ended, AloneOK, Known, AttemptsLeft
  <2>4. \A u \in Turns : resumed'[u] # {} => NotResumed(u)'
    BY <1>1, <1>3, <2>1, <2>2 DEF NotResumed, ContinuesWith
  <2> QED BY <1>1, <2>1, <2>2, <2>3, <2>4 DEF Quiescent
<1> QED BY <1>5, <1>7, <1>8, <1>9, <1>10 DEF IInv

\* Every step keeps the invariant.
LEMMA NextIInv == IInv /\ [Next]_vars => IInv'
<1> SUFFICES ASSUME IInv, [Next]_vars PROVE IInv'
  OBVIOUS
<1>1. ASSUME NEW t \in Turns, Arrive(t) PROVE IInv'
  BY <1>1, ArriveIInv
<1>2. ASSUME NEW t \in Turns, Step(t) PROVE IInv'
  BY <1>2, ReadSessionIInv, DiscardIInv, AuthorizeIInv, ApproveIInv, RejectIInv, SignInIInv,
     WriteCategoryIInv, WriteAttemptsIInv, ExchangeIInv, GetTokenIInv, WriteSessionIInv DEF Step
<1>3. CASE UNCHANGED vars
  <2> USE <1>3 DEF vars, storage, local, history
  <2>1. TypeOK'
    BY DEF IInv, TypeOK, Sessions
  <2>2. session' # None => SessionOK(session)'
    BY DEF IInv, SessionOK, HandlersOf
  <2>3. \A u \in Turns : (TurnOK(u) /\ QueueOK(u) /\ ReplyOK(u))'
    BY OthersStay DEF Same, ArrivedStay
  <2>4. ResumedOK'
    BY DEF IInv, ResumedOK
  <2>5. AloneInv'
    BY DEF IInv, AloneInv, Quiescent, Known, AttemptsLeft, Working, Ended, AloneOK, NotResumed,
           ContinuesWith
  <2> QED BY <2>1, <2>2, <2>3, <2>4, <2>5 DEF IInv
<1> QED BY <1>1, <1>2, <1>3 DEF Next

-----------------------------------------------------------------------------
(* The theorems.                                                           *)

(***************************************************************************)
(* The inductive invariant holds in every reachable state.                 *)
(***************************************************************************)
THEOREM IInvHolds == Spec => []IInv
BY InitIInv, NextIInv, PTL DEF Spec

(***************************************************************************)
(* The state of sign-ins stays within its types: among others, a prompt    *)
(* never costs an attempt that was not left.                               *)
(***************************************************************************)
THEOREM TypeCorrect == Spec => []TypeOK
<1>1. IInv => TypeOK
  BY DEF IInv
<1> QED BY <1>1, IInvHolds, PTL

(***************************************************************************)
(* Whatever turns of the user overlap, a turn that reaches its route has   *)
(* been approved by every handler of that route, unless it discarded the   *)
(* session of another conversation.                                        *)
(***************************************************************************)
THEOREM RoutesAreSignedIn == Spec => []RunsSignedIn
<1>1. IInv => RunsSignedIn
  BY DEF IInv, QueueOK, RunsSignedIn
<1> QED BY <1>1, IInvHolds, PTL

(***************************************************************************)
(* While turns do not overlap, an activity is resumed once at most, and no *)
(* sign-in invoke reaches a route.                                         *)
(***************************************************************************)
THEOREM ResumedAtMostOnce == Spec => []ResumesOnce
<1>1. IInv => ResumesOnce
  BY DEF IInv, AloneInv, ResumedOK, ResumesOnce
<1> QED BY <1>1, IInvHolds, PTL

(***************************************************************************)
(* Between turns that do not overlap, a session is stored exactly while    *)
(* the user has been asked and has no answer, and of the attempts its card *)
(* allows an answer that is no code has cost one each.                     *)
(***************************************************************************)
THEOREM SessionIsKnown == Spec => []SessionIsWhatUserKnows
<1>1. IInv => SessionIsWhatUserKnows
  BY DEF IInv, AloneInv, Known, AttemptsLeft, SessionIsWhatUserKnows, SessionMeansAsked, AttemptsCounted
<1> QED BY <1>1, IInvHolds, PTL

(***************************************************************************)
(* On Microsoft Teams the last status sent for an invoke says what became  *)
(* of it, whatever turns overlap.                                          *)
(***************************************************************************)
THEOREM RepliesAreTruthful == Spec => []TruthfulReply
<1>1. IInv => TruthfulReply
  BY DEF IInv, ReplyOK, Truthful, TruthfulReply
<1> QED BY <1>1, IInvHolds, PTL

===============================================================================
