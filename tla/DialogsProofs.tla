---------------------------- MODULE DialogsProofs ----------------------------
(***************************************************************************)
(* Proofs about dialog stacks, for every nesting of components, any dialog *)
(* as the root and as the first of a component, every code of the steps    *)
(* and every number of turns.                                              *)
(*                                                                         *)
(* The calls of a turn follow the nesting of the components: a context is  *)
(* worked on while the call that leads to it waits on the context it       *)
(* belongs to (CallsOK).  A component whose dialogs are gone is the active *)
(* one of its context, and a call below will end it (FullOK); the calls    *)
(* that wait know which component that is, or that a cancellation has      *)
(* passed it by (ChildrenOK).                                              *)
(***************************************************************************)
EXTENDS DialogsProps, SequenceTheorems, WellFoundedInduction, NaturalsInduction, TLAPS

\* Calls that work on a context and replace each other.
Chain == {"begin", "continue", "step", "resume", "end", "component", "cancelled"}
Waits == {"run", "component", "cancelled"}
Runs == {"begin", "continue", "step", "resume", "end", "cancel"}

Frame ==
  [fn : {"run", "continue", "step", "end", "resume", "cancelled", "ending"}, dc : Contexts]
    \union [fn : {"begin"}, dc : Contexts, id : Dialog]
    \union [fn : {"component"}, dc : Contexts, op : {"begin", "continue"}]
    \union [fn : {"cancel"}, dc : Contexts, linked : BOOLEAN, parents : BOOLEAN, notify : BOOLEAN]

Frames == 1..Len(calls)

On(k) == inst[k].on

\* A component is the active dialog of its context.
Intact(k) == k # 0 => stack[On(k)] # <<>> /\ Active(On(k)) = k

-----------------------------------------------------------------------------
(* The stacks.                                                             *)

\* Stacks nest and hold each instance once.
Forest(s, is) ==
  /\ \A n \in 1..Len(is) : is[n].on < n /\ (is[n].on # 0 => is[is[n].on].id \in Components)
  /\ \A c \in Contexts : \A i \in 1..Len(s[c]) :
       /\ s[c][i] \in 1..Len(is) /\ is[s[c][i]].on = c
       /\ \A j \in 1..i - 1 : s[c][j] < s[c][i]

\* The dialogs of a component on a stack are gone.
Hollow(s, is, c, i) == is[s[c][i]].id \in Components /\ s[s[c][i]] = <<>>
Full(s, is) == \A c \in Contexts : \A i \in 1..Len(s[c]) : ~Hollow(s, is, c, i)

DialogSet(is, c) == IF c = 0 THEN RootMembers ELSE Members[is[c].id]
OnStack(s, is, n) == \E i \in 1..Len(s[is[n].on]) : s[is[n].on][i] = n

\* An instance is told when it leaves, with its own dialogs gone or passed by.
History(s, is) ==
  \A n \in 1..Len(is) :
    IF OnStack(s, is, n) THEN is[n].told = 0
    ELSE /\ is[n].told \in {0, 1}
         /\ is[n].told = 1 \/ is[n].id \notin DialogSet(is, is[n].on)
         /\ s[n] # <<>> => is[n].cut \/ is[n].told = 0

StacksOK == Forest(stack, inst) /\ History(stack, inst)
SavedOK ==
  Forest(saved.stack, saved.inst) /\ Full(saved.stack, saved.inst) /\ History(saved.stack, saved.inst)

\* A component whose dialogs are gone is about to be ended.
Ends(j, c) ==
  /\ calls[j].dc = c
  /\ calls[j].fn \in {"component", "ending"} \/ (calls[j].fn = "end" /\ j = Len(calls))
FullOK ==
  \A c \in Contexts : \A i \in 1..Len(stack[c]) :
    Hollow(stack, inst, c, i) => i = Len(stack[c]) /\ \E j \in Frames : Ends(j, c)

-----------------------------------------------------------------------------
(* The calls.                                                              *)

\* What a call that waits may have called.
Over(g, f) ==
  \/ g.fn = "run" /\ f.dc = 0 /\ (f.fn \in Chain \/ (f.fn = "cancel" /\ f.linked))
  \/ g.fn = "component" /\ f.fn \in Chain /\ f.dc # 0 /\ On(f.dc) = g.dc
  \/ g.fn = "cancelled" /\ f.fn \in Chain \ {"continue"} /\ f.dc = g.dc
  \/ g.fn \in {"component", "cancelled"} /\ f.fn = "cancel" /\ f.linked
  \/ g.fn = "cancel" /\ f.fn = "ending" /\ f.dc = g.dc /\ stack[g.dc] # <<>>
  \/ g.fn = "ending" /\ f.fn = "cancel" /\ ~f.linked /\ stack[g.dc] # <<>> /\ f.dc = Active(g.dc)

\* A cancellation has passed the dialogs of this context by.
Passed(c) == IF c = 0 THEN spared ELSE inst[c].cut

\* The components that lead to the context of a call wait for it.
Linked(f) == f.fn \in Chain \/ (f.fn = "cancel" /\ f.linked)
LinkOK(i) ==
  LET c == calls[i].dc IN
  Linked(calls[i]) =>
    /\ \A j \in 1..i - 1 : calls[j].fn \in Waits
    /\ stack[c] # <<>> \/ calls[i].fn \in {"begin", "cancel"} => Intact(c)
    /\ c # 0 => \E j \in 1..i - 1 : calls[j].fn = "component" /\ calls[j].dc = On(c)
    /\ \A j \in 1..i - 1 : calls[j].fn \in Chain /\ calls[j].dc < c => calls[j].dc <= On(c)

\* How the contexts of two calls compare.
OrderOK(j, i) ==
  LET g == calls[j]
      f == calls[i]
  IN
  /\ f.fn \in Chain => g.dc <= f.dc /\ (g.fn = "component" => g.dc < f.dc)
  /\ g.fn \in {"cancel", "ending"} => f.fn \in {"cancel", "ending"} /\ g.dc <= f.dc
  /\ g.fn = "ending" => g.dc < f.dc
  /\ f.fn \in {"cancel", "ending"} /\ g.fn \in Waits /\ g.dc > f.dc => stack[g.dc] = <<>>

CallOK(i) ==
  LET f == calls[i] IN
  /\ f.dc \in 0..Len(inst) /\ (f.dc # 0 => IdOf(f.dc) \in Components)
  /\ f.fn = "run" <=> i = 1
  /\ i = 1 => f.dc = 0
  /\ i < Len(calls) => f.fn \in Waits \union {"cancel", "ending"}
  /\ i > 1 => Over(calls[i - 1], f)
  /\ f.fn = "cancelled" => Passed(f.dc)
  /\ LinkOK(i)
  /\ \A j \in 1..i - 1 : OrderOK(j, i)

CallsOK == calls \in Seq(Frame) /\ \A i \in Frames : CallOK(i)

\* The dialogs of a component are gone or passed by.
Bare(k) == stack[k] = <<>> \/ inst[k].cut

\* The component a call waits for is active, or was passed by as the others went.
ChildOK(i) ==
  LET c == calls[i].dc IN
  calls[i].fn = "component" /\ stack[c] # <<>> =>
    \/ inst[Active(c)].cut
    \/ /\ i < Len(calls) /\ calls[i + 1].fn \in Chain \union {"cancel"}
       /\ calls[i + 1].dc = Active(c)
    \/ \E j \in i + 1..Len(calls) : calls[j].fn = "cancel" /\ calls[j].dc <= c
    \/ i = Len(calls) /\ (ret = "waiting" \/ Bare(Active(c)))
ChildrenOK == \A i \in Frames : ChildOK(i)

\* The last instance to prompt is the one that waits on this context.
Heard(c) == stack[c] # <<>> /\ (prompted \in Live => Leaf(Active(c)) = prompted)

\* The call that runs.
RunningOK ==
  LET f == Top
      c == f.dc
  IN
  calls # <<>> /\ ret = None =>
    /\ f.fn \in Runs
    /\ f.fn = "begin" => HasRoom(inst, f.id)
    /\ f.fn = "continue" /\ c = 0 /\ stack[0] = <<>> => HasRoom(inst, RootDialog)
    /\ f.fn = "step" => stack[c] # <<>> /\ IdOf(Active(c)) \in Waterfalls
    /\ f.fn = "resume" => stack[c] # <<>>
    /\ f.fn = "end" /\ stack[c] # <<>> => Bare(Active(c))

\* The call that is returned to.
ReturnedOK ==
  LET f == Top
      c == f.dc
  IN
  ret # None =>
    /\ calls # <<>> /\ f.fn \in Waits \union {"ending"}
    /\ ret = "waiting" => /\ f.fn # "ending" /\ Heard(c)
                          /\ f.fn = "component" => stack[Active(c)] # <<>>
    /\ f.fn = "run" /\ ret \in {"empty", "complete"} => stack[0] = <<>>
    /\ f.fn = "run" /\ ret = "cancelled" => stack[0] = <<>> \/ spared
    /\ ret = "empty" => f.fn \in {"run", "component"}
                        /\ (f.fn = "run" => HasRoom(inst, RootDialog))
    /\ f.fn = "ending" => stack[c] # <<>> /\ Bare(Active(c))

\* The last instance to prompt is waiting, is about to leave, or has left.
Leaving(c) == stack[c] # <<>> /\ Leaf(Active(c)) = prompted
PromptOK ==
  calls # <<>> =>
    /\ prompted <= Len(inst)
    /\ prompted \in Live =>
         \/ ret = "waiting"
         \/ ret = "cancelled" /\ Top.fn \in {"run", "component", "cancelled"} /\ Leaving(Top.dc)
         \/ ret = None /\ Top.fn = "end" /\ Leaving(Top.dc)

\* Between turns.
IdleOK ==
  calls = <<>> =>
    /\ ret = None
    /\ status \in Status =>
         /\ status = "waiting" => stack[0] # <<>>
         /\ status \in {"empty", "complete"} => stack[0] = <<>>
         /\ status = "cancelled" => stack[0] = <<>> \/ spared
         /\ stack[0] # <<>> => Heard(0)

\* Instances are not forgotten while a turn runs, nor is what they were told.
Grown(is, js) == Len(is) <= Len(js) /\ \A n \in 1..Len(is) : is[n].told <= js[n].told

\* A turn that throws adds one call of endDialog at most.
LostOK ==
  /\ \A n \in 1..Len(inst) : inst[n].lost <= failures
  /\ \A n \in 1..Len(saved.inst) : saved.inst[n].lost <= failures
  /\ failures <= turns /\ (calls # <<>> => failures < turns)
  /\ calls # <<>> /\ ~cleared => Grown(saved.inst, inst)

IInv ==
  /\ TypeOK /\ StacksOK /\ SavedOK /\ FullOK /\ CallsOK /\ ChildrenOK
  /\ RunningOK /\ ReturnedOK /\ PromptOK /\ IdleOK /\ LostOK

-----------------------------------------------------------------------------
(* Recursion along the nesting of components.                              *)

Instance == [id : Dialog, on : Contexts, told : Nat, lost : Nat, cut : BOOLEAN, step : Nat]

\* Stacks and instances that nest.
Tree(s, is) ==
  /\ s \in [Contexts -> Seq(1..MaxBegins)]
  /\ is \in Seq(Instance) /\ Len(is) <= MaxBegins
  /\ Forest(s, is)

\* A set of numbers has a least one.
LEMMA Least ==
  ASSUME NEW T, T \subseteq Nat, T # {}
  PROVE  \E x \in T : \A y \in T : x <= y
<1>1. IsWellFoundedOn({ss \in Nat \X Nat : ss[1] < ss[2]}, Nat)
  BY NatLessThanWellFounded DEF OpToRel
<1>2. PICK x \in T : \A y \in T : ~(<<y, x>> \in {ss \in Nat \X Nat : ss[1] < ss[2]})
  BY <1>1, WFMin
<1>3. ASSUME NEW y \in T PROVE x <= y
  <2>1. x \in Nat /\ y \in Nat
    OBVIOUS
  <2>2. <<y, x>> \notin {ss \in Nat \X Nat : ss[1] < ss[2]}
    BY <1>2
  <2>3. ~(y < x)
    <3> SUFFICES ASSUME y < x PROVE FALSE
      OBVIOUS
    <3> DEFINE p == <<y, x>>
    <3>1. p \in Nat \X Nat /\ p[1] = y /\ p[2] = x
      BY <2>1
    <3> QED BY <3>1, <2>2
  <2> QED BY <2>1, <2>3
<1> QED BY <1>3

\* A bounded set of numbers has a greatest one.
LEMMA Greatest ==
  ASSUME NEW N \in Nat, NEW T, T \subseteq 0..N, T # {}
  PROVE  \E x \in T : \A y \in T : y <= x
<1> DEFINE U == {N - x : x \in T}
<1>1. U \subseteq Nat /\ U # {}
  <2>1. \A x \in T : N - x \in Nat
    OBVIOUS
  <2>2. PICK x \in T : TRUE
    OBVIOUS
  <2>3. N - x \in U
    OBVIOUS
  <2> QED BY <2>1, <2>3
<1> HIDE DEF U
<1>2. PICK u \in U : \A v \in U : u <= v
  BY <1>1, Least
<1> USE DEF U
<1>3. PICK x \in T : u = N - x
  OBVIOUS
<1>4. ASSUME NEW y \in T PROVE y <= x
  <2>1. N - y \in U
    OBVIOUS
  <2>2. N - x <= N - y
    BY <1>2, <1>3, <2>1
  <2>3. x \in 0..N /\ y \in 0..N
    OBVIOUS
  <2> HIDE DEF U
  <2> QED BY <2>2, <2>3
<1> QED BY <1>4

\* The active dialog of a component is younger than the component.
Deeper(s, is, k) == is[k].id \in Components /\ s[k] # <<>>

\* Instances are younger than the context they are on, which is that of a component.
LEMMA TreeFacts ==
  ASSUME NEW s, NEW is, Tree(s, is)
  PROVE  /\ Len(is) \in Nat /\ 1..Len(is) \subseteq Contexts
         /\ \A c \in Contexts : Len(s[c]) \in Nat /\ (s[c] # <<>> <=> Len(s[c]) > 0)
         /\ \A n \in 1..Len(is) : is[n] \in Instance /\ is[n].on \in 0..n - 1
         /\ \A c \in Contexts : s[c] # <<>> =>
              /\ Last(s[c]) \in 1..Len(is) /\ is[Last(s[c])].on = c
              /\ c < Last(s[c]) /\ c \in 0..Len(is)
              /\ c # 0 => is[c].id \in Components
<1>1. /\ Len(is) \in Nat /\ Len(is) <= MaxBegins /\ MaxBegins \in Nat
      /\ \A n \in 1..Len(is) : is[n] \in Instance
  BY DialogsAssumption, ElementOfSeq, LenProperties DEF Tree
<1>2. 1..Len(is) \subseteq Contexts
  BY <1>1 DEF Contexts
<1>3. ASSUME NEW c \in Contexts
      PROVE  Len(s[c]) \in Nat /\ (s[c] # <<>> <=> Len(s[c]) > 0)
  <2>1. s[c] \in Seq(1..MaxBegins)
    BY DEF Tree
  <2> QED BY <2>1, EmptySeq, LenProperties
<1>4. ASSUME NEW n \in 1..Len(is) PROVE is[n].on \in 0..n - 1
  <2>1. is[n].on \in 0..MaxBegins
    BY <1>1 DEF Instance, Contexts
  <2>2. is[n].on < n
    BY DEF Tree, Forest
  <2> QED BY <1>1, <2>1, <2>2
<1>5. ASSUME NEW c \in Contexts, s[c] # <<>>
      PROVE  /\ Last(s[c]) \in 1..Len(is) /\ is[Last(s[c])].on = c
             /\ c < Last(s[c]) /\ c \in 0..Len(is)
             /\ c # 0 => is[c].id \in Components
  <2>1. Len(s[c]) \in 1..Len(s[c])
    BY <1>3, <1>5
  <2>2. Last(s[c]) \in 1..Len(is) /\ is[Last(s[c])].on = c
    BY <2>1 DEF Tree, Forest, Last
  <2>3. c \in 0..Last(s[c]) - 1
    BY <1>4, <2>2
  <2>4. c # 0 => is[c].id \in Components
    BY <2>2 DEF Tree, Forest
  <2> QED BY <1>1, <2>2, <2>3, <2>4
<1> QED BY <1>1, <1>2, <1>3, <1>4, <1>5

Down(s, is, f, k) == IF Deeper(s, is, k) THEN {k} \union f[Last(s[k])] ELSE {k}
DescentIn(s, is) == CHOOSE f : f = [k \in 1..Len(is) |-> Down(s, is, f, k)]
LeafIn(s, is, n) ==
  CHOOSE k \in DescentIn(s, is)[n] : \A j \in DescentIn(s, is)[n] : j <= k

\* The recursion along active dialogs is well defined.
LEMMA DescentUnfolds ==
  ASSUME NEW s, NEW is, Tree(s, is)
  PROVE  \A n \in 1..Len(is) : DescentIn(s, is)[n] = Down(s, is, DescentIn(s, is), n)
<1> DEFINE N == Len(is)
           Sat(g, m) == \A k \in m..N : g[k] = Down(s, is, g, k)
           G == [1..N -> SUBSET (1..N)]
           T == {m \in 1..N + 1 : \E g \in G : Sat(g, m)}
<1>1. N \in Nat /\ \A k \in 1..N : Deeper(s, is, k) => Last(s[k]) \in 1..N /\ k < Last(s[k])
  BY TreeFacts DEF Deeper
<1>2. N + 1 \in T
  <2>1. [k \in 1..N |-> {}] \in G
    OBVIOUS
  <2>2. \A g \in G : Sat(g, N + 1)
    <3>1. N + 1..N = {}
      BY <1>1
    <3> HIDE DEF N
    <3> QED BY <3>1
  <2>3. N + 1 \in 1..N + 1
    BY <1>1
  <2> HIDE DEF N, G, Sat
  <2> QED BY <2>3, <1>1, <2>1, <2>2
<1>3. PICK m \in T : \A y \in T : m <= y
  <2>1. T \subseteq Nat
    BY <1>1
  <2> HIDE DEF T
  <2> QED BY <1>2, <2>1, Least
<1>4. PICK g \in G : Sat(g, m)
  OBVIOUS
<1>5. m = 1
  <2> SUFFICES ASSUME m # 1 PROVE FALSE
    OBVIOUS
  <2> DEFINE h == [g EXCEPT ![m - 1] = Down(s, is, g, m - 1)]
  <2>1. m - 1 \in 1..N /\ m \in Nat
    BY <1>1
  <2>2. \A k \in 1..N : h[k] = IF k = m - 1 THEN Down(s, is, g, m - 1) ELSE g[k]
    BY <2>1
  <2>3. Down(s, is, g, m - 1) \in SUBSET (1..N)
    BY <1>1, <2>1 DEF Down
  <2>4. h \in G
    BY <2>1, <2>3
  <2>5. ASSUME NEW k \in m - 1..N PROVE h[k] = Down(s, is, h, k)
    <3>1. k \in 1..N
      BY <2>1
    <3>2. Deeper(s, is, k) => Last(s[k]) \in 1..N /\ k < Last(s[k])
      BY <1>1, <3>1
    <3>3. Deeper(s, is, k) => h[Last(s[k])] = g[Last(s[k])]
      BY <2>1, <2>2, <3>1, <3>2
    <3>4. Down(s, is, h, k) = Down(s, is, g, k)
      BY <3>3 DEF Down
    <3>5. CASE k = m - 1
      BY <2>2, <3>1, <3>4, <3>5
    <3>6. CASE k # m - 1
      <4>1. k \in m..N
        BY <2>1, <3>6
      <4> QED BY <1>4, <2>2, <3>1, <3>4, <3>6, <4>1
    <3> QED BY <3>5, <3>6
  <2> HIDE DEF h
  <2>6. m - 1 \in T
    <3>1. Sat(h, m - 1)
      BY <2>5
    <3>2. m - 1 \in 1..N + 1
      BY <1>1, <2>1
    <3>3. \E f \in G : Sat(f, m - 1)
      BY <2>4, <3>1
    <3> HIDE DEF G, Sat
    <3> QED BY <3>2, <3>3
  <2> HIDE DEF T
  <2>7. m <= m - 1
    BY <1>3, <2>6
  <2> QED BY <2>1, <2>7
<1>6. g = [k \in 1..N |-> Down(s, is, g, k)]
  BY <1>4, <1>5
<1> HIDE DEF Sat, G, T
<1>7. DescentIn(s, is) = [k \in 1..N |-> Down(s, is, DescentIn(s, is), k)]
  BY <1>6 DEF DescentIn
<1> QED BY <1>7

\* What is closed along active dialogs holds every descent that starts in it.
LEMMA DescentLeast ==
  ASSUME NEW s, NEW is, Tree(s, is), NEW T, NEW n \in 1..Len(is), n \in T,
         \A k \in T : k \in 1..Len(is) /\ Deeper(s, is, k) => Last(s[k]) \in T
  PROVE  DescentIn(s, is)[n] \subseteq T /\ DescentIn(s, is)[n] \subseteq n..Len(is)
<1> DEFINE N == Len(is)
           D == DescentIn(s, is)
           Bad == {k \in 1..N : k \in T /\ ~(D[k] \subseteq T /\ D[k] \subseteq k..N)}
<1>1. N \in Nat /\ \A k \in 1..N : Deeper(s, is, k) => Last(s[k]) \in 1..N /\ k < Last(s[k])
  BY TreeFacts DEF Deeper
<1>2. SUFFICES ASSUME Bad # {} PROVE FALSE
  BY <1>2
<1>3. PICK k \in Bad : \A j \in Bad : j <= k
  <2>1. Bad \subseteq 0..N
    OBVIOUS
  <2> HIDE DEF Bad, N
  <2> QED BY <1>1, <1>2, <2>1, Greatest
<1>4. D[k] = Down(s, is, D, k)
  BY DescentUnfolds
<1>5. CASE Deeper(s, is, k)
  <2> DEFINE j == Last(s[k])
  <2>1. j \in 1..N /\ k < j /\ j \in T
    BY <1>1, <1>5
  <2>2. j \notin Bad
    <3> HIDE DEF Bad, j
    <3>1. k \in Nat /\ j \in Nat
      BY <1>1, <2>1 DEF Bad
    <3> QED BY <1>3, <2>1, <3>1
  <2>3. D[j] \subseteq T /\ D[j] \subseteq j..N
    BY <2>1, <2>2
  <2>4. D[k] = {k} \union D[j]
    BY <1>4, <1>5 DEF Down
  <2> HIDE DEF D, j
  <2> QED BY <1>1, <2>1, <2>3, <2>4
<1>6. CASE ~Deeper(s, is, k)
  <2>1. D[k] = {k}
    BY <1>4, <1>6 DEF Down
  <2> HIDE DEF D
  <2> QED BY <1>1, <2>1
<1> QED BY <1>5, <1>6

\* A descent ends at its youngest instance.
LEMMA LeafFacts ==
  ASSUME NEW s, NEW is, Tree(s, is), NEW n \in 1..Len(is)
  PROVE  /\ n \in DescentIn(s, is)[n]
         /\ LeafIn(s, is, n) \in DescentIn(s, is)[n]
         /\ LeafIn(s, is, n) \in n..Len(is)
         /\ \A j \in DescentIn(s, is)[n] : j <= LeafIn(s, is, n)
<1> DEFINE N == Len(is)
           D == DescentIn(s, is)[n]
<1>1. N \in Nat /\ \A k \in 1..N : Deeper(s, is, k) => Last(s[k]) \in 1..N
  BY TreeFacts DEF Deeper
<1>2. n \in D
  <2>1. D = Down(s, is, DescentIn(s, is), n)
    BY DescentUnfolds
  <2> HIDE DEF D
  <2> QED BY <2>1 DEF Down
<1>3. D \subseteq n..N
  <2>1. \A k \in 1..N : k \in 1..Len(is) /\ Deeper(s, is, k) => Last(s[k]) \in 1..N
    BY <1>1
  <2> QED BY <2>1, DescentLeast
<1>4. PICK m \in D : \A j \in D : j <= m
  <2>1. D \subseteq 0..N
    BY <1>1, <1>3
  <2> HIDE DEF D, N
  <2> QED BY <1>1, <1>2, <2>1, Greatest
<1>5. LeafIn(s, is, n) \in D /\ \A j \in D : j <= LeafIn(s, is, n)
  BY <1>4 DEF LeafIn
<1> QED BY <1>2, <1>3, <1>5

\* The leaf below a component is the leaf below its active dialog.
LEMMA LeafUnfolds ==
  ASSUME NEW s, NEW is, Tree(s, is), NEW n \in 1..Len(is)
  PROVE  LeafIn(s, is, n) = IF Deeper(s, is, n) THEN LeafIn(s, is, Last(s[n])) ELSE n
<1>1. LeafIn(s, is, n) \in DescentIn(s, is)[n] /\ LeafIn(s, is, n) \in n..Len(is)
      /\ \A j \in DescentIn(s, is)[n] : j <= LeafIn(s, is, n)
  BY LeafFacts
<1>2. DescentIn(s, is)[n] = Down(s, is, DescentIn(s, is), n)
  BY DescentUnfolds
<1>3. CASE ~Deeper(s, is, n)
  BY <1>1, <1>2, <1>3 DEF Down
<1>4. CASE Deeper(s, is, n)
  <2> DEFINE m == Last(s[n])
             D == DescentIn(s, is)[m]
             l == LeafIn(s, is, m)
  <2>1. m \in 1..Len(is) /\ n < m /\ Len(is) \in Nat
    BY <1>4, TreeFacts DEF Deeper
  <2>2. l \in D /\ l \in m..Len(is) /\ \A j \in D : j <= l
    BY <2>1, LeafFacts
  <2>3. DescentIn(s, is)[n] = {n} \union D
    BY <1>2, <1>4 DEF Down
  <2> HIDE DEF m, D, l
  <2>4. l <= LeafIn(s, is, n) /\ LeafIn(s, is, n) \in {n} \union D
    BY <1>1, <2>2, <2>3
  <2>5. LeafIn(s, is, n) = l
    BY <1>1, <2>1, <2>2, <2>4
  <2> QED BY <1>4, <2>5 DEF l, m
<1> QED BY <1>3, <1>4

\* Nothing is active below a leaf.
LEMMA LeafRests ==
  ASSUME NEW s, NEW is, Tree(s, is), NEW n \in 1..Len(is)
  PROVE  ~Deeper(s, is, LeafIn(s, is, n))
<1> DEFINE N == Len(is)
           Bad == {k \in 1..N : Deeper(s, is, LeafIn(s, is, k))}
<1>1. N \in Nat /\ \A k \in 1..N : Deeper(s, is, k) => Last(s[k]) \in 1..N /\ k < Last(s[k])
  BY TreeFacts DEF Deeper
<1>2. SUFFICES ASSUME Bad # {} PROVE FALSE
  BY <1>2
<1>3. PICK k \in Bad : \A j \in Bad : j <= k
  <2>1. Bad \subseteq 0..N
    OBVIOUS
  <2> HIDE DEF Bad, N
  <2> QED BY <1>1, <1>2, <2>1, Greatest
<1>4. Deeper(s, is, k)
  BY LeafUnfolds
<1>5. Last(s[k]) \in 1..N /\ k < Last(s[k]) /\ k \in Nat
  BY <1>1, <1>4
<1>6. Last(s[k]) \in Bad
  <2>1. LeafIn(s, is, k) = LeafIn(s, is, Last(s[k]))
    BY <1>4, LeafUnfolds
  <2> QED BY <1>5, <2>1
<1>7. Last(s[k]) <= k
  <2> HIDE DEF Bad
  <2> QED BY <1>3, <1>6
<1> QED BY <1>1, <1>5, <1>7

\* Where every component has active dialogs, the leaf is none.
LEMMA LeafIsNoComponent ==
  ASSUME NEW s, NEW is, Tree(s, is), Full(s, is), NEW c \in Contexts, s[c] # <<>>
  PROVE  is[LeafIn(s, is, Last(s[c]))].id \notin Components
<1> DEFINE T == {k \in 1..Len(is) : \E d \in Contexts : s[d] # <<>> /\ k = Last(s[d])}
           n == Last(s[c])
           l == LeafIn(s, is, n)
<1>1. n \in 1..Len(is) /\ n \in T
  BY TreeFacts
<1>2. ASSUME NEW k \in T, Deeper(s, is, k) PROVE Last(s[k]) \in T
  <2>1. k \in Contexts /\ s[k] # <<>>
    BY <1>2, TreeFacts DEF Deeper
  <2> QED BY <2>1, TreeFacts
<1>3. DescentIn(s, is)[n] \subseteq T
  <2> HIDE DEF T, n
  <2> QED BY <1>1, <1>2, DescentLeast
<1>4. l \in T /\ ~Deeper(s, is, l)
  <2>1. l \in DescentIn(s, is)[n]
    BY <1>1, LeafFacts
  <2> HIDE DEF T, n
  <2> QED BY <1>1, <1>3, <2>1, LeafRests
<1>5. PICK d \in Contexts : s[d] # <<>> /\ l = Last(s[d])
  BY <1>4
<1>6. Len(s[d]) \in 1..Len(s[d])
  BY <1>5, TreeFacts
<1>7. ~Hollow(s, is, d, Len(s[d]))
  BY <1>6 DEF Full
<1> HIDE DEF T, n, l
<1>8. is[l].id \notin Components
  BY <1>4, <1>5, <1>7 DEF Hollow, Last, Deeper
<1> QED BY <1>8 DEF l, n

\* Instances on the root stack, or on that of a component that is.
Anchored(s, is, f, k) ==
  IF k = 0 THEN TRUE ELSE k <= Len(is) /\ k \in ToSet(s[is[k].on]) /\ f[is[k].on]
LiveIn(s, is) == CHOOSE f : f = [k \in Contexts |-> Anchored(s, is, f, k)]
LiveSet(s, is) == {k \in 1..Len(is) : LiveIn(s, is)[k]}

\* Being on a stack, as the properties and as the proofs say it.
LEMMA OnStackSet ==
  ASSUME NEW s, NEW is, Tree(s, is), NEW n \in 1..Len(is)
  PROVE  n \in ToSet(s[is[n].on]) <=> OnStack(s, is, n)
<1>1. s[is[n].on] \in Seq(1..MaxBegins)
  BY TreeFacts DEF Tree, Instance
<1>2. DOMAIN s[is[n].on] = 1..Len(s[is[n].on])
  BY <1>1, LenProperties
<1> QED BY <1>2 DEF ToSet, OnStack

\* The recursion along the contexts of instances is well defined.
LEMMA LiveUnfolds ==
  ASSUME NEW s, NEW is, Tree(s, is)
  PROVE  /\ \A k \in 1..Len(is) : k \in LiveSet(s, is) <=>
              OnStack(s, is, k) /\ (is[k].on = 0 \/ is[k].on \in LiveSet(s, is))
<1> DEFINE M == MaxBegins
           Sat(g, m) == \A k \in 0..m - 1 : g[k] = Anchored(s, is, g, k)
           G == [Contexts -> BOOLEAN]
           T == {m \in 0..M + 1 : \E g \in G : Sat(g, m)}
<1>1. /\ M \in Nat /\ Len(is) \in Nat /\ Len(is) <= M /\ Contexts = 0..M
      /\ \A k \in 1..Len(is) : is[k].on \in 0..k - 1
  BY DialogsAssumption, TreeFacts DEF Contexts, Tree
<1>2. 0 \in T
  <2>1. [k \in Contexts |-> TRUE] \in G
    OBVIOUS
  <2>2. \A g \in G : Sat(g, 0)
    OBVIOUS
  <2>3. 0 \in 0..M + 1
    BY <1>1
  <2> HIDE DEF G, Sat
  <2> QED BY <2>1, <2>2, <2>3
<1>3. PICK m \in T : \A y \in T : y <= m
  <2>1. T \subseteq 0..M + 1 /\ M + 1 \in Nat
    BY <1>1
  <2> HIDE DEF T
  <2> QED BY <1>2, <2>1, Greatest
<1>4. PICK g \in G : Sat(g, m)
  OBVIOUS
<1>5. m = M + 1
  <2> SUFFICES ASSUME m # M + 1 PROVE FALSE
    OBVIOUS
  <2> DEFINE h == [g EXCEPT ![m] = Anchored(s, is, g, m)]
  <2>1. m \in 0..M /\ m \in Contexts
    BY <1>1
  <2>2. \A k \in Contexts : h[k] = IF k = m THEN Anchored(s, is, g, m) ELSE g[k]
    BY <2>1
  <2>3. ASSUME NEW k \in 0..m
        PROVE  /\ Anchored(s, is, h, k) = Anchored(s, is, g, k)
               /\ Anchored(s, is, g, k) \in BOOLEAN
    <3>1. k \in 1..Len(is) => is[k].on \in 0..k - 1 /\ is[k].on \in Contexts
      BY <1>1
    <3>2. k \in 1..Len(is) => h[is[k].on] = g[is[k].on] /\ g[is[k].on] \in BOOLEAN
      BY <2>1, <2>2, <3>1
    <3>3. k # 0 /\ k <= Len(is) => k \in 1..Len(is)
      BY <1>1, <2>1
    <3> HIDE DEF h
    <3> QED BY <3>2, <3>3 DEF Anchored
  <2>4. h \in G
    BY <2>1, <2>3
  <2>5. ASSUME NEW k \in 0..m PROVE h[k] = Anchored(s, is, h, k)
    <3>1. k \in Contexts /\ (k = m \/ k \in 0..m - 1)
      BY <1>1, <2>1
    <3>2. k # m => g[k] = Anchored(s, is, g, k)
      BY <1>4, <3>1
    <3> HIDE DEF h
    <3> QED BY <2>2, <2>3, <3>1, <3>2
  <2> HIDE DEF h
  <2>6. m + 1 \in T
    <3>1. Sat(h, m + 1)
      BY <2>1, <2>5
    <3>2. m + 1 \in 0..M + 1
      BY <1>1, <2>1
    <3>3. \E f \in G : Sat(f, m + 1)
      BY <2>4, <3>1
    <3> HIDE DEF G, Sat
    <3> QED BY <3>2, <3>3
  <2> HIDE DEF T
  <2>7. m + 1 <= m
    BY <1>3, <2>6
  <2> QED BY <2>1, <2>7
<1>6. g = [k \in Contexts |-> Anchored(s, is, g, k)]
  <2>1. \A k \in Contexts : g[k] = Anchored(s, is, g, k)
    BY <1>1, <1>4, <1>5
  <2> HIDE DEF Sat, T
  <2> QED BY <2>1
<1> HIDE DEF Sat, G, T
<1>7. LiveIn(s, is) = [k \in Contexts |-> Anchored(s, is, LiveIn(s, is), k)]
  BY <1>6 DEF LiveIn
<1>8. ASSUME NEW k \in 1..Len(is)
      PROVE  k \in LiveSet(s, is) <=>
               OnStack(s, is, k) /\ (is[k].on = 0 \/ is[k].on \in LiveSet(s, is))
  <2>1. /\ k \in Contexts /\ k # 0 /\ k <= Len(is)
        /\ is[k].on \in Contexts /\ (is[k].on # 0 => is[k].on \in 1..Len(is))
    BY <1>1
  <2>2. LiveIn(s, is)[k] <=> OnStack(s, is, k) /\ LiveIn(s, is)[is[k].on]
    BY <1>7, <2>1, OnStackSet DEF Anchored
  <2>3. LiveIn(s, is)[0]
    BY <1>1, <1>7 DEF Anchored
  <2> QED BY <2>1, <2>2, <2>3 DEF LiveSet
<1> QED BY <1>8

\* Instances whose contexts lead to the root are live.
LEMMA ClosedIsLive ==
  ASSUME NEW s, NEW is, Tree(s, is), NEW S, S \subseteq 1..Len(is),
         \A k \in S : OnStack(s, is, k) /\ (is[k].on = 0 \/ is[k].on \in S)
  PROVE  S \subseteq LiveSet(s, is)
<1> DEFINE Bad == S \ LiveSet(s, is)
<1>1. SUFFICES ASSUME Bad # {} PROVE FALSE
  BY <1>1
<1>2. PICK k \in Bad : \A j \in Bad : k <= j
  <2>1. Bad \subseteq Nat
    <3>1. Len(is) \in Nat
      BY TreeFacts
    <3>2. S \subseteq Nat
      BY <3>1
    <3> QED BY <3>2
  <2> HIDE DEF Bad
  <2> QED BY <1>1, <2>1, Least
<1>3. k \in 1..Len(is) /\ is[k].on \in 0..k - 1
  BY TreeFacts
<1>4. is[k].on # 0 /\ is[k].on \in S /\ is[k].on \notin LiveSet(s, is)
  BY <1>3, LiveUnfolds
<1>5. k <= is[k].on
  BY <1>2, <1>4
<1> QED BY <1>3, <1>5, TreeFacts

\* Instances that stay where they were are not revived.
LEMMA LiveShrinks ==
  ASSUME NEW s, NEW is, Tree(s, is), NEW t, NEW js, Tree(t, js), Len(is) <= Len(js),
         \A n \in 1..Len(is) : js[n].on = is[n].on /\ (OnStack(t, js, n) => OnStack(s, is, n))
  PROVE  \A n \in 1..Len(is) : n \in LiveSet(t, js) => n \in LiveSet(s, is)
<1> DEFINE S == {n \in 1..Len(is) : n \in LiveSet(t, js)}
<1>1. /\ Len(is) \in Nat /\ Len(js) \in Nat
      /\ \A n \in 1..Len(is) : is[n].on \in 0..n - 1
  BY TreeFacts
<1>2. ASSUME NEW n \in S PROVE OnStack(s, is, n) /\ (is[n].on = 0 \/ is[n].on \in S)
  <2>1. n \in 1..Len(js) /\ is[n].on \in 0..n - 1 /\ n \in 1..Len(is)
    BY <1>1
  <2>2. OnStack(t, js, n) /\ (js[n].on = 0 \/ js[n].on \in LiveSet(t, js))
    BY <2>1, LiveUnfolds
  <2> QED BY <1>1, <2>1, <2>2
<1>3. S \subseteq LiveSet(s, is)
  <2> HIDE DEF S
  <2>1. S \subseteq 1..Len(is)
    BY DEF S
  <2> QED BY <1>2, <2>1, ClosedIsLive
<1> QED BY <1>3

\* With an instance go those below it.
LEMMA DescentIsBuried ==
  ASSUME NEW s, NEW is, Tree(s, is), NEW t, NEW js, Tree(t, js), Len(js) = Len(is),
         \A n \in 1..Len(is) : js[n].on = is[n].on,
         NEW x \in 1..Len(is), ~OnStack(t, js, x)
  PROVE  \A k \in DescentIn(s, is)[x] : k \notin LiveSet(t, js)
<1> DEFINE T == {k \in 1..Len(is) : k \notin LiveSet(t, js)}
<1>1. x \in T
  BY LiveUnfolds
<1>2. ASSUME NEW k \in T, Deeper(s, is, k) PROVE Last(s[k]) \in T
  <2>1. k \in Contexts /\ k \in 1..Len(is) /\ k # 0
    BY TreeFacts
  <2>2. Last(s[k]) \in 1..Len(is) /\ is[Last(s[k])].on = k
    BY <1>2, <2>1, TreeFacts DEF Deeper
  <2> QED BY <2>1, <2>2, LiveUnfolds
<1>3. DescentIn(s, is)[x] \subseteq T
  <2> HIDE DEF T
  <2> QED BY <1>1, <1>2, DescentLeast
<1> QED BY <1>3

-----------------------------------------------------------------------------
(* What the steps do to stacks and instances.                              *)

\* Instances that differ in what happened to them.
Same(is, js) ==
  /\ js \in Seq(Instance) /\ Len(js) = Len(is)
  /\ \A n \in 1..Len(is) : /\ js[n].id = is[n].id /\ js[n].on = is[n].on
                           /\ is[n].cut => js[n].cut

\* What has left the top of a stack.
Popped(s, t, c) == c \in Contexts /\ s[c] # <<>> /\ t = [s EXCEPT ![c] = Front(@)]

\* A sequence without its last element.
LEMMA FrontFacts ==
  ASSUME NEW S, NEW q \in Seq(S), q # <<>>
  PROVE  /\ Front(q) \in Seq(S) /\ Len(q) \in Nat /\ Len(q) > 0 /\ Len(Front(q)) = Len(q) - 1
         /\ \A i \in 1..Len(q) - 1 : Front(q)[i] = q[i]
         /\ Last(q) = q[Len(q)] /\ Last(q) \in S
<1>1. Len(q) \in Nat /\ Len(q) > 0
  BY EmptySeq, LenProperties
<1>2. \A i \in 1..Len(q) : q[i] \in S
  BY ElementOfSeq
<1>3. \A i \in 1..Len(q) - 1 : q[i] \in S
  BY <1>1, <1>2
<1>4. 1 \in Int /\ Len(q) - 1 \in Int
  BY <1>1
<1>5. /\ SubSeq(q, 1, Len(q) - 1) \in Seq(S)
      /\ Len(SubSeq(q, 1, Len(q) - 1)) = IF 1 <= Len(q) - 1 THEN Len(q) - 1 - 1 + 1 ELSE 0
      /\ \A i \in 1..Len(q) - 1 - 1 + 1 : SubSeq(q, 1, Len(q) - 1)[i] = q[1 + i - 1]
  BY <1>3, <1>4, SubSeqProperties
<1>6. Len(Front(q)) = Len(q) - 1
  <2>1. CASE Len(q) = 1
    <3> DEFINE k == Len(q) - 1
    <3>1. k = 0
      BY <2>1
    <3>2. Len(SubSeq(q, 1, k)) = IF 1 <= k THEN k - 1 + 1 ELSE 0
      BY <1>5
    <3> HIDE DEF k
    <3>3. Len(SubSeq(q, 1, k)) = k
      BY <3>1, <3>2
    <3> QED BY <3>3 DEF Front, k
  <2>2. CASE Len(q) > 1
    <3>1. 1 <= Len(q) - 1 /\ Len(q) - 1 - 1 + 1 = Len(q) - 1
      BY <1>1, <2>2
    <3> QED BY <1>5, <3>1 DEF Front
  <2>3. \A l \in Nat : l > 0 => l = 1 \/ l > 1
    OBVIOUS
  <2>4. Len(q) = 1 \/ Len(q) > 1
    BY <1>1, <2>3
  <2> QED BY <2>1, <2>2, <2>4
<1>7. ASSUME NEW i \in 1..Len(q) - 1 PROVE Front(q)[i] = q[i]
  <2>1. i \in 1..Len(q) - 1 - 1 + 1 /\ 1 + i - 1 = i
    BY <1>1
  <2> QED BY <1>5, <2>1 DEF Front
<1>8. Last(q) = q[Len(q)] /\ Last(q) \in S
  BY <1>1, <1>2 DEF Last
<1> QED BY <1>1, <1>5, <1>6, <1>7, <1>8 DEF Front

\* Told or not, passed by or not, instances nest as they did.
LEMMA SameTree ==
  ASSUME NEW s, NEW is, Tree(s, is), NEW js, Same(is, js)
  PROVE  Tree(s, js) /\ \A n \in 1..Len(is) : OnStack(s, js, n) <=> OnStack(s, is, n)
<1>1. \A n \in 1..Len(is) : is[n].on # 0 => is[n].on \in 1..Len(is)
  BY TreeFacts
<1>2. \A n \in 1..Len(js) :
        js[n].on < n /\ (js[n].on # 0 => js[js[n].on].id \in Components)
  BY <1>1 DEF Tree, Forest, Same
<1>3. \A c \in Contexts : \A i \in 1..Len(s[c]) :
        /\ s[c][i] \in 1..Len(js) /\ js[s[c][i]].on = c
        /\ \A j \in 1..i - 1 : s[c][j] < s[c][i]
  BY DEF Tree, Forest, Same
<1> QED BY <1>2, <1>3 DEF Tree, Forest, Same, OnStack

\* A stack without its active dialog.
LEMMA PopTree ==
  ASSUME NEW s, NEW is, Tree(s, is), NEW t, NEW c, Popped(s, t, c)
  PROVE  /\ Tree(t, is)
         /\ Len(t[c]) = Len(s[c]) - 1 /\ (\A i \in 1..Len(t[c]) : t[c][i] = s[c][i])
         /\ \A d \in Contexts : d # c => t[d] = s[d]
         /\ \A n \in 1..Len(is) :
              OnStack(t, is, n) <=> OnStack(s, is, n) /\ n # Last(s[c])
<1>0. c \in Contexts /\ s[c] # <<>> /\ s \in [Contexts -> Seq(1..MaxBegins)]
      /\ t = [s EXCEPT ![c] = Front(@)]
  BY DEF Popped, Tree
<1>1. /\ Front(s[c]) \in Seq(1..MaxBegins) /\ Len(s[c]) \in Nat /\ Len(s[c]) > 0
      /\ Len(Front(s[c])) = Len(s[c]) - 1
      /\ \A i \in 1..Len(s[c]) - 1 : Front(s[c])[i] = s[c][i]
      /\ Last(s[c]) = s[c][Len(s[c])]
  <2> DEFINE q == s[c]
  <2>1. q \in Seq(1..MaxBegins) /\ q # <<>>
    BY <1>0
  <2> HIDE DEF q
  <2>2. /\ Front(q) \in Seq(1..MaxBegins) /\ Len(q) \in Nat /\ Len(q) > 0
        /\ Len(Front(q)) = Len(q) - 1
        /\ \A i \in 1..Len(q) - 1 : Front(q)[i] = q[i]
        /\ Last(q) = q[Len(q)]
    BY ONLY <2>1, FrontFacts
  <2> QED BY <2>2 DEF q
<1>2. t \in [Contexts -> Seq(1..MaxBegins)] /\ t[c] = Front(s[c])
      /\ \A d \in Contexts : d # c => t[d] = s[d]
  BY <1>0, <1>1
<1>3. ASSUME NEW d \in Contexts
      PROVE  /\ Len(t[d]) \in Nat /\ Len(t[d]) <= Len(s[d])
             /\ \A i \in 1..Len(t[d]) : i \in 1..Len(s[d]) /\ t[d][i] = s[d][i]
  <2>1. Len(s[d]) \in Nat
    BY TreeFacts
  <2>2. CASE d = c
    BY <1>1, <1>2, <2>2
  <2>3. CASE d # c
    BY <1>2, <2>1, <2>3
  <2> QED BY <2>2, <2>3
<1>4. \A d \in Contexts : \A i \in 1..Len(t[d]) :
        /\ t[d][i] \in 1..Len(is) /\ is[t[d][i]].on = d
        /\ \A j \in 1..i - 1 : t[d][j] < t[d][i]
  <2> SUFFICES ASSUME NEW d \in Contexts, NEW i \in 1..Len(t[d])
               PROVE  /\ t[d][i] \in 1..Len(is) /\ is[t[d][i]].on = d
                      /\ \A j \in 1..i - 1 : t[d][j] < t[d][i]
    OBVIOUS
  <2>1. i \in 1..Len(s[d]) /\ t[d][i] = s[d][i] /\ \A j \in 1..i - 1 : t[d][j] = s[d][j]
    BY <1>3
  <2> QED BY <2>1 DEF Tree, Forest
<1>6. Tree(t, is)
  BY <1>2, <1>4 DEF Tree, Forest
<1>7. ASSUME NEW n \in 1..Len(is)
      PROVE  OnStack(t, is, n) <=> OnStack(s, is, n) /\ n # Last(s[c])
  <2> DEFINE d == is[n].on
  <2>0. d \in Contexts
    BY TreeFacts DEF Instance
  <2>1. CASE d # c
    <3>1. is[Last(s[c])].on = c
      BY <1>0, TreeFacts
    <3> QED BY <1>2, <2>0, <2>1, <3>1 DEF OnStack
  <2>2. CASE d = c
    <3>1. ASSUME OnStack(t, is, n) PROVE OnStack(s, is, n) /\ n # Last(s[c])
      <4>1. PICK i \in 1..Len(t[c]) : t[c][i] = n
        BY <2>2, <3>1 DEF OnStack
      <4>2. i \in 1..Len(s[c]) /\ s[c][i] = n /\ i < Len(s[c])
        BY <1>0, <1>1, <1>2, <1>3, <4>1
      <4>3. Len(s[c]) \in 1..Len(s[c]) /\ i \in 1..Len(s[c]) - 1
        BY <1>1, <4>2
      <4>4. s[c][i] < s[c][Len(s[c])]
        BY <1>0, <4>3 DEF Tree, Forest
      <4>5. n \in Nat
        BY TreeFacts
      <4> QED BY <1>1, <2>2, <4>2, <4>4, <4>5 DEF OnStack
    <3>2. ASSUME OnStack(s, is, n), n # Last(s[c]) PROVE OnStack(t, is, n)
      <4>1. PICK i \in 1..Len(s[c]) : s[c][i] = n
        BY <2>2, <3>2 DEF OnStack
      <4>2. i \in 1..Len(s[c]) - 1
        BY <1>1, <3>2, <4>1
      <4>3. i \in 1..Len(t[c]) /\ t[c][i] = n
        BY <1>1, <1>2, <4>1, <4>2
      <4> QED BY <2>2, <4>3 DEF OnStack
    <3> QED BY <3>1, <3>2
  <2> QED BY <2>1, <2>2
<1> QED BY <1>1, <1>2, <1>6, <1>7

\* What has begun on top of a stack.
Pushed(s, is, t, js, c, x) ==
  /\ x \in Instance /\ Len(is) + 1 <= MaxBegins
  /\ c \in 0..Len(is) /\ x.on = c /\ (c # 0 => is[c].id \in Components)
  /\ js = Append(is, x) /\ t = [s EXCEPT ![c] = Append(@, Len(is) + 1)]

\* A stack with an instance that has just begun.
LEMMA PushTree ==
  ASSUME NEW s, NEW is, Tree(s, is), NEW t, NEW js, NEW c, NEW x, Pushed(s, is, t, js, c, x)
  PROVE  /\ Tree(t, js) /\ Len(js) = Len(is) + 1 /\ js[Len(is) + 1] = x
         /\ c \in Contexts /\ s[Len(is) + 1] = <<>> /\ t[Len(is) + 1] = <<>>
         /\ \A n \in 1..Len(is) : js[n] = is[n] /\ (OnStack(t, js, n) <=> OnStack(s, is, n))
         /\ OnStack(t, js, Len(is) + 1)
         /\ t[c] # <<>> /\ Last(t[c]) = Len(is) + 1 /\ Len(t[c]) = Len(s[c]) + 1
         /\ \A i \in 1..Len(s[c]) : t[c][i] = s[c][i]
         /\ \A d \in Contexts : d # c => t[d] = s[d]
<1> USE DEF Pushed
<1> DEFINE m == Len(is) + 1
<1>0. /\ Len(is) \in Nat /\ is \in Seq(Instance) /\ s \in [Contexts -> Seq(1..MaxBegins)]
      /\ c \in Contexts /\ m \in 1..MaxBegins /\ m \in Contexts /\ m \in Nat /\ c < m
      /\ 0 \in Contexts
  <2>1. Len(is) \in Nat /\ MaxBegins \in Nat
    BY DialogsAssumption, TreeFacts
  <2>2. is \in Seq(Instance) /\ s \in [Contexts -> Seq(1..MaxBegins)]
    BY DEF Tree
  <2>3. c \in 0..Len(is) /\ Len(is) < MaxBegins
    BY <2>1
  <2> QED BY ONLY <2>1, <2>2, <2>3 DEF Contexts
<1>1. /\ js \in Seq(Instance) /\ Len(js) = m /\ js[m] = x
      /\ \A n \in 1..Len(is) : js[n] = is[n]
  BY <1>0, AppendProperties
<1>2. Len(s[c]) \in Nat /\ s[c] \in Seq(1..MaxBegins)
  BY <1>0, TreeFacts
<1>3. /\ Append(s[c], m) \in Seq(1..MaxBegins) /\ Append(s[c], m) # <<>>
      /\ Len(Append(s[c], m)) = Len(s[c]) + 1
      /\ \A i \in 1..Len(s[c]) : Append(s[c], m)[i] = s[c][i]
      /\ Append(s[c], m)[Len(s[c]) + 1] = m
  <2> HIDE DEF m
  <2> DEFINE q == s[c]
  <2>1. q \in Seq(1..MaxBegins) /\ m \in 1..MaxBegins
    BY <1>0, <1>2
  <2> HIDE DEF q
  <2>2. /\ Append(q, m) \in Seq(1..MaxBegins) /\ Append(q, m) # <<>>
        /\ Len(Append(q, m)) = Len(q) + 1
    <3> DEFINE A == 1..MaxBegins
    <3>1. q \in Seq(A) /\ m \in A
      BY <2>1
    <3> HIDE DEF A
    <3>2. Append(q, m) \in Seq(A) /\ Append(q, m) # <<>> /\ Len(Append(q, m)) = Len(q) + 1
      BY ONLY <3>1, AppendProperties
    <3> QED BY <3>2 DEF A
  <2>3. /\ \A i \in 1..Len(q) : Append(q, m)[i] = q[i]
        /\ Append(q, m)[Len(q) + 1] = m
    BY <2>1, AppendProperties
  <2> QED BY <2>2, <2>3 DEF q
<1>4. /\ t \in [Contexts -> Seq(1..MaxBegins)] /\ t[c] = Append(s[c], m)
      /\ \A d \in Contexts : d # c => t[d] = s[d]
  BY <1>0, <1>3
<1>5. s[m] = <<>> /\ t[m] = <<>>
  <2>1. s[m] = <<>>
    <3>1. m \notin 0..Len(is)
      BY <1>0
    <3> QED BY <1>0, <3>1, TreeFacts
  <2> QED BY <1>0, <1>4, <2>1
<1>6. Last(t[c]) = m /\ t[c] # <<>>
  BY <1>3, <1>4 DEF Last
<1>7. \A n \in 1..Len(js) :
        js[n].on < n /\ (js[n].on # 0 => js[js[n].on].id \in Components)
  <2> SUFFICES ASSUME NEW n \in 1..Len(js)
               PROVE  js[n].on < n /\ (js[n].on # 0 => js[js[n].on].id \in Components)
    OBVIOUS
  <2>1. CASE n = m
    <3>1. js[n].on = c /\ c < m /\ (c # 0 => c \in 1..Len(is))
      BY <1>0, <1>1, <2>1
    <3> QED BY <1>1, <2>1, <3>1
  <2>2. CASE n # m
    <3>1. n \in 1..Len(is)
      BY <1>0, <1>1, <2>2
    <3>2. is[n].on < n /\ is[n].on \in 0..n - 1 /\ (is[n].on # 0 => is[is[n].on].id \in Components)
      BY <3>1, TreeFacts DEF Tree, Forest
    <3>3. is[n].on # 0 => is[n].on \in 1..Len(is)
      BY SMTT(20), <1>0, <3>1, <3>2
    <3> QED BY <1>1, <3>1, <3>2, <3>3
  <2> QED BY <2>1, <2>2
<1>8. \A d \in Contexts : \A i \in 1..Len(t[d]) :
        /\ t[d][i] \in 1..Len(js) /\ js[t[d][i]].on = d
        /\ \A j \in 1..i - 1 : t[d][j] < t[d][i]
  <2> SUFFICES ASSUME NEW d \in Contexts, NEW i \in 1..Len(t[d])
               PROVE  /\ t[d][i] \in 1..Len(js) /\ js[t[d][i]].on = d
                      /\ \A j \in 1..i - 1 : t[d][j] < t[d][i]
    OBVIOUS
  <2>1. ASSUME NEW k \in 1..Len(s[d])
        PROVE  /\ s[d][k] \in 1..Len(is) /\ s[d][k] < m /\ is[s[d][k]].on = d
               /\ \A j \in 1..k - 1 : s[d][j] < s[d][k]
    <3>1. /\ s[d][k] \in 1..Len(is) /\ is[s[d][k]].on = d
          /\ \A j \in 1..k - 1 : s[d][j] < s[d][k]
      BY DEF Tree, Forest
    <3> QED BY <1>0, <3>1
  <2>2. CASE d # c
    <3>1. t[d] = s[d]
      BY <1>4, <2>2
    <3>2. i \in 1..Len(s[d]) /\ s[d][i] \in 1..Len(js)
      BY <1>0, <1>1, <2>1, <3>1
    <3> QED BY <1>1, <2>1, <3>1, <3>2
  <2>3. CASE d = c /\ i <= Len(s[c])
    <3>1. i \in 1..Len(s[c]) /\ t[c][i] = s[c][i] /\ \A j \in 1..i - 1 : t[c][j] = s[c][j]
      BY <1>2, <1>3, <1>4, <2>3
    <3>2. s[c][i] \in 1..Len(js)
      BY <1>0, <1>1, <2>1, <2>3, <3>1
    <3> QED BY <1>1, <2>1, <2>3, <3>1, <3>2
  <2>4. CASE d = c /\ i = Len(s[c]) + 1
    <3>1. t[c][i] = m /\ \A j \in 1..i - 1 : j \in 1..Len(s[c]) /\ t[c][j] = s[c][j]
      BY <1>2, <1>3, <1>4, <2>4
    <3> QED BY <1>0, <1>1, <2>1, <2>4, <3>1
  <2> QED BY <1>2, <1>3, <1>4, <2>2, <2>3, <2>4
<1>10. Tree(t, js)
  BY <1>0, <1>1, <1>4, <1>7, <1>8 DEF Tree, Forest
<1>11. OnStack(t, js, m)
  <2>1. Len(s[c]) + 1 \in 1..Len(t[c]) /\ t[c][Len(s[c]) + 1] = m
    BY <1>2, <1>3, <1>4
  <2> QED BY <1>1, <2>1 DEF OnStack
<1>12. ASSUME NEW n \in 1..Len(is) PROVE OnStack(t, js, n) <=> OnStack(s, is, n)
  <2>1. n # m /\ js[n].on = is[n].on /\ is[n].on \in Contexts
    <3>1. is[n] \in Instance
      BY TreeFacts
    <3>2. is[n].on \in Contexts
      BY ONLY <3>1 DEF Instance
    <3> QED BY ONLY <1>0, <1>1, <1>12, <3>2
  <2>2. CASE is[n].on # c
    BY <1>4, <2>1, <2>2 DEF OnStack
  <2>3. CASE is[n].on = c
    <3>0. \A l \in Nat : /\ \A i \in 1..l + 1 : i \in 1..l \/ i = l + 1
                         /\ \A i \in 1..l : i \in 1..l + 1
      OBVIOUS
    <3>1. \A i \in 1..Len(s[c]) + 1 : i \in 1..Len(s[c]) \/ i = Len(s[c]) + 1
      BY <1>2, <3>0
    <3>2. \A i \in 1..Len(s[c]) : i \in 1..Len(s[c]) + 1
      BY <1>2, <3>0
    <3>3. (\E i \in 1..Len(t[c]) : t[c][i] = n) <=> (\E i \in 1..Len(s[c]) : s[c][i] = n)
      BY <1>3, <1>4, <2>1, <3>1, <3>2
    <3> QED BY <2>1, <2>3, <3>3 DEF OnStack
  <2> QED BY <2>2, <2>3
<1> QED BY <1>0, <1>1, <1>3, <1>4, <1>5, <1>6, <1>10, <1>11, <1>12

\* The told and the untold are as they were.
LEMMA StayHistory ==
  ASSUME NEW s, NEW is, Tree(s, is), History(s, is), NEW js, Same(is, js),
         \A n \in 1..Len(is) : js[n].told = is[n].told
  PROVE  History(s, js)
<1> SUFFICES ASSUME NEW n \in 1..Len(js)
             PROVE  IF OnStack(s, js, n) THEN js[n].told = 0
                    ELSE /\ js[n].told \in {0, 1}
                         /\ js[n].told = 1 \/ js[n].id \notin DialogSet(js, js[n].on)
                         /\ s[n] # <<>> => js[n].cut \/ js[n].told = 0
  BY DEF History
<1>1. n \in 1..Len(is) /\ js[n].id = is[n].id /\ js[n].on = is[n].on /\ (is[n].cut => js[n].cut)
      /\ js[n].told = is[n].told
  BY DEF Same
<1>2. OnStack(s, js, n) <=> OnStack(s, is, n)
  BY <1>1, SameTree
<1>3. is[n].on # 0 => is[n].on \in 1..Len(is)
  BY <1>1, TreeFacts
<1>4. DialogSet(js, js[n].on) = DialogSet(is, is[n].on)
  BY <1>1, <1>3 DEF DialogSet, Same
<1> QED BY <1>1, <1>2, <1>4 DEF History

\* An instance leaves its stack, told with its dialogs gone or passed by, or unknown.
LEMMA PopHistory ==
  ASSUME NEW s, NEW is, Tree(s, is), History(s, is), NEW t, NEW c, Popped(s, t, c),
         NEW js, Same(is, js),
         \A n \in 1..Len(is) : n # Last(s[c]) => js[n].told = is[n].told,
         \/ js[Last(s[c])].told = is[Last(s[c])].told + 1
            /\ (s[Last(s[c])] = <<>> \/ is[Last(s[c])].cut)
         \/ js[Last(s[c])].told = is[Last(s[c])].told
            /\ is[Last(s[c])].id \notin DialogSet(is, c)
  PROVE  History(t, js)
<1> DEFINE m == Last(s[c])
<1>0. /\ c \in Contexts /\ s[c] # <<>> /\ m \in 1..Len(is) /\ is[m].on = c /\ m # c
      /\ m \in Contexts
  BY TreeFacts DEF Popped
<1>1. /\ Tree(t, is) /\ \A d \in Contexts : d # c => t[d] = s[d]
      /\ Len(t[c]) = Len(s[c]) - 1
      /\ \A n \in 1..Len(is) : OnStack(t, is, n) <=> OnStack(s, is, n) /\ n # m
  BY PopTree
<1>2. OnStack(s, is, m)
  <2>1. Len(s[c]) \in 1..Len(s[c]) /\ s[c][Len(s[c])] = m
    BY <1>0, TreeFacts DEF Last
  <2> QED BY <1>0, <2>1 DEF OnStack
<1>3. is[m].told = 0
  BY <1>0, <1>2 DEF History
<1> HIDE DEF m
<1> SUFFICES ASSUME NEW n \in 1..Len(js)
             PROVE  IF OnStack(t, js, n) THEN js[n].told = 0
                    ELSE /\ js[n].told \in {0, 1}
                         /\ js[n].told = 1 \/ js[n].id \notin DialogSet(js, js[n].on)
                         /\ t[n] # <<>> => js[n].cut \/ js[n].told = 0
  BY DEF History
<1>4. n \in 1..Len(is) /\ js[n].id = is[n].id /\ js[n].on = is[n].on /\ (is[n].cut => js[n].cut)
  BY DEF Same
<1>5. OnStack(t, js, n) <=> OnStack(s, is, n) /\ n # m
  BY <1>1, <1>4, SameTree
<1>6. is[n].on # 0 => is[n].on \in 1..Len(is)
  BY <1>4, TreeFacts
<1>7. DialogSet(js, js[n].on) = DialogSet(is, is[n].on)
  BY <1>4, <1>6 DEF DialogSet, Same
<1>8. t[n] # <<>> => s[n] # <<>>
  <2>1. n \in Contexts
    BY <1>4, TreeFacts
  <2> QED BY <1>0, <1>1, <2>1
<1>9. CASE n = m
  <2>1. /\ \/ js[m].told = 1 /\ (s[m] = <<>> \/ js[m].cut)
           \/ js[m].told = 0 /\ js[m].id \notin DialogSet(js, js[m].on)
    BY <1>0, <1>3, <1>4, <1>7, <1>9 DEF m
  <2> QED BY <1>5, <1>8, <1>9, <2>1
<1>10. CASE n # m
  <2>1. js[n].told = is[n].told
    BY <1>4, <1>10 DEF m
  <2> QED BY <1>4, <1>5, <1>7, <1>8, <1>10, <2>1 DEF History
<1> QED BY <1>9, <1>10

\* An instance begins on the stack of a dialog that has not left.
LEMMA PushHistory ==
  ASSUME NEW s, NEW is, Tree(s, is), History(s, is),
         NEW t, NEW js, NEW c, NEW x, Pushed(s, is, t, js, c, x), x.told = 0,
         c # 0 => OnStack(s, is, c)
  PROVE  History(t, js)
<1> DEFINE m == Len(is) + 1
<1>1. /\ Len(js) = m /\ js[m] = x /\ OnStack(t, js, m)
      /\ \A n \in 1..Len(is) : js[n] = is[n] /\ (OnStack(t, js, n) <=> OnStack(s, is, n))
      /\ \A d \in Contexts : d # c => t[d] = s[d]
  BY PushTree
<1>2. Len(is) \in Nat
  BY TreeFacts
<1> SUFFICES ASSUME NEW n \in 1..Len(js)
             PROVE  IF OnStack(t, js, n) THEN js[n].told = 0
                    ELSE /\ js[n].told \in {0, 1}
                         /\ js[n].told = 1 \/ js[n].id \notin DialogSet(js, js[n].on)
                         /\ t[n] # <<>> => js[n].cut \/ js[n].told = 0
  BY DEF History
<1>3. CASE n = m
  BY <1>1, <1>3
<1>4. CASE n # m
  <2>1. n \in 1..Len(is)
    BY <1>1, <1>2, <1>4
  <2>2. js[n] = is[n] /\ (OnStack(t, js, n) <=> OnStack(s, is, n)) /\ n \in Contexts
    BY <1>1, <2>1, TreeFacts
  <2>3. is[n].on # 0 => is[n].on \in 1..Len(is)
    BY <2>1, TreeFacts
  <2>4. DialogSet(js, js[n].on) = DialogSet(is, is[n].on)
    BY <1>1, <2>2, <2>3 DEF DialogSet
  <2>5. ~OnStack(s, is, n) => t[n] = s[n]
    BY <1>1, <2>1, <2>2
  <2> QED BY <2>1, <2>2, <2>4, <2>5 DEF History
<1> QED BY <1>3, <1>4

\* Told or not, passed by or not, the active instances are the same.
LEMMA SameDescent ==
  ASSUME NEW s, NEW is, Tree(s, is), NEW js, Same(is, js), NEW n \in 1..Len(is)
  PROVE  DescentIn(s, js)[n] = DescentIn(s, is)[n] /\ LeafIn(s, js, n) = LeafIn(s, is, n)
<1> DEFINE N == Len(is)
           D == DescentIn(s, is)
           E == DescentIn(s, js)
           Bad == {k \in 1..N : E[k] # D[k]}
<1>1. /\ N \in Nat /\ Tree(s, js) /\ Len(js) = N
      /\ \A k \in 1..N : Deeper(s, is, k) => Last(s[k]) \in 1..N /\ k < Last(s[k])
      /\ \A k \in 1..N : Deeper(s, js, k) <=> Deeper(s, is, k)
  BY TreeFacts, SameTree DEF Deeper, Same
<1>2. Bad = {}
  <2> SUFFICES ASSUME Bad # {} PROVE FALSE
    OBVIOUS
  <2>1. PICK k \in Bad : \A j \in Bad : j <= k
    <3>1. Bad \subseteq 0..N
      OBVIOUS
    <3> HIDE DEF Bad, N
    <3> QED BY <1>1, <3>1, Greatest
  <2>2. D[k] = Down(s, is, D, k) /\ E[k] = Down(s, js, E, k)
    <3>1. k \in 1..Len(is) /\ k \in 1..Len(js)
      BY <1>1
    <3> QED BY <1>1, <3>1, DescentUnfolds
  <2>3. Deeper(s, is, k) /\ Deeper(s, js, k)
    <3> HIDE DEF D, E
    <3>1. E[k] # D[k] /\ k \in 1..N
      OBVIOUS
    <3> QED BY <1>1, <2>2, <3>1 DEF Down
  <2>4. Last(s[k]) \in 1..N /\ k < Last(s[k]) /\ k \in Nat
    BY <1>1, <2>3
  <2>5. Last(s[k]) \notin Bad
    <3> HIDE DEF Bad
    <3> QED BY <1>1, <2>1, <2>4
  <2>6. E[Last(s[k])] = D[Last(s[k])]
    BY <2>4, <2>5
  <2>7. E[k] = D[k]
    <3> HIDE DEF D, E
    <3> QED BY <2>2, <2>3, <2>6 DEF Down
  <2> QED BY <2>7
<1>3. DescentIn(s, js)[n] = DescentIn(s, is)[n]
  BY <1>2
<1> QED BY <1>3 DEF LeafIn

\* A context and its parents.
Parents(is, f, k) == IF k = 0 THEN {0} ELSE {k} \union f[is[k].on]
LineageIn(is) == CHOOSE f : f = [k \in 0..Len(is) |-> Parents(is, f, k)]

\* The recursion along parents is well defined.
LEMMA LineageUnfolds ==
  ASSUME NEW s, NEW is, Tree(s, is)
  PROVE  \A k \in 0..Len(is) : /\ LineageIn(is)[k] = Parents(is, LineageIn(is), k)
                               /\ LineageIn(is)[k] \subseteq 0..k
<1> DEFINE N == Len(is)
           Sat(g, m) == \A k \in 0..m - 1 : g[k] = Parents(is, g, k) /\ g[k] \subseteq 0..k
           G == [0..N -> SUBSET (0..N)]
           T == {m \in 0..N + 1 : \E g \in G : Sat(g, m)}
<1>1. N \in Nat /\ \A k \in 1..N : is[k].on \in 0..k - 1
  BY TreeFacts
<1>2. 0 \in T
  <2>1. [k \in 0..N |-> {}] \in G
    OBVIOUS
  <2>2. \A g \in G : Sat(g, 0)
    OBVIOUS
  <2>3. 0 \in 0..N + 1
    BY <1>1
  <2> HIDE DEF G, Sat
  <2> QED BY <2>1, <2>2, <2>3
<1>3. PICK m \in T : \A y \in T : y <= m
  <2>1. T \subseteq 0..N + 1 /\ N + 1 \in Nat
    BY <1>1
  <2> HIDE DEF T
  <2> QED BY <1>2, <2>1, Greatest
<1>4. PICK g \in G : Sat(g, m)
  OBVIOUS
<1>5. m = N + 1
  <2> SUFFICES ASSUME m # N + 1 PROVE FALSE
    OBVIOUS
  <2> DEFINE h == [g EXCEPT ![m] = Parents(is, g, m)]
  <2>1. m \in 0..N
    BY <1>1
  <2>2. \A k \in 0..N : h[k] = IF k = m THEN Parents(is, g, m) ELSE g[k]
    BY <2>1
  <2>3. ASSUME NEW k \in 0..m
        PROVE  Parents(is, h, k) = Parents(is, g, k) /\ Parents(is, g, k) \subseteq 0..k
    <3>1. k # 0 => k \in 1..N /\ is[k].on \in 0..k - 1 /\ is[k].on \in 0..m - 1 /\ is[k].on \in 0..N
      BY <1>1, <2>1
    <3>2. k # 0 => h[is[k].on] = g[is[k].on] /\ g[is[k].on] \subseteq 0..is[k].on
      BY <1>4, <2>1, <2>2, <3>1
    <3>3. k # 0 => g[is[k].on] \subseteq 0..k
      BY <3>1, <3>2
    <3>4. k \in Nat
      BY <2>1
    <3> HIDE DEF h
    <3> QED BY <3>2, <3>3, <3>4 DEF Parents
  <2>4. h \in G
    <3>1. Parents(is, g, m) \subseteq 0..N
      <4>1. Parents(is, g, m) \subseteq 0..m
        BY <2>1, <2>3
      <4> QED BY <1>1, <2>1, <4>1
    <3> QED BY <2>1, <3>1
  <2>5. ASSUME NEW k \in 0..m PROVE h[k] = Parents(is, h, k) /\ h[k] \subseteq 0..k
    <3>1. k \in 0..N /\ (k = m \/ k \in 0..m - 1)
      BY <1>1, <2>1
    <3>2. k # m => g[k] = Parents(is, g, k)
      BY <1>4, <3>1
    <3> HIDE DEF h
    <3> QED BY <2>2, <2>3, <3>1, <3>2
  <2> HIDE DEF h
  <2>6. m + 1 \in T
    <3>1. Sat(h, m + 1)
      <4>1. \A k \in 0..m + 1 - 1 : k \in 0..m
        BY <2>1
      <4> QED BY <2>5, <4>1
    <3>2. m + 1 \in 0..N + 1
      BY <1>1, <2>1
    <3>3. \E f \in G : Sat(f, m + 1)
      BY <2>4, <3>1
    <3> HIDE DEF G, Sat
    <3> QED BY <3>2, <3>3
  <2> HIDE DEF T
  <2>7. m + 1 <= m
    BY <1>3, <2>6
  <2> QED BY <2>1, <2>7
<1>6. ASSUME NEW f, f = [k \in 0..N |-> Parents(is, f, k)], NEW k \in 0..N
      PROVE  f[k] = Parents(is, f, k)
  BY <1>6
<1>7. g = [k \in 0..N |-> Parents(is, g, k)]
  <2>1. \A k \in 0..N : g[k] = Parents(is, g, k)
    BY <1>1, <1>4, <1>5
  <2> HIDE DEF Sat, T
  <2> QED BY <2>1
<1> HIDE DEF Sat, G, T
<1>8. LineageIn(is) = [k \in 0..N |-> Parents(is, LineageIn(is), k)]
  BY <1>7 DEF LineageIn
<1> DEFINE L == LineageIn(is)
<1>9. \A k \in 0..N : L[k] = Parents(is, L, k)
  BY <1>6, <1>8
<1> DEFINE Bad == {k \in 0..N : ~(L[k] \subseteq 0..k)}
<1>10. Bad = {}
  <2> SUFFICES ASSUME Bad # {} PROVE FALSE
    OBVIOUS
  <2>1. PICK k \in Bad : \A j \in Bad : k <= j
    <3>1. Bad \subseteq Nat
      BY <1>1
    <3> HIDE DEF Bad, L
    <3> QED BY <3>1, Least
  <2> HIDE DEF L
  <2>2. L[k] = Parents(is, L, k) /\ k \in 0..N
    BY <1>9
  <2>3. k # 0
    BY <2>2 DEF Parents
  <2>4. is[k].on \in 0..k - 1 /\ is[k].on \in 0..N
    BY <1>1, <2>2, <2>3
  <2>5. is[k].on \notin Bad
    <3> HIDE DEF Bad
    <3> QED BY <2>1, <2>2, <2>4
  <2>6. L[is[k].on] \subseteq 0..is[k].on
    BY <2>4, <2>5
  <2>7. L[is[k].on] \subseteq 0..k /\ k \in 0..k
    BY <2>2, <2>4, <2>6
  <2> QED BY <2>2, <2>7 DEF Parents
<1> HIDE DEF L
<1>11. \A k \in 0..N : L[k] \subseteq 0..k
  BY <1>10
<1> QED BY <1>9, <1>11 DEF L

-----------------------------------------------------------------------------
(* The state of the conversation.                                          *)

\* The recursive operators of the model are those the lemmas above are about.
LEMMA Unfolded ==
  /\ \A n : Descent(n) = DescentIn(stack, inst)[n] /\ Leaf(n) = LeafIn(stack, inst, n)
  /\ \A c : Lineage(c) = LineageIn(inst)[c] /\ SetOf(c) = DialogSet(inst, c)
  /\ Live = LiveSet(stack, inst)
<1>1. \A n : Descent(n) = DescentIn(stack, inst)[n]
  BY DEF Descent, DescentIn, Down, Deeper, IdOf, Active
<1>2. \A n : Leaf(n) = LeafIn(stack, inst, n)
  BY <1>1 DEF Leaf, LeafIn
<1>3. \A c : Lineage(c) = LineageIn(inst)[c]
  BY DEF Lineage, LineageIn, Parents
<1>4. \A c : SetOf(c) = DialogSet(inst, c)
  BY DEF SetOf, DialogSet, IdOf
<1>5. Live = LiveSet(stack, inst)
  BY DEF Live, LiveSet, LiveIn, Anchored, Instances
<1> QED BY <1>1, <1>2, <1>3, <1>4, <1>5

\* The same after a step.
LEMMA UnfoldedNext ==
  /\ \A n : Descent(n)' = DescentIn(stack', inst')[n] /\ Leaf(n)' = LeafIn(stack', inst', n)
  /\ \A c : Lineage(c)' = LineageIn(inst')[c] /\ SetOf(c)' = DialogSet(inst', c)
  /\ Live' = LiveSet(stack', inst')
<1>1. \A n : Descent(n)' = DescentIn(stack', inst')[n]
  BY DEF Descent, DescentIn, Down, Deeper, IdOf, Active
<1>2. \A n : Leaf(n)' = LeafIn(stack', inst', n)
  BY <1>1 DEF Leaf, LeafIn
<1>3. \A c : Lineage(c)' = LineageIn(inst')[c]
  BY DEF Lineage, LineageIn, Parents
<1>4. \A c : SetOf(c)' = DialogSet(inst', c)
  BY DEF SetOf, DialogSet, IdOf
<1>5. Live' = LiveSet(stack', inst')
  BY DEF Live, LiveSet, LiveIn, Anchored, Instances
<1> QED BY <1>1, <1>2, <1>3, <1>4, <1>5

-----------------------------------------------------------------------------
(* The calls of a turn.                                                    *)

LEMMA TopFacts ==
  ASSUME calls \in Seq(Frame), calls # <<>>
  PROVE  /\ Len(calls) \in Nat /\ Len(calls) > 0 /\ Len(calls) \in Frames
         /\ Top = calls[Len(calls)] /\ Top \in Frame
         /\ \A i \in Frames : calls[i] \in Frame /\ calls[i].dc \in Contexts
<1>1. Len(calls) \in Nat /\ Len(calls) > 0
  BY EmptySeq, LenProperties
<1>2. \A i \in Frames : calls[i] \in Frame
  BY ElementOfSeq DEF Frames
<1>3. \A f \in Frame : f.dc \in Contexts
  BY DEF Frame
<1> QED BY <1>1, <1>2, <1>3 DEF Top, Last, Frames

\* The calls below the one that runs stay where they are.
Kept ==
  /\ calls' \in Seq(Frame) /\ Len(calls') \in Nat /\ Len(calls') >= Len(calls) - 1
  /\ \A i \in 1..Len(calls) - 1 : calls'[i] = calls[i]

\* The call that runs returns: the others stay.
LEMMA FrontShape ==
  ASSUME calls \in Seq(Frame), calls # <<>>
  PROVE  /\ Front(calls) \in Seq(Frame) /\ Len(Front(calls)) = Len(calls) - 1
         /\ \A i \in 1..Len(calls) - 1 : Front(calls)[i] = calls[i]
BY FrontFacts

\* The call that runs gives way to another one.
LEMMA JumpShape ==
  ASSUME calls \in Seq(Frame), calls # <<>>, NEW f \in Frame, calls' = Append(Front(calls), f)
  PROVE  /\ Kept /\ Len(calls') = Len(calls) /\ calls'[Len(calls)] = f
         /\ calls' # <<>> /\ Top' = f
<1> DEFINE q == Front(calls)
<1>1. q \in Seq(Frame) /\ Len(q) = Len(calls) - 1 /\ \A i \in 1..Len(calls) - 1 : q[i] = calls[i]
  BY FrontShape
<1>2. Len(calls) \in Nat /\ Len(calls) > 0
  BY TopFacts
<1>3. calls' = Append(q, f)
  OBVIOUS
<1> HIDE DEF q
<1>4. /\ calls' \in Seq(Frame) /\ Len(calls') = Len(q) + 1 /\ calls' # <<>>
      /\ \A i \in 1..Len(q) : calls'[i] = q[i]
      /\ calls'[Len(q) + 1] = f
  BY <1>1, <1>3, AppendProperties
<1>5. Len(calls') = Len(calls) /\ Len(calls') \in Nat /\ calls'[Len(calls)] = f
  BY <1>1, <1>2, <1>4
<1>6. \A i \in 1..Len(calls) - 1 : calls'[i] = calls[i]
  BY <1>1, <1>2, <1>4
<1> QED BY <1>2, <1>4, <1>5, <1>6 DEF Kept, Top, Last

\* The call that runs makes way for one that waits and the one it waits for.
LEMMA EnterShape ==
  ASSUME calls \in Seq(Frame), calls # <<>>, NEW f \in Frame, NEW g \in Frame,
         calls' = Front(calls) \o <<f, g>>
  PROVE  /\ Kept /\ Len(calls') = Len(calls) + 1
         /\ calls'[Len(calls)] = f /\ calls'[Len(calls) + 1] = g
         /\ calls' # <<>> /\ Top' = g
<1> DEFINE q == Front(calls)
           r == <<f, g>>
<1>1. q \in Seq(Frame) /\ Len(q) = Len(calls) - 1 /\ \A i \in 1..Len(calls) - 1 : q[i] = calls[i]
  BY FrontShape
<1>2. Len(calls) \in Nat /\ Len(calls) > 0
  BY TopFacts
<1>3. calls' = q \o r
  OBVIOUS
<1>4. r \in Seq(Frame) /\ Len(r) = 2 /\ r[1] = f /\ r[2] = g
  OBVIOUS
<1> HIDE DEF q, r
<1>5. /\ calls' \in Seq(Frame) /\ Len(calls') = Len(q) + Len(r)
      /\ \A i \in 1..Len(q) + Len(r) : calls'[i] = IF i <= Len(q) THEN q[i] ELSE r[i - Len(q)]
  <2>1. /\ q \o r \in Seq(Frame) /\ Len(q \o r) = Len(q) + Len(r)
        /\ \A i \in 1..Len(q) + Len(r) : (q \o r)[i] = IF i <= Len(q) THEN q[i] ELSE r[i - Len(q)]
    BY <1>1, <1>4, ConcatProperties
  <2> QED BY <1>3, <2>1
<1>6. Len(calls') = Len(calls) + 1 /\ Len(calls') \in Nat
  BY <1>1, <1>2, <1>4, <1>5
<1>7. calls'[Len(calls)] = f /\ calls'[Len(calls) + 1] = g
  <2>1. \A k \in 1..Len(q) + Len(r) : ~(k <= Len(q)) => calls'[k] = r[k - Len(q)]
    BY <1>5
  <2>2. ASSUME NEW k, k = Len(calls) PROVE calls'[k] = f
    <3>1. k \in 1..Len(q) + Len(r) /\ ~(k <= Len(q)) /\ k - Len(q) = 1
      BY <1>1, <1>2, <1>4, <2>2
    <3> QED BY <1>4, <2>1, <3>1
  <2>3. ASSUME NEW k, k = Len(calls) + 1 PROVE calls'[k] = g
    <3>1. k \in 1..Len(q) + Len(r) /\ ~(k <= Len(q)) /\ k - Len(q) = 2
      BY <1>1, <1>2, <1>4, <2>3
    <3> QED BY <1>4, <2>1, <3>1
  <2> QED BY <2>2, <2>3
<1>8. \A i \in 1..Len(calls) - 1 : calls'[i] = calls[i]
  <2>1. \A i \in 1..Len(calls) - 1 : i \in 1..Len(q) + Len(r) /\ i <= Len(q)
    BY <1>1, <1>2, <1>4
  <2> QED BY <1>1, <1>5, <2>1
<1>9. calls' # <<>>
  BY <1>2, <1>5, <1>6, EmptySeq
<1> QED BY <1>2, <1>5, <1>6, <1>7, <1>8, <1>9 DEF Kept, Top, Last

\* The same with two calls that wait: a cancellation and the ending of a component.
LEMMA CancelShape ==
  ASSUME calls \in Seq(Frame), calls # <<>>, NEW f \in Frame, NEW g \in Frame, NEW h \in Frame,
         calls' = Front(calls) \o <<f, g, h>>
  PROVE  /\ Kept /\ Len(calls') = Len(calls) + 2
         /\ calls'[Len(calls)] = f /\ calls'[Len(calls) + 1] = g /\ calls'[Len(calls) + 2] = h
         /\ calls' # <<>> /\ Top' = h
<1> DEFINE q == Front(calls)
           r == <<f, g, h>>
<1>1. q \in Seq(Frame) /\ Len(q) = Len(calls) - 1 /\ \A i \in 1..Len(calls) - 1 : q[i] = calls[i]
  BY FrontShape
<1>2. Len(calls) \in Nat /\ Len(calls) > 0
  BY TopFacts
<1>3. calls' = q \o r
  OBVIOUS
<1>4. r \in Seq(Frame) /\ Len(r) = 3 /\ r[1] = f /\ r[2] = g /\ r[3] = h
  OBVIOUS
<1> HIDE DEF q, r
<1>5. /\ calls' \in Seq(Frame) /\ Len(calls') = Len(q) + Len(r)
      /\ \A i \in 1..Len(q) + Len(r) : calls'[i] = IF i <= Len(q) THEN q[i] ELSE r[i - Len(q)]
  <2>1. /\ q \o r \in Seq(Frame) /\ Len(q \o r) = Len(q) + Len(r)
        /\ \A i \in 1..Len(q) + Len(r) : (q \o r)[i] = IF i <= Len(q) THEN q[i] ELSE r[i - Len(q)]
    BY <1>1, <1>4, ConcatProperties
  <2> QED BY <1>3, <2>1
<1>6. Len(calls') = Len(calls) + 2 /\ Len(calls') \in Nat
  BY <1>1, <1>2, <1>4, <1>5
<1>7. calls'[Len(calls)] = f /\ calls'[Len(calls) + 1] = g /\ calls'[Len(calls) + 2] = h
  <2>1. \A k \in 1..Len(q) + Len(r) : ~(k <= Len(q)) => calls'[k] = r[k - Len(q)]
    BY <1>5
  <2>2. ASSUME NEW k, k = Len(calls) PROVE calls'[k] = f
    <3>1. k \in 1..Len(q) + Len(r) /\ ~(k <= Len(q)) /\ k - Len(q) = 1
      BY <1>1, <1>2, <1>4, <2>2
    <3> QED BY ONLY <1>4, <2>1, <3>1
  <2>3. ASSUME NEW k, k = Len(calls) + 1 PROVE calls'[k] = g
    <3>1. k \in 1..Len(q) + Len(r) /\ ~(k <= Len(q)) /\ k - Len(q) = 2
      BY <1>1, <1>2, <1>4, <2>3
    <3> QED BY ONLY <1>4, <2>1, <3>1
  <2>4. ASSUME NEW k, k = Len(calls) + 2 PROVE calls'[k] = h
    <3>1. k \in 1..Len(q) + Len(r) /\ ~(k <= Len(q)) /\ k - Len(q) = 3
      BY <1>1, <1>2, <1>4, <2>4
    <3> QED BY ONLY <1>4, <2>1, <3>1
  <2> QED BY <2>2, <2>3, <2>4
<1>8. \A i \in 1..Len(calls) - 1 : calls'[i] = calls[i]
  <2>1. \A i \in 1..Len(calls) - 1 : i \in 1..Len(q) + Len(r) /\ i <= Len(q)
    BY <1>1, <1>2, <1>4
  <2> QED BY <1>1, <1>5, <2>1
<1>9. calls' # <<>>
  BY <1>2, <1>5, <1>6, EmptySeq
<1>10. Kept
  <2>1. calls' \in Seq(Frame)
    BY <1>5
  <2>2. Len(calls') \in Nat /\ Len(calls') >= Len(calls) - 1
    BY <1>2, <1>6
  <2> QED BY <1>8, <2>1, <2>2 DEF Kept
<1>11. Top' = h
  BY ONLY <1>6, <1>7 DEF Top, Last
<1> QED BY <1>6, <1>7, <1>9, <1>10, <1>11

\* The call that runs returns to the one below it.
LEMMA ReturnShape ==
  ASSUME calls \in Seq(Frame), calls # <<>>, calls' = Front(calls)
  PROVE  /\ Kept /\ Len(calls') = Len(calls) - 1
         /\ Len(calls) > 1 => /\ calls' # <<>> /\ Len(calls) - 1 \in Frames
                              /\ Top' = calls[Len(calls) - 1]
<1>1. Len(calls) \in Nat /\ Len(calls) > 0
  BY TopFacts
<1>2. /\ calls' \in Seq(Frame) /\ Len(calls') = Len(calls) - 1
      /\ \A i \in 1..Len(calls) - 1 : calls'[i] = calls[i]
  BY FrontShape
<1>3. Kept
  BY <1>1, <1>2 DEF Kept
<1>4. ASSUME Len(calls) > 1
      PROVE  calls' # <<>> /\ Len(calls) - 1 \in Frames /\ Top' = calls[Len(calls) - 1]
  <2>1. Len(calls) - 1 \in 1..Len(calls) - 1 /\ Len(calls) - 1 \in Frames /\ Len(calls') # 0
    BY <1>1, <1>2, <1>4 DEF Frames
  <2>2. calls' # <<>>
    BY <2>1, <1>2, EmptySeq
  <2> QED BY <1>2, <2>1, <2>2 DEF Top, Last
<1> QED BY <1>2, <1>3, <1>4

\* A step of the call that runs changes the stack of its context only.
Local ==
  /\ Tree(stack', inst') /\ Len(inst) <= Len(inst')
  /\ \A n \in 1..Len(inst) : /\ inst'[n].id = inst[n].id /\ inst'[n].on = inst[n].on
                             /\ inst[n].cut => inst'[n].cut
  /\ \A d \in Contexts : d # Top.dc => stack'[d] = stack[d]
  /\ stack'[Top.dc] # <<>> => stack[Top.dc] # <<>> \/ Top.fn = "begin"
  /\ spared' \in {spared, TRUE}

\* What holds of the calls that wait goes on to hold.
LEMMA KeptCalls ==
  ASSUME Tree(stack, inst), CallsOK, calls # <<>>, Kept, Local,
         NEW i \in 1..Len(calls) - 1
  PROVE  CallOK(i)'
<1>0. PICK N, c, f : N = Len(calls) /\ c = Top.dc /\ f = calls[i]
  OBVIOUS
<1>1. /\ N \in Nat /\ N > 0 /\ N \in Frames /\ Top = calls[N] /\ c \in Contexts
      /\ i \in Frames /\ i < N /\ i \in Nat
      /\ \A j \in Frames : calls[j].dc \in Contexts /\ calls[j] \in Frame
  BY <1>0, TopFacts DEF CallsOK, Frames
<1>2. CallOK(i) /\ CallOK(N) /\ OrderOK(i, N) /\ \A j \in 1..i - 1 : OrderOK(j, N) /\ OrderOK(j, i)
  <2>1. CallOK(i) /\ CallOK(N)
    BY <1>0, <1>1 DEF CallsOK
  <2>2. i \in 1..N - 1 /\ \A j \in 1..i - 1 : j \in 1..N - 1
    BY <1>0, <1>1
  <2> QED BY <2>1, <2>2 DEF CallOK
<1>3. /\ calls'[i] = f /\ \A j \in 1..i - 1 : calls'[j] = calls[j] /\ j \in Frames /\ j \in 1..N - 1
      /\ i > 1 => calls'[i - 1] = calls[i - 1] /\ i - 1 \in Frames /\ i - 1 \in 1..i - 1
  BY <1>0, <1>1 DEF Kept, Frames
<1>4. /\ \A d \in Contexts : d # c => stack'[d] = stack[d]
      /\ \A n \in 1..Len(inst) : /\ inst'[n].id = inst[n].id /\ inst'[n].on = inst[n].on
                                 /\ inst[n].cut => inst'[n].cut
      /\ stack'[c] # <<>> => stack[c] # <<>> \/ Top.fn = "begin"
      /\ Len(inst) \in Nat /\ Len(inst') \in Nat /\ Len(inst) <= Len(inst')
  BY <1>0, TreeFacts DEF Local
<1>5. /\ f.dc \in 0..Len(inst) /\ f.dc \in Contexts /\ (f.dc # 0 => f.dc \in 1..Len(inst))
      /\ (f.dc # 0 => On(f.dc) \in Contexts /\ On(f.dc) < f.dc /\ On(f.dc)' = On(f.dc))
  <2>1. f.dc \in 0..Len(inst) /\ f.dc \in Contexts
    BY <1>0, <1>1, <1>2 DEF CallOK
  <2>2. f.dc # 0 => f.dc \in 1..Len(inst)
    BY <1>4, <2>1
  <2>3. \A n \in 1..Len(inst) : inst[n].on \in 0..n - 1 /\ inst[n].on \in Contexts
    BY TreeFacts DEF Instance
  <2> QED BY <1>4, <2>1, <2>2, <2>3 DEF On
\* What a call that waits may have called, whatever the step did to its context.
<1>6. i > 1 => Over(calls[i - 1], calls[i])'
  <2> SUFFICES ASSUME i > 1 PROVE Over(calls[i - 1], calls[i])'
    OBVIOUS
  <2>0. PICK g : g = calls[i - 1]
    OBVIOUS
  <2>1. Over(g, f) /\ g.dc \in Contexts /\ OrderOK(i - 1, N)
    BY <1>0, <1>1, <1>2, <1>3, <2>0 DEF CallOK
  <2>2. calls'[i - 1] = g /\ calls'[i] = f
    BY <1>3, <2>0
  <2>3. CASE g.fn = "cancel" /\ f.fn = "ending" /\ f.dc = g.dc /\ stack[g.dc] # <<>>
    <3>1. f.dc < c
      BY <1>0, <1>1, <1>2, <2>3 DEF OrderOK
    <3>2. f.dc # c
      BY <1>0, <1>1, <1>5, <3>1 DEF Contexts
    <3>3. stack'[g.dc] # <<>>
      BY <1>4, <1>5, <2>3, <3>2
    <3> QED BY <2>2, <2>3, <3>3 DEF Over
  <2>4. CASE g.fn = "ending" /\ f.fn = "cancel" /\ ~f.linked /\ stack[g.dc] # <<>> /\ f.dc = Active(g.dc)
    <3>1. g.dc < c
      BY <1>0, <1>1, <2>0, <2>1, <2>4 DEF OrderOK
    <3>2. g.dc # c
      BY <1>0, <1>1, <2>1, <3>1 DEF Contexts
    <3>3. stack'[g.dc] = stack[g.dc]
      BY <1>4, <2>1, <3>2
    <3> QED BY <2>2, <2>4, <3>3 DEF Over, Active
  <2>5. CASE g.fn = "component" /\ f.fn \in Chain /\ f.dc # 0 /\ On(f.dc) = g.dc
    <3> QED BY <1>5, <2>2, <2>5 DEF Over
  <2>6. CASE \/ g.fn = "run" /\ f.dc = 0 /\ (f.fn \in Chain \/ (f.fn = "cancel" /\ f.linked))
             \/ g.fn = "cancelled" /\ f.fn \in Chain \ {"continue"} /\ f.dc = g.dc
             \/ g.fn \in {"component", "cancelled"} /\ f.fn = "cancel" /\ f.linked
    <3> QED BY <2>2, <2>6 DEF Over
  <2> QED BY <2>1, <2>3, <2>4, <2>5, <2>6 DEF Over
\* Below the context that changes, nothing that waits is touched.
<1>7. ASSUME Linked(f), f.dc # 0, stack'[f.dc] # <<>> \/ f.fn \in {"begin", "cancel"}
      PROVE  Intact(f.dc)'
  <2>1. f.fn \in {"component", "cancelled", "cancel"}
    BY <1>0, <1>1, <1>2, <1>7 DEF CallOK, Linked, Chain, Waits
  <2>2. CASE f.fn = "cancel"
    <3>1. f.dc <= c
      BY <1>0, <1>2, <1>1, <2>2 DEF OrderOK
    <3>2. Intact(f.dc)
      BY <1>0, <1>2, <1>7, <2>2 DEF CallOK, LinkOK
    <3>3. On(f.dc) # c
      BY <1>0, <1>1, <1>5, <1>7, <3>1 DEF Contexts
    <3> QED BY <1>4, <1>5, <1>7, <3>2, <3>3 DEF Intact, Active
  <2>3. CASE f.fn # "cancel"
    <3>1. f.fn \in Waits /\ f.fn # "begin" /\ stack'[f.dc] # <<>>
      BY <1>7, <2>1, <2>3 DEF Waits
    <3>2. Top.fn \in Chain \/ Top.fn \in {"cancel", "ending"}
      <4>1. N # 1
        BY <1>0, <1>1
      <4>2. Top.fn # "run"
        BY <1>0, <1>1, <1>2, <4>1 DEF CallOK
      <4> QED BY <1>0, <1>1, <4>2 DEF Frame, Chain
    <3>3. f.dc <= c
      <4>1. CASE Top.fn \in Chain
        BY <1>0, <1>1, <1>2, <4>1 DEF OrderOK
      <4>2. CASE Top.fn \in {"cancel", "ending"}
        <5>1. f.dc > c => stack[f.dc] = <<>>
          BY <1>0, <1>1, <1>2, <3>1, <4>2 DEF OrderOK
        <5>2. f.dc > c => stack'[f.dc] = stack[f.dc]
          BY <1>0, <1>1, <1>4, <1>5 DEF Contexts
        <5> QED BY <1>0, <1>1, <1>5, <3>1, <5>1, <5>2 DEF Contexts
      <4> QED BY <3>2, <4>1, <4>2
    <3>4. Intact(f.dc)
      <4>1. CASE stack[f.dc] # <<>>
        BY <1>0, <1>2, <1>7, <4>1 DEF CallOK, LinkOK
      <4>2. CASE stack[f.dc] = <<>>
        <5>1. f.dc = c /\ Top.fn = "begin"
          BY <1>4, <1>5, <3>1, <4>2
        <5>2. Intact(c)
          BY <1>0, <1>1, <1>2, <5>1 DEF CallOK, LinkOK, Linked, Chain
        <5> QED BY <5>1, <5>2
      <4> QED BY <4>1, <4>2
    <3>5. On(f.dc) # c
      BY <1>0, <1>1, <1>5, <1>7, <3>3 DEF Contexts
    <3> QED BY <1>4, <1>5, <1>7, <3>4, <3>5 DEF Intact, Active
  <2> QED BY <2>2, <2>3
<1>8. LinkOK(i)'
  <2> SUFFICES ASSUME Linked(f)
               PROVE  /\ \A j \in 1..i - 1 : calls[j].fn \in Waits
                      /\ stack'[f.dc] # <<>> \/ f.fn \in {"begin", "cancel"} => Intact(f.dc)'
                      /\ f.dc # 0 => \E j \in 1..i - 1 : calls[j].fn = "component" /\ calls[j].dc = On(f.dc)'
                      /\ \A j \in 1..i - 1 : calls[j].fn \in Chain /\ calls[j].dc < f.dc => calls[j].dc <= On(f.dc)'
    BY <1>3 DEF LinkOK, Linked
  <2>1. LinkOK(i)
    BY <1>0, <1>2 DEF CallOK
  <2>2. f.dc = 0 => Intact(f.dc)'
    BY DEF Intact
  <2>3. f.dc = 0 => \A j \in 1..i - 1 : ~(calls[j].dc < f.dc)
    <3>1. \A j \in 1..i - 1 : calls[j].dc \in Contexts
      BY <1>0, <1>1, <1>3
    <3> QED BY ONLY <3>1 DEF Contexts
  <2>4. stack'[f.dc] # <<>> \/ f.fn \in {"begin", "cancel"} => Intact(f.dc)'
    BY <1>7, <2>2
  <2>5. \A j \in 1..i - 1 : calls[j].fn \in Waits
    BY <1>0, <2>1 DEF LinkOK
  <2>6. f.dc # 0 => \E j \in 1..i - 1 : calls[j].fn = "component" /\ calls[j].dc = On(f.dc)'
    BY <1>0, <1>5, <2>1 DEF LinkOK
  <2>7. \A j \in 1..i - 1 : calls[j].fn \in Chain /\ calls[j].dc < f.dc => calls[j].dc <= On(f.dc)'
    BY <1>0, <1>5, <2>1, <2>3 DEF LinkOK
  <2> QED BY <2>4, <2>5, <2>6, <2>7
\* The contexts that were empty stay empty.
<1>9. ASSUME NEW j \in 1..i - 1 PROVE OrderOK(j, i)'
  <2>0. PICK g : g = calls[j]
    OBVIOUS
  <2>1. OrderOK(j, i) /\ OrderOK(j, N) /\ g.dc \in Contexts /\ calls'[j] = g /\ calls'[i] = f
    BY <1>0, <1>1, <1>2, <1>3, <2>0
  <2>2. ASSUME f.fn \in {"cancel", "ending"}, g.fn \in Waits, g.dc > f.dc PROVE stack'[g.dc] = <<>>
    <3>1. stack[g.dc] = <<>>
      BY <1>0, <2>0, <2>1, <2>2 DEF OrderOK
    <3>2. Top.fn # "begin"
      BY <1>0, <1>1, <1>2, <2>2 DEF OrderOK, Chain
    <3> QED BY <1>4, <2>1, <3>1, <3>2
  <2> QED BY <1>0, <2>0, <2>1, <2>2 DEF OrderOK
<1>10. f.dc \in 0..Len(inst') /\ (f.dc # 0 => inst'[f.dc].id \in Components)
  BY <1>0, <1>2, <1>4, <1>5 DEF CallOK, IdOf
<1>11. i < Len(calls') => f.fn \in Waits \union {"cancel", "ending"}
  BY <1>0, <1>1, <1>2 DEF CallOK
<1>12. f.fn = "cancelled" => Passed(f.dc)'
  <2>1. f.fn = "cancelled" => Passed(f.dc)
    BY <1>0, <1>2 DEF CallOK
  <2>2. spared' \in {spared, TRUE}
    BY DEF Local
  <2>3. spared => spared'
    BY ONLY <2>2
  <2>4. CASE f.dc = 0
    BY <2>1, <2>3, <2>4 DEF Passed
  <2>5. CASE f.dc # 0
    BY <1>4, <1>5, <2>1, <2>5 DEF Passed
  <2> QED BY <2>4, <2>5
<1>13. (f.fn = "run" <=> i = 1) /\ (i = 1 => f.dc = 0)
  BY <1>0, <1>2 DEF CallOK
<1> QED BY <1>0, <1>3, <1>6, <1>8, <1>9, <1>10, <1>11, <1>12, <1>13 DEF CallOK, IdOf

\* What the invariant says of the call that runs, and of a step of it.
LEMMA CallFacts ==
  ASSUME Tree(stack, inst), CallsOK, calls # <<>>, Kept, Local,
         NEW N, N = Len(calls), NEW c, c = Top.dc
  PROVE  /\ N \in Nat /\ N > 0 /\ N \in Frames /\ Top = calls[N] /\ Top \in Frame
         /\ c \in Contexts /\ c \in 0..Len(inst) /\ calls[N].dc = c
         /\ CallOK(N) /\ LinkOK(N)
         /\ \A j \in 1..N - 1 : /\ calls'[j] = calls[j] /\ j \in Frames
                                /\ calls[j].dc \in Contexts /\ OrderOK(j, N)
         /\ N > 1 => N - 1 \in 1..N - 1 /\ Over(calls[N - 1], Top)
         /\ Len(inst) \in Nat /\ Len(inst') \in Nat /\ Len(inst) <= Len(inst')
         /\ c # 0 => /\ c \in 1..Len(inst) /\ inst[c].id \in Components
                     /\ inst'[c].id = inst[c].id /\ inst'[c].on = inst[c].on
                     /\ inst[c].on \in Contexts /\ inst[c].on < c /\ inst[c].on # c
                     /\ stack'[inst[c].on] = stack[inst[c].on]
         /\ \A d \in Contexts : d # c => stack'[d] = stack[d]
         /\ stack'[c] # <<>> => stack[c] # <<>> \/ Top.fn = "begin"
<1>1. /\ N \in Nat /\ N > 0 /\ N \in Frames /\ Top = calls[N] /\ Top \in Frame
      /\ c \in Contexts /\ calls[N].dc = c
      /\ \A j \in Frames : calls[j].dc \in Contexts
  BY TopFacts DEF CallsOK
<1>2. CallOK(N) /\ LinkOK(N) /\ c \in 0..Len(inst) /\ (c # 0 => inst[c].id \in Components)
  <2>1. CallOK(N)
    BY <1>1 DEF CallsOK
  <2> QED BY <1>1, <2>1 DEF CallOK, IdOf
<1>3. ASSUME NEW j \in 1..N - 1
      PROVE  calls'[j] = calls[j] /\ j \in Frames /\ calls[j].dc \in Contexts /\ OrderOK(j, N)
  <2>1. j \in Frames /\ calls'[j] = calls[j]
    BY <1>1 DEF Kept, Frames
  <2>2. OrderOK(j, N)
    BY <1>2 DEF CallOK
  <2> QED BY <1>1, <2>1, <2>2
<1>4. N > 1 => N - 1 \in 1..N - 1 /\ Over(calls[N - 1], Top)
  BY <1>1, <1>2 DEF CallOK
<1>5. /\ Len(inst) \in Nat /\ Len(inst') \in Nat /\ Len(inst) <= Len(inst')
      /\ \A d \in Contexts : d # c => stack'[d] = stack[d]
      /\ stack'[c] # <<>> => stack[c] # <<>> \/ Top.fn = "begin"
      /\ \A n \in 1..Len(inst) : inst'[n].id = inst[n].id /\ inst'[n].on = inst[n].on
  BY TreeFacts DEF Local
<1>6. c # 0 => /\ c \in 1..Len(inst) /\ inst'[c].id = inst[c].id /\ inst'[c].on = inst[c].on
               /\ inst[c].on \in Contexts /\ inst[c].on < c /\ inst[c].on # c
  <2>1. c # 0 => c \in 1..Len(inst)
    BY <1>2, <1>5
  <2>2. \A n \in 1..Len(inst) : inst[n].on \in 0..n - 1 /\ inst[n].on \in Contexts
    BY TreeFacts DEF Instance
  <2>3. c # 0 => inst[c].on \in 0..c - 1 /\ inst[c].on \in Contexts
    BY <2>1, <2>2
  <2> QED BY <1>1, <1>5, <2>1, <2>3 DEF Contexts
<1> QED BY <1>1, <1>2, <1>3, <1>4, <1>5, <1>6

\* A call is replaced by another one on the same context.
LEMMA ChainCall ==
  ASSUME Tree(stack, inst), CallsOK, calls # <<>>, Kept, Local, NEW N, N = Len(calls),
         Top.fn \in Chain, NEW f, Len(calls') >= N, calls'[N] = f,
         f.fn \in Chain \ {"continue"}, f.dc = Top.dc,
         f.fn = "begin" => stack[Top.dc] # <<>>,
         f.fn = "cancelled" => Passed(f.dc)',
         N < Len(calls') => f.fn \in Waits
  PROVE  CallOK(N)'
<1>0. PICK c : c = Top.dc
  OBVIOUS
<1>1. /\ N \in Nat /\ N > 0 /\ N \in Frames /\ Top = calls[N] /\ Top \in Frame
      /\ c \in Contexts /\ c \in 0..Len(inst) /\ calls[N].dc = c
      /\ CallOK(N) /\ LinkOK(N)
      /\ \A j \in 1..N - 1 : /\ calls'[j] = calls[j] /\ j \in Frames
                             /\ calls[j].dc \in Contexts /\ OrderOK(j, N)
      /\ N > 1 => N - 1 \in 1..N - 1 /\ Over(calls[N - 1], Top)
      /\ Len(inst) \in Nat /\ Len(inst') \in Nat /\ Len(inst) <= Len(inst')
      /\ c # 0 => /\ c \in 1..Len(inst) /\ inst[c].id \in Components
                  /\ inst'[c].id = inst[c].id /\ inst'[c].on = inst[c].on
                  /\ inst[c].on \in Contexts /\ inst[c].on < c /\ inst[c].on # c
                  /\ stack'[inst[c].on] = stack[inst[c].on]
      /\ stack'[c] # <<>> => stack[c] # <<>> \/ Top.fn = "begin"
  BY <1>0, CallFacts
<1>2. N > 1
  <2>1. Top.fn # "run"
    BY DEF Chain
  <2> QED BY <1>0, <1>1, <2>1 DEF CallOK
<1>3. Over(calls[N - 1], calls[N])'
  <2>0. PICK g : g = calls[N - 1]
    OBVIOUS
  <2>1. Over(g, Top) /\ calls'[N - 1] = g /\ calls'[N] = f /\ f.dc = c
    BY <1>0, <1>1, <1>2, <2>0
  <2>2. CASE g.fn = "run" /\ c = 0
    BY <1>0, <2>1, <2>2 DEF Over
  <2>3. CASE g.fn = "component" /\ c # 0 /\ On(c) = g.dc
    BY <1>0, <1>1, <2>1, <2>3 DEF Over, On
  <2>4. CASE g.fn = "cancelled" /\ c = g.dc
    BY <1>0, <2>1, <2>4 DEF Over
  <2> QED BY <1>0, <2>1, <2>2, <2>3, <2>4 DEF Over, Chain
<1>4. f.fn \in {"begin"} \/ stack'[c] # <<>> => Intact(c)'
  <2> SUFFICES ASSUME f.fn = "begin" \/ stack'[c] # <<>>, c # 0 PROVE Intact(c)'
    BY DEF Intact
  <2>1. Intact(c)
    BY <1>0, <1>1 DEF LinkOK, Linked
  <2> QED BY <1>1, <2>1 DEF Intact, On, Active
<1>5. LinkOK(N)'
  <2>1. /\ \A j \in 1..N - 1 : calls[j].fn \in Waits
        /\ c # 0 => \E j \in 1..N - 1 : calls[j].fn = "component" /\ calls[j].dc = On(c)
        /\ \A j \in 1..N - 1 : calls[j].fn \in Chain /\ calls[j].dc < c => calls[j].dc <= On(c)
    BY <1>1 DEF LinkOK, Linked
  <2>2. c = 0 => \A j \in 1..N - 1 : ~(calls[j].dc < c)
    BY <1>1 DEF Contexts
  <2>3. c # 0 => On(c) = inst'[c].on
    BY <1>1 DEF On
  <2>4. calls'[N] = f /\ f.dc = c /\ f.fn # "cancel"
    BY <1>0 DEF Chain
  <2>5. \A j \in 1..N - 1 : calls'[j] = calls[j]
    BY <1>1
  <2>6. c # 0 => \E j \in 1..N - 1 : calls'[j].fn = "component" /\ calls'[j].dc = inst'[c].on
    BY <2>1, <2>3, <2>5
  <2>7. \A j \in 1..N - 1 : calls'[j].fn \in Chain /\ calls'[j].dc < c => calls'[j].dc <= inst'[c].on
    BY <2>1, <2>2, <2>3, <2>5
  <2>8. \A j \in 1..N - 1 : calls'[j].fn \in Waits
    BY <2>1, <2>5
  <2>9. stack'[c] # <<>> \/ f.fn \in {"begin", "cancel"} => Intact(c)'
    BY <1>4, <2>4
  <2> QED BY <2>4, <2>6, <2>7, <2>8, <2>9 DEF LinkOK, On
<1>6. ASSUME NEW j \in 1..N - 1 PROVE OrderOK(j, N)'
  <2>0. PICK g : g = calls[j]
    OBVIOUS
  <2>1. OrderOK(j, N) /\ calls'[j] = g /\ calls'[N] = f /\ calls[N] = Top /\ f.dc = c /\ Top.dc = c
    BY <1>0, <1>1, <2>0
  <2>2. f.fn \notin {"cancel", "ending"} /\ Top.fn \notin {"cancel", "ending"}
    BY DEF Chain
  <2> QED BY <2>0, <2>1, <2>2 DEF OrderOK
<1>7. /\ f.dc \in 0..Len(inst') /\ (f.dc # 0 => inst'[f.dc].id \in Components)
      /\ f.fn # "run" /\ N # 1
  <2>1. f.dc = c /\ c \in 0..Len(inst') /\ (c # 0 => inst'[c].id \in Components)
    BY <1>0, <1>1
  <2>2. f.fn # "run"
    BY DEF Chain
  <2>3. N # 1
    BY <1>2
  <2> QED BY <2>1, <2>2, <2>3
<1>8. calls'[N] = f
  OBVIOUS
<1> QED BY <1>3, <1>5, <1>6, <1>7, <1>8 DEF CallOK, IdOf

\* A call on a component calls for the dialogs of the component.
LEMMA InnerCall ==
  ASSUME Tree(stack, inst), CallsOK, calls # <<>>, Kept, Local, NEW N, N = Len(calls),
         Top.fn \in Chain, NEW f, NEW g, Len(calls') = N + 1,
         calls'[N] = g, g.fn = "component", g.dc = Top.dc,
         calls'[N + 1] = f, f.fn \in {"begin", "continue"} \/ (f.fn = "cancel" /\ f.linked),
         stack'[Top.dc] # <<>>, f.dc = Last(stack'[Top.dc]), inst'[f.dc].id \in Components
  PROVE  CallOK(N + 1)'
<1>0. PICK c, n : c = Top.dc /\ n = f.dc
  OBVIOUS
<1>1. /\ N \in Nat /\ N > 0 /\ N \in Frames /\ Top = calls[N] /\ Top \in Frame
      /\ c \in Contexts /\ c \in 0..Len(inst) /\ calls[N].dc = c
      /\ LinkOK(N)
      /\ \A j \in 1..N - 1 : /\ calls'[j] = calls[j] /\ j \in Frames
                             /\ calls[j].dc \in Contexts /\ OrderOK(j, N)
  BY <1>0, CallFacts
<1>2. /\ n \in 1..Len(inst') /\ inst'[n].on = c /\ c < n /\ n # 0 /\ n = Last(stack'[c])
      /\ n \in Nat
  <2>1. Tree(stack', inst')
    BY DEF Local
  <2>2. n \in 1..Len(inst') /\ inst'[n].on = c /\ c < n
    BY <1>0, <1>1, <2>1, TreeFacts
  <2>3. Len(inst') \in Nat
    BY <2>1, TreeFacts
  <2> QED BY <1>0, <2>2, <2>3
<1>3. \A j \in 1..N : calls'[j].fn \in Waits /\ calls'[j].dc <= c /\ calls'[j].fn \notin {"cancel", "ending"}
  <2> SUFFICES ASSUME NEW j \in 1..N
               PROVE  calls'[j].fn \in Waits /\ calls'[j].dc <= c /\ calls'[j].fn \notin {"cancel", "ending"}
    OBVIOUS
  <2>1. CASE j = N
    BY <1>0, <1>1, <2>1 DEF Waits, Contexts
  <2>2. CASE j # N
    <3>1. j \in 1..N - 1
      BY <1>1, <2>2
    <3>2. calls[j].fn \in Waits
      BY <1>1, <3>1 DEF LinkOK, Linked
    <3>3. calls[j].dc <= c
      BY <1>1, <3>1 DEF OrderOK
    <3> QED BY <1>1, <3>1, <3>2, <3>3 DEF Waits
  <2> QED BY <2>1, <2>2
<1>4. Over(calls[N + 1 - 1], calls[N + 1])'
  <2>1. N + 1 - 1 = N /\ calls'[N] = g /\ calls'[N + 1] = f /\ g.dc = c /\ f.dc = n
    BY <1>0, <1>1
  <2>2. Over(g, f)'
    BY <1>2, <2>1 DEF Over, On, Chain
  <2> QED BY <2>1, <2>2
<1>5. LinkOK(N + 1)'
  <2>1. Intact(n)'
    BY <1>0, <1>2 DEF Intact, On, Active
  <2>2. N \in 1..N + 1 - 1 /\ (\A j \in 1..N + 1 - 1 : j \in 1..N)
    BY <1>1
  <2>3. calls'[N].fn = "component" /\ calls'[N].dc = c /\ On(n)' = c /\ calls'[N + 1] = f /\ f.dc = n
    BY <1>0, <1>2 DEF On
  <2>4. /\ \A j \in 1..N + 1 - 1 : calls'[j].fn \in Waits /\ calls'[j].dc <= On(n)'
        /\ \E j \in 1..N + 1 - 1 : calls'[j].fn = "component" /\ calls'[j].dc = On(n)'
    BY <1>3, <2>2, <2>3
  <2>5. \A j \in 1..N + 1 - 1 : calls'[j].fn \in Chain /\ calls'[j].dc < n => calls'[j].dc <= On(n)'
    BY <2>4
  <2> QED BY <2>1, <2>3, <2>4, <2>5 DEF LinkOK
<1>6. ASSUME NEW j \in 1..N + 1 - 1 PROVE OrderOK(j, N + 1)'
  <2>1. j \in 1..N
    BY <1>1
  <2>2. calls'[j].fn \in Waits /\ calls'[j].dc <= c /\ calls'[j].fn \notin {"cancel", "ending"}
    BY <1>3, <2>1
  <2>3. calls'[j].dc \in Contexts
    <3>1. calls' \in Seq(Frame) /\ j \in 1..Len(calls')
      BY <1>0, <1>1, <2>1 DEF Kept
    <3>2. calls'[j] \in Frame
      BY <3>1, ElementOfSeq
    <3> QED BY <3>2 DEF Frame
  <2>4. calls'[j].dc < n /\ calls'[j].dc <= n /\ ~(calls'[j].dc > n)
    BY <1>1, <1>2, <2>2, <2>3 DEF Contexts
  <2> QED BY <1>0, <2>2, <2>4 DEF OrderOK
<1>7. /\ f.dc \in 0..Len(inst') /\ inst'[f.dc].id \in Components
      /\ f.fn \notin {"run", "cancelled"} /\ N + 1 # 1 /\ ~(N + 1 < Len(calls'))
  BY <1>0, <1>1, <1>2
<1>8. calls'[N + 1] = f
  OBVIOUS
<1> QED BY <1>4, <1>5, <1>6, <1>7, <1>8 DEF CallOK, IdOf

\* The code of a step cancels, or a cancellation goes on in the same context.
LEMMA CancelCallOK ==
  ASSUME Tree(stack, inst), CallsOK, calls # <<>>, Kept, Local, NEW N, N = Len(calls),
         NEW f, Len(calls') >= N, calls'[N] = f, f.fn = "cancel", f.dc = Top.dc,
         \/ Top.fn = "step" /\ f.linked /\ stack[Top.dc] # <<>>
         \/ Top.fn = "cancel" /\ f.linked = Top.linked
  PROVE  CallOK(N)'
<1>0. PICK c : c = Top.dc
  OBVIOUS
<1>1. /\ N \in Nat /\ N > 0 /\ N \in Frames /\ Top = calls[N] /\ Top \in Frame
      /\ c \in Contexts /\ c \in 0..Len(inst) /\ calls[N].dc = c
      /\ CallOK(N) /\ LinkOK(N)
      /\ \A j \in 1..N - 1 : /\ calls'[j] = calls[j] /\ j \in Frames
                             /\ calls[j].dc \in Contexts /\ OrderOK(j, N)
      /\ N > 1 => N - 1 \in 1..N - 1 /\ Over(calls[N - 1], Top)
      /\ Len(inst) \in Nat /\ Len(inst') \in Nat /\ Len(inst) <= Len(inst')
      /\ c # 0 => /\ c \in 1..Len(inst) /\ inst[c].id \in Components
                  /\ inst'[c].id = inst[c].id /\ inst'[c].on = inst[c].on
                  /\ inst[c].on \in Contexts /\ inst[c].on < c /\ inst[c].on # c
                  /\ stack'[inst[c].on] = stack[inst[c].on]
      /\ \A d \in Contexts : d # c => stack'[d] = stack[d]
      /\ stack'[c] # <<>> => stack[c] # <<>> \/ Top.fn = "begin"
  BY <1>0, CallFacts
<1>2. N > 1 /\ f.dc = c /\ Top.dc = c
  <2>1. Top.fn # "run"
    OBVIOUS
  <2> QED BY <1>0, <1>1, <2>1 DEF CallOK
<1>3. Over(calls[N - 1], calls[N])'
  <2>0. PICK g : g = calls[N - 1]
    OBVIOUS
  <2>1. Over(g, Top) /\ calls'[N - 1] = g /\ calls'[N] = f /\ g.dc \in Contexts
    BY <1>1, <1>2, <2>0
  <2>2. CASE g.fn \in {"component", "cancelled"}
    <3>1. f.linked
      BY <1>2, <2>1, <2>2 DEF Over, Chain
    <3> QED BY <2>1, <2>2, <3>1 DEF Over
  <2>3. CASE g.fn = "run"
    <3>1. f.linked /\ f.dc = 0
      BY <1>2, <2>1, <2>3 DEF Over, Chain
    <3> QED BY <2>1, <2>3, <3>1 DEF Over
  <2>5. CASE g.fn = "ending"
    <3>1. Top.fn = "cancel" /\ ~Top.linked /\ stack[g.dc] # <<>> /\ c = Active(g.dc)
      BY <1>2, <2>1, <2>5 DEF Over
    <3>2. g.dc < c
      BY <1>1, <1>2, <2>0, <2>5, <3>1 DEF OrderOK
    <3>3. g.dc # c
      BY <1>1, <2>1, <3>2 DEF Contexts
    <3>4. stack'[g.dc] = stack[g.dc]
      BY <1>1, <2>1, <3>3
    <3> QED BY <1>2, <2>1, <2>5, <3>1, <3>4 DEF Over, Active
  <2> QED BY <2>1, <2>2, <2>3, <2>5 DEF Over
<1>4. LinkOK(N)'
  <2> SUFFICES ASSUME f.linked
               PROVE  /\ \A j \in 1..N - 1 : calls'[j].fn \in Waits
                      /\ Intact(c)'
                      /\ c # 0 => \E j \in 1..N - 1 : calls'[j].fn = "component" /\ calls'[j].dc = On(c)'
                      /\ \A j \in 1..N - 1 : calls'[j].fn \in Chain /\ calls'[j].dc < c => calls'[j].dc <= On(c)'
    BY <1>2 DEF LinkOK, Linked, Chain
  <2>1. Linked(Top) /\ (stack[c] # <<>> \/ Top.fn \in {"begin", "cancel"})
    BY <1>0 DEF Linked, Chain
  <2>2. /\ \A j \in 1..N - 1 : calls[j].fn \in Waits
        /\ Intact(c)
        /\ c # 0 => \E j \in 1..N - 1 : calls[j].fn = "component" /\ calls[j].dc = On(c)
        /\ \A j \in 1..N - 1 : calls[j].fn \in Chain /\ calls[j].dc < c => calls[j].dc <= On(c)
    BY <1>1, <2>1 DEF LinkOK
  <2>3. Intact(c)'
    BY <1>1, <2>2 DEF Intact, On, Active
  <2>4. c = 0 => \A j \in 1..N - 1 : ~(calls[j].dc < c)
    BY <1>1 DEF Contexts
  <2>5. (c # 0 => On(c)' = On(c)) /\ \A j \in 1..N - 1 : calls'[j] = calls[j]
    BY <1>1 DEF On
  <2> QED BY <2>2, <2>3, <2>4, <2>5
<1>5. ASSUME NEW j \in 1..N - 1 PROVE OrderOK(j, N)'
  <2>0. PICK g : g = calls[j]
    OBVIOUS
  <2>1. OrderOK(j, N) /\ calls'[j] = g /\ calls'[N] = f /\ calls[N] = Top /\ g.dc \in Contexts
    BY <1>1, <2>0
  <2>2. Top.fn = "step" => g.fn \notin {"cancel", "ending"} /\ ~(g.dc > c)
    BY <1>1, <1>2, <2>0, <2>1 DEF OrderOK, Chain, Contexts
  <2>3. Top.fn = "cancel" /\ g.fn \in Waits /\ g.dc > c => stack'[g.dc] = <<>>
    <3>1. g.dc > c => g.dc # c
      BY <1>1, <2>1 DEF Contexts
    <3> QED BY <1>1, <1>2, <2>0, <2>1, <3>1 DEF OrderOK
  <2>4. Top.fn = "cancel" => (g.fn \in {"cancel", "ending"} => g.dc <= c) /\ (g.fn = "ending" => g.dc < c)
    BY <1>1, <1>2, <2>0, <2>1 DEF OrderOK
  <2> QED BY <1>2, <2>0, <2>1, <2>2, <2>3, <2>4 DEF OrderOK, Chain
<1>6. c \in 0..Len(inst') /\ (c # 0 => inst'[c].id \in Components)
  BY <1>1
<1>7. N # 1 /\ calls'[N] = f
  BY <1>2
<1> QED BY <1>2, <1>3, <1>4, <1>5, <1>6, <1>7 DEF CallOK, IdOf

\* A cancellation goes on with the parent of a context that is empty.
LEMMA UpCallOK ==
  ASSUME Tree(stack, inst), CallsOK, calls # <<>>, Kept, Local, NEW N, N = Len(calls),
         Top.fn = "cancel", Top.linked, Top.dc # 0, stack[Top.dc] = <<>>,
         UNCHANGED <<stack, inst>>,
         NEW f, Len(calls') = N, calls'[N] = f, f.fn = "cancel", f.linked,
         f.dc = inst[Top.dc].on
  PROVE  CallOK(N)'
<1>0. PICK c, d : c = Top.dc /\ d = inst[c].on
  OBVIOUS
<1>1. /\ N \in Nat /\ N > 0 /\ N \in Frames /\ Top = calls[N] /\ Top \in Frame
      /\ c \in Contexts /\ c \in 0..Len(inst) /\ calls[N].dc = c
      /\ CallOK(N) /\ LinkOK(N)
      /\ \A j \in 1..N - 1 : /\ calls'[j] = calls[j] /\ j \in Frames
                             /\ calls[j].dc \in Contexts /\ OrderOK(j, N)
      /\ N > 1 => N - 1 \in 1..N - 1 /\ Over(calls[N - 1], Top)
      /\ c \in 1..Len(inst) /\ d \in Contexts /\ d < c /\ Len(inst) \in Nat
  BY <1>0, CallFacts
<1>2. N > 1 /\ f.dc = d /\ Top.dc = c
  <2>1. Top.fn # "run"
    OBVIOUS
  <2> QED BY <1>0, <1>1, <2>1 DEF CallOK
<1>3. Over(calls[N - 1], calls[N])'
  <2>0. PICK g : g = calls[N - 1]
    OBVIOUS
  <2>1. Over(g, Top) /\ calls'[N - 1] = g /\ calls'[N] = f
    BY <1>1, <1>2, <2>0
  <2>2. g.fn \in {"component", "cancelled"}
    BY <1>2, <2>1 DEF Over, Chain
  <2> QED BY <2>1, <2>2 DEF Over
<1>4. /\ \A j \in 1..N - 1 : calls[j].fn \in Waits
      /\ Intact(c)
      /\ \E j \in 1..N - 1 : calls[j].fn = "component" /\ calls[j].dc = d
      /\ \A j \in 1..N - 1 : calls[j].fn \in Chain /\ calls[j].dc < c => calls[j].dc <= d
  BY <1>0, <1>1 DEF LinkOK, Linked, On
<1>5. PICK k \in 1..N - 1 : calls[k].fn = "component" /\ calls[k].dc = d
  BY <1>4
<1>6. CallOK(k) /\ LinkOK(k) /\ k \in Frames /\ k \in Nat
  <2>1. k \in Frames /\ k \in Nat
    BY <1>1
  <2>2. CallOK(k)
    BY <2>1 DEF CallsOK
  <2> QED BY <2>1, <2>2 DEF CallOK
<1>7. /\ Intact(d)
      /\ d # 0 => \E j \in 1..k - 1 : calls[j].fn = "component" /\ calls[j].dc = On(d)
      /\ \A j \in 1..k - 1 : calls[j].fn \in Chain /\ calls[j].dc < d => calls[j].dc <= On(d)
  <2>1. stack[d] # <<>>
    BY <1>0, <1>1, <1>4 DEF Intact, On
  <2> QED BY <1>5, <1>6, <2>1 DEF LinkOK, Linked, Chain
<1>8. \A j \in 1..N - 1 : calls[j].fn \in Chain /\ calls[j].dc < d => calls[j].dc <= On(d)
  <2> SUFFICES ASSUME NEW j \in 1..N - 1, calls[j].fn \in Chain, calls[j].dc < d
               PROVE  calls[j].dc <= On(d)
    OBVIOUS
  <2>1. j \in Nat /\ (j \in 1..k - 1 \/ j = k \/ k \in 1..j - 1)
    BY <1>1, <1>6
  <2>2. j # k
    BY <1>1, <1>5 DEF Contexts
  <2>3. k \notin 1..j - 1
    <3> SUFFICES ASSUME k \in 1..j - 1 PROVE FALSE
      OBVIOUS
    <3>1. OrderOK(k, j)
      BY <1>1 DEF CallsOK, CallOK
    <3>2. calls[k].dc < calls[j].dc
      BY <1>5, <3>1 DEF OrderOK
    <3> QED BY <1>1, <1>5, <3>2 DEF Contexts
  <2> QED BY <1>7, <2>1, <2>2, <2>3
<1>9. LinkOK(N)'
  <2>1. \A j \in 1..k - 1 : j \in 1..N - 1
    BY <1>1, <1>6
  <2>2. /\ \A j \in 1..N - 1 : calls'[j].fn \in Waits
        /\ Intact(d)' /\ On(d)' = On(d)
        /\ d # 0 => \E j \in 1..N - 1 : calls'[j].fn = "component" /\ calls'[j].dc = On(d)
        /\ \A j \in 1..N - 1 : calls'[j].fn \in Chain /\ calls'[j].dc < d => calls'[j].dc <= On(d)
    <3>1. \A j \in 1..N - 1 : calls'[j] = calls[j]
      BY <1>1
    <3>2. Intact(d)' /\ On(d)' = On(d)
      BY <1>7 DEF Intact, On, Active
    <3> QED BY <1>4, <1>7, <1>8, <2>1, <3>1, <3>2
  <2> QED BY <1>2, <2>2 DEF LinkOK
<1>10. ASSUME NEW j \in 1..N - 1 PROVE OrderOK(j, N)'
  <2>0. PICK g : g = calls[j]
    OBVIOUS
  <2>1. OrderOK(j, N) /\ calls'[j] = g /\ calls'[N] = f /\ calls[N] = Top /\ g.dc \in Contexts
    BY <1>1, <2>0
  <2>2. g.fn \in Waits /\ g.fn \notin {"cancel", "ending"}
    BY <1>4, <2>0 DEF Waits
  <2>3. g.dc > d => stack'[g.dc] = <<>>
    <3>1. CASE g.dc > c
      BY <1>2, <2>0, <2>1, <2>2, <3>1 DEF OrderOK
    <3>2. CASE g.dc = c
      BY <1>0, <3>2
    <3>3. CASE g.dc < c /\ g.fn \in Chain
      <4>1. g.dc <= d
        BY <1>4, <2>0, <3>3
      <4> QED BY <1>1, <2>1, <4>1 DEF Contexts
    <3>4. CASE g.fn = "run"
      <4>1. j = 1 /\ g.dc = 0
        BY <1>1, <2>0, <3>4 DEF CallsOK, CallOK
      <4> QED BY <1>1, <4>1 DEF Contexts
    <3>5. g.fn \in Chain \/ g.fn = "run"
      BY <2>2 DEF Waits, Chain
    <3> QED BY <1>1, <2>1, <3>1, <3>2, <3>3, <3>4, <3>5 DEF Contexts
  <2> QED BY <1>2, <2>0, <2>1, <2>2, <2>3 DEF OrderOK, Chain
<1>11. d \in 0..Len(inst') /\ (d # 0 => inst'[d].id \in Components)
  <2>1. d < c /\ (d # 0 => inst[d].id \in Components)
    BY <1>0, <1>1 DEF Tree, Forest
  <2>2. d \in 0..c - 1
    BY <1>1 DEF Contexts
  <2> QED BY <1>1, <2>1, <2>2
<1>12. N # 1 /\ calls'[N] = f
  BY <1>2
<1> QED BY <1>2, <1>3, <1>9, <1>10, <1>11, <1>12 DEF CallOK, IdOf

\* A cancellation ends a component, which cancels its own dialogs first.
LEMMA EndingCallOK ==
  ASSUME Tree(stack, inst), CallsOK, calls # <<>>, Kept, Local, NEW N, N = Len(calls),
         Top.fn = "cancel", stack[Top.dc] # <<>>, UNCHANGED <<stack, inst>>,
         NEW f, NEW g, NEW h, Len(calls') = N + 2,
         calls'[N] = f, f.fn = "cancel", f.dc = Top.dc,
         calls'[N + 1] = g, g.fn = "ending", g.dc = Top.dc,
         calls'[N + 2] = h, h.fn = "cancel", ~h.linked, h.dc = Active(Top.dc),
         inst[h.dc].id \in Components
  PROVE  CallOK(N + 1)' /\ CallOK(N + 2)'
<1>0. PICK c, n : c = Top.dc /\ n = h.dc
  OBVIOUS
<1>1. /\ N \in Nat /\ N > 0 /\ N \in Frames /\ Top = calls[N] /\ Top \in Frame
      /\ c \in Contexts /\ c \in 0..Len(inst) /\ calls[N].dc = c
      /\ \A j \in 1..N - 1 : /\ calls'[j] = calls[j] /\ j \in Frames
                             /\ calls[j].dc \in Contexts /\ OrderOK(j, N)
      /\ Len(inst) \in Nat
      /\ c # 0 => inst[c].id \in Components
  BY <1>0, CallFacts
<1>2. n \in 1..Len(inst) /\ inst[n].on = c /\ c < n /\ n = Last(stack[c]) /\ n \in Nat
  BY <1>0, <1>1, TreeFacts DEF Active
\* The calls below.
<1>3. ASSUME NEW j \in 1..N - 1, NEW d, d = calls[j].dc
      PROVE  /\ calls'[j] = calls[j] /\ d \in Contexts
             /\ calls[j].fn \in {"cancel", "ending"} => d <= c
             /\ calls[j].fn = "ending" => d < c
             /\ calls[j].fn \in Waits /\ d > c => stack[d] = <<>>
  BY <1>0, <1>1, <1>3 DEF OrderOK
<1>4. ASSUME NEW j \in 1..N PROVE OrderOK(j, N + 1)'
  <2>1. calls'[N + 1] = g /\ g.fn = "ending" /\ g.dc = c
    BY <1>0
  <2>2. CASE j = N
    <3>1. calls'[j] = f /\ f.fn = "cancel" /\ f.dc = c
      BY <1>0, <2>2
    <3> QED BY <1>1, <2>1, <3>1 DEF OrderOK, Chain, Waits, Contexts
  <2>3. CASE j # N
    <3>1. j \in 1..N - 1
      BY <1>1, <2>3
    <3>2. PICK e, d : e = calls[j] /\ d = e.dc
      OBVIOUS
    <3>3. /\ calls'[j] = e /\ d \in Contexts
          /\ e.fn \in {"cancel", "ending"} => d <= c
          /\ e.fn = "ending" => d < c
          /\ e.fn \in Waits /\ d > c => stack[d] = <<>>
      BY <1>3, <3>1, <3>2
    <3> QED BY <2>1, <3>2, <3>3 DEF OrderOK, Chain
  <2> QED BY <2>2, <2>3
<1>5. ASSUME NEW j \in 1..N + 1 PROVE OrderOK(j, N + 2)'
  <2>1. calls'[N + 2] = h /\ h.fn = "cancel" /\ h.dc = n
    BY <1>0
  <2>2. CASE j = N \/ j = N + 1
    <3>1. calls'[j].fn \in {"cancel", "ending"} /\ calls'[j].dc = c
      BY <1>0, <2>2
    <3>2. c < n /\ c <= n /\ ~(c > n)
      BY <1>1, <1>2 DEF Contexts
    <3> QED BY <2>1, <3>1, <3>2 DEF OrderOK, Chain, Waits
  <2>3. CASE j # N /\ j # N + 1
    <3>1. j \in 1..N - 1
      BY <1>1, <2>3
    <3>2. PICK e, d : e = calls[j] /\ d = e.dc
      OBVIOUS
    <3>3. /\ calls'[j] = e /\ d \in Contexts
          /\ e.fn \in {"cancel", "ending"} => d <= c
          /\ e.fn = "ending" => d < c
          /\ e.fn \in Waits /\ d > c => stack[d] = <<>>
      BY <1>3, <3>1, <3>2
    <3>4. (d <= c => d < n /\ d <= n) /\ (d > n => d > c)
      BY <1>1, <1>2, <3>3 DEF Contexts
    <3> QED BY <2>1, <3>2, <3>3, <3>4 DEF OrderOK, Chain
  <2> QED BY <2>2, <2>3
<1>6. CallOK(N + 1)'
  <2>1. Over(calls[N + 1 - 1], calls[N + 1])'
    <3>1. N + 1 - 1 = N /\ stack'[c] # <<>> /\ f.dc = c /\ g.dc = c
      BY <1>0, <1>1
    <3> QED BY <3>1 DEF Over
  <2>2. LinkOK(N + 1)'
    BY DEF LinkOK, Linked, Chain
  <2>3. \A j \in 1..N + 1 - 1 : OrderOK(j, N + 1)'
    BY <1>1, <1>4
  <2>4. N + 1 # 1 /\ c \in 0..Len(inst') /\ (c # 0 => inst'[c].id \in Components)
    BY <1>1
  <2>5. calls'[N + 1] = g /\ g.dc = c
    BY <1>0
  <2> QED BY <2>1, <2>2, <2>3, <2>4, <2>5 DEF CallOK, IdOf
<1>7. CallOK(N + 2)'
  <2>1. Over(calls[N + 2 - 1], calls[N + 2])'
    <3>1. N + 2 - 1 = N + 1 /\ stack'[c] # <<>> /\ h.dc = Active(c)' /\ g.dc = c
      BY <1>0, <1>1 DEF Active
    <3> QED BY <3>1 DEF Over, Active
  <2>2. LinkOK(N + 2)'
    BY DEF LinkOK, Linked, Chain
  <2>3. \A j \in 1..N + 2 - 1 : OrderOK(j, N + 2)'
    BY <1>1, <1>5
  <2>4. N + 2 # 1 /\ n \in 0..Len(inst') /\ inst'[n].id \in Components
    BY <1>0, <1>1, <1>2
  <2>5. calls'[N + 2] = h /\ h.dc = n /\ ~(N + 2 < Len(calls'))
    BY <1>0, <1>1
  <2> QED BY <2>1, <2>2, <2>3, <2>4, <2>5 DEF CallOK, IdOf
<1> QED BY <1>6, <1>7

\* The dialog below a component that was cancelled as it began is resumed by a call of its own.
LEMMA CutCallOK ==
  ASSUME Tree(stack, inst), CallsOK, calls # <<>>, Kept, Local, NEW N, N = Len(calls),
         Top.fn = "component",
         NEW f, NEW g, Len(calls') = N + 1,
         calls'[N] = f, f.fn = "cancelled", f.dc = Top.dc,
         calls'[N + 1] = g, g.fn = "end", g.dc = Top.dc
  PROVE  CallOK(N + 1)'
<1>0. PICK c : c = Top.dc
  OBVIOUS
<1>1. /\ N \in Nat /\ N > 0 /\ N \in Frames /\ Top = calls[N] /\ Top \in Frame
      /\ c \in Contexts /\ c \in 0..Len(inst) /\ calls[N].dc = c /\ LinkOK(N)
      /\ \A j \in 1..N - 1 : /\ calls'[j] = calls[j] /\ j \in Frames
                             /\ calls[j].dc \in Contexts /\ OrderOK(j, N)
      /\ Len(inst) \in Nat /\ Len(inst') \in Nat /\ Len(inst) <= Len(inst')
      /\ c # 0 => /\ c \in 1..Len(inst) /\ inst[c].id \in Components
                  /\ inst'[c].id = inst[c].id /\ inst'[c].on = inst[c].on
                  /\ inst[c].on \in Contexts /\ inst[c].on < c /\ inst[c].on # c
                  /\ stack'[inst[c].on] = stack[inst[c].on]
      /\ stack'[c] # <<>> => stack[c] # <<>> \/ Top.fn = "begin"
  BY SMTT(20), <1>0, CallFacts
<1>2. /\ \A j \in 1..N - 1 : calls[j].fn \in Waits
      /\ stack[c] # <<>> => Intact(c)
      /\ c # 0 => \E j \in 1..N - 1 : calls[j].fn = "component" /\ calls[j].dc = On(c)
      /\ \A j \in 1..N - 1 : calls[j].fn \in Chain /\ calls[j].dc < c => calls[j].dc <= On(c)
  BY <1>0, <1>1 DEF LinkOK, Linked, Chain
<1>3. /\ \A j \in 1..N + 1 - 1 : j \in 1..N - 1 \/ j = N
      /\ \A j \in 1..N - 1 : j \in 1..N + 1 - 1 /\ calls'[j] = calls[j]
      /\ c # 0 => On(c)' = On(c)
  BY <1>1 DEF On
<1>4. stack'[c] # <<>> => Intact(c)'
  BY <1>1, <1>2, <1>3 DEF Intact, On, Active
<1>5. LinkOK(N + 1)'
  <2>1. calls'[N + 1] = g /\ g.dc = c /\ g.fn = "end" /\ calls'[N] = f /\ f.dc = c /\ f.fn \in Waits
    BY <1>0 DEF Waits
  <2>2. \A j \in 1..N + 1 - 1 : calls'[j].fn \in Waits
    BY <1>2, <1>3, <2>1
  <2>3. c # 0 => \E j \in 1..N + 1 - 1 : calls'[j].fn = "component" /\ calls'[j].dc = On(c)'
    BY <1>2, <1>3
  <2>4. \A j \in 1..N - 1 : calls[j].fn \in Chain /\ calls[j].dc < c => calls[j].dc <= On(c)'
    <3>1. c = 0 => \A j \in 1..N - 1 : ~(calls[j].dc < c)
      BY <1>1 DEF Contexts
    <3> QED BY <1>2, <1>3, <3>1
  <2>5. \A j \in 1..N + 1 - 1 : calls'[j].fn \in Chain /\ calls'[j].dc < c => calls'[j].dc <= On(c)'
    <3>1. ~(c < c)
      BY <1>1 DEF Contexts
    <3> QED BY <1>3, <2>1, <2>4, <3>1
  <2> QED BY <1>4, <2>1, <2>2, <2>3, <2>5 DEF LinkOK
<1>6. ASSUME NEW j \in 1..N + 1 - 1 PROVE OrderOK(j, N + 1)'
  <2>1. calls'[N + 1] = g /\ g.fn = "end" /\ g.dc = c
    BY <1>0
  <2>2. CASE j = N
    <3>1. calls'[j] = f /\ f.fn = "cancelled" /\ f.dc = c /\ c <= c
      BY <1>0, <1>1, <2>2 DEF Contexts
    <3> QED BY <2>1, <3>1 DEF OrderOK
  <2>3. CASE j # N
    <3>1. j \in 1..N - 1
      BY <1>3, <2>3
    <3>2. PICK e : e = calls[j]
      OBVIOUS
    <3>3. calls'[j] = e /\ OrderOK(j, N) /\ calls[N] = Top /\ Top.dc = c
      BY <1>0, <1>1, <3>1, <3>2
    <3> QED BY <2>1, <3>2, <3>3 DEF OrderOK, Chain
  <2> QED BY <2>2, <2>3
<1>7. Over(calls[N + 1 - 1], calls[N + 1])'
  <2>1. N + 1 - 1 = N /\ f.dc = c /\ g.dc = c
    BY <1>0, <1>1
  <2> QED BY <2>1 DEF Over, Chain
<1>8. N + 1 # 1 /\ c \in 0..Len(inst') /\ (c # 0 => inst'[c].id \in Components)
  BY <1>1
<1>9. calls'[N + 1] = g /\ g.dc = c /\ ~(N + 1 < Len(calls'))
  BY <1>0, <1>1
<1> QED BY <1>5, <1>6, <1>7, <1>8, <1>9 DEF CallOK, IdOf

\* The calls that wait still know which component is active in their context.
LEMMA KeptChildren ==
  ASSUME Tree(stack, inst), CallsOK, ChildrenOK, calls # <<>>, Kept, Local,
         NEW N, N = Len(calls), NEW c, c = Top.dc, Top.fn \in Chain,
         \/ Len(calls') >= N /\ calls'[N].fn \in Chain \union {"cancel"} /\ calls'[N].dc = c
         \/ /\ Len(calls') = N - 1
            /\ ret' = "waiting" \/ stack'[c] = <<>> \/ (c # 0 => inst'[c].cut),
         NEW i \in 1..N - 1
  PROVE  ChildOK(i)'
<1>0. PICK f, d : f = calls[i] /\ d = f.dc
  OBVIOUS
<1>1. /\ N \in Nat /\ N \in Frames /\ Top = calls[N] /\ c \in Contexts
      /\ calls'[i] = f /\ i \in Frames /\ i \in Nat /\ d \in Contexts /\ OrderOK(i, N)
      /\ \A j \in 1..N - 1 : calls'[j] = calls[j] /\ j \in Frames
      /\ \A e \in Contexts : e # c => stack'[e] = stack[e]
  <2>1. /\ N \in Nat /\ N \in Frames /\ Top = calls[N] /\ c \in Contexts
        /\ \A j \in 1..N - 1 : /\ calls'[j] = calls[j] /\ j \in Frames
                               /\ calls[j].dc \in Contexts /\ OrderOK(j, N)
        /\ \A e \in Contexts : e # c => stack'[e] = stack[e]
    BY CallFacts
  <2> QED BY <1>0, <2>1
<1>2. SUFFICES ASSUME f.fn = "component", stack'[d] # <<>>
               PROVE  \/ inst'[Last(stack'[d])].cut
                      \/ /\ i < Len(calls') /\ calls'[i + 1].fn \in Chain \union {"cancel"}
                         /\ calls'[i + 1].dc = Last(stack'[d])
                      \/ \E j \in i + 1..Len(calls') : calls'[j].fn = "cancel" /\ calls'[j].dc <= d
                      \/ i = Len(calls') /\ (ret' = "waiting" \/ stack'[Last(stack'[d])] = <<>>
                                                              \/ inst'[Last(stack'[d])].cut)
  BY <1>0, <1>1 DEF ChildOK, Active, Bare
<1>3. d < c /\ d # c /\ stack'[d] = stack[d] /\ stack[d] # <<>>
  <2>1. d < c
    BY <1>0, <1>1, <1>2 DEF OrderOK
  <2>2. d # c
    BY <1>1, <2>1 DEF Contexts
  <2> QED BY <1>1, <1>2, <2>1, <2>2
<1>4. PICK m : m = Last(stack[d])
  OBVIOUS
<1>5. m \in 1..Len(inst) /\ (inst[m].cut => inst'[m].cut)
  <2>1. m \in 1..Len(inst)
    BY <1>1, <1>3, <1>4, TreeFacts
  <2> QED BY <2>1 DEF Local
<1>6. \/ inst[m].cut
      \/ i < N /\ calls[i + 1].fn \in Chain \union {"cancel"} /\ calls[i + 1].dc = m
      \/ \E j \in i + 1..N : calls[j].fn = "cancel" /\ calls[j].dc <= d
  <2>1. ChildOK(i) /\ i # N
    BY <1>1 DEF ChildrenOK
  <2> QED BY <1>0, <1>2, <1>3, <1>4, <2>1 DEF ChildOK, Active
<1>7. CASE inst[m].cut
  BY <1>3, <1>4, <1>5, <1>7
<1>8. CASE i + 1 < N /\ calls[i + 1].fn \in Chain \union {"cancel"} /\ calls[i + 1].dc = m
  <2>1. i + 1 \in 1..N - 1 /\ i < N - 1
    BY <1>1, <1>8
  <2>2. calls'[i + 1] = calls[i + 1] /\ i < Len(calls')
    BY <1>1, <2>1 DEF Kept
  <2> QED BY <1>3, <1>4, <1>8, <2>2
<1>9. CASE i + 1 = N /\ calls[i + 1].dc = m
  <2>1. m = c /\ i = N - 1 /\ i < N
    BY <1>1, <1>9
  <2>2. CASE Len(calls') >= N /\ calls'[N].fn \in Chain \union {"cancel"} /\ calls'[N].dc = c
    <3>1. i < Len(calls')
      BY <1>1, <2>1, <2>2 DEF Kept
    <3> QED BY <1>3, <1>4, <1>9, <2>1, <2>2, <3>1
  <2>3. CASE /\ Len(calls') = N - 1
             /\ ret' = "waiting" \/ stack'[c] = <<>> \/ (c # 0 => inst'[c].cut)
    <3>1. c # 0
      BY <1>5, <2>1
    <3> QED BY <1>3, <1>4, <2>1, <2>3, <3>1
  <2> QED BY <2>2, <2>3
<1>10. CASE \E j \in i + 1..N : calls[j].fn = "cancel" /\ calls[j].dc <= d
  <2>1. PICK j \in i + 1..N : calls[j].fn = "cancel" /\ calls[j].dc <= d
    BY <1>10
  <2>2. j # N
    BY <1>1, <2>1 DEF Chain
  <2>3. j \in 1..N - 1 /\ j \in i + 1..N - 1
    BY <1>1, <2>1, <2>2
  <2>4. calls'[j] = calls[j] /\ j \in i + 1..Len(calls')
    BY <1>1, <2>3 DEF Kept
  <2> QED BY <2>1, <2>4
<1> QED BY <1>1, <1>6, <1>7, <1>8, <1>9, <1>10

\* The same when a cancellation goes on, or returns.
LEMMA CancelChildren ==
  ASSUME Tree(stack, inst), CallsOK, ChildrenOK, calls # <<>>, Kept, Local,
         NEW N, N = Len(calls), NEW c, c = Top.dc,
         \/ /\ Top.fn = "cancel" /\ Len(calls') >= N /\ calls'[N].fn = "cancel"
            /\ calls'[N].dc = c \/ (c # 0 /\ calls'[N].dc = inst[c].on)
         \/ /\ Top.fn = "cancel" /\ Len(calls') = N - 1 /\ UNCHANGED stack
            /\ \/ stack[c] = <<>>
               \/ c # 0 => inst'[c].cut
            /\ stack[c] # <<>> => inst'[Last(stack[c])].cut
         \/ Top.fn = "ending" /\ Len(calls') = N - 1,
         NEW i \in 1..N - 1
  PROVE  ChildOK(i)'
<1>0. PICK f, d : f = calls[i] /\ d = f.dc
  OBVIOUS
<1>1. /\ N \in Nat /\ N \in Frames /\ Top = calls[N] /\ c \in Contexts
      /\ calls'[i] = f /\ i \in Frames /\ i \in Nat /\ d \in Contexts /\ OrderOK(i, N)
      /\ \A j \in 1..N - 1 : calls'[j] = calls[j] /\ j \in Frames
      /\ \A e \in Contexts : e # c => stack'[e] = stack[e]
      /\ N - 1 \in 1..N - 1 /\ Over(calls[N - 1], Top)
      /\ c # 0 => inst[c].on < c /\ inst[c].on \in Contexts
      /\ Len(calls') \in Nat
  <2>0. /\ Tree(stack, inst) /\ CallsOK /\ calls # <<>> /\ Kept /\ Local
        /\ N = Len(calls) /\ c = Top.dc
    OBVIOUS
  <2>1. /\ N \in Nat /\ N \in Frames /\ Top = calls[N] /\ c \in Contexts
        /\ \A j \in 1..N - 1 : /\ calls'[j] = calls[j] /\ j \in Frames
                               /\ calls[j].dc \in Contexts /\ OrderOK(j, N)
        /\ \A e \in Contexts : e # c => stack'[e] = stack[e]
        /\ N > 1 => N - 1 \in 1..N - 1 /\ Over(calls[N - 1], Top)
        /\ c # 0 => inst[c].on < c /\ inst[c].on \in Contexts
    BY ONLY <2>0, CallFacts
  <2>2. N > 1
    BY <2>1
  <2> QED BY <1>0, <2>1, <2>2 DEF Kept
<1>2. SUFFICES ASSUME f.fn = "component", stack'[d] # <<>>
               PROVE  \/ inst'[Last(stack'[d])].cut
                      \/ /\ i < Len(calls') /\ calls'[i + 1].fn \in Chain \union {"cancel"}
                         /\ calls'[i + 1].dc = Last(stack'[d])
                      \/ \E j \in i + 1..Len(calls') : calls'[j].fn = "cancel" /\ calls'[j].dc <= d
                      \/ i = Len(calls') /\ (ret' = "waiting" \/ stack'[Last(stack'[d])] = <<>>
                                                              \/ inst'[Last(stack'[d])].cut)
  BY <1>0, <1>1 DEF ChildOK, Active, Bare
\* The cancellation goes on in a context that is not above.
<1>3. CASE /\ Top.fn = "cancel" /\ Len(calls') >= N /\ calls'[N].fn = "cancel"
           /\ calls'[N].dc = c \/ (c # 0 /\ calls'[N].dc = inst[c].on)
  <2>0. N \in i + 1..Len(calls')
    BY <1>1, <1>3
  <2>1. CASE d >= c
    <3>1. calls'[N].dc \in Contexts /\ calls'[N].dc <= c
      BY <1>1, <1>3 DEF Contexts
    <3>2. c \in Contexts /\ d \in Contexts
      BY <1>0, <1>1
    <3>3. calls'[N].dc <= d
      BY ONLY <2>1, <3>1, <3>2 DEF Contexts
    <3> QED BY <1>3, <2>0, <3>3
  <2>2. CASE d < c
    <3>1. d # c /\ stack'[d] = stack[d] /\ stack[d] # <<>>
      BY <1>1, <1>2, <2>2 DEF Contexts
    <3>2. PICK m : m = Last(stack[d])
      OBVIOUS
    <3>3. m \in 1..Len(inst) /\ inst[m].on = d /\ (inst[m].cut => inst'[m].cut)
      <4>0. Tree(stack, inst) /\ d \in Contexts
        BY <1>1
      <4>1. m \in 1..Len(inst) /\ inst[m].on = d
        BY ONLY <3>1, <3>2, <4>0, TreeFacts
      <4> QED BY <4>1 DEF Local
    <3>4. \/ inst[m].cut
          \/ i < N /\ calls[i + 1].fn \in Chain \union {"cancel"} /\ calls[i + 1].dc = m
          \/ \E j \in i + 1..N : calls[j].fn = "cancel" /\ calls[j].dc <= d
      <4>1. ChildOK(i) /\ i # N
        BY <1>1 DEF ChildrenOK
      <4> QED BY <1>0, <1>2, <3>1, <3>2, <4>1 DEF ChildOK, Active
    <3>5. CASE inst[m].cut
      BY <3>1, <3>2, <3>3, <3>5
    <3>6. CASE i + 1 < N /\ calls[i + 1].fn \in Chain \union {"cancel"} /\ calls[i + 1].dc = m
      <4>1. i + 1 \in 1..N - 1 /\ i < Len(calls')
        BY <1>1, <1>3, <3>6
      <4> QED BY <1>1, <3>1, <3>2, <3>6, <4>1
    <3>7. CASE i + 1 = N /\ calls[i + 1].dc = m
      <4>1. m = c /\ inst[c].on = d
        BY <1>1, <3>3, <3>7
      <4>2. CASE calls'[N].dc = c
        <5>1. i < Len(calls')
          BY <1>1, <1>3
        <5> QED BY <1>3, <3>1, <3>2, <3>7, <4>1, <4>2, <5>1
      <4>3. CASE calls'[N].dc = inst[c].on
        <5>1. calls'[N].dc <= d
          BY <1>1, <4>1, <4>3 DEF Contexts
        <5> QED BY <1>3, <2>0, <5>1
      <4> QED BY <1>3, <4>2, <4>3
    <3>8. CASE \E j \in i + 1..N : calls[j].fn = "cancel" /\ calls[j].dc <= d
      <4>1. PICK j \in i + 1..N : calls[j].fn = "cancel" /\ calls[j].dc <= d
        BY <3>8
      <4>2. j # N
        BY <1>1, <2>2, <4>1 DEF Contexts
      <4>3. j \in 1..N - 1 /\ j \in i + 1..Len(calls')
        BY <1>1, <1>3, <4>1, <4>2
      <4> QED BY <1>1, <4>1, <4>3
    <3> QED BY <1>1, <3>4, <3>5, <3>6, <3>7, <3>8
  <2> QED BY SMTT(20), <1>1, <2>1, <2>2 DEF Contexts
\* It returns: what it leaves was passed by.
<1>4. CASE /\ Top.fn = "cancel" /\ Len(calls') = N - 1 /\ UNCHANGED stack
           /\ \/ stack[c] = <<>>
              \/ c # 0 => inst'[c].cut
           /\ stack[c] # <<>> => inst'[Last(stack[c])].cut
  <2>1. PICK m : m = Last(stack[d])
    OBVIOUS
  <2>2. m \in 1..Len(inst) /\ m # 0 /\ (inst[m].cut => inst'[m].cut)
    <3>1. m \in 1..Len(inst)
      BY <1>1, <1>2, <1>4, <2>1, TreeFacts
    <3> QED BY <3>1 DEF Local
  <2>3. \/ inst[m].cut
        \/ i < N /\ calls[i + 1].fn \in Chain \union {"cancel"} /\ calls[i + 1].dc = m
        \/ \E j \in i + 1..N : calls[j].fn = "cancel" /\ calls[j].dc <= d
    <3>1. ChildOK(i) /\ i # N
      BY <1>1 DEF ChildrenOK
    <3> QED BY <1>0, <1>2, <1>4, <2>1, <3>1 DEF ChildOK, Active
  <2>4. CASE inst[m].cut
    BY <1>4, <2>1, <2>2, <2>4
  <2>5. CASE i + 1 < N /\ calls[i + 1].fn \in Chain \union {"cancel"} /\ calls[i + 1].dc = m
    <3>1. i + 1 \in 1..N - 1 /\ i < Len(calls')
      BY <1>1, <1>4, <2>5
    <3> QED BY <1>1, <1>4, <2>1, <2>5, <3>1
  <2>6. CASE i + 1 = N /\ calls[i + 1].dc = m
    <3>1. m = c /\ i = Len(calls')
      BY <1>1, <1>4, <2>6
    <3> QED BY <1>4, <2>1, <2>2, <3>1
  <2>7. CASE \E j \in i + 1..N : calls[j].fn = "cancel" /\ calls[j].dc <= d
    <3>1. PICK j \in i + 1..N : calls[j].fn = "cancel" /\ calls[j].dc <= d
      BY <2>7
    <3>2. CASE j # N
      <4>1. j \in 1..N - 1 /\ j \in i + 1..Len(calls')
        BY <1>1, <1>4, <3>1, <3>2
      <4> QED BY <1>1, <3>1, <4>1
    <3>3. CASE j = N
      <4>1. c <= d
        BY <1>1, <3>1, <3>3
      <4>2. ~(d > c)
        BY <1>0, <1>1, <1>2, <1>4 DEF OrderOK, Waits
      <4>3. d = c
        BY <1>1, <4>1, <4>2 DEF Contexts
      <4> QED BY <1>2, <1>4, <4>3
    <3> QED BY <3>2, <3>3
  <2> QED BY <1>1, <2>3, <2>4, <2>5, <2>6, <2>7
\* A component ends: the cancellation that ends it goes on.
<1>5. CASE Top.fn = "ending" /\ Len(calls') = N - 1
  <2>1. calls[N - 1].fn = "cancel" /\ calls[N - 1].dc = c
    BY <1>1, <1>5 DEF Over, Chain
  <2>2. i # N - 1
    BY <1>0, <1>2, <2>1
  <2>3. N - 1 \in i + 1..Len(calls') /\ calls'[N - 1] = calls[N - 1]
    BY <1>1, <1>5, <2>2
  <2>4. CASE c <= d
    BY <2>1, <2>3, <2>4
  <2>5. CASE ~(c <= d)
    <3>1. d # c /\ stack'[d] = stack[d] /\ stack[d] # <<>>
      BY <1>1, <1>2, <2>5 DEF Contexts
    <3>2. PICK m : m = Last(stack[d])
      OBVIOUS
    <3>3. m \in 1..Len(inst) /\ (inst[m].cut => inst'[m].cut)
      <4>1. m \in 1..Len(inst)
        BY <1>1, <3>1, <3>2, TreeFacts
      <4> QED BY <4>1 DEF Local
    <3>4. \/ inst[m].cut
          \/ i < N /\ calls[i + 1].fn \in Chain \union {"cancel"} /\ calls[i + 1].dc = m
          \/ \E j \in i + 1..N : calls[j].fn = "cancel" /\ calls[j].dc <= d
      <4>1. ChildOK(i) /\ i # N
        BY <1>1 DEF ChildrenOK
      <4> QED BY <1>0, <1>2, <3>1, <3>2, <4>1 DEF ChildOK, Active
    <3>5. CASE inst[m].cut
      BY <3>1, <3>2, <3>3, <3>5
    <3>6. CASE i < N /\ calls[i + 1].fn \in Chain \union {"cancel"} /\ calls[i + 1].dc = m
      <4>1. i + 1 \in 1..N - 1 /\ i < Len(calls')
        BY <1>1, <1>5, <2>2
      <4> QED BY <1>1, <3>1, <3>2, <3>6, <4>1
    <3>7. CASE \E j \in i + 1..N : calls[j].fn = "cancel" /\ calls[j].dc <= d
      <4>1. PICK j \in i + 1..N : calls[j].fn = "cancel" /\ calls[j].dc <= d
        BY <3>7
      <4>2. j # N
        BY <1>1, <1>5, <4>1
      <4>3. j \in 1..N - 1 /\ j \in i + 1..Len(calls')
        BY <1>1, <1>5, <4>1, <4>2
      <4> QED BY <1>1, <4>1, <4>3
    <3> QED BY <3>4, <3>5, <3>6, <3>7
  <2> QED BY <2>4, <2>5
<1> QED BY <1>3, <1>4, <1>5

\* The call that a cancellation came from waits for the component it works on.
LEMMA CancelHome ==
  ASSUME Tree(stack, inst), CallsOK, NEW i \in Frames, calls[i].fn = "cancel",
         NEW c, c = calls[i].dc, c # 0
  PROVE  /\ Intact(c)
         /\ \E j \in 1..i - 1 : calls[j].fn \in {"component", "ending"} /\ calls[j].dc = inst[c].on
<1>1. CallOK(i) /\ LinkOK(i) /\ i \in Nat /\ Len(calls) \in Nat
  <2>1. CallOK(i)
    BY DEF CallsOK
  <2>2. Len(calls) \in Nat
    BY LenProperties DEF CallsOK
  <2> QED BY <2>1, <2>2 DEF CallOK, Frames
<1>2. CASE calls[i].linked
  BY <1>1, <1>2 DEF LinkOK, Linked, On
<1>3. CASE ~calls[i].linked
  <2>1. i > 1 /\ Over(calls[i - 1], calls[i])
    <3>1. i # 1
      BY <1>1 DEF CallOK
    <3>2. i > 1
      BY <1>1, <3>1 DEF Frames
    <3> QED BY <1>1, <3>2 DEF CallOK
  <2>2. PICK g, d : g = calls[i - 1] /\ d = g.dc
    OBVIOUS
  <2>3. g.fn = "ending" /\ stack[d] # <<>> /\ c = Active(d)
    BY <1>3, <2>1, <2>2 DEF Over, Chain
  <2>4. i - 1 \in Frames /\ i - 1 \in 1..i - 1
    BY <1>1, <2>1 DEF Frames
  <2>5. d \in Contexts
    <3>1. calls # <<>>
      BY <1>1, <2>4, EmptySeq DEF CallsOK, Frames
    <3> QED BY <2>2, <2>4, <3>1, TopFacts DEF CallsOK
  <2>6. inst[c].on = d
    BY <2>3, <2>5, TreeFacts DEF Active
  <2> QED BY <2>2, <2>3, <2>4, <2>6 DEF Intact, On
<1> QED BY <1>2, <1>3

\* A step that leaves the stacks alone, and the components that are about to end.
LEMMA KeptFull ==
  ASSUME Tree(stack, inst), CallsOK, FullOK, calls # <<>>, Kept, Local, UNCHANGED stack,
         NEW N, N = Len(calls), NEW c, c = Top.dc,
         \/ Top.fn \notin {"component", "ending", "end"}
         \/ stack[c] = <<>>
         \/ ~Hollow(stack, inst, c, Len(stack[c]))
         \/ \E j \in N..Len(calls') :
              /\ calls'[j].dc = c
              /\ calls'[j].fn \in {"component", "ending"} \/ (calls'[j].fn = "end" /\ j = Len(calls'))
  PROVE  FullOK'
<1>1. /\ N \in Nat /\ N \in Frames /\ Top = calls[N] /\ c \in Contexts
      /\ \A j \in 1..N - 1 : calls'[j] = calls[j]
  BY CallFacts
<1>2. SUFFICES ASSUME NEW d \in Contexts, NEW i \in 1..Len(stack[d]), Hollow(stack, inst', d, i)
               PROVE  i = Len(stack[d]) /\ \E j \in Frames' : Ends(j, d)'
  BY DEF FullOK
<1>3. Hollow(stack, inst, d, i)
  <2>1. stack[d][i] \in 1..Len(inst)
    BY DEF Tree, Forest
  <2> QED BY <1>2, <2>1 DEF Hollow, Local
<1>4. i = Len(stack[d]) /\ \E j \in Frames : Ends(j, d)
  BY <1>3 DEF FullOK
<1>5. PICK j \in Frames : Ends(j, d)
  BY <1>4
<1>6. CASE j # N
  <2>1. j \in 1..N - 1 /\ j # Len(calls)
    BY <1>1, <1>6 DEF Frames
  <2>2. j \in Frames' /\ calls'[j] = calls[j]
    BY <1>1, <2>1 DEF Frames, Kept
  <2>3. calls[j].fn \in {"component", "ending"} /\ calls[j].dc = d
    BY <1>5, <2>1 DEF Ends
  <2> QED BY <1>4, <2>2, <2>3 DEF Ends
<1>7. CASE j = N
  <2>1. d = c /\ Top.fn \in {"component", "ending", "end"}
    BY <1>1, <1>5, <1>7 DEF Ends
  <2>2. stack[c] # <<>>
    <3>1. Len(stack[c]) \in Nat /\ Len(stack[c]) > 0
      BY <1>1, <2>1, TreeFacts
    <3> QED BY <1>1, <3>1, TreeFacts
  <2>3. PICK k \in N..Len(calls') :
          /\ calls'[k].dc = c
          /\ calls'[k].fn \in {"component", "ending"} \/ (calls'[k].fn = "end" /\ k = Len(calls'))
    BY <1>3, <1>4, <2>1, <2>2
  <2>4. k \in Frames'
    BY <1>1, <2>3 DEF Frames, Kept
  <2> QED BY <1>4, <2>1, <2>3, <2>4 DEF Ends
<1> QED BY <1>6, <1>7

\* A step that takes the active dialog of its context away.
LEMMA PopFull ==
  ASSUME Tree(stack, inst), CallsOK, FullOK, calls # <<>>, Kept, Local, Same(inst, inst'),
         NEW N, N = Len(calls), NEW c, c = Top.dc, Popped(stack, stack', c),
         c # 0 => /\ Intact(c)
                  /\ \E j \in 1..N - 1 : calls[j].fn \in {"component", "ending"} /\ calls[j].dc = inst[c].on
  PROVE  FullOK'
<1>1. /\ N \in Nat /\ N \in Frames /\ Top = calls[N] /\ c \in Contexts
      /\ \A j \in 1..N - 1 : calls'[j] = calls[j]
      /\ c # 0 => inst[c].on \in Contexts /\ inst[c].on # c
  BY CallFacts
<1>2. /\ Len(stack'[c]) = Len(stack[c]) - 1 /\ (\A i \in 1..Len(stack'[c]) : stack'[c][i] = stack[c][i])
      /\ \A d \in Contexts : d # c => stack'[d] = stack[d]
  <2>0. Tree(stack, inst) /\ Popped(stack, stack', c)
    OBVIOUS
  <2>1. /\ Tree(stack', inst)
        /\ Len(stack'[c]) = Len(stack[c]) - 1 /\ (\A i \in 1..Len(stack'[c]) : stack'[c][i] = stack[c][i])
        /\ \A d \in Contexts : d # c => stack'[d] = stack[d]
        /\ \A n \in 1..Len(inst) :
             OnStack(stack', inst, n) <=> OnStack(stack, inst, n) /\ n # Last(stack[c])
    BY ONLY <2>0, PopTree
  <2> QED BY <2>1
<1>3. SUFFICES ASSUME NEW d \in Contexts, NEW i \in 1..Len(stack'[d]), Hollow(stack', inst', d, i)
               PROVE  i = Len(stack'[d]) /\ \E j \in Frames' : Ends(j, d)'
  BY DEF FullOK
<1>4. PICK x : x = stack'[d][i]
  OBVIOUS
<1>5. /\ i \in 1..Len(stack[d]) /\ x = stack[d][i] /\ Len(stack[d]) \in Nat
      /\ (d = c => i # Len(stack[d])) /\ (d # c => stack'[d] = stack[d])
  <2>1. Len(stack[d]) \in Nat
    BY TreeFacts
  <2>2. i \in 1..Len(stack'[d])
    BY <1>3
  <2>3. CASE d = c
    BY ONLY <1>2, <1>4, <2>1, <2>2, <2>3
  <2>4. CASE d # c
    <3>1. stack'[d] = stack[d]
      BY <1>2, <2>4
    <3> QED BY ONLY <1>4, <2>1, <2>2, <2>4, <3>1
  <2> QED BY <2>3, <2>4
<1>6. x \in 1..Len(inst) /\ inst[x].on = d /\ x \in Contexts /\ x # 0
  <2>1. x \in 1..Len(inst) /\ inst[x].on = d
    <3>1. Forest(stack, inst)
      BY DEF Tree
    <3>2. d \in Contexts
      BY <1>3
    <3> QED BY ONLY <1>5, <3>1, <3>2 DEF Forest
  <2>2. Len(inst) \in Nat /\ 1..Len(inst) \subseteq Contexts
    BY TreeFacts
  <2> QED BY ONLY <2>1, <2>2
<1>7. inst[x].id \in Components /\ stack'[x] = <<>>
  BY <1>3, <1>4, <1>6 DEF Hollow, Same
<1>8. CASE stack[x] = <<>>
  <2>1. Hollow(stack, inst, d, i)
    BY <1>5, <1>7, <1>8 DEF Hollow
  <2>2. i = Len(stack[d]) /\ \E j \in Frames : Ends(j, d)
    BY <1>5, <2>1 DEF FullOK
  <2>3. PICK j \in Frames : Ends(j, d)
    BY <2>2
  <2>4. d # c /\ stack'[d] = stack[d]
    BY <1>5, <2>2
  <2>5. j # N
    BY <1>1, <2>3, <2>4 DEF Ends
  <2>6. j \in 1..N - 1 /\ j # Len(calls)
    BY <1>1, <2>5 DEF Frames
  <2>7. j \in Frames' /\ calls'[j] = calls[j]
    BY <1>1, <2>6 DEF Frames, Kept
  <2>8. calls[j].fn \in {"component", "ending"} /\ calls[j].dc = d
    BY <2>3, <2>6 DEF Ends
  <2> QED BY <2>2, <2>4, <2>7, <2>8 DEF Ends
<1>9. CASE stack[x] # <<>>
  <2>1. x = c /\ c # 0 /\ inst[c].on = d /\ d # c
    BY <1>1, <1>2, <1>6, <1>7, <1>9
  <2>2. stack[d] # <<>> /\ c = stack[d][Len(stack[d])]
    BY <2>1 DEF Intact, On, Active, Last
  <2>3. i = Len(stack[d])
    <3> SUFFICES ASSUME i # Len(stack[d]) PROVE FALSE
      OBVIOUS
    <3>1. i \in 1..Len(stack[d]) - 1 /\ Len(stack[d]) \in 1..Len(stack[d])
      BY <1>5
    <3>2. stack[d][i] < stack[d][Len(stack[d])]
      BY <3>1 DEF Tree, Forest
    <3> QED BY <1>1, <1>5, <2>1, <2>2, <3>2 DEF Contexts
  <2>4. PICK j \in 1..N - 1 : calls[j].fn \in {"component", "ending"} /\ calls[j].dc = d
    BY <2>1
  <2>5. j \in Frames' /\ calls'[j] = calls[j]
    BY <1>1, <2>4 DEF Frames, Kept
  <2> QED BY <1>5, <2>1, <2>3, <2>4, <2>5 DEF Ends
<1> QED BY <1>8, <1>9

-----------------------------------------------------------------------------
(* What a step of a turn does.                                             *)

\* The stacks of a conversation nest.
LEMMA Trees ==
  ASSUME TypeOK, StacksOK
  PROVE  Tree(stack, inst) /\ Forest(stack, inst) /\ History(stack, inst)
BY DEF TypeOK, StacksOK, Conversation, Tree, Instance

\* No turn throws, and what the instances were told is not taken back.
Lasting(is, js) ==
  /\ Grown(is, js)
  /\ \A n \in 1..Len(is) : js[n].lost = is[n].lost
  /\ \A n \in 1..Len(js) : n \notin 1..Len(is) => js[n].lost = 0

\* A step that leaves a good conversation behind, and revives no instance.
Sound ==
  /\ Tree(stack', inst') /\ StacksOK' /\ Local /\ Lasting(inst, inst')
  /\ \A p \in 1..Len(inst) : p \in Live' => p \in Live

\* Nothing but its calls, stacks and instances belong to a turn.
Quiet == UNCHANGED <<access, saved, activity, turns, now, status, cleared, touched, failures>>

\* An instance that has left is not found again.
LEMMA NoRevival ==
  ASSUME Tree(stack, inst), Tree(stack', inst'), Len(inst) <= Len(inst'),
         \A n \in 1..Len(inst) :
           inst'[n].on = inst[n].on /\ (OnStack(stack', inst', n) => OnStack(stack, inst, n)),
         NEW p \in 1..Len(inst), p \in Live'
  PROVE  p \in Live
<1>0. /\ Tree(stack, inst) /\ Tree(stack', inst') /\ Len(inst) <= Len(inst')
      /\ \A n \in 1..Len(inst) :
           inst'[n].on = inst[n].on /\ (OnStack(stack', inst', n) => OnStack(stack, inst, n))
  OBVIOUS
<1>1. \A n \in 1..Len(inst) : n \in LiveSet(stack', inst') => n \in LiveSet(stack, inst)
  BY ONLY <1>0, LiveShrinks
<1>2. Live = LiveSet(stack, inst) /\ Live' = LiveSet(stack', inst')
  BY Unfolded, UnfoldedNext
<1> QED BY <1>1, <1>2

\* The instances are those there were: told or not, as often as before or once more.
LEMMA SameLasts ==
  ASSUME NEW is, NEW js, is \in Seq(Instance), Same(is, js),
         \A n \in 1..Len(is) : js[n].lost = is[n].lost /\ js[n].told \in {is[n].told, is[n].told + 1}
  PROVE  Lasting(is, js)
<1>1. Len(js) = Len(is) /\ Len(is) \in Nat
  BY LenProperties DEF Same
<1>2. \A n \in 1..Len(is) : is[n].told \in Nat
  <2>1. \A n \in 1..Len(is) : is[n] \in Instance
    BY ElementOfSeq
  <2> QED BY <2>1 DEF Instance
<1>3. \A n \in 1..Len(is) : is[n].told <= js[n].told
  BY <1>2
<1> QED BY <1>1, <1>3 DEF Lasting, Grown

\* A step that leaves the stacks alone.
LEMMA StaySound ==
  ASSUME Tree(stack, inst), StacksOK, UNCHANGED stack, Same(inst, inst'),
         \A n \in 1..Len(inst) : inst'[n].told = inst[n].told /\ inst'[n].lost = inst[n].lost,
         spared' \in {spared, TRUE}
  PROVE  /\ Sound
         /\ \A n \in 1..Len(inst) : Descent(n)' = Descent(n) /\ Leaf(n)' = Leaf(n)
<1>0. /\ Tree(stack, inst) /\ History(stack, inst) /\ Same(inst, inst')
      /\ \A n \in 1..Len(inst) : inst'[n].told = inst[n].told
  BY DEF StacksOK
<1>1. /\ Tree(stack, inst')
      /\ \A n \in 1..Len(inst) : OnStack(stack, inst', n) <=> OnStack(stack, inst, n)
  BY ONLY <1>0, SameTree
<1>2. History(stack, inst')
  BY ONLY <1>0, StayHistory
<1>3. /\ Len(inst') = Len(inst) /\ Len(inst) \in Nat
      /\ \A n \in 1..Len(inst) : /\ inst'[n].id = inst[n].id /\ inst'[n].on = inst[n].on
                                 /\ inst[n].cut => inst'[n].cut
  BY <1>0, TreeFacts DEF Same
<1>4. Local
  <2>1. Len(inst) <= Len(inst') /\ Tree(stack', inst')
    BY <1>1, <1>3
  <2>2. spared' \in {spared, TRUE}
    OBVIOUS
  <2> QED BY <1>3, <2>1, <2>2 DEF Local
<1>5. \A p \in 1..Len(inst) : p \in Live' => p \in Live
  <2>1. \A n \in 1..Len(inst) :
          inst'[n].on = inst[n].on /\ (OnStack(stack', inst', n) => OnStack(stack, inst, n))
    BY <1>1, <1>3
  <2> QED BY <1>1, <1>3, <2>1, NoRevival
<1>6. Sound
  <2>1. Lasting(inst, inst')
    BY SameLasts DEF Tree
  <2> QED BY <1>1, <1>2, <1>4, <1>5, <2>1 DEF Sound, StacksOK, Tree
<1>7. ASSUME NEW n \in 1..Len(inst) PROVE Descent(n)' = Descent(n) /\ Leaf(n)' = Leaf(n)
  <2>1. DescentIn(stack, inst')[n] = DescentIn(stack, inst)[n] /\ LeafIn(stack, inst', n) = LeafIn(stack, inst, n)
    BY ONLY <1>0, <1>7, SameDescent
  <2>2. /\ Descent(n) = DescentIn(stack, inst)[n] /\ Leaf(n) = LeafIn(stack, inst, n)
        /\ Descent(n)' = DescentIn(stack', inst')[n] /\ Leaf(n)' = LeafIn(stack', inst', n)
    BY Unfolded, UnfoldedNext
  <2> QED BY <2>1, <2>2
<1> QED BY <1>6, <1>7

\* A step that takes the active dialog off its stack, told or not found.
LEMMA PopSound ==
  ASSUME Tree(stack, inst), StacksOK, NEW c, c = Top.dc, Popped(stack, stack', c),
         Same(inst, inst'),
         \A n \in 1..Len(inst) : n # Last(stack[c]) => inst'[n].told = inst[n].told,
         \/ inst'[Last(stack[c])].told = inst[Last(stack[c])].told + 1
            /\ (stack[Last(stack[c])] = <<>> \/ inst[Last(stack[c])].cut)
         \/ inst'[Last(stack[c])].told = inst[Last(stack[c])].told
            /\ inst[Last(stack[c])].id \notin DialogSet(inst, c),
         \A n \in 1..Len(inst) : inst'[n].lost = inst[n].lost, spared' \in {spared, TRUE}
  PROVE  /\ Sound
         /\ \A p \in Descent(Last(stack[c])) : p \notin Live'
<1> DEFINE m == Last(stack[c])
<1>0. /\ Tree(stack, inst) /\ History(stack, inst) /\ Same(inst, inst')
      /\ Popped(stack, stack', c)
      /\ \A n \in 1..Len(inst) : n # m => inst'[n].told = inst[n].told
      /\ \/ inst'[m].told = inst[m].told + 1 /\ (stack[m] = <<>> \/ inst[m].cut)
         \/ inst'[m].told = inst[m].told /\ inst[m].id \notin DialogSet(inst, c)
  BY DEF StacksOK
<1>1. /\ Tree(stack', inst)
      /\ Len(stack'[c]) = Len(stack[c]) - 1
      /\ \A d \in Contexts : d # c => stack'[d] = stack[d]
      /\ \A n \in 1..Len(inst) : OnStack(stack', inst, n) <=> OnStack(stack, inst, n) /\ n # m
  BY ONLY <1>0, PopTree
<1>2. /\ Tree(stack', inst')
      /\ \A n \in 1..Len(inst) : OnStack(stack', inst', n) <=> OnStack(stack', inst, n)
  BY ONLY <1>0, <1>1, SameTree
<1>3. History(stack', inst')
  BY ONLY <1>0, PopHistory
<1>4. /\ Len(inst') = Len(inst) /\ Len(inst) \in Nat
      /\ \A n \in 1..Len(inst) : /\ inst'[n].id = inst[n].id /\ inst'[n].on = inst[n].on
                                 /\ inst[n].cut => inst'[n].cut
  BY <1>0, TreeFacts DEF Same
<1>5. Local
  <2>1. \A d \in Contexts : d # Top.dc => stack'[d] = stack[d]
    BY <1>1
  <2>2. stack[Top.dc] # <<>>
    BY <1>0 DEF Popped
  <2>3. Len(inst) <= Len(inst')
    BY <1>4
  <2> QED BY <1>2, <1>4, <2>1, <2>2, <2>3 DEF Local
<1>6. \A p \in 1..Len(inst) : p \in Live' => p \in Live
  <2>1. \A n \in 1..Len(inst) :
          inst'[n].on = inst[n].on /\ (OnStack(stack', inst', n) => OnStack(stack, inst, n))
    BY <1>1, <1>2, <1>4
  <2> QED BY <1>2, <1>4, <2>1, NoRevival
<1>7. Sound
  <2>1. \A n \in 1..Len(inst) : inst'[n].told \in {inst[n].told, inst[n].told + 1}
    BY <1>0
  <2>2. Lasting(inst, inst')
    BY <1>0, <2>1, SameLasts DEF Tree
  <2> QED BY <1>2, <1>3, <1>5, <1>6, <2>2 DEF Sound, StacksOK, Tree
<1>8. m \in 1..Len(inst)
  BY <1>0, TreeFacts DEF Popped
<1>9. ~OnStack(stack', inst', m)
  BY <1>1, <1>2, <1>8
<1>10. /\ Len(inst') = Len(inst) /\ \A n \in 1..Len(inst) : inst'[n].on = inst[n].on
  BY <1>4
<1> HIDE DEF m
<1>11. \A k \in DescentIn(stack, inst)[m] : k \notin LiveSet(stack', inst')
  BY ONLY <1>0, <1>2, <1>8, <1>9, <1>10, DescentIsBuried
<1>12. Descent(m) = DescentIn(stack, inst)[m] /\ Live' = LiveSet(stack', inst')
  BY Unfolded, UnfoldedNext
<1> QED BY <1>7, <1>11, <1>12 DEF m

\* A record with a count one higher.
LEMMA CountedTold ==
  ASSUME NEW x \in Instance
  PROVE  LET y == [x EXCEPT !.told = @ + 1] IN
         /\ y \in Instance /\ y.id = x.id /\ y.on = x.on /\ y.cut = x.cut /\ y.lost = x.lost
         /\ y.told = x.told + 1
<1>1. x.told + 1 \in Nat
  BY DEF Instance
<1> QED BY <1>1 DEF Instance

\* A record with a step one further.
LEMMA CountedStep ==
  ASSUME NEW x \in Instance
  PROVE  LET y == [x EXCEPT !.step = @ + 1] IN
         /\ y \in Instance /\ y.id = x.id /\ y.on = x.on /\ y.cut = x.cut /\ y.lost = x.lost
         /\ y.told = x.told
<1>1. x.step + 1 \in Nat
  BY DEF Instance
<1> QED BY <1>1 DEF Instance

\* An instance is told.
LEMMA ToldSame ==
  ASSUME Tree(stack, inst), NEW m \in 1..Len(inst), inst' = Told(m)
  PROVE  /\ Same(inst, inst') /\ inst'[m].told = inst[m].told + 1
         /\ \A n \in 1..Len(inst) : n # m => inst'[n].told = inst[n].told
         /\ \A n \in 1..Len(inst) : inst'[n].lost = inst[n].lost
<1>1. inst \in Seq(Instance) /\ Len(inst) \in Nat /\ \A n \in 1..Len(inst) : inst[n] \in Instance
  BY TreeFacts DEF Tree
<1>2. PICK x, y : x = inst[m] /\ y = [x EXCEPT !.told = @ + 1]
  OBVIOUS
<1>3. /\ x \in Instance /\ y \in Instance /\ y.id = x.id /\ y.on = x.on /\ y.cut = x.cut
      /\ y.lost = x.lost /\ y.told = x.told + 1
  BY <1>1, <1>2, CountedTold
<1>4. inst' = [inst EXCEPT ![m] = y]
  BY <1>1, <1>2, <1>3 DEF Told, Instance
<1>5. /\ inst' \in Seq(Instance) /\ Len(inst') = Len(inst)
      /\ \A n \in 1..Len(inst) : n # m => inst'[n] = inst[n]
      /\ inst'[m] = y
  BY <1>1, <1>3, <1>4, ExceptSeq
<1>6. inst'[m].id = inst[m].id /\ inst'[m].on = inst[m].on /\ inst'[m].cut = inst[m].cut
      /\ inst'[m].told = inst[m].told + 1 /\ inst'[m].lost = inst[m].lost
  BY <1>2, <1>3, <1>5
<1> QED BY <1>5, <1>6 DEF Same

\* An instance goes on with its next step.
LEMMA StepSame ==
  ASSUME Tree(stack, inst), NEW m \in 1..Len(inst), inst' = [inst EXCEPT ![m].step = @ + 1]
  PROVE  /\ Same(inst, inst')
         /\ \A n \in 1..Len(inst) : inst'[n].told = inst[n].told /\ inst'[n].lost = inst[n].lost
<1>1. inst \in Seq(Instance) /\ Len(inst) \in Nat /\ \A n \in 1..Len(inst) : inst[n] \in Instance
  BY TreeFacts DEF Tree
<1>2. PICK x, y : x = inst[m] /\ y = [x EXCEPT !.step = @ + 1]
  OBVIOUS
<1>3. /\ x \in Instance /\ y \in Instance /\ y.id = x.id /\ y.on = x.on /\ y.cut = x.cut
      /\ y.lost = x.lost /\ y.told = x.told
  BY <1>1, <1>2, CountedStep
<1>4. inst' = [inst EXCEPT ![m] = y]
  BY <1>1, <1>2, <1>3 DEF Instance
<1>5. /\ inst' \in Seq(Instance) /\ Len(inst') = Len(inst)
      /\ \A n \in 1..Len(inst) : n # m => inst'[n] = inst[n]
      /\ inst'[m] = y
  BY SMTT(20), <1>1, <1>3, <1>4, ExceptSeq
<1>6. inst'[m].id = inst[m].id /\ inst'[m].on = inst[m].on /\ inst'[m].cut = inst[m].cut
      /\ inst'[m].told = inst[m].told /\ inst'[m].lost = inst[m].lost
  BY <1>2, <1>3, <1>5
<1> QED BY <1>5, <1>6 DEF Same

\* A cancellation passes instances by.
LEMMA CutSame ==
  ASSUME Tree(stack, inst), NEW S, inst' = Cut(S)
  PROVE  /\ Same(inst, inst')
         /\ \A n \in 1..Len(inst) : inst'[n].told = inst[n].told /\ inst'[n].lost = inst[n].lost
         /\ \A n \in 1..Len(inst) : n \in S => inst'[n].cut
<1>1. inst \in Seq(Instance) /\ Len(inst) \in Nat /\ \A n \in 1..Len(inst) : inst[n] \in Instance
  BY TreeFacts DEF Tree
<1>2. ASSUME NEW n \in 1..Len(inst)
      PROVE  /\ inst'[n] \in Instance
             /\ inst'[n].id = inst[n].id /\ inst'[n].on = inst[n].on /\ inst'[n].told = inst[n].told
             /\ inst'[n].lost = inst[n].lost
             /\ inst[n].cut => inst'[n].cut
             /\ n \in S => inst'[n].cut
  <2>1. inst[n] \in Instance
    BY <1>1
  <2>2. inst'[n] = IF n \in S THEN [inst[n] EXCEPT !.cut = TRUE] ELSE inst[n]
    BY DEF Cut
  <2> QED BY <2>1, <2>2 DEF Instance
<1>3. inst' \in [1..Len(inst) -> Instance]
  BY <1>2 DEF Cut
<1>4. inst' \in Seq(Instance) /\ Len(inst') = Len(inst)
  BY <1>1, <1>3, LenProperties, SeqDef
<1> QED BY <1>2, <1>4 DEF Same

\* What the invariant says of the types.
LEMMA WorkTyped ==
  ASSUME TypeOK, Tree(stack', inst'), Quiet, spared' \in {spared, TRUE}, ret' \in Status \union {None}, prompted' \in Contexts
  PROVE  TypeOK'
<1>1. /\ stack' \in [Contexts -> Seq(1..MaxBegins)] /\ inst' \in Seq(Instance)
      /\ Len(inst') <= MaxBegins
  BY DEF Tree
<1>2. access' = access /\ access \in Nat \union {None}
  BY DEF TypeOK, Conversation, Quiet
<1>3. [stack |-> stack', inst |-> inst', access |-> access'] \in Conversation
  BY <1>1, <1>2 DEF Conversation, Instance
<1>4. spared' \in BOOLEAN
  BY DEF TypeOK
<1> QED BY <1>1, <1>3, <1>4 DEF TypeOK, Quiet

\* What was told grows while a turn runs.
LEMMA LastingLost ==
  ASSUME TypeOK, LostOK, calls # <<>>, inst' \in Seq(Instance), Lasting(inst, inst'),
         UNCHANGED <<saved, turns, cleared, failures>>
  PROVE  LostOK'
<1>1. /\ failures \in Nat /\ turns \in Nat
      /\ inst \in Seq(Instance) /\ saved.inst \in Seq(Instance)
  BY DialogsAssumption DEF TypeOK, Conversation, Instance
<1>2. /\ Len(inst) \in Nat /\ Len(inst') \in Nat /\ Len(saved.inst) \in Nat
      /\ \A n \in 1..Len(inst) : inst[n].told \in Nat
      /\ \A n \in 1..Len(inst') : inst'[n].told \in Nat
      /\ \A n \in 1..Len(saved.inst) : saved.inst[n].told \in Nat
  <2>1. ASSUME NEW q \in Seq(Instance) PROVE Len(q) \in Nat /\ \A n \in 1..Len(q) : q[n].told \in Nat
    <3>1. \A n \in 1..Len(q) : q[n] \in Instance
      BY ElementOfSeq
    <3> QED BY <3>1, LenProperties DEF Instance
  <2> QED BY <1>1, <2>1
<1>3. ASSUME NEW n \in 1..Len(inst') PROVE inst'[n].lost <= failures
  <2>1. CASE n \in 1..Len(inst)
    BY <2>1 DEF LostOK, Lasting
  <2>2. CASE n \notin 1..Len(inst)
    BY <1>1, <2>2 DEF Lasting
  <2> QED BY <2>1, <2>2
<1>4. ASSUME ~cleared PROVE Grown(saved.inst, inst')
  <2>1. Grown(saved.inst, inst) /\ Grown(inst, inst')
    BY <1>4 DEF LostOK, Lasting
  <2>2. ASSUME NEW n \in 1..Len(saved.inst) PROVE saved.inst[n].told <= inst'[n].told
    <3>1. n \in 1..Len(inst) /\ n \in 1..Len(inst')
      BY <1>2, <2>1 DEF Grown
    <3>2. saved.inst[n].told <= inst[n].told /\ inst[n].told <= inst'[n].told
      BY <2>1, <3>1 DEF Grown
    <3> QED BY SMTT(20), <1>2, <3>1, <3>2
  <2> QED BY <1>2, <2>1, <2>2 DEF Grown
<1>5. failures <= turns /\ failures < turns
  BY <1>1 DEF LostOK
<1> QED BY <1>3, <1>4, <1>5 DEF LostOK

\* What is left to show of a step that is not the last of its turn.
LEMMA WorkStep ==
  ASSUME IInv, calls # <<>>, calls' # <<>>, Sound, Quiet, ret' \in Status \union {None}, prompted' \in Contexts,
         FullOK', CallsOK', ChildrenOK', RunningOK', ReturnedOK', PromptOK'
  PROVE  IInv'
<1>1. TypeOK'
  BY WorkTyped DEF IInv, Sound, Local
<1>2. StacksOK'
  BY DEF Sound
<1>3. SavedOK'
  BY DEF IInv, SavedOK, Quiet
<1>4. IdleOK'
  BY DEF IdleOK
<1>5. LostOK'
  BY LastingLost DEF IInv, Sound, Quiet, Tree
<1> QED BY <1>1, <1>2, <1>3, <1>4, <1>5 DEF IInv

\* Unless it is about to end, the instance that prompted last has left when a call runs.
LEMMA Untroubled ==
  ASSUME IInv, calls # <<>>, Sound, prompted' = prompted,
         prompted \in Live => prompted \notin Live'
  PROVE  /\ prompted' \notin Live' /\ prompted' \in Contexts /\ prompted' <= Len(inst')
<1>1. /\ prompted \in Contexts /\ prompted <= Len(inst) /\ Len(inst) \in Nat /\ Len(inst') \in Nat
      /\ Len(inst) <= Len(inst')
  <2>1. prompted \in Contexts /\ prompted <= Len(inst) /\ Tree(stack, inst)
    BY Trees DEF IInv, TypeOK, PromptOK
  <2>2. Tree(stack', inst') /\ Len(inst) <= Len(inst')
    BY DEF Sound, Local
  <2> QED BY <2>1, <2>2, TreeFacts
<1>2. prompted \notin Live'
  <2> SUFFICES ASSUME prompted \in Live' PROVE FALSE
    OBVIOUS
  <2>1. prompted # 0
    <3>1. Live' \subseteq 1..Len(inst')
      BY UnfoldedNext DEF LiveSet
    <3> QED BY <3>1, <1>1
  <2>2. prompted \in 1..Len(inst)
    BY <1>1, <2>1 DEF Contexts
  <2>3. prompted \in Live
    BY <2>2 DEF Sound
  <2> QED BY <2>3
<1>3. prompted <= Len(inst')
  BY <1>1 DEF Contexts
<1> QED BY <1>1, <1>2, <1>3

\* A call that goes on, but for one that ends a dialog, has no instance wait behind it.
LEMMA Unheard ==
  ASSUME IInv, calls # <<>>, ret = None, Top.fn # "end"
  PROVE  prompted \notin Live
<1>1. None # "waiting" /\ None # "cancelled"
  BY DialogsAssumption
<1> QED BY <1>1 DEF IInv, PromptOK

\* The calls that wait, after any step of a call that they wait for.
LEMMA KeptOK ==
  ASSUME IInv, calls # <<>>, Kept, Sound, Len(calls') = Len(calls) - 1
  PROVE  CallsOK'
<1>1. Tree(stack, inst) /\ CallsOK /\ Local
  BY Trees DEF IInv, Sound
<1>2. \A i \in 1..Len(calls) - 1 : CallOK(i)'
  BY <1>1, KeptCalls
<1>3. Frames' = 1..Len(calls) - 1 /\ calls' \in Seq(Frame)
  BY DEF Frames, Kept
<1> QED BY <1>2, <1>3 DEF CallsOK

\* A call on a context is followed by another one.
LEMMA ChainStep ==
  ASSUME IInv, calls # <<>>, Top.fn \in Chain, Sound, Quiet, NEW c, c = Top.dc,
         NEW f \in Frame, calls' = Append(Front(calls), f), ret' = None, prompted' = prompted,
         f.fn \in {"begin", "step", "resume", "end"}, f.dc = c,
         f.fn = "begin" => stack[c] # <<>> /\ HasRoom(inst', f.id),
         f.fn = "step" => stack'[c] # <<>> /\ inst'[Last(stack'[c])].id \in Waterfalls,
         f.fn = "resume" => stack'[c] # <<>>,
         f.fn = "end" /\ stack'[c] # <<>> =>
           stack'[Last(stack'[c])] = <<>> \/ inst'[Last(stack'[c])].cut,
         FullOK',
         prompted \in Live' =>
           f.fn = "end" /\ stack'[c] # <<>> /\ LeafIn(stack', inst', Last(stack'[c])) = prompted
  PROVE  IInv'
<1>0. PICK N : N = Len(calls)
  OBVIOUS
<1>1. Tree(stack, inst) /\ CallsOK /\ ChildrenOK /\ Local /\ calls \in Seq(Frame) /\ TypeOK
  BY Trees DEF IInv, Sound, CallsOK
<1>2. /\ Kept /\ Len(calls') = N /\ calls'[N] = f /\ calls' # <<>> /\ Top' = f
  BY <1>0, <1>1, JumpShape
<1>3. N \in Nat /\ N > 0
  BY <1>0, <1>1, TopFacts
<1>4. CallOK(N)'
  <2>1. /\ f.fn \in Chain \ {"continue"} /\ f.dc = Top.dc
        /\ f.fn = "begin" => stack[Top.dc] # <<>>
        /\ f.fn # "cancelled"
        /\ N < Len(calls') => f.fn \in Waits
        /\ Len(calls') >= N
    BY <1>2, <1>3 DEF Chain
  <2> QED BY <1>0, <1>1, <1>2, <2>1, ChainCall
<1>5. CallsOK'
  <2>1. \A i \in 1..N - 1 : CallOK(i)'
    BY <1>0, <1>1, <1>2, KeptCalls
  <2>2. \A i \in Frames' : i \in 1..N - 1 \/ i = N
    BY <1>2, <1>3 DEF Frames
  <2> QED BY <1>2, <1>4, <2>1, <2>2 DEF CallsOK, Kept
<1>6. ChildrenOK'
  <2>1. \A i \in 1..N - 1 : ChildOK(i)'
    <3>1. Len(calls') >= N /\ calls'[N].fn \in Chain \union {"cancel"} /\ calls'[N].dc = c
      BY <1>2, <1>3 DEF Chain
    <3> QED BY <1>0, <1>1, <1>2, <3>1, KeptChildren
  <2>2. ChildOK(N)'
    BY <1>2 DEF ChildOK
  <2>3. \A i \in Frames' : i \in 1..N - 1 \/ i = N
    BY <1>2, <1>3 DEF Frames
  <2> QED BY <2>1, <2>2, <2>3 DEF ChildrenOK
<1>7. RunningOK'
  <2>1. Top'.fn \in Runs /\ Top'.fn # "continue" /\ Top'.dc = c
    BY <1>2 DEF Runs
  <2> QED BY <1>2, <2>1 DEF RunningOK, Active, Bare, IdOf, HasRoom
<1>8. ReturnedOK'
  BY DEF ReturnedOK
<1>9. prompted' \in Contexts /\ prompted' <= Len(inst')
  <2>1. prompted \in Contexts /\ prompted <= Len(inst)
    BY DEF IInv, TypeOK, PromptOK
  <2>2. Len(inst) \in Nat /\ Len(inst') \in Nat /\ Len(inst) <= Len(inst')
    BY <1>1, TreeFacts DEF Local
  <2> QED BY <2>1, <2>2 DEF Contexts
<1>10. PromptOK'
  <2>1. prompted' \in Live' => Top'.fn = "end" /\ Leaving(c)'
    <3>1. PICK m : m = Last(stack'[c])
      OBVIOUS
    <3>2. Leaf(m)' = LeafIn(stack', inst', m)
      BY UnfoldedNext
    <3> QED BY <1>2, <3>1, <3>2 DEF Leaving, Active
  <2>2. Top'.dc = c
    BY <1>2
  <2> QED BY <1>9, <2>1, <2>2 DEF PromptOK, Leaving
<1> QED BY <1>2, <1>5, <1>6, <1>7, <1>8, <1>9, <1>10, WorkStep

\* A call of a turn's dialogs has a call to return to.
LEMMA HasCaller ==
  ASSUME IInv, calls # <<>>, Top.fn \in Chain \union {"cancel", "ending"}, NEW N, N = Len(calls)
  PROVE  /\ N \in Nat /\ N > 1 /\ N - 1 \in 1..N - 1 /\ N - 1 \in Frames /\ Top = calls[N]
         /\ Over(calls[N - 1], Top) /\ CallOK(N) /\ CallOK(N - 1) /\ N - 1 < Len(calls)
         /\ calls[N - 1] \in Frame
<1>1. calls \in Seq(Frame) /\ CallsOK
  BY DEF IInv, CallsOK
<1>2. N \in Nat /\ N > 0 /\ N \in Frames /\ Top = calls[N] /\ CallOK(N)
  BY <1>1, TopFacts DEF CallsOK
<1>3. N # 1
  BY <1>2 DEF CallOK, Chain
<1>4. N - 1 \in 1..N - 1 /\ N - 1 \in Frames
  BY <1>2, <1>3 DEF Frames
<1>5. Over(calls[N - 1], Top)
  BY <1>2, <1>3 DEF CallOK
<1> QED BY <1>1, <1>2, <1>3, <1>4, <1>5, TopFacts DEF CallsOK

\* A call on a context returns that a dialog waits.
LEMMA WaitStep ==
  ASSUME IInv, calls # <<>>, Top.fn \in Chain, Sound, Quiet, NEW c, c = Top.dc,
         calls' = Front(calls), ret' = "waiting",
         stack'[c] # <<>>, prompted' \in Contexts, prompted' <= Len(inst'),
         prompted' \in Live' => LeafIn(stack', inst', Last(stack'[c])) = prompted',
         FullOK'
  PROVE  IInv'
<1>0. PICK N : N = Len(calls)
  OBVIOUS
<1>1. /\ Tree(stack, inst) /\ CallsOK /\ ChildrenOK /\ Local /\ calls \in Seq(Frame)
      /\ Tree(stack', inst')
  BY Trees DEF IInv, Sound, CallsOK
<1>2. /\ N \in Nat /\ N > 1 /\ N - 1 \in 1..N - 1 /\ N - 1 \in Frames /\ Top = calls[N]
      /\ Over(calls[N - 1], Top)
  BY <1>0, HasCaller
<1>3. PICK g : g = calls[N - 1]
  OBVIOUS
<1>4. Kept /\ Len(calls') = N - 1 /\ calls' # <<>> /\ Top' = g
  BY <1>0, <1>1, <1>2, <1>3, ReturnShape
<1>5. CallsOK'
  BY <1>0, <1>4, KeptOK
<1>6. ChildrenOK'
  <2>1. \A i \in 1..N - 1 : ChildOK(i)'
    BY <1>0, <1>1, <1>4, KeptChildren
  <2> QED BY <1>4, <2>1 DEF ChildrenOK, Frames
<1>7. RunningOK'
  BY DialogsAssumption DEF RunningOK
<1>8. /\ g.fn \in Waits
      /\ g.dc = c \/ (g.fn = "component" /\ c # 0 /\ inst[c].on = g.dc)
      /\ g.fn = "component" => c # 0 /\ inst[c].on = g.dc
  <2>1. g.fn = "run" => g.dc = 0
    BY <1>0, <1>3, HasCaller DEF CallOK
  <2> QED BY <1>2, <1>3, <2>1 DEF Over, Waits, Chain, On
<1>9. Tree(stack, inst) /\ c \in Contexts /\ (c # 0 => /\ c \in 1..Len(inst)
        /\ inst'[c].id \in Components /\ inst[c].on \in Contexts
        /\ stack'[inst[c].on] = stack[inst[c].on] /\ c \in 1..Len(inst'))
  <2>1. /\ c \in Contexts /\ Len(inst) \in Nat /\ Len(inst') \in Nat /\ Len(inst) <= Len(inst')
        /\ c # 0 => /\ c \in 1..Len(inst) /\ inst[c].id \in Components
                    /\ inst'[c].id = inst[c].id /\ inst[c].on \in Contexts
                    /\ stack'[inst[c].on] = stack[inst[c].on]
    BY <1>0, <1>1, <1>4, CallFacts
  <2> QED BY <1>1, <2>1
<1>10. c # 0 => stack[inst[c].on] # <<>> /\ Last(stack[inst[c].on]) = c
  <2>1. LinkOK(N) /\ Linked(calls[N])
    BY <1>0, <1>2, HasCaller DEF CallOK, Linked
  <2>2. stack[c] # <<>> \/ Top.fn = "begin"
    BY <1>1 DEF Local
  <2> QED BY <1>2, <2>1, <2>2 DEF LinkOK, Intact, Active, On
<1>11. c # 0 => LeafIn(stack', inst', c) = LeafIn(stack', inst', Last(stack'[c]))
  BY <1>1, <1>9, LeafUnfolds DEF Deeper
<1>12. PICK d : d = g.dc
  OBVIOUS
<1>13. PICK m : m = Last(stack'[d])
  OBVIOUS
<1>14. /\ stack'[d] # <<>> /\ (prompted' \in Live' => LeafIn(stack', inst', m) = prompted')
       /\ g.fn = "component" => m = c
  BY <1>8, <1>9, <1>10, <1>11, <1>12, <1>13
<1>15. Leaf(m)' = LeafIn(stack', inst', m)
  BY UnfoldedNext
<1>16. ReturnedOK'
  <2>1. Heard(d)'
    BY <1>13, <1>14, <1>15 DEF Heard, Active
  <2>2. g.fn = "component" => (stack[Active(d)] # <<>>)'
    BY <1>13, <1>14 DEF Active
  <2>3. Top'.dc = d
    BY <1>4, <1>12
  <2> QED BY <1>4, <1>8, <1>12, <2>1, <2>2, <2>3 DEF ReturnedOK, Waits
<1>17. PromptOK'
  BY DEF PromptOK
<1>18. ret' \in Status \union {None}
  BY DEF Status
<1> QED BY <1>4, <1>5, <1>6, <1>7, <1>16, <1>17, <1>18, WorkStep

\* A call on a context returns that none of its dialogs goes on.
LEMMA ReturnStep ==
  ASSUME IInv, calls # <<>>, Top.fn \in Chain, Sound, Quiet, NEW c, c = Top.dc,
         calls' = Front(calls), ret' \in {"empty", "complete", "cancelled"},
         stack'[c] = <<>> \/ (ret' = "cancelled" /\ Passed(c)'),
         ret' = "empty" => Top.fn = "continue" /\ (c = 0 => HasRoom(inst', RootDialog)),
         prompted' = prompted,
         prompted \in Live' => /\ ret' = "cancelled" /\ stack'[c] # <<>>
                               /\ LeafIn(stack', inst', Last(stack'[c])) = prompted,
         FullOK'
  PROVE  IInv'
<1>0. PICK N : N = Len(calls)
  OBVIOUS
<1>1. /\ Tree(stack, inst) /\ CallsOK /\ ChildrenOK /\ Local /\ calls \in Seq(Frame)
      /\ Tree(stack', inst')
  BY Trees DEF IInv, Sound, CallsOK
<1>2. /\ N \in Nat /\ N > 1 /\ N - 1 \in 1..N - 1 /\ N - 1 \in Frames /\ Top = calls[N]
      /\ Over(calls[N - 1], Top)
  BY <1>0, HasCaller
<1>3. PICK g : g = calls[N - 1]
  OBVIOUS
<1>4. Kept /\ Len(calls') = N - 1 /\ calls' # <<>> /\ Top' = g
  BY <1>0, <1>1, <1>2, <1>3, ReturnShape
<1>5. CallsOK'
  BY <1>0, <1>4, KeptOK
<1>6. ChildrenOK'
  <2>1. \A i \in 1..N - 1 : ChildOK(i)'
    <3>1. stack'[c] = <<>> \/ (c # 0 => inst'[c].cut)
      BY DEF Passed
    <3> QED BY <1>0, <1>1, <1>4, <3>1, KeptChildren
  <2> QED BY <1>4, <2>1 DEF ChildrenOK, Frames
<1>7. RunningOK'
  BY DialogsAssumption DEF RunningOK
<1>8. /\ g.fn \in Waits
      /\ g.dc = c \/ (g.fn = "component" /\ c # 0 /\ inst[c].on = g.dc)
      /\ g.fn = "component" => c # 0 /\ inst[c].on = g.dc
      /\ g.fn = "run" => g.dc = 0
      /\ g.fn = "cancelled" => Top.fn # "continue"
  <2>1. g.fn = "run" => g.dc = 0
    BY <1>0, <1>3, HasCaller DEF CallOK
  <2> QED BY <1>2, <1>3, <2>1 DEF Over, Waits, Chain, On
<1>9. c \in Contexts /\ (c # 0 => /\ c \in 1..Len(inst)
        /\ inst'[c].id \in Components /\ inst[c].on \in Contexts
        /\ stack'[inst[c].on] = stack[inst[c].on] /\ c \in 1..Len(inst'))
  <2>1. /\ c \in Contexts /\ Len(inst) \in Nat /\ Len(inst') \in Nat /\ Len(inst) <= Len(inst')
        /\ c # 0 => /\ c \in 1..Len(inst) /\ inst[c].id \in Components
                    /\ inst'[c].id = inst[c].id /\ inst[c].on \in Contexts
                    /\ stack'[inst[c].on] = stack[inst[c].on]
    BY <1>0, <1>1, <1>4, CallFacts
  <2> QED BY <1>1, <2>1
<1>10. c # 0 /\ stack'[c] # <<>> => stack[inst[c].on] # <<>> /\ Last(stack[inst[c].on]) = c
  <2>1. LinkOK(N) /\ Linked(calls[N])
    BY <1>0, <1>2, HasCaller DEF CallOK, Linked
  <2>2. stack'[c] # <<>> => stack[c] # <<>> \/ Top.fn = "begin"
    BY <1>1 DEF Local
  <2> QED BY <1>2, <2>1, <2>2 DEF LinkOK, Intact, Active, On
<1>11. PICK d : d = g.dc
  OBVIOUS
<1>12. PICK m : m = Last(stack'[d])
  OBVIOUS
<1>13. prompted \in Live' => stack'[d] # <<>> /\ LeafIn(stack', inst', m) = prompted
  <2> SUFFICES ASSUME prompted \in Live'
               PROVE  stack'[d] # <<>> /\ LeafIn(stack', inst', m) = prompted
    OBVIOUS
  <2>1. stack'[c] # <<>> /\ LeafIn(stack', inst', Last(stack'[c])) = prompted
    OBVIOUS
  <2>2. CASE g.fn = "component"
    <3>1. stack'[d] # <<>> /\ m = c /\ c # 0
      BY <1>8, <1>9, <1>10, <1>11, <1>12, <2>1, <2>2
    <3>2. LeafIn(stack', inst', c) = LeafIn(stack', inst', Last(stack'[c]))
      BY <1>1, <1>9, <2>1, <3>1, LeafUnfolds DEF Deeper
    <3> QED BY <2>1, <3>1, <3>2
  <2>3. CASE g.fn # "component"
    BY <1>8, <1>11, <1>12, <2>1, <2>3
  <2> QED BY <2>2, <2>3
<1>14. Leaf(m)' = LeafIn(stack', inst', m)
  BY UnfoldedNext
<1>15. ReturnedOK'
  <2>1. Top'.dc = d /\ Top'.fn = g.fn
    BY <1>4, <1>11
  <2>2. g.fn = "run" => c = 0 /\ (stack'[0] = <<>> \/ (ret' = "cancelled" /\ spared'))
    BY <1>8, <1>11 DEF Passed
  <2>3. ret' = "empty" => Top.fn = "continue" /\ g.fn # "cancelled"
    BY <1>8
  <2> QED BY <1>4, <1>8, <2>1, <2>2, <2>3 DEF ReturnedOK, Waits, HasRoom
<1>16. PromptOK'
  <2>1. prompted \in Live' => Leaving(d)'
    BY <1>12, <1>13, <1>14 DEF Leaving, Active
  <2>2. prompted' <= Len(inst')
    <3>1. prompted \in Contexts /\ prompted <= Len(inst)
      BY DEF IInv, TypeOK, PromptOK
    <3>2. Len(inst) \in Nat /\ Len(inst') \in Nat /\ Len(inst) <= Len(inst')
      BY <1>1, TreeFacts DEF Local
    <3> QED BY <3>1, <3>2 DEF Contexts
  <2>3. Top'.dc = d /\ Top'.fn = g.fn
    BY <1>4, <1>11
  <2> QED BY <1>8, <2>1, <2>2, <2>3 DEF PromptOK, Waits
<1>17. ret' \in Status \union {None} /\ prompted' \in Contexts
  BY DEF Status, IInv, TypeOK
<1> QED BY <1>4, <1>5, <1>6, <1>7, <1>15, <1>16, <1>17, WorkStep

\* A call on a component calls for the dialogs of the component.
LEMMA EnterStep ==
  ASSUME IInv, calls # <<>>, Top.fn \in Chain \ {"end"}, Sound, Quiet, NEW c, c = Top.dc,
         NEW g \in Frame, NEW f \in Frame, calls' = Front(calls) \o <<g, f>>, ret' = None,
         prompted' = prompted, g.fn = "component", g.dc = c,
         f.fn \in {"begin", "continue"} \/ (f.fn = "cancel" /\ f.linked),
         stack'[c] # <<>>, f.dc = Last(stack'[c]), inst'[f.dc].id \in Components,
         f.fn = "begin" => HasRoom(inst', f.id),
         FullOK', prompted \notin Live'
  PROVE  IInv'
<1>0. PICK N : N = Len(calls)
  OBVIOUS
<1>1. /\ Tree(stack, inst) /\ CallsOK /\ ChildrenOK /\ Local /\ calls \in Seq(Frame)
      /\ Tree(stack', inst')
  BY Trees DEF IInv, Sound, CallsOK
<1>2. /\ Kept /\ Len(calls') = N + 1 /\ calls'[N] = g /\ calls'[N + 1] = f
      /\ calls' # <<>> /\ Top' = f
  BY <1>0, <1>1, EnterShape
<1>3. N \in Nat /\ N > 0
  BY <1>0, <1>1, TopFacts
<1>4. CallOK(N)'
  <2>1. /\ g.fn \in Chain \ {"continue"} /\ g.dc = Top.dc /\ Top.fn \in Chain
        /\ g.fn = "begin" => stack[Top.dc] # <<>>
        /\ g.fn # "cancelled"
        /\ N < Len(calls') => g.fn \in Waits
        /\ Len(calls') >= N
    BY <1>2, <1>3 DEF Chain, Waits
  <2> QED BY <1>0, <1>1, <1>2, <2>1, ChainCall
<1>5. CallOK(N + 1)'
  <2>1. Top.fn \in Chain /\ stack'[Top.dc] # <<>> /\ f.dc = Last(stack'[Top.dc]) /\ g.dc = Top.dc
    OBVIOUS
  <2> QED BY <1>0, <1>1, <1>2, <2>1, InnerCall
<1>6. \A i \in Frames' : i \in 1..N - 1 \/ i = N \/ i = N + 1
  BY <1>2, <1>3 DEF Frames
<1>7. CallsOK'
  <2>1. \A i \in 1..N - 1 : CallOK(i)'
    BY <1>0, <1>1, <1>2, KeptCalls
  <2> QED BY <1>2, <1>4, <1>5, <1>6, <2>1 DEF CallsOK, Kept
<1>8. ChildrenOK'
  <2>1. \A i \in 1..N - 1 : ChildOK(i)'
    <3>1. Top.fn \in Chain /\ Len(calls') >= N /\ calls'[N].fn \in Chain \union {"cancel"} /\ calls'[N].dc = c
      BY <1>2, <1>3 DEF Chain
    <3> QED BY <1>0, <1>1, <1>2, <3>1, KeptChildren
  <2>2. ChildOK(N)'
    <3>1. N < Len(calls')
      BY <1>2, <1>3
    <3>2. calls'[N + 1].fn \in Chain \union {"cancel"} /\ calls'[N + 1].dc = Last(stack'[calls'[N].dc])
      BY <1>2 DEF Chain
    <3> QED BY <3>1, <3>2 DEF ChildOK, Active
  <2>3. ChildOK(N + 1)'
    BY <1>2 DEF ChildOK
  <2> QED BY <1>6, <2>1, <2>2, <2>3 DEF ChildrenOK
<1>9. f.dc # 0
  <2>1. c \in Contexts
    BY <1>1, TopFacts
  <2> QED BY <1>1, <2>1, TreeFacts
<1>10. RunningOK'
  BY <1>2, <1>9 DEF RunningOK, Runs, HasRoom
<1>11. ReturnedOK'
  BY DEF ReturnedOK
<1>12. prompted' \in Contexts /\ prompted' <= Len(inst')
  <2>1. prompted \in Contexts /\ prompted <= Len(inst)
    BY DEF IInv, TypeOK, PromptOK
  <2>2. Len(inst) \in Nat /\ Len(inst') \in Nat /\ Len(inst) <= Len(inst')
    BY <1>1, TreeFacts DEF Local
  <2> QED BY <2>1, <2>2 DEF Contexts
<1>13. PromptOK'
  BY <1>12 DEF PromptOK
<1> QED BY <1>2, <1>7, <1>8, <1>10, <1>11, <1>12, <1>13, WorkStep

\* A cancellation begins, or goes on.
LEMMA CancelStep ==
  ASSUME IInv, calls # <<>>, Sound, Quiet, NEW c, c = Top.dc,
         NEW f \in Frame, calls' = Append(Front(calls), f), ret' = None,
         prompted' = prompted, f.fn = "cancel",
         \/ Top.fn = "step" /\ f.linked /\ stack[c] # <<>> /\ f.dc = c
         \/ Top.fn = "cancel" /\ f.linked = Top.linked /\ f.dc = c
         \/ /\ Top.fn = "cancel" /\ Top.linked /\ f.linked /\ c # 0 /\ f.dc = inst[c].on
            /\ stack[c] = <<>> /\ UNCHANGED <<stack, inst>>,
         FullOK', prompted \notin Live'
  PROVE  IInv'
<1>0. PICK N : N = Len(calls)
  OBVIOUS
<1>1. Tree(stack, inst) /\ CallsOK /\ ChildrenOK /\ Local /\ calls \in Seq(Frame)
  BY Trees DEF IInv, Sound, CallsOK
<1>2. /\ Kept /\ Len(calls') = N /\ calls'[N] = f /\ calls' # <<>> /\ Top' = f
  BY <1>0, <1>1, JumpShape
<1>3. N \in Nat /\ N > 0 /\ Len(calls') >= N
  BY <1>0, <1>1, <1>2, TopFacts
<1>4. CallOK(N)'
  <2>1. CASE \/ Top.fn = "step" /\ f.linked /\ stack[c] # <<>> /\ f.dc = c
             \/ Top.fn = "cancel" /\ f.linked = Top.linked /\ f.dc = c
    BY <1>0, <1>1, <1>2, <1>3, <2>1, CancelCallOK
  <2>2. CASE /\ Top.fn = "cancel" /\ Top.linked /\ f.linked /\ c # 0 /\ f.dc = inst[c].on
             /\ stack[c] = <<>> /\ UNCHANGED <<stack, inst>>
    BY <1>0, <1>1, <1>2, <1>3, <2>2, UpCallOK
  <2> QED BY <2>1, <2>2
<1>5. \A i \in Frames' : i \in 1..N - 1 \/ i = N
  BY <1>2, <1>3 DEF Frames
<1>6. CallsOK'
  <2>1. \A i \in 1..N - 1 : CallOK(i)'
    BY <1>0, <1>1, <1>2, KeptCalls
  <2> QED BY <1>2, <1>4, <1>5, <2>1 DEF CallsOK, Kept
<1>7. ChildrenOK'
  <2>1. \A i \in 1..N - 1 : ChildOK(i)'
    <3>1. CASE Top.fn = "step"
      <4>1. Top.fn \in Chain /\ calls'[N].fn \in Chain \union {"cancel"} /\ calls'[N].dc = c
        BY <1>2, <3>1 DEF Chain
      <4> QED BY <1>0, <1>1, <1>2, <1>3, <4>1, KeptChildren
    <3>2. CASE Top.fn = "cancel"
      <4>1. calls'[N].fn = "cancel" /\ (calls'[N].dc = c \/ (c # 0 /\ calls'[N].dc = inst[c].on))
        BY <1>2, <3>2
      <4> QED BY <1>0, <1>1, <1>2, <1>3, <3>2, <4>1, CancelChildren
    <3> QED BY <3>1, <3>2
  <2>2. ChildOK(N)'
    BY <1>2 DEF ChildOK
  <2> QED BY <1>5, <2>1, <2>2 DEF ChildrenOK
<1>8. RunningOK'
  BY <1>2 DEF RunningOK, Runs
<1>9. ReturnedOK'
  BY DEF ReturnedOK
<1>10. prompted' \in Contexts /\ prompted' <= Len(inst')
  <2>1. prompted \in Contexts /\ prompted <= Len(inst)
    BY DEF IInv, TypeOK, PromptOK
  <2>2. Len(inst) \in Nat /\ Len(inst') \in Nat /\ Len(inst) <= Len(inst')
    BY <1>1, TreeFacts DEF Local
  <2> QED BY <2>1, <2>2 DEF Contexts
<1>11. PromptOK'
  BY <1>10 DEF PromptOK
<1> QED BY <1>2, <1>6, <1>7, <1>8, <1>9, <1>10, <1>11, WorkStep

\* A cancellation is done.
LEMMA CancelReturn ==
  ASSUME IInv, calls # <<>>, Top.fn = "cancel", Sound, Quiet, NEW c, c = Top.dc,
         calls' = Front(calls), ret' = "cancelled", prompted' = prompted, UNCHANGED stack,
         \/ stack[c] = <<>>
         \/ Passed(c)' /\ inst'[Last(stack[c])].cut,
         FullOK', prompted \notin Live'
  PROVE  IInv'
<1>0. PICK N : N = Len(calls)
  OBVIOUS
<1>1. /\ Tree(stack, inst) /\ CallsOK /\ ChildrenOK /\ Local /\ calls \in Seq(Frame)
  BY Trees DEF IInv, Sound, CallsOK
<1>2. /\ N \in Nat /\ N > 1 /\ N - 1 \in 1..N - 1 /\ N - 1 \in Frames /\ Top = calls[N]
      /\ Over(calls[N - 1], Top) /\ calls[N - 1] \in Frame
  BY <1>0, HasCaller
<1>3. PICK g : g = calls[N - 1]
  OBVIOUS
<1>4. Kept /\ Len(calls') = N - 1 /\ calls' # <<>> /\ Top' = g
  BY <1>0, <1>1, <1>2, <1>3, ReturnShape
<1>5. CallsOK'
  BY <1>0, <1>4, KeptOK
<1>6. ChildrenOK'
  <2>1. \A i \in 1..N - 1 : ChildOK(i)'
    <3>1. /\ Top.fn = "cancel" /\ Len(calls') = N - 1 /\ UNCHANGED stack
          /\ stack[c] = <<>> \/ (c # 0 => inst'[c].cut)
          /\ stack[c] # <<>> => inst'[Last(stack[c])].cut
      BY <1>4 DEF Passed
    <3> QED BY <1>0, <1>1, <1>4, <3>1, CancelChildren
  <2> QED BY <1>4, <2>1 DEF ChildrenOK, Frames
<1>7. RunningOK'
  BY DialogsAssumption DEF RunningOK
<1>8. PICK d : d = g.dc
  OBVIOUS
<1>9. /\ g.fn \in {"run", "component", "cancelled", "ending"}
      /\ g.fn = "run" => c = 0
      /\ g.fn = "ending" => stack[d] # <<>> /\ Last(stack[d]) = c /\ d \in Contexts
  <2>1. g.dc \in Contexts
    BY <1>1, <1>2, <1>3, TopFacts
  <2> QED BY <1>2, <1>3, <1>8, <2>1 DEF Over, Chain, Active
<1>10. g.fn = "ending" => stack'[d] # <<>> /\ (stack[c] = <<>> \/ inst'[c].cut)
  <2>1. g.fn = "ending" => c # 0
    BY <1>1, <1>9, TreeFacts
  <2> QED BY <1>9, <2>1 DEF Passed
<1>11. ReturnedOK'
  <2>1. Top'.dc = d /\ Top'.fn = g.fn
    BY <1>4, <1>8
  <2>2. g.fn = "ending" => (stack[d] # <<>> /\ Bare(Active(d)))'
    BY <1>9, <1>10 DEF Bare, Active
  <2>3. g.fn = "run" => stack'[0] = <<>> \/ spared'
    BY <1>9 DEF Passed
  <2> QED BY <1>4, <1>9, <2>1, <2>2, <2>3 DEF ReturnedOK, Waits
<1>12. prompted' \in Contexts /\ prompted' <= Len(inst')
  <2>1. prompted \in Contexts /\ prompted <= Len(inst)
    BY DEF IInv, TypeOK, PromptOK
  <2>2. Len(inst) \in Nat /\ Len(inst') \in Nat /\ Len(inst) <= Len(inst')
    BY <1>1, TreeFacts DEF Local, Sound
  <2> QED BY <2>1, <2>2 DEF Contexts
<1>13. PromptOK'
  BY <1>12 DEF PromptOK
<1>14. ret' \in Status \union {None}
  BY DEF Status
<1> QED BY <1>4, <1>5, <1>6, <1>7, <1>11, <1>12, <1>13, <1>14, WorkStep

\* A cancellation ends a component, which cancels its own dialogs first.
LEMMA EndingStep ==
  ASSUME IInv, calls # <<>>, Top.fn = "cancel", Sound, Quiet, NEW c, c = Top.dc,
         UNCHANGED <<stack, inst>>, stack[c] # <<>>,
         NEW f \in Frame, NEW g \in Frame, NEW h \in Frame,
         calls' = Front(calls) \o <<f, g, h>>, ret' = None, prompted' = prompted,
         f.fn = "cancel", f.dc = c, f.linked = Top.linked,
         g.fn = "ending", g.dc = c,
         h.fn = "cancel", ~h.linked, h.dc = Active(c), inst[h.dc].id \in Components,
         FullOK', prompted \notin Live'
  PROVE  IInv'
<1>0. PICK N : N = Len(calls)
  OBVIOUS
<1>1. Tree(stack, inst) /\ CallsOK /\ ChildrenOK /\ Local /\ calls \in Seq(Frame)
  BY Trees DEF IInv, Sound, CallsOK
<1>2. /\ Kept /\ Len(calls') = N + 2 /\ calls'[N] = f /\ calls'[N + 1] = g /\ calls'[N + 2] = h
      /\ calls' # <<>> /\ Top' = h
  BY <1>0, <1>1, CancelShape
<1>3. N \in Nat /\ N > 0 /\ Len(calls') >= N
  BY <1>0, <1>1, <1>2, TopFacts
<1>4. CallOK(N)'
  BY <1>0, <1>1, <1>2, <1>3, CancelCallOK
<1>5. CallOK(N + 1)' /\ CallOK(N + 2)'
  <2>1. h.dc = Active(Top.dc) /\ f.dc = Top.dc /\ g.dc = Top.dc /\ stack[Top.dc] # <<>>
    OBVIOUS
  <2> QED BY <1>0, <1>1, <1>2, <2>1, EndingCallOK
<1>6. \A i \in Frames' : i \in 1..N - 1 \/ i = N \/ i = N + 1 \/ i = N + 2
  BY <1>2, <1>3 DEF Frames
<1>7. CallsOK'
  <2>1. \A i \in 1..N - 1 : CallOK(i)'
    BY <1>0, <1>1, <1>2, KeptCalls
  <2> QED BY <1>2, <1>4, <1>5, <1>6, <2>1 DEF CallsOK, Kept
<1>8. ChildrenOK'
  <2>1. \A i \in 1..N - 1 : ChildOK(i)'
    BY <1>0, <1>1, <1>2, <1>3, CancelChildren
  <2>2. ChildOK(N)' /\ ChildOK(N + 1)' /\ ChildOK(N + 2)'
    BY <1>2 DEF ChildOK
  <2> QED BY <1>6, <2>1, <2>2 DEF ChildrenOK
<1>9. RunningOK'
  BY <1>2 DEF RunningOK, Runs
<1>10. ReturnedOK'
  BY DEF ReturnedOK
<1>11. prompted' \in Contexts /\ prompted' <= Len(inst')
  BY DEF IInv, TypeOK, PromptOK
<1>12. PromptOK'
  BY <1>11 DEF PromptOK
<1> QED BY <1>2, <1>7, <1>8, <1>9, <1>10, <1>11, <1>12, WorkStep

-----------------------------------------------------------------------------
(* Each action keeps the invariant.                                        *)

\* A component is told that a cancellation has ended it.
LEMMA EndingReturnsKeeps ==
  ASSUME IInv, EndingReturns
  PROVE  IInv'
<1>0. PICK N, c : N = Len(calls) /\ c = Top.dc
  OBVIOUS
<1>1. /\ Tree(stack, inst) /\ CallsOK /\ ChildrenOK /\ calls \in Seq(Frame) /\ StacksOK
      /\ calls # <<>> /\ Top.fn = "ending" /\ ret # None /\ FullOK
  BY Trees DEF IInv, CallsOK, EndingReturns, Returns
<1>2. /\ N \in Nat /\ N > 1 /\ N - 1 \in 1..N - 1 /\ N - 1 \in Frames /\ Top = calls[N]
      /\ Over(calls[N - 1], Top) /\ calls[N - 1] \in Frame
  BY <1>0, <1>1, HasCaller
<1>3. PICK g : g = calls[N - 1]
  OBVIOUS
<1>4. g.fn = "cancel" /\ g.dc = c
  BY <1>0, <1>1, <1>2, <1>3 DEF Over, Chain
<1>5. Kept /\ Len(calls') = N - 1 /\ calls' # <<>> /\ Top' = g /\ ret' = None
  BY <1>0, <1>1, <1>2, <1>3, ReturnShape DEF EndingReturns
<1>6. PICK m : m = Last(stack[c])
  OBVIOUS
<1>7. /\ c \in Contexts /\ stack[c] # <<>> /\ (stack[m] = <<>> \/ inst[m].cut)
      /\ m \in 1..Len(inst)
  <2>1. c \in Contexts
    BY <1>0, <1>1, TopFacts
  <2>2. stack[c] # <<>> /\ Bare(Active(c))
    BY <1>0, <1>1 DEF IInv, ReturnedOK
  <2> QED BY <1>1, <1>6, <2>1, <2>2, TreeFacts DEF Bare, Active
<1>8. inst' = Told(m) /\ Popped(stack, stack', c)
  BY <1>0, <1>6, <1>7 DEF EndingReturns, Pop, Popped, Active
<1>9. /\ Same(inst, inst') /\ inst'[m].told = inst[m].told + 1
      /\ \A n \in 1..Len(inst) : n # m => inst'[n].told = inst[n].told
      /\ \A n \in 1..Len(inst) : inst'[n].lost = inst[n].lost
  BY <1>1, <1>7, <1>8, ToldSame
<1>10. Sound
  <2>1. spared' \in {spared, TRUE}
    BY DEF EndingReturns
  <2> QED BY <1>0, <1>1, <1>6, <1>7, <1>8, <1>9, <2>1, PopSound
<1>11. CallsOK'
  BY <1>0, <1>1, <1>5, <1>10, KeptOK
<1>12. ChildrenOK'
  <2>1. \A i \in 1..N - 1 : ChildOK(i)'
    BY <1>0, <1>1, <1>5, <1>10, CancelChildren DEF Sound
  <2> QED BY <1>5, <2>1 DEF ChildrenOK, Frames
<1>13. FullOK'
  <2>1. c # 0 => /\ Intact(c)
                 /\ \E j \in 1..N - 1 : calls[j].fn \in {"component", "ending"} /\ calls[j].dc = inst[c].on
    <3> SUFFICES ASSUME c # 0 PROVE /\ Intact(c)
                    /\ \E j \in 1..N - 1 : calls[j].fn \in {"component", "ending"} /\ calls[j].dc = inst[c].on
      OBVIOUS
    <3>1. /\ Intact(c)
          /\ \E j \in 1..N - 1 - 1 : calls[j].fn \in {"component", "ending"} /\ calls[j].dc = inst[c].on
      BY <1>1, <1>2, <1>3, <1>4, CancelHome
    <3> QED BY <1>2, <3>1
  <2> QED BY <1>0, <1>1, <1>5, <1>8, <1>9, <1>10, <2>1, PopFull DEF Sound
<1>14. RunningOK'
  BY <1>4, <1>5 DEF RunningOK, Runs
<1>15. ReturnedOK'
  BY <1>5 DEF ReturnedOK
<1>16. prompted' = prompted /\ prompted \notin Live
  <2>1. ret # "waiting" /\ prompted' = prompted
    BY <1>1 DEF IInv, ReturnedOK, EndingReturns
  <2> QED BY <1>1, <2>1 DEF IInv, PromptOK
<1>17. prompted' \notin Live' /\ prompted' \in Contexts /\ prompted' <= Len(inst')
  BY <1>1, <1>10, <1>16, Untroubled
<1>18. PromptOK'
  BY <1>17 DEF PromptOK
<1>19. Quiet
  BY DEF EndingReturns, Quiet
<1>20. ret' \in Status \union {None}
  BY <1>5
<1> QED BY <1>1, <1>20, <1>5, <1>10, <1>11, <1>12, <1>13, <1>14, <1>15, <1>17, <1>18, <1>19, WorkStep

\* The call that runs, and the active dialog of its context.
LEMMA WorkFacts ==
  ASSUME IInv, calls # <<>>, NEW c, c = Top.dc, NEW m, m = Last(stack[c])
  PROVE  /\ Tree(stack, inst) /\ StacksOK /\ CallsOK /\ ChildrenOK /\ FullOK
         /\ calls \in Seq(Frame) /\ Top \in Frame /\ c \in Contexts /\ c \in 0..Len(inst)
         /\ Len(inst) \in Nat /\ Len(stack[c]) \in Nat
         /\ prompted \in Contexts /\ prompted <= Len(inst)
         /\ c # 0 => /\ c \in 1..Len(inst) /\ inst[c].id \in Components
                     /\ inst[c].on \in Contexts /\ inst[c].on < c
         /\ stack[c] # <<>> => /\ m \in 1..Len(inst) /\ inst[m].on = c /\ m \in Contexts
                               /\ m = Active(c) /\ m # 0 /\ m = stack[c][Len(stack[c])]
                               /\ Len(stack[c]) > 0 /\ Len(stack[c]) \in 1..Len(stack[c])
                               /\ inst[m] \in Instance
<1>1. Tree(stack, inst) /\ StacksOK /\ CallsOK /\ ChildrenOK /\ FullOK /\ calls \in Seq(Frame)
  BY Trees DEF IInv, CallsOK
<1>2. Top \in Frame /\ c \in Contexts /\ CallOK(Len(calls)) /\ Top = calls[Len(calls)]
  BY <1>1, TopFacts DEF CallsOK
<1>3. c \in 0..Len(inst) /\ (c # 0 => inst[c].id \in Components)
  BY <1>2 DEF CallOK, IdOf
<1>4. Len(inst) \in Nat /\ Len(stack[c]) \in Nat
  BY <1>1, <1>2, TreeFacts
<1>5. c # 0 => c \in 1..Len(inst) /\ inst[c].on \in Contexts /\ inst[c].on < c
  <2>1. c # 0 => c \in 1..Len(inst)
    BY <1>3, <1>4
  <2>2. c # 0 => inst[c] \in Instance /\ inst[c].on \in 0..c - 1
    BY <1>1, <2>1, TreeFacts
  <2>3. c \in Nat
    BY <1>3, <1>4
  <2> QED BY <2>1, <2>2, <2>3 DEF Instance
<1>6. stack[c] # <<>> => /\ m \in 1..Len(inst) /\ inst[m].on = c /\ m \in Contexts
                         /\ m = Active(c) /\ m # 0 /\ m = stack[c][Len(stack[c])]
                         /\ Len(stack[c]) > 0 /\ Len(stack[c]) \in 1..Len(stack[c])
                         /\ inst[m] \in Instance
  BY <1>1, <1>2, <1>4, TreeFacts DEF Active, Last
<1>7. prompted \in Contexts /\ prompted <= Len(inst)
  BY DEF IInv, TypeOK, PromptOK
<1> QED BY <1>1, <1>2, <1>3, <1>4, <1>5, <1>6, <1>7

\* A step that touches neither stacks nor instances.
LEMMA StillSound ==
  ASSUME Tree(stack, inst), StacksOK, UNCHANGED <<stack, inst>>, spared' \in {spared, TRUE}
  PROVE  /\ Sound /\ Same(inst, inst') /\ Live' = Live
         /\ \A n \in 1..Len(inst) : Descent(n)' = Descent(n) /\ Leaf(n)' = Leaf(n)
<1>1. /\ Same(inst, inst')
      /\ \A n \in 1..Len(inst) : inst'[n].told = inst[n].told /\ inst'[n].lost = inst[n].lost
  BY DEF Same, Tree
<1>2. /\ Sound
      /\ \A n \in 1..Len(inst) : Descent(n)' = Descent(n) /\ Leaf(n)' = Leaf(n)
  BY <1>1, StaySound
<1>3. Live' = Live
  BY Unfolded, UnfoldedNext
<1> QED BY <1>1, <1>2, <1>3

\* A cancellation that goes on is the same call.
LEMMA CancelFrame ==
  ASSUME NEW f \in Frame, f.fn = "cancel", NEW d \in Contexts
  PROVE  /\ f.linked \in BOOLEAN
         /\ Notified(f) \in Frame /\ Notified(f).fn = "cancel" /\ Notified(f).dc = f.dc
         /\ Notified(f).linked = f.linked
         /\ LET h == [Notified(f) EXCEPT !.dc = d] IN
              h \in Frame /\ h.fn = "cancel" /\ h.dc = d /\ h.linked = f.linked
<1>1. f \in [fn : {"cancel"}, dc : Contexts, linked : BOOLEAN, parents : BOOLEAN, notify : BOOLEAN]
  BY DEF Frame
<1>2. Notified(f) \in [fn : {"cancel"}, dc : Contexts, linked : BOOLEAN, parents : BOOLEAN, notify : BOOLEAN]
  BY <1>1 DEF Notified
<1>3. Notified(f).fn = "cancel" /\ Notified(f).dc = f.dc /\ Notified(f).linked = f.linked
  BY <1>1 DEF Notified
<1> DEFINE h == [Notified(f) EXCEPT !.dc = d]
<1>4. h \in [fn : {"cancel"}, dc : Contexts, linked : BOOLEAN, parents : BOOLEAN, notify : BOOLEAN]
  BY <1>2
<1>5. h.fn = "cancel" /\ h.dc = d /\ h.linked = f.linked
  BY <1>2, <1>3
<1> QED BY <1>1, <1>2, <1>3, <1>4, <1>5 DEF Frame

\* A cancellation goes on with the parent, or is done.
LEMMA CancelUpKeeps ==
  ASSUME IInv, CancelUp
  PROVE  IInv'
<1>0. PICK N, c, m : N = Len(calls) /\ c = Top.dc /\ m = Last(stack[c])
  OBVIOUS
<1>1. /\ calls # <<>> /\ ret = None /\ Top.fn = "cancel" /\ stack[c] = <<>>
      /\ UNCHANGED <<stack, inst, spared>>
  BY <1>0 DEF CancelUp, Executes, conversation
<1>2. /\ Tree(stack, inst) /\ StacksOK /\ CallsOK /\ ChildrenOK /\ FullOK
      /\ calls \in Seq(Frame) /\ Top \in Frame /\ c \in Contexts
      /\ c # 0 => inst[c].on \in Contexts
  BY <1>0, <1>1, WorkFacts
<1>3. Sound /\ Live' = Live
  BY <1>1, <1>2, StillSound
<1>4. prompted' = prompted /\ prompted \notin Live' /\ Quiet
  BY <1>1, <1>3, Unheard DEF CancelUp, Quiet, conversation
<1>5. CASE Top.parents /\ Top.linked /\ c # 0
  <2>1. PICK h : h = [Notified(Top) EXCEPT !.dc = inst[c].on]
    OBVIOUS
  <2>2. h \in Frame /\ h.fn = "cancel" /\ h.dc = inst[c].on /\ h.linked = Top.linked
    BY <1>1, <1>2, <1>5, <2>1, CancelFrame
  <2>3. calls' = Append(Front(calls), h) /\ ret' = None
    BY <1>0, <1>1, <1>5, <2>1 DEF CancelUp, Jump
  <2>4. Kept
    BY <1>1, <1>2, <2>2, <2>3, JumpShape
  <2>5. FullOK'
    BY <1>0, <1>1, <1>2, <1>3, <2>4, KeptFull DEF Sound
  <2> QED BY <1>0, <1>1, <1>3, <1>4, <1>5, <2>2, <2>3, <2>5, CancelStep
<1>6. CASE ~(Top.parents /\ Top.linked /\ c # 0)
  <2>1. calls' = Front(calls) /\ ret' = "cancelled"
    BY <1>0, <1>1, <1>6 DEF CancelUp, Return
  <2>2. Kept
    BY <1>1, <1>2, <2>1, ReturnShape
  <2>3. FullOK'
    BY <1>0, <1>1, <1>2, <1>3, <2>2, KeptFull DEF Sound
  <2> QED BY <1>0, <1>1, <1>3, <1>4, <2>1, <2>3, CancelReturn
<1> QED BY <1>5, <1>6

\* A dialog that handles the cancellation stays.
LEMMA CancelInterceptedKeeps ==
  ASSUME IInv, CancelIntercepted
  PROVE  IInv'
<1>0. PICK N, c, m : N = Len(calls) /\ c = Top.dc /\ m = Last(stack[c])
  OBVIOUS
<1>1. calls # <<>> /\ ret = None /\ Top.fn = "cancel" /\ stack[c] # <<>> /\ UNCHANGED stack
  BY <1>0 DEF CancelIntercepted, Executes
<1>2. /\ Tree(stack, inst) /\ StacksOK /\ CallsOK /\ ChildrenOK /\ FullOK
      /\ calls \in Seq(Frame) /\ Top \in Frame /\ c \in Contexts
      /\ m \in 1..Len(inst) /\ m = Active(c) /\ (c # 0 => c \in 1..Len(inst))
  BY <1>0, <1>1, WorkFacts
<1>3. /\ inst' = Cut({c, m})
      /\ spared \in BOOLEAN /\ spared' \in {spared, TRUE} /\ (c = 0 => spared')
  <2>1. inst' = Cut({c, m}) /\ spared' = (spared \/ 0 \in {c, m})
    BY <1>0, <1>2 DEF CancelIntercepted, Spares
  <2>2. spared \in BOOLEAN
    BY DEF IInv, TypeOK
  <2>3. spared' \in {spared, TRUE}
    BY <2>1, <2>2
  <2>4. c = 0 => spared'
    BY <2>1
  <2> QED BY <2>1, <2>2, <2>3, <2>4
<1>4. /\ Same(inst, inst')
      /\ \A n \in 1..Len(inst) : inst'[n].told = inst[n].told /\ inst'[n].lost = inst[n].lost
      /\ \A n \in 1..Len(inst) : n \in {c, m} => inst'[n].cut
  BY <1>2, <1>3, CutSame
<1>5. Sound
  BY <1>1, <1>2, <1>3, <1>4, StaySound
<1>6. calls' = Front(calls) /\ ret' = "cancelled" /\ prompted' = prompted /\ Quiet
  BY DEF CancelIntercepted, Return, Quiet
<1>7. prompted \notin Live'
  BY <1>1, <1>5, <1>6, Unheard, Untroubled
<1>8. FullOK'
  <2>1. Kept
    BY <1>1, <1>2, <1>6, ReturnShape
  <2> QED BY <1>0, <1>1, <1>2, <1>5, <2>1, KeptFull DEF Sound
<1>9. Passed(c)' /\ inst'[Last(stack[c])].cut
  BY <1>0, <1>2, <1>3, <1>4 DEF Passed
<1> QED BY <1>0, <1>1, <1>5, <1>6, <1>7, <1>8, <1>9, CancelReturn

\* A context is one of its own lineage.
LEMMA FindsItself ==
  ASSUME Tree(stack, inst), NEW c \in 0..Len(inst), NEW d, NEW linked, ~Found(c, d, linked)
  PROVE  d \notin DialogSet(inst, c)
<1>1. c \in Lineage(c)
  <2>1. c \in Parents(inst, LineageIn(inst), c)
    BY DEF Parents
  <2>2. LineageIn(inst)[c] = Parents(inst, LineageIn(inst), c)
    BY LineageUnfolds
  <2> QED BY <2>1, <2>2, Unfolded
<1>2. d \notin SetOf(c)
  BY <1>1 DEF Found
<1> QED BY <1>2, Unfolded

\* A dialog that is cancelled leaves its stack.
LEMMA CancelPops ==
  ASSUME IInv, Executes("cancel"), NEW c, c = Top.dc, stack[c] # <<>>,
         NEW m, m = Last(stack[c]), Pop(c), Jump(Notified(Top)), Same(inst, inst'),
         \A n \in 1..Len(inst) : n # m => inst'[n].told = inst[n].told,
         \/ inst'[m].told = inst[m].told + 1 /\ stack[m] = <<>>
         \/ inst'[m].told = inst[m].told /\ inst[m].id \notin DialogSet(inst, c),
         \A n \in 1..Len(inst) : inst'[n].lost = inst[n].lost, spared' \in {spared, TRUE},
         Quiet, prompted' = prompted
  PROVE  IInv'
<1>0. PICK N : N = Len(calls)
  OBVIOUS
<1>1. calls # <<>> /\ ret = None /\ Top.fn = "cancel"
  BY DEF Executes
<1>2. /\ Tree(stack, inst) /\ StacksOK /\ CallsOK /\ ChildrenOK /\ FullOK
      /\ calls \in Seq(Frame) /\ Top \in Frame /\ c \in Contexts
  BY <1>1, WorkFacts
<1>3. Popped(stack, stack', c)
  BY <1>2 DEF Pop, Popped
<1>4. Sound
  BY <1>2, <1>3, PopSound
<1>5. PICK h : h = Notified(Top)
  OBVIOUS
<1>6. h \in Frame /\ h.fn = "cancel" /\ h.dc = c /\ h.linked = Top.linked
  BY <1>1, <1>2, <1>5, CancelFrame
<1>7. calls' = Append(Front(calls), h) /\ ret' = None
  BY <1>5 DEF Jump
<1>8. prompted \notin Live'
  BY <1>1, <1>4, Unheard, Untroubled
<1>9. FullOK'
  <2>1. Kept
    BY <1>1, <1>2, <1>6, <1>7, JumpShape
  <2>2. N \in Frames /\ calls[N].fn = "cancel" /\ calls[N].dc = c
    BY <1>0, <1>1, <1>2, TopFacts
  <2>3. c # 0 => /\ Intact(c)
                 /\ \E j \in 1..N - 1 : calls[j].fn \in {"component", "ending"} /\ calls[j].dc = inst[c].on
    BY <1>2, <2>2, CancelHome
  <2> QED BY <1>0, <1>1, <1>2, <1>3, <1>4, <2>1, <2>3, PopFull DEF Sound
<1> QED BY <1>1, <1>4, <1>6, <1>7, <1>8, <1>9, CancelStep

\* A cancellation goes on with the next dialog.
LEMMA CancelOneKeeps ==
  ASSUME IInv, CancelOne
  PROVE  IInv'
<1>0. PICK N, c, m : N = Len(calls) /\ c = Top.dc /\ m = Last(stack[c])
  OBVIOUS
<1>1. calls # <<>> /\ ret = None /\ Top.fn = "cancel" /\ stack[c] # <<>> /\ Executes("cancel")
  BY <1>0 DEF CancelOne, Executes
<1>2. /\ Tree(stack, inst) /\ StacksOK /\ CallsOK /\ ChildrenOK /\ FullOK
      /\ calls \in Seq(Frame) /\ Top \in Frame /\ c \in Contexts /\ c \in 0..Len(inst)
      /\ m \in 1..Len(inst) /\ m \in Contexts /\ m = Active(c) /\ m # 0
  BY <1>0, <1>1, WorkFacts
<1>3. Quiet /\ prompted' = prompted /\ spared' \in {spared, TRUE}
  BY DEF CancelOne, Quiet
<1>4. ASSUME ~Found(c, inst[m].id, Top.linked), CancelUnknown(c) PROVE IInv'
  <2>1. Pop(c) /\ Jump(Notified(Top)) /\ inst' = inst
    BY <1>4 DEF CancelUnknown
  <2>2. /\ Same(inst, inst')
        /\ \A n \in 1..Len(inst) : inst'[n].told = inst[n].told /\ inst'[n].lost = inst[n].lost
    BY <1>2, <2>1 DEF Same, Tree
  <2>3. inst[m].id \notin DialogSet(inst, c)
    BY <1>2, <1>4, FindsItself
  <2> QED BY <1>0, <1>1, <1>2, <1>3, <2>1, <2>2, <2>3, CancelPops
<1>5. ASSUME inst[m].id \notin Components, CancelSimple(c) PROVE IInv'
  <2>1. Pop(c) /\ Jump(Notified(Top)) /\ inst' = Told(m)
    BY <1>2, <1>5 DEF CancelSimple
  <2>2. /\ Same(inst, inst') /\ inst'[m].told = inst[m].told + 1
        /\ \A n \in 1..Len(inst) : n # m => inst'[n].told = inst[n].told
        /\ \A n \in 1..Len(inst) : inst'[n].lost = inst[n].lost
    BY <1>2, <2>1, ToldSame
  <2>3. stack[m] = <<>>
    BY <1>2, <1>5, TreeFacts
  <2> QED BY <1>0, <1>1, <1>2, <1>3, <2>1, <2>2, <2>3, CancelPops
<1>6. ASSUME inst[m].id \in Components, CancelComponent(c) PROVE IInv'
  <2>1. PICK f, g, h : f = Notified(Top) /\ g = Call("ending", c) /\ h = CancelCall(m, FALSE, FALSE)
    OBVIOUS
  <2>2. calls' = Front(calls) \o <<f, g, h>> /\ ret' = None /\ UNCHANGED <<stack, inst>>
    BY <1>2, <1>6, <2>1 DEF CancelComponent
  <2>3. f \in Frame /\ f.fn = "cancel" /\ f.dc = c /\ f.linked = Top.linked
    BY <1>0, <1>1, <1>2, <2>1, CancelFrame
  <2>4. g \in Frame /\ g.fn = "ending" /\ g.dc = c
    BY <1>2, <2>1 DEF Call, Frame
  <2>5. h \in Frame /\ h.fn = "cancel" /\ ~h.linked /\ h.dc = m
    BY <1>2, <2>1 DEF CancelCall, Frame
  <2>6. Sound /\ Live' = Live
    BY <1>2, <1>3, <2>2, StillSound
  <2>7. prompted \notin Live'
    BY <1>1, <2>6, Unheard
  <2>8. FullOK'
    <3>1. Kept
      BY <1>1, <1>2, <2>2, <2>3, <2>4, <2>5, CancelShape
    <3> QED BY <1>0, <1>1, <1>2, <2>2, <2>6, <3>1, KeptFull DEF Sound
  <2>9. h.dc = Active(c) /\ inst[h.dc].id \in Components
    BY <1>2, <1>6, <2>5
  <2> QED BY <1>0, <1>1, <1>3, <2>2, <2>3, <2>4, <2>5, <2>6, <2>7, <2>8, <2>9, EndingStep
<1>7. \/ ~Found(c, inst[m].id, Top.linked) /\ CancelUnknown(c)
      \/ inst[m].id \notin Components /\ CancelSimple(c)
      \/ inst[m].id \in Components /\ CancelComponent(c)
  BY <1>0, <1>2 DEF CancelOne, IdOf
<1> QED BY <1>4, <1>5, <1>6, <1>7

\* beginDialog of a component that was cancelled at once returns.
LEMMA CancelledReturnsKeeps ==
  ASSUME IInv, CancelledReturns
  PROVE  IInv'
<1>0. PICK N, c, m : N = Len(calls) /\ c = Top.dc /\ m = Last(stack[c])
  OBVIOUS
<1>1. calls # <<>> /\ ret # None /\ Top.fn = "cancelled" /\ UNCHANGED <<stack, inst, spared>>
  BY DEF CancelledReturns, Returns, conversation
<1>2. /\ Tree(stack, inst) /\ StacksOK /\ CallsOK /\ ChildrenOK /\ FullOK
      /\ calls \in Seq(Frame) /\ Top \in Frame /\ c \in Contexts
      /\ stack[c] # <<>> => m \in 1..Len(inst) /\ m = Active(c)
  BY <1>0, <1>1, WorkFacts
<1>3. Sound /\ Live' = Live
  BY <1>1, <1>2, StillSound
<1>4. calls' = Front(calls) /\ ret' = "cancelled" /\ prompted' = prompted /\ Quiet
  BY DEF CancelledReturns, Return, Quiet, conversation
<1>5. Passed(c)'
  <2>1. CallOK(Len(calls)) /\ Top = calls[Len(calls)]
    BY <1>1, <1>2, TopFacts DEF CallsOK
  <2>2. Passed(c)
    BY <1>0, <1>1, <2>1 DEF CallOK
  <2> QED BY <1>1, <2>2 DEF Passed
<1>6. prompted \in Live => stack[c] # <<>> /\ LeafIn(stack, inst, m) = prompted
  <2> SUFFICES ASSUME prompted \in Live PROVE stack[c] # <<>> /\ Leaf(Active(c)) = prompted
    BY <1>2, Unfolded
  <2>1. CASE ret = "waiting"
    BY <1>0, <1>1, <2>1 DEF IInv, ReturnedOK, Heard
  <2>2. CASE ret # "waiting"
    BY <1>0, <1>1, <2>2 DEF IInv, PromptOK, Leaving
  <2> QED BY <2>1, <2>2
<1>7. FullOK'
  <2>1. Kept
    BY <1>1, <1>2, <1>4, ReturnShape
  <2> QED BY <1>0, <1>1, <1>2, <1>3, <2>1, KeptFull DEF Sound
<1>8. /\ ret' = "cancelled" /\ Passed(c)'
      /\ prompted \in Live' => /\ ret' = "cancelled" /\ stack'[c] # <<>>
                               /\ LeafIn(stack', inst', Last(stack'[c])) = prompted
  BY <1>0, <1>1, <1>3, <1>4, <1>5, <1>6
<1>9. Top.fn \in Chain /\ ret' \in {"empty", "complete", "cancelled"} /\ ret' # "empty"
  BY <1>1, <1>4 DEF Chain
<1> QED BY <1>0, <1>1, <1>3, <1>4, <1>7, <1>8, <1>9, ReturnStep

\* A component waits as its dialogs do.
LEMMA InnerWaitsKeeps ==
  ASSUME IInv, InnerWaits
  PROVE  IInv'
<1>0. PICK N, c, m : N = Len(calls) /\ c = Top.dc /\ m = Last(stack[c])
  OBVIOUS
<1>1. calls # <<>> /\ ret = "waiting" /\ Top.fn = "component" /\ UNCHANGED <<stack, inst, spared>>
  BY DEF InnerWaits, Returns, conversation
<1>2. ret # None
  BY <1>1, DialogsAssumption
<1>3. /\ Tree(stack, inst) /\ StacksOK /\ CallsOK /\ ChildrenOK /\ FullOK
      /\ calls \in Seq(Frame) /\ Top \in Frame /\ c \in Contexts
      /\ prompted \in Contexts /\ prompted <= Len(inst)
      /\ stack[c] # <<>> => /\ m \in 1..Len(inst) /\ m = Active(c)
                            /\ m = stack[c][Len(stack[c])]
  BY <1>0, <1>1, WorkFacts
<1>4. Sound /\ Live' = Live
  BY <1>1, <1>3, StillSound
<1>5. calls' = Front(calls) /\ ret' = "waiting" /\ prompted' = prompted /\ Quiet
  BY DEF InnerWaits, Return, Quiet, conversation
<1>6. stack[c] # <<>> /\ (prompted \in Live => Leaf(Active(c)) = prompted) /\ stack[Active(c)] # <<>>
  BY <1>0, <1>1, <1>2 DEF IInv, ReturnedOK, Heard
<1>7. stack'[c] # <<>> /\ (prompted' \in Live' => LeafIn(stack', inst', Last(stack'[c])) = prompted')
  BY <1>0, <1>1, <1>3, <1>4, <1>5, <1>6, Unfolded
<1>8. FullOK'
  <2>1. Kept
    BY <1>1, <1>3, <1>5, ReturnShape
  <2>2. ~Hollow(stack, inst, c, Len(stack[c]))
    BY <1>3, <1>6 DEF Hollow
  <2> QED BY <1>0, <1>1, <1>3, <1>4, <2>1, <2>2, KeptFull DEF Sound
<1>9. Top.fn \in Chain /\ Top.fn # "end" /\ prompted' \in Contexts /\ prompted' <= Len(inst')
  BY <1>1, <1>3, <1>5 DEF Chain
<1> QED BY <1>0, <1>1, <1>4, <1>5, <1>7, <1>8, <1>9, WaitStep

\* The active dialog ends: it has nothing below it that was not passed by.
LEMMA InnerIsBare ==
  ASSUME IInv, Returns("component"), ret # "waiting", NEW c, c = Top.dc,
         NEW m, m = Last(stack[c])
  PROVE  /\ stack[c] # <<>> => stack[m] = <<>> \/ inst[m].cut
         /\ prompted \in Live =>
              ret = "cancelled" /\ stack[c] # <<>> /\ LeafIn(stack, inst, m) = prompted
<1>1. calls # <<>> /\ ret # None /\ Top.fn = "component"
  BY DEF Returns
<1>2. /\ CallsOK /\ ChildrenOK /\ calls \in Seq(Frame)
      /\ stack[c] # <<>> => m = Active(c)
  BY <1>1, WorkFacts
<1>3. PICK N : N = Len(calls)
  OBVIOUS
<1>4. N \in Nat /\ N \in Frames /\ Top = calls[N]
  BY <1>1, <1>2, <1>3, TopFacts
<1>5. stack[c] # <<>> => Bare(Active(c))
  <2> SUFFICES ASSUME stack[c] # <<>> PROVE Bare(Active(c))
    OBVIOUS
  <2>1. ChildOK(N)
    BY <1>2, <1>4 DEF ChildrenOK
  <2>2. N + 1..Len(calls) = {} /\ ~(N < Len(calls))
    BY <1>3, <1>4
  <2> QED BY <1>1, <1>4, <2>1, <2>2 DEF ChildOK, Bare
<1>6. prompted \in Live => ret = "cancelled" /\ Leaving(c)
  BY <1>1 DEF IInv, PromptOK
<1> QED BY <1>2, <1>5, <1>6, Unfolded DEF Bare, Leaving

\* A component that was cancelled as it began ends, and its beginDialog goes on to return.
LEMMA CutStep ==
  ASSUME IInv, Returns("component"), ret # "waiting", NEW c, c = Top.dc,
         Enter(Call("cancelled", c), Call("end", c)), Spares({c}),
         UNCHANGED stack, Quiet, prompted' = prompted
  PROVE  IInv'
<1>0. PICK N, m : N = Len(calls) /\ m = Last(stack[c])
  OBVIOUS
<1>1. calls # <<>> /\ ret # None /\ Top.fn = "component"
  BY DEF Returns
<1>2. /\ Tree(stack, inst) /\ StacksOK /\ CallsOK /\ ChildrenOK /\ FullOK
      /\ calls \in Seq(Frame) /\ Top \in Frame /\ c \in Contexts /\ (c # 0 => c \in 1..Len(inst))
      /\ stack[c] # <<>> => m \in 1..Len(inst) /\ m = Active(c)
  BY <1>0, <1>1, WorkFacts
<1>3. /\ Same(inst, inst')
      /\ \A n \in 1..Len(inst) : inst'[n].told = inst[n].told /\ inst'[n].lost = inst[n].lost
      /\ \A n \in 1..Len(inst) : n \in {c} => inst'[n].cut
  BY <1>2, CutSame DEF Spares
<1>4. /\ Sound /\ (\A n \in 1..Len(inst) : Leaf(n)' = Leaf(n))
      /\ c = 0 => spared'
  <2>1. spared \in BOOLEAN /\ spared' = (spared \/ 0 \in {c})
    BY DEF IInv, TypeOK, Spares
  <2>2. spared' \in {spared, TRUE}
    BY <2>1
  <2>3. c = 0 => spared'
    BY <2>1
  <2> QED BY <1>2, <1>3, <2>2, <2>3, StaySound
<1>5. PICK f, g : f = Call("cancelled", c) /\ g = Call("end", c)
  OBVIOUS
<1>6. /\ f \in Frame /\ f.fn = "cancelled" /\ f.dc = c
      /\ g \in Frame /\ g.fn = "end" /\ g.dc = c
  BY <1>2, <1>5 DEF Call, Frame
<1>7. /\ Kept /\ Len(calls') = N + 1 /\ calls'[N] = f /\ calls'[N + 1] = g
      /\ calls' # <<>> /\ Top' = g /\ ret' = None
  BY <1>0, <1>1, <1>2, <1>5, <1>6, EnterShape DEF Enter
<1>8. N \in Nat /\ N > 0 /\ Local
  BY <1>0, <1>1, <1>2, <1>4, TopFacts DEF Sound
<1>9. CallOK(N)'
  <2>0. Passed(c)'
    BY <1>2, <1>3, <1>4 DEF Passed
  <2>1. /\ f.fn \in Chain \ {"continue"} /\ f.dc = Top.dc /\ Top.fn \in Chain
        /\ f.fn = "begin" => stack[Top.dc] # <<>>
        /\ f.fn = "cancelled" => Passed(f.dc)'
        /\ N < Len(calls') => f.fn \in Waits
        /\ Len(calls') >= N
    BY <1>1, <1>6, <1>7, <1>8, <2>0 DEF Chain, Waits
  <2> QED BY <1>0, <1>1, <1>2, <1>7, <1>8, <2>1, ChainCall
<1>10. CallOK(N + 1)'
  <2>1. f.dc = Top.dc /\ g.dc = Top.dc
    BY <1>6
  <2> QED BY <1>0, <1>1, <1>2, <1>6, <1>7, <1>8, <2>1, CutCallOK
<1>11. \A i \in Frames' : i \in 1..N - 1 \/ i = N \/ i = N + 1
  BY <1>7, <1>8 DEF Frames
<1>12. CallsOK'
  <2>1. \A i \in 1..N - 1 : CallOK(i)'
    BY <1>0, <1>1, <1>2, <1>7, <1>8, KeptCalls
  <2> QED BY <1>7, <1>9, <1>10, <1>11, <2>1 DEF CallsOK, Kept
<1>13. ChildrenOK'
  <2>1. \A i \in 1..N - 1 : ChildOK(i)'
    <3>1. Top.fn \in Chain /\ Len(calls') >= N /\ calls'[N].fn \in Chain \union {"cancel"} /\ calls'[N].dc = c
      BY <1>1, <1>6, <1>7, <1>8 DEF Chain
    <3> QED BY <1>0, <1>1, <1>2, <1>7, <1>8, <3>1, KeptChildren
  <2>2. ChildOK(N)' /\ ChildOK(N + 1)'
    BY <1>6, <1>7 DEF ChildOK
  <2> QED BY <1>11, <2>1, <2>2 DEF ChildrenOK
<1>14. FullOK'
  <2>1. \E j \in N..Len(calls') :
          /\ calls'[j].dc = c
          /\ calls'[j].fn \in {"component", "ending"} \/ (calls'[j].fn = "end" /\ j = Len(calls'))
    <3>1. N + 1 \in N..Len(calls')
      BY <1>7, <1>8
    <3> QED BY <1>6, <1>7, <3>1
  <2> QED BY <1>0, <1>1, <1>2, <1>7, <1>8, <2>1, KeptFull
<1>15. /\ stack[c] # <<>> => stack[m] = <<>> \/ inst[m].cut
       /\ prompted \in Live =>
            ret = "cancelled" /\ stack[c] # <<>> /\ LeafIn(stack, inst, m) = prompted
  BY <1>0, InnerIsBare
<1>16. RunningOK'
  <2>1. stack'[c] # <<>> => Bare(Active(c))'
    BY <1>0, <1>2, <1>3, <1>15 DEF Bare, Active, Same
  <2> QED BY <1>6, <1>7, <2>1 DEF RunningOK, Runs
<1>17. ReturnedOK'
  BY <1>7 DEF ReturnedOK
<1>18. prompted' \in Contexts /\ prompted' <= Len(inst') /\ (prompted' \in Live' => prompted' \in Live)
  <2>1. prompted \in Contexts /\ prompted <= Len(inst)
    BY <1>1, WorkFacts
  <2>2. prompted \notin Live => prompted' \notin Live'
    BY <1>1, <1>4, Untroubled
  <2> QED BY <1>3, <2>1, <2>2 DEF Same
<1>19. PromptOK'
  <2>1. prompted' \in Live' => Leaving(c)'
    <3> SUFFICES ASSUME prompted \in Live PROVE Leaving(c)'
      BY <1>18
    <3>1. Leaf(m) = prompted /\ m \in 1..Len(inst)
      BY <1>2, <1>15, Unfolded
    <3>2. Leaf(m)' = prompted'
      BY <1>4, <3>1
    <3> QED BY <1>0, <1>15, <3>2 DEF Leaving, Active
  <2> QED BY <1>6, <1>7, <1>18, <2>1 DEF PromptOK
<1>20. calls # <<>> /\ ret' \in Status \union {None}
  BY <1>1, <1>7
<1> QED BY <1>4, <1>7, <1>20, <1>12, <1>13, <1>14, <1>16, <1>17, <1>18, <1>19, WorkStep

\* The result of its dialogs ends a component.
LEMMA InnerEndsKeeps ==
  ASSUME IInv, InnerEnds
  PROVE  IInv'
<1>0. PICK N, c, m : N = Len(calls) /\ c = Top.dc /\ m = Last(stack[c])
  OBVIOUS
<1>1. /\ Returns("component") /\ ret # "waiting" /\ UNCHANGED stack /\ Quiet
      /\ prompted' = prompted
      /\ calls # <<>> /\ Top.fn = "component"
  BY DEF InnerEnds, Quiet, Returns
<1>2. CASE ret = "cancelled" /\ Top.op = "begin"
  <2>1. Enter(Call("cancelled", c), Call("end", c)) /\ Spares({c})
    BY <1>0, <1>2 DEF InnerEnds
  <2> QED BY <1>0, <1>1, <2>1, CutStep
<1>3. CASE ~(ret = "cancelled" /\ Top.op = "begin")
  <2>1. Jump(Call("end", c)) /\ UNCHANGED <<inst, spared>>
    BY <1>0, <1>3 DEF InnerEnds
  <2>2. /\ Tree(stack, inst) /\ StacksOK /\ CallsOK /\ ChildrenOK /\ FullOK
        /\ calls \in Seq(Frame) /\ c \in Contexts
    BY <1>0, <1>1, WorkFacts
  <2>3. Sound /\ Live' = Live
    BY <1>1, <2>1, <2>2, StillSound
  <2>4. PICK f : f = Call("end", c)
    OBVIOUS
  <2>5. f \in Frame /\ f.fn = "end" /\ f.dc = c
    BY <2>2, <2>4 DEF Call, Frame
  <2>6. calls' = Append(Front(calls), f) /\ ret' = None
    BY <2>1, <2>4 DEF Jump
  <2>7. /\ stack[c] # <<>> => stack[m] = <<>> \/ inst[m].cut
        /\ prompted \in Live =>
             ret = "cancelled" /\ stack[c] # <<>> /\ LeafIn(stack, inst, m) = prompted
    BY <1>0, <1>1, InnerIsBare
  <2>8. FullOK'
    <3>1. Kept /\ Len(calls') = N /\ calls'[N] = f
      BY <1>0, <1>1, <2>2, <2>5, <2>6, JumpShape
    <3>2. \E j \in N..Len(calls') :
            /\ calls'[j].dc = c
            /\ calls'[j].fn \in {"component", "ending"} \/ (calls'[j].fn = "end" /\ j = Len(calls'))
      <4>1. N \in N..Len(calls')
        BY <3>1 DEF Kept
      <4> QED BY <2>5, <3>1, <4>1
    <3> QED BY <1>0, <1>1, <2>2, <2>3, <3>1, <3>2, KeptFull DEF Sound
  <2>9. /\ stack'[c] # <<>> => stack'[Last(stack'[c])] = <<>> \/ inst'[Last(stack'[c])].cut
        /\ prompted \in Live' => stack'[c] # <<>> /\ LeafIn(stack', inst', Last(stack'[c])) = prompted
    BY <1>0, <1>1, <2>1, <2>3, <2>7
  <2> QED BY <1>0, <1>1, <2>3, <2>5, <2>6, <2>8, <2>9, ChainStep DEF Chain
<1> QED BY <1>2, <1>3

\* A component whose dialogs are worked on is active in its context, where a call waits for it.
LEMMA ChainHome ==
  ASSUME IInv, calls # <<>>, Top.fn \in Chain, NEW N, N = Len(calls), NEW c, c = Top.dc, c # 0,
         stack[c] # <<>> \/ Top.fn = "begin"
  PROVE  /\ Intact(c)
         /\ \E j \in 1..N - 1 : calls[j].fn \in {"component", "ending"} /\ calls[j].dc = inst[c].on
<1>1. LinkOK(N) /\ Top = calls[N]
  BY HasCaller DEF CallOK
<1> QED BY <1>1 DEF LinkOK, Linked, On

\* A waterfall that listens is at its next step, or about to end.
LEMMA NextStepKeeps ==
  ASSUME IInv, calls # <<>>, ret = None, Top.fn \in {"step", "continue", "resume"},
         NEW c, c = Top.dc, stack[c] # <<>>, NEW m, m = Last(stack[c]),
         inst[m].id \in Waterfalls, NextStep(c), UNCHANGED <<stack, spared>>, Quiet,
         prompted' = prompted
  PROVE  IInv'
<1>0. PICK N : N = Len(calls)
  OBVIOUS
<1>1. /\ Tree(stack, inst) /\ StacksOK /\ CallsOK /\ ChildrenOK /\ FullOK
      /\ calls \in Seq(Frame) /\ c \in Contexts
      /\ m \in 1..Len(inst) /\ m = Active(c) /\ m \in Contexts /\ m # 0
  BY WorkFacts
<1>2. inst[m].id \notin Components /\ stack[m] = <<>>
  BY <1>1, TreeFacts, DialogsAssumption
<1>3. Top.fn \in Chain /\ Top.fn # "end" /\ Top.fn \notin {"component", "ending", "end"}
  BY DEF Chain
<1>4. ASSUME inst' = [inst EXCEPT ![m].step = @ + 1], Jump(Call("step", c)) PROVE IInv'
  <2>1. /\ Same(inst, inst')
        /\ \A n \in 1..Len(inst) : inst'[n].told = inst[n].told /\ inst'[n].lost = inst[n].lost
    BY <1>1, <1>4, StepSame
  <2>2. Sound
    BY <1>1, <2>1, StaySound
  <2>3. PICK f : f = Call("step", c)
    OBVIOUS
  <2>4. f \in Frame /\ f.fn = "step" /\ f.dc = c
    BY <1>1, <2>3 DEF Call, Frame
  <2>5. calls' = Append(Front(calls), f) /\ ret' = None
    BY <1>4, <2>3 DEF Jump
  <2>6. prompted \notin Live'
    BY <1>3, <2>2, Unheard, Untroubled
  <2>7. FullOK'
    <3>1. Kept
      BY <1>1, <2>4, <2>5, JumpShape
    <3> QED BY <1>0, <1>1, <1>3, <2>2, <3>1, KeptFull DEF Sound
  <2>8. stack'[c] # <<>> /\ inst'[Last(stack'[c])].id \in Waterfalls
    BY <1>1, <2>1 DEF Same
  <2> QED BY <1>3, <2>2, <2>4, <2>5, <2>6, <2>7, <2>8, ChainStep
<1>5. ASSUME Jump(Call("end", c)), UNCHANGED inst PROVE IInv'
  <2>2. Sound /\ Live' = Live
    BY <1>1, <1>5, StillSound
  <2>3. PICK f : f = Call("end", c)
    OBVIOUS
  <2>4. f \in Frame /\ f.fn = "end" /\ f.dc = c
    BY <1>1, <2>3 DEF Call, Frame
  <2>5. calls' = Append(Front(calls), f) /\ ret' = None
    BY <1>5, <2>3 DEF Jump
  <2>6. prompted \notin Live'
    BY <1>3, <2>2, Unheard
  <2>7. FullOK'
    <3>1. Kept
      BY <1>1, <2>4, <2>5, JumpShape
    <3> QED BY <1>0, <1>1, <1>3, <2>2, <3>1, KeptFull DEF Sound
  <2>8. stack'[c] # <<>> => stack'[Last(stack'[c])] = <<>> \/ inst'[Last(stack'[c])].cut
    BY <1>2
  <2> QED BY <1>3, <2>2, <2>4, <2>5, <2>6, <2>7, <2>8, ChainStep
<1> QED BY <1>1, <1>4, <1>5 DEF NextStep

\* A call on a context that leaves stacks and instances alone.
LEMMA StillStep ==
  ASSUME IInv, calls # <<>>, Top.fn \in Chain \ {"component", "end"}, ret = None,
         NEW c, c = Top.dc, UNCHANGED <<stack, inst, spared>>, Quiet, prompted' = prompted,
         NEW f \in Frame, calls' = Append(Front(calls), f), ret' = None,
         f.fn \in {"begin", "end"}, f.dc = c,
         f.fn = "begin" => stack[c] # <<>> /\ HasRoom(inst, f.id),
         f.fn = "end" /\ stack[c] # <<>> => stack[Last(stack[c])] = <<>> \/ inst[Last(stack[c])].cut
  PROVE  IInv'
<1>0. PICK N : N = Len(calls)
  OBVIOUS
<1>1. /\ Tree(stack, inst) /\ StacksOK /\ CallsOK /\ ChildrenOK /\ FullOK
      /\ calls \in Seq(Frame) /\ c \in Contexts
  BY WorkFacts
<1>2. Sound /\ Live' = Live
  BY <1>1, StillSound
<1>3. prompted \notin Live'
  BY <1>2, Unheard
<1>4. FullOK'
  <2>1. Kept
    BY <1>1, JumpShape
  <2> QED BY <1>0, <1>1, <1>2, <2>1, KeptFull DEF Sound, Chain
<1>5. HasRoom(inst, f.id) => HasRoom(inst', f.id)
  OBVIOUS
<1>6. /\ f.fn = "begin" => stack[c] # <<>> /\ HasRoom(inst', f.id)
      /\ f.fn = "end" /\ stack'[c] # <<>> =>
           stack'[Last(stack'[c])] = <<>> \/ inst'[Last(stack'[c])].cut
  BY <1>5
<1> QED BY <1>2, <1>3, <1>4, <1>6, ChainStep

\* The code of a step calls its context, or waits.
LEMMA StepKeeps ==
  ASSUME IInv, Step
  PROVE  IInv'
<1>0. PICK N, c, m : N = Len(calls) /\ c = Top.dc /\ m = Last(stack[c])
  OBVIOUS
<1>1. calls # <<>> /\ ret = None /\ Top.fn = "step" /\ Quiet
      /\ prompted' = prompted /\ spared' = spared
  BY DEF Step, Executes, Quiet
<1>2. Top.fn \in Chain \ {"component", "end"} /\ Top.fn \in Chain /\ Top.fn # "end"
  BY <1>1 DEF Chain
<1>3. stack[c] # <<>> /\ IdOf(Active(c)) \in Waterfalls
  BY <1>0, <1>1 DEF IInv, RunningOK
<1>4. /\ Tree(stack, inst) /\ StacksOK /\ CallsOK /\ ChildrenOK /\ FullOK
      /\ calls \in Seq(Frame) /\ c \in Contexts /\ prompted \in Contexts /\ prompted <= Len(inst)
      /\ m \in 1..Len(inst) /\ m = Active(c) /\ m \in Contexts /\ m # 0
  BY <1>0, <1>1, <1>3, WorkFacts
<1>5. inst[m].id \in Waterfalls /\ inst[m].id \notin Components /\ stack[m] = <<>>
  BY <1>3, <1>4, TreeFacts, DialogsAssumption DEF IdOf
<1>7. prompted \notin Live
  BY <1>1, Unheard
<1>8. ASSUME NEW d \in Uses[IdOf(Active(c))], MayBegin(c, d), Jump(BeginCall(c, d))
      PROVE  \E f \in Frame : /\ f.fn = "begin" /\ f.dc = c /\ HasRoom(inst, f.id)
                              /\ calls' = Append(Front(calls), f) /\ ret' = None
  <2>1. d \in Dialog
    BY <1>3, DialogsAssumption
  <2>2. PICK f : f = BeginCall(c, d)
    OBVIOUS
  <2>3. f \in Frame /\ f.fn = "begin" /\ f.dc = c /\ f.id = d
    BY <1>4, <2>1, <2>2 DEF BeginCall, Frame
  <2> QED BY <1>8, <2>2, <2>3 DEF Jump, MayBegin
<1>9. CASE StepWaits
  <2>1. calls' = Front(calls) /\ ret' = "waiting" /\ UNCHANGED <<stack, inst>>
    BY <1>9 DEF StepWaits, Return
  <2>2. Sound /\ Live' = Live
    BY <1>1, <1>4, <2>1, StillSound
  <2>3. FullOK'
    <3>1. Kept
      BY <1>1, <1>4, <2>1, ReturnShape
    <3> QED BY <1>0, <1>1, <1>4, <2>1, <2>2, <3>1, KeptFull DEF Sound
  <2>4. /\ stack'[c] # <<>> /\ prompted' \in Contexts /\ prompted' <= Len(inst')
        /\ prompted' \notin Live'
    BY <1>1, <1>3, <1>4, <1>7, <2>1, <2>2
  <2> QED BY <1>0, <1>1, <1>2, <2>1, <2>2, <2>3, <2>4, WaitStep
<1>10. CASE StepGoesOn(c)
  BY <1>0, <1>1, <1>3, <1>5, <1>10, NextStepKeeps DEF StepGoesOn
<1>11. CASE StepEnds(c)
  <2>1. PICK f : f = Call("end", c)
    OBVIOUS
  <2>2. f \in Frame /\ f.fn = "end" /\ f.dc = c
    BY <1>4, <2>1 DEF Call, Frame
  <2>3. calls' = Append(Front(calls), f) /\ ret' = None /\ UNCHANGED <<stack, inst>>
    BY <1>11, <2>1 DEF StepEnds, Jump
  <2>4. stack[Last(stack[c])] = <<>>
    BY <1>0, <1>5
  <2> QED BY <1>0, <1>1, <1>2, <2>2, <2>3, <2>4, StillStep
<1>12. CASE StepBegins(c)
  <2>1. UNCHANGED <<stack, inst>> /\ \E d \in Uses[IdOf(Active(c))] : MayBegin(c, d) /\ Jump(BeginCall(c, d))
    BY <1>12 DEF StepBegins
  <2>2. PICK f \in Frame : /\ f.fn = "begin" /\ f.dc = c /\ HasRoom(inst, f.id)
                           /\ calls' = Append(Front(calls), f) /\ ret' = None
    BY <1>8, <2>1
  <2> QED BY <1>0, <1>1, <1>2, <1>3, <2>1, <2>2, StillStep
<1>13. CASE StepReplaces(c)
  <2>1. inst' = Told(m) /\ Pop(c) /\ \E d \in Uses[IdOf(Active(c))] : MayBegin(c, d) /\ Jump(BeginCall(c, d))
    BY <1>4, <1>13 DEF StepReplaces
  <2>2. PICK f \in Frame : /\ f.fn = "begin" /\ f.dc = c /\ HasRoom(inst, f.id)
                           /\ calls' = Append(Front(calls), f) /\ ret' = None
    BY <1>8, <2>1
  <2>3. /\ Same(inst, inst') /\ inst'[m].told = inst[m].told + 1
        /\ \A n \in 1..Len(inst) : /\ n # m => inst'[n].told = inst[n].told
                                   /\ inst'[n].lost = inst[n].lost
    BY <1>4, <2>1, ToldSame
  <2>4. Popped(stack, stack', c)
    BY <1>3, <1>4, <2>1 DEF Pop, Popped
  <2>5. Sound
    BY <1>0, <1>1, <1>4, <1>5, <2>3, <2>4, PopSound
  <2>6. prompted \notin Live'
    BY <1>1, <1>7, <2>5, Untroubled
  <2>7. FullOK'
    <3>1. Kept
      BY <1>1, <1>4, <2>2, JumpShape
    <3>2. c # 0 => /\ Intact(c)
                   /\ \E j \in 1..N - 1 : calls[j].fn \in {"component", "ending"} /\ calls[j].dc = inst[c].on
      BY <1>0, <1>1, <1>2, <1>3, ChainHome
    <3> QED BY <1>0, <1>1, <1>4, <2>3, <2>4, <2>5, <3>1, <3>2, PopFull DEF Sound
  <2>8. HasRoom(inst', f.id)
    BY <2>2, <2>3 DEF HasRoom, Same
  <2> QED BY <1>0, <1>1, <1>2, <1>3, <2>2, <2>5, <2>6, <2>7, <2>8, ChainStep
<1>14. CASE StepCancels(c)
  <2>1. PICK parents \in BOOLEAN : Jump(CancelCall(c, TRUE, parents))
    BY <1>14 DEF StepCancels
  <2>2. PICK f : f = CancelCall(c, TRUE, parents)
    OBVIOUS
  <2>3. f \in Frame /\ f.fn = "cancel" /\ f.dc = c /\ f.linked
    BY <1>4, <2>2 DEF CancelCall, Frame
  <2>4. calls' = Append(Front(calls), f) /\ ret' = None /\ UNCHANGED <<stack, inst>>
    BY <1>14, <2>1, <2>2 DEF StepCancels, Jump
  <2>5. Sound /\ Live' = Live
    BY <1>1, <1>4, <2>4, StillSound
  <2>6. FullOK'
    <3>1. Kept
      BY <1>1, <1>4, <2>3, <2>4, JumpShape
    <3> QED BY <1>0, <1>1, <1>4, <2>4, <2>5, <3>1, KeptFull DEF Sound
  <2> QED BY <1>0, <1>1, <1>3, <1>7, <2>3, <2>4, <2>5, <2>6, CancelStep
<1> QED BY <1>0, <1>9, <1>10, <1>11, <1>12, <1>13, <1>14 DEF Step

\* A dialog without dialogs of its own is a leaf.
LEMMA LeafOfPlain ==
  ASSUME Tree(stack, inst), NEW m \in 1..Len(inst), inst[m].id \notin Components
  PROVE  LeafIn(stack, inst, m) = m /\ stack[m] = <<>>
<1>1. LeafIn(stack, inst, m) = m
  BY LeafUnfolds DEF Deeper
<1>2. m \in Contexts /\ m # 0
  BY TreeFacts
<1> QED BY <1>1, <1>2, TreeFacts

\* A dialog that continues listens, goes on or ends.
LEMMA ContinueKeeps ==
  ASSUME IInv, Continue
  PROVE  IInv'
<1>0. PICK N, c, m : N = Len(calls) /\ c = Top.dc /\ m = Last(stack[c])
  OBVIOUS
<1>1. calls # <<>> /\ ret = None /\ Top.fn = "continue" /\ Quiet
      /\ UNCHANGED <<stack, spared>>
  BY DEF Continue, Executes, Quiet
<1>2. Top.fn \in Chain \ {"component", "end"} /\ Top.fn \in Chain /\ Top.fn # "end" /\ Top.fn \in Chain \ {"end"}
  BY <1>1 DEF Chain
<1>3. prompted \notin Live /\ (c = 0 /\ stack[0] = <<>> => HasRoom(inst, RootDialog))
  BY <1>0, <1>1, Unheard DEF IInv, RunningOK
<1>4. /\ Tree(stack, inst) /\ StacksOK /\ CallsOK /\ ChildrenOK /\ FullOK
      /\ calls \in Seq(Frame) /\ c \in Contexts /\ prompted \in Contexts /\ prompted <= Len(inst)
      /\ stack[c] # <<>> => m \in 1..Len(inst) /\ m = Active(c) /\ m \in Contexts /\ m # 0
  BY <1>0, <1>1, WorkFacts
<1>5. ASSUME UNCHANGED inst PROVE Sound /\ Live' = Live
  BY <1>1, <1>4, <1>5, StillSound
<1>6. ASSUME UNCHANGED inst, Kept PROVE FullOK'
  BY <1>0, <1>1, <1>4, <1>5, <1>6, KeptFull DEF Sound
<1>7. UNCHANGED inst => prompted \notin Live'
  BY <1>3, <1>5
<1>8. CASE ContinueNothing(c)
  <2>1. stack[c] = <<>> /\ calls' = Front(calls) /\ ret' = "empty" /\ UNCHANGED inst /\ prompted' = prompted
    BY <1>8 DEF ContinueNothing, Return
  <2>2. Kept
    BY <1>1, <1>4, <2>1, ReturnShape
  <2>3. /\ c = 0 => HasRoom(inst', RootDialog)
        /\ stack'[c] = <<>> /\ prompted \notin Live'
    BY <1>1, <1>3, <1>7, <2>1 DEF HasRoom
  <2> QED BY <1>0, <1>1, <1>2, <1>5, <1>6, <2>1, <2>2, <2>3, ReturnStep
<1>9. CASE ContinueIgnores(c)
  <2>1. stack[c] # <<>> /\ calls' = Front(calls) /\ ret' = "waiting" /\ UNCHANGED inst /\ prompted' = prompted
    BY <1>9 DEF ContinueIgnores, Return
  <2>2. Kept
    BY <1>1, <1>4, <2>1, ReturnShape
  <2>3. /\ stack'[c] # <<>> /\ prompted' \in Contexts /\ prompted' <= Len(inst')
        /\ prompted' \notin Live'
    BY <1>1, <1>3, <1>4, <1>7, <2>1
  <2> QED BY <1>0, <1>1, <1>2, <1>5, <1>6, <2>1, <2>2, <2>3, WaitStep
<1>10. CASE ContinuePrompt(c)
  <2>1. stack[c] # <<>> /\ inst[m].id \in Prompts /\ UNCHANGED inst
    BY <1>4, <1>10 DEF ContinuePrompt, IdOf
  <2>2. LeafIn(stack, inst, m) = m /\ stack[m] = <<>>
    BY <1>4, <2>1, LeafOfPlain, DialogsAssumption
  <2>3. CASE Jump(Call("end", c)) /\ UNCHANGED prompted
    <3>1. PICK f : f = Call("end", c)
      OBVIOUS
    <3>2. f \in Frame /\ f.fn = "end" /\ f.dc = c
      BY <1>4, <3>1 DEF Call, Frame
    <3>3. calls' = Append(Front(calls), f) /\ ret' = None /\ prompted' = prompted
      BY <2>3, <3>1 DEF Jump
    <3>4. stack[Last(stack[c])] = <<>>
      BY <1>0, <2>2
    <3> QED BY <1>0, <1>1, <1>2, <2>1, <3>2, <3>3, <3>4, StillStep
  <2>4. CASE Return("waiting") /\ prompted' \in {prompted, m}
    <3>1. calls' = Front(calls) /\ ret' = "waiting"
      BY <2>4 DEF Return
    <3>2. Kept
      BY <1>1, <1>4, <3>1, ReturnShape
    <3>3. /\ stack'[c] # <<>> /\ prompted' \in Contexts /\ prompted' <= Len(inst')
          /\ prompted' \in Live' => LeafIn(stack', inst', Last(stack'[c])) = prompted'
      <4>1. m \in Contexts /\ m <= Len(inst)
        BY <1>4, <2>1
      <4>2. CASE prompted' = m
        BY <1>0, <1>1, <2>1, <2>2, <4>1, <4>2
      <4>3. CASE prompted' = prompted
        BY <1>1, <1>4, <1>7, <2>1, <4>3
      <4> QED BY <2>4, <4>2, <4>3
    <3> QED BY <1>0, <1>1, <1>2, <1>5, <1>6, <2>1, <3>1, <3>2, <3>3, WaitStep
  <2> QED BY <1>4, <1>10, <2>1, <2>3, <2>4 DEF ContinuePrompt
<1>11. CASE ContinueWaterfall(c)
  <2>1. stack[c] # <<>> /\ inst[m].id \in Waterfalls /\ NextStep(c) /\ prompted' = prompted
    BY <1>4, <1>11 DEF ContinueWaterfall, IdOf
  <2> QED BY <1>0, <1>1, <2>1, NextStepKeeps
<1>12. CASE ContinueComponent(c)
  <2>1. stack[c] # <<>> /\ inst[m].id \in Components /\ UNCHANGED inst /\ prompted' = prompted
    BY <1>4, <1>12 DEF ContinueComponent, IdOf
  <2>2. PICK g : g = ComponentCall(c, "continue")
    OBVIOUS
  <2>3. g \in Frame /\ g.fn = "component" /\ g.dc = c
    BY <1>4, <2>2 DEF ComponentCall, Frame
  <2>4. \E f \in Frame : /\ f.fn \in {"begin", "continue"} \/ (f.fn = "cancel" /\ f.linked)
                         /\ f.dc = m /\ (f.fn = "begin" => HasRoom(inst, f.id))
                         /\ calls' = Front(calls) \o <<g, f>> /\ ret' = None
    <3>1. CASE Enter(ComponentCall(c, "continue"), Call("continue", m))
      <4>1. PICK f : f = Call("continue", m)
        OBVIOUS
      <4>2. f \in Frame /\ f.fn = "continue" /\ f.dc = m
        BY <1>4, <2>1, <4>1 DEF Call, Frame
      <4> QED BY <2>2, <3>1, <4>1, <4>2 DEF Enter
    <3>2. CASE Enter(ComponentCall(c, "continue"), CancelCall(m, TRUE, FALSE))
      <4>1. PICK f : f = CancelCall(m, TRUE, FALSE)
        OBVIOUS
      <4>2. f \in Frame /\ f.fn = "cancel" /\ f.dc = m /\ f.linked
        BY <1>4, <2>1, <4>1 DEF CancelCall, Frame
      <4> QED BY <2>2, <3>2, <4>1, <4>2 DEF Enter
    <3>3. ASSUME NEW d \in Help[inst[m].id], MayBegin(m, d),
                 Enter(ComponentCall(c, "continue"), BeginCall(m, d))
          PROVE  \E f \in Frame : /\ f.fn \in {"begin", "continue"} \/ (f.fn = "cancel" /\ f.linked)
                                  /\ f.dc = m /\ (f.fn = "begin" => HasRoom(inst, f.id))
                                  /\ calls' = Front(calls) \o <<g, f>> /\ ret' = None
      <4>1. PICK f : f = BeginCall(m, d)
        OBVIOUS
      <4>2. d \in Dialog
        BY <2>1, DialogsAssumption
      <4>3. f \in Frame /\ f.fn = "begin" /\ f.dc = m /\ f.id = d
        BY <1>4, <2>1, <4>1, <4>2 DEF BeginCall, Frame
      <4> QED BY <2>2, <3>3, <4>1, <4>3 DEF Enter, MayBegin
    <3> QED BY <1>4, <1>12, <2>1, <3>1, <3>2, <3>3 DEF ContinueComponent, IdOf
  <2>5. PICK f \in Frame : /\ f.fn \in {"begin", "continue"} \/ (f.fn = "cancel" /\ f.linked)
                           /\ f.dc = m /\ (f.fn = "begin" => HasRoom(inst, f.id))
                           /\ calls' = Front(calls) \o <<g, f>> /\ ret' = None
    BY <2>4
  <2>6. Kept
    BY <1>1, <1>4, <2>3, <2>5, EnterShape
  <2>7. HasRoom(inst, f.id) => HasRoom(inst', f.id)
    BY <2>1 DEF HasRoom
  <2>8. /\ stack'[c] # <<>> /\ f.dc = Last(stack'[c]) /\ inst'[f.dc].id \in Components
        /\ (f.fn = "begin" => HasRoom(inst', f.id)) /\ prompted \notin Live'
    BY <1>0, <1>1, <1>3, <1>7, <2>1, <2>5, <2>7
  <2> QED BY <1>0, <1>1, <1>2, <1>3, <1>5, <1>6, <2>1, <2>3, <2>5, <2>6, <2>8, EnterStep
<1> QED BY <1>0, <1>8, <1>9, <1>10, <1>11, <1>12 DEF Continue

\* A dialog that ends leaves its stack; the dialog below is resumed.
LEMMA EndKeeps ==
  ASSUME IInv, End
  PROVE  IInv'
<1>0. PICK N, c, m : N = Len(calls) /\ c = Top.dc /\ m = Last(stack[c])
  OBVIOUS
<1>1. calls # <<>> /\ ret = None /\ Top.fn = "end" /\ Quiet
      /\ prompted' = prompted /\ spared' = spared
  BY DEF End, Executes, Quiet
<1>2. Top.fn \in Chain
  BY <1>1 DEF Chain
<1>3. stack[c] # <<>> => Bare(Active(c))
  BY <1>0, <1>1 DEF IInv, RunningOK
<1>4. /\ Tree(stack, inst) /\ StacksOK /\ CallsOK /\ ChildrenOK /\ FullOK
      /\ calls \in Seq(Frame) /\ c \in Contexts /\ Len(stack[c]) \in Nat
      /\ stack[c] # <<>> => m \in 1..Len(inst) /\ m = Active(c) /\ Len(stack[c]) > 0
  BY <1>0, <1>1, WorkFacts
<1>5. prompted \in Live => Leaving(c)
  BY <1>0, <1>1, DialogsAssumption DEF IInv, PromptOK
<1>6. CASE stack[c] = <<>>
  <2>1. calls' = Front(calls) /\ ret' = "complete" /\ UNCHANGED <<stack, inst>>
    BY <1>0, <1>6 DEF End, Return
  <2>2. Sound /\ Live' = Live
    BY <1>1, <1>4, <2>1, StillSound
  <2>3. FullOK'
    <3>1. Kept
      BY <1>1, <1>4, <2>1, ReturnShape
    <3> QED BY <1>0, <1>1, <1>4, <1>6, <2>1, <2>2, <3>1, KeptFull DEF Sound
  <2>4. prompted \notin Live' /\ stack'[c] = <<>>
    BY <1>5, <1>6, <2>1, <2>2 DEF Leaving
  <2> QED BY <1>0, <1>1, <1>2, <2>1, <2>2, <2>3, <2>4, ReturnStep
<1>7. CASE stack[c] # <<>>
  <2>1. inst' = Told(m) /\ Pop(c)
    BY <1>0, <1>4, <1>7 DEF End
  <2>2. /\ Same(inst, inst') /\ inst'[m].told = inst[m].told + 1
        /\ \A n \in 1..Len(inst) : /\ n # m => inst'[n].told = inst[n].told
                                   /\ inst'[n].lost = inst[n].lost
    BY <1>4, <1>7, <2>1, ToldSame
  <2>3. Popped(stack, stack', c)
    BY <1>4, <1>7, <2>1 DEF Pop, Popped
  <2>4. stack[m] = <<>> \/ inst[m].cut
    BY <1>3, <1>4, <1>7 DEF Bare
  <2>5. Sound /\ \A p \in Descent(m) : p \notin Live'
    BY <1>0, <1>1, <1>4, <2>2, <2>3, <2>4, PopSound
  <2>6. prompted \notin Live'
    <3>1. prompted \in Live => prompted \in Descent(m)
      <4>1. prompted \in Live => LeafIn(stack, inst, m) = prompted
        BY <1>4, <1>5, <1>7, Unfolded DEF Leaving
      <4>2. LeafIn(stack, inst, m) \in DescentIn(stack, inst)[m]
        BY <1>4, <1>7, LeafFacts
      <4> QED BY <1>4, <1>7, <4>1, <4>2, Unfolded
    <3>2. prompted \in Live => prompted \notin Live'
      BY <2>5, <3>1
    <3> QED BY <1>1, <2>5, <3>2, Untroubled
  <2>7. ASSUME Kept PROVE FullOK'
    <3>1. c # 0 => /\ Intact(c)
                   /\ \E j \in 1..N - 1 : calls[j].fn \in {"component", "ending"} /\ calls[j].dc = inst[c].on
      BY <1>0, <1>1, <1>2, <1>7, ChainHome
    <3> QED BY <1>0, <1>1, <1>4, <2>2, <2>3, <2>5, <2>7, <3>1, PopFull DEF Sound
  <2>8. Tree(stack', inst') /\ Len(stack'[c]) = Len(stack[c]) - 1
    <3>1. Tree(stack, inst) /\ Popped(stack, stack', c)
      BY <1>4, <2>3
    <3>2. Len(stack'[c]) = Len(stack[c]) - 1
      BY ONLY <3>1, PopTree
    <3> QED BY <2>5, <3>2 DEF Sound
  <2>9. stack'[c] # <<>> <=> Len(stack'[c]) > 0
    BY ONLY <1>4, <2>8, TreeFacts
  <2>10. CASE Len(stack[c]) = 1
    <3>1. calls' = Front(calls) /\ ret' = "complete"
      BY <1>0, <1>7, <2>10 DEF End, Return
    <3>2. stack'[c] = <<>>
      BY <2>8, <2>9, <2>10
    <3>3. Kept
      BY <1>1, <1>4, <3>1, ReturnShape
    <3> QED BY <1>0, <1>1, <1>2, <2>5, <2>6, <2>7, <3>1, <3>2, <3>3, ReturnStep
  <2>11. CASE Len(stack[c]) # 1
    <3>1. PICK f : f = Call("resume", c)
      OBVIOUS
    <3>2. f \in Frame /\ f.fn = "resume" /\ f.dc = c
      BY <1>4, <3>1 DEF Call, Frame
    <3>3. calls' = Append(Front(calls), f) /\ ret' = None
      BY <1>0, <1>7, <2>11, <3>1 DEF End, Jump
    <3>4. stack'[c] # <<>>
      <4>1. \A k \in Nat : k > 0 /\ k # 1 => k - 1 > 0
        OBVIOUS
      <4> QED BY ONLY <1>4, <1>7, <2>8, <2>9, <2>11, <4>1
    <3>6. Kept
      BY <1>1, <1>4, <3>2, <3>3, JumpShape
    <3> QED BY <1>0, <1>1, <1>2, <2>5, <2>6, <2>7, <3>2, <3>3, <3>4, <3>6, ChainStep
  <2> QED BY <2>10, <2>11
<1> QED BY <1>6, <1>7

\* The dialog below goes on, or asks again.
LEMMA ResumeKeeps ==
  ASSUME IInv, Resume
  PROVE  IInv'
<1>0. PICK N, c, m : N = Len(calls) /\ c = Top.dc /\ m = Last(stack[c])
  OBVIOUS
<1>1. calls # <<>> /\ ret = None /\ Top.fn = "resume" /\ Quiet
      /\ UNCHANGED <<stack, spared>>
  BY DEF Resume, Executes, Quiet
<1>2. Top.fn \in Chain /\ Top.fn # "end" /\ Top.fn \notin {"component", "ending", "end"}
  BY <1>1 DEF Chain
<1>3. stack[c] # <<>>
  BY <1>0, <1>1 DEF IInv, RunningOK
<1>4. /\ Tree(stack, inst) /\ StacksOK /\ CallsOK /\ ChildrenOK /\ FullOK
      /\ calls \in Seq(Frame) /\ c \in Contexts
      /\ m \in 1..Len(inst) /\ m = Active(c) /\ Len(inst) \in Nat /\ 1..Len(inst) \subseteq Contexts
  BY <1>0, <1>1, <1>3, WorkFacts, TreeFacts
<1>5. CASE IdOf(m) \in Waterfalls /\ NextStep(c) /\ UNCHANGED prompted
  BY <1>0, <1>1, <1>3, <1>5, NextStepKeeps DEF IdOf
<1>6. CASE Return("waiting") /\ prompted' = Leaf(m) /\ UNCHANGED inst
  <2>1. calls' = Front(calls) /\ ret' = "waiting" /\ UNCHANGED <<stack, inst>>
    BY <1>1, <1>6 DEF Return
  <2>2. Sound /\ Live' = Live
    BY <1>1, <1>4, <2>1, StillSound
  <2>3. FullOK'
    <3>1. Kept
      BY <1>1, <1>4, <2>1, ReturnShape
    <3> QED BY <1>0, <1>1, <1>2, <1>4, <2>1, <2>2, <3>1, KeptFull DEF Sound
  <2>4. prompted' = LeafIn(stack, inst, m)
    BY <1>6, Unfolded
  <2>5. prompted' \in Contexts /\ prompted' <= Len(inst)
    <3>1. LeafIn(stack, inst, m) \in m..Len(inst)
      BY <1>4, LeafFacts
    <3> QED BY <1>4, <2>4, <3>1
  <2>6. /\ stack'[c] # <<>> /\ prompted' <= Len(inst')
        /\ LeafIn(stack', inst', Last(stack'[c])) = prompted'
    BY <1>0, <1>3, <2>1, <2>4, <2>5
  <2> QED BY <1>0, <1>1, <1>2, <2>1, <2>2, <2>3, <2>5, <2>6, WaitStep
<1> QED BY <1>0, <1>4, <1>5, <1>6 DEF Resume

\* A step that begins an instance.
LEMMA PushSound ==
  ASSUME Tree(stack, inst), StacksOK, NEW c, c = Top.dc, Top.fn = "begin",
         NEW x, Pushed(stack, inst, stack', inst', c, x), x.told = 0, x.lost = 0,
         c # 0 => OnStack(stack, inst, c), spared' \in {spared, TRUE}
  PROVE  Sound
<1>0. Tree(stack, inst) /\ History(stack, inst) /\ Pushed(stack, inst, stack', inst', c, x)
  BY DEF StacksOK
<1>1. /\ Tree(stack', inst') /\ Len(inst') = Len(inst) + 1
      /\ \A n \in 1..Len(inst) : inst'[n] = inst[n] /\ (OnStack(stack', inst', n) <=> OnStack(stack, inst, n))
      /\ \A d \in Contexts : d # c => stack'[d] = stack[d]
  BY ONLY <1>0, PushTree
<1>2. History(stack', inst')
  <2>1. x.told = 0 /\ (c # 0 => OnStack(stack, inst, c))
    OBVIOUS
  <2> QED BY ONLY <1>0, <2>1, PushHistory
<1>3. StacksOK'
  BY <1>1, <1>2 DEF StacksOK, Tree
<1>4. Len(inst) <= Len(inst')
  BY <1>1, TreeFacts
<1>5. Local
  BY <1>1, <1>4 DEF Local
<1>7. Lasting(inst, inst')
  <2>1. Len(inst) \in Nat /\ \A n \in 1..Len(inst) : inst[n].told \in Nat
    BY TreeFacts DEF Instance
  <2>2. \A n \in 1..Len(inst') : n \notin 1..Len(inst) => inst'[n] = x
    BY <1>0, <1>1, <2>1, PushTree
  <2>3. Grown(inst, inst')
    BY <1>1, <1>4, <2>1 DEF Grown
  <2> QED BY <1>1, <2>2, <2>3 DEF Lasting
<1>6. \A p \in 1..Len(inst) : p \in Live' => p \in Live
  <2> SUFFICES ASSUME NEW p \in 1..Len(inst), p \in Live' PROVE p \in Live
    OBVIOUS
  <2>1. \A n \in 1..Len(inst) :
          inst'[n].on = inst[n].on /\ (OnStack(stack', inst', n) => OnStack(stack, inst, n))
    BY <1>1
  <2> QED BY <1>1, <1>4, <2>1, NoRevival
<1> QED BY <1>1, <1>3, <1>5, <1>6, <1>7 DEF Sound

\* A component that begins waits for its first dialog; no other was about to end here.
LEMMA PushFull ==
  ASSUME Tree(stack, inst), CallsOK, FullOK, calls # <<>>, Kept, Local,
         NEW N, N = Len(calls), NEW c, c = Top.dc, Top.fn = "begin",
         NEW x, Pushed(stack, inst, stack', inst', c, x),
         x.id \in Components => Len(calls') >= N /\ calls'[N].fn = "component" /\ calls'[N].dc = c
  PROVE  FullOK'
<1>1. /\ N \in Nat /\ N > 0 /\ N \in Frames /\ Top = calls[N] /\ c \in Contexts
      /\ \A j \in 1..N - 1 : calls'[j] = calls[j] /\ OrderOK(j, N)
  BY CallFacts
<1>2. /\ Len(inst') = Len(inst) + 1 /\ inst'[Len(inst) + 1] = x /\ Len(inst) \in Nat
      /\ stack'[c] # <<>> /\ Last(stack'[c]) = Len(inst) + 1 /\ Len(stack'[c]) = Len(stack[c]) + 1
      /\ \A i \in 1..Len(stack[c]) : stack'[c][i] = stack[c][i]
      /\ \A d \in Contexts : d # c => stack'[d] = stack[d]
  <2>0. Tree(stack, inst) /\ Pushed(stack, inst, stack', inst', c, x)
    OBVIOUS
  <2>1. /\ Len(inst') = Len(inst) + 1 /\ inst'[Len(inst) + 1] = x
        /\ stack'[c] # <<>> /\ Last(stack'[c]) = Len(inst) + 1 /\ Len(stack'[c]) = Len(stack[c]) + 1
        /\ \A i \in 1..Len(stack[c]) : stack'[c][i] = stack[c][i]
        /\ \A d \in Contexts : d # c => stack'[d] = stack[d]
    BY ONLY <2>0, PushTree
  <2> QED BY <2>1, TreeFacts
<1>3. SUFFICES ASSUME NEW d \in Contexts, NEW i \in 1..Len(stack'[d]), Hollow(stack', inst', d, i)
               PROVE  i = Len(stack'[d]) /\ \E j \in Frames' : Ends(j, d)'
  BY DEF FullOK
<1>4. Len(stack[d]) \in Nat
  BY TreeFacts
<1>5. CASE d = c /\ i = Len(stack'[c])
  <2>1. stack'[d][i] = Len(inst) + 1
    BY <1>2, <1>5 DEF Last
  <2>2. x.id \in Components
    BY <1>2, <1>3, <2>1 DEF Hollow
  <2>3. N \in Frames'
    BY <1>1, <2>2 DEF Frames, Kept
  <2> QED BY <1>5, <2>2, <2>3 DEF Ends
<1>6. CASE ~(d = c /\ i = Len(stack'[c]))
  <2>1. i \in 1..Len(stack[d]) /\ stack'[d][i] = stack[d][i]
    <3>1. CASE d = c
      BY <1>2, <1>4, <1>6, <3>1
    <3>2. CASE d # c
      BY <1>2, <3>2
    <3> QED BY <3>1, <3>2
  <2>2. PICK y : y = stack[d][i]
    OBVIOUS
  <2>3. y \in 1..Len(inst) /\ y \in Contexts
    <3>1. y \in 1..Len(inst)
      BY <2>1, <2>2 DEF Tree, Forest
    <3> QED BY <3>1, TreeFacts
  <2>4. inst'[y].id = inst[y].id /\ stack'[y] = <<>> /\ inst'[y].id \in Components
    BY <1>3, <2>1, <2>2, <2>3 DEF Hollow, Local
  <2>5. stack[y] = <<>>
    BY <1>2, <2>3, <2>4
  <2>6. Hollow(stack, inst, d, i)
    BY <2>2, <2>4, <2>5 DEF Hollow
  <2>7. i = Len(stack[d]) /\ \E j \in Frames : Ends(j, d)
    BY <2>1, <2>6 DEF FullOK
  <2>8. PICK j \in Frames : Ends(j, d)
    BY <2>7
  <2>9. j \in 1..N - 1
    <3>1. j # N
      BY <1>1, <2>8 DEF Ends
    <3> QED BY <1>1, <3>1 DEF Frames
  <2>10. calls[j].fn \in {"component", "ending"} /\ calls[j].dc = d
    <3>1. j # Len(calls)
      BY <1>1, <2>9
    <3> QED BY <2>8, <3>1 DEF Ends
  <2>11. d # c
    <3>1. OrderOK(j, N) /\ Top.fn \in Chain /\ Top.fn \notin {"cancel", "ending"}
      BY <1>1, <2>9 DEF Chain
    <3>2. calls[j].dc \in Contexts
      BY <2>10
    <3> QED BY <1>1, <2>10, <3>1, <3>2 DEF OrderOK, Contexts
  <2>12. j \in Frames' /\ calls'[j] = calls[j]
    BY <1>1, <2>9 DEF Frames, Kept
  <2> QED BY <1>2, <2>7, <2>10, <2>11, <2>12 DEF Ends
<1> QED BY <1>5, <1>6

\* A dialog begins: a waterfall with its first step, a prompt with its question,

\* a component with its first dialog.
LEMMA BeginKeeps ==
  ASSUME IInv, Begin
  PROVE  IInv'
<1>0. PICK N, c, d, n : N = Len(calls) /\ c = Top.dc /\ d = Top.id /\ n = Len(inst) + 1
  OBVIOUS
<1>1. calls # <<>> /\ ret = None /\ Top.fn = "begin" /\ Quiet /\ spared' = spared
  BY DEF Begin, Executes, Quiet
<1>2. Top.fn \in Chain /\ Top.fn # "end" /\ Top.fn \in Chain \ {"end"}
  BY <1>1 DEF Chain
<1>3. HasRoom(inst, d)
  BY <1>0, <1>1 DEF IInv, RunningOK
<1>4. /\ Tree(stack, inst) /\ StacksOK /\ CallsOK /\ ChildrenOK /\ FullOK
      /\ calls \in Seq(Frame) /\ Top \in Frame /\ c \in Contexts /\ c \in 0..Len(inst)
      /\ Len(inst) \in Nat /\ (c # 0 => inst[c].id \in Components /\ c \in 1..Len(inst))
  BY <1>0, <1>1, WorkFacts
<1>5. d \in Dialog
  BY <1>0, <1>1, <1>4 DEF Frame
<1>6. PICK x : x = [id |-> d, on |-> c, told |-> 0, lost |-> 0, cut |-> FALSE,
                    step |-> IF d \in Waterfalls THEN 1 ELSE 0]
  OBVIOUS
<1>7. x \in Instance /\ x.on = c /\ x.id = d /\ x.told = 0 /\ x.lost = 0
  BY <1>4, <1>5, <1>6 DEF Instance
<1>8. inst' = Append(inst, x) /\ stack' = [stack EXCEPT ![c] = Append(@, n)]
  BY <1>0, <1>6 DEF Begin
<1>9. /\ n <= MaxBegins /\ n \in Nat /\ MaxBegins \in Nat
      /\ d \in Components => InitialDialog[d] \in Dialog /\ n + Depth[InitialDialog[d]] <= MaxBegins
  <2>1. Depth[d] \in Nat \ {0} /\ MaxBegins \in Nat /\ Len(inst) + Depth[d] <= MaxBegins
    BY <1>3, <1>5, DialogsAssumption DEF HasRoom
  <2>2. ASSUME d \in Components
        PROVE  InitialDialog[d] \in Dialog /\ n + Depth[InitialDialog[d]] <= MaxBegins
    <3>1. InitialDialog[d] \in Dialog /\ Depth[InitialDialog[d]] < Depth[d]
      BY <2>2, DialogsAssumption
    <3>2. Depth[InitialDialog[d]] \in Nat
      BY <3>1, DialogsAssumption
    <3> QED BY <1>0, <1>4, <2>1, <3>1, <3>2
  <2> QED BY <1>0, <1>4, <2>1, <2>2
<1>10. Pushed(stack, inst, stack', inst', c, x)
  <2>1. Len(inst) + 1 <= MaxBegins
    BY <1>0, <1>9
  <2>2. stack' = [stack EXCEPT ![c] = Append(@, Len(inst) + 1)]
    BY <1>0, <1>8
  <2> QED BY <1>3, <1>4, <1>7, <1>8, <2>1, <2>2 DEF Pushed
<1>11. /\ Tree(stack', inst') /\ Len(inst') = n /\ inst'[n] = x
       /\ stack'[n] = <<>> /\ stack'[c] # <<>> /\ Last(stack'[c]) = n
  <2>1. Tree(stack, inst) /\ Pushed(stack, inst, stack', inst', c, x)
    BY <1>4, <1>10
  <2>2. /\ Tree(stack', inst') /\ Len(inst') = Len(inst) + 1 /\ inst'[Len(inst) + 1] = x
        /\ stack'[Len(inst) + 1] = <<>> /\ stack'[c] # <<>> /\ Last(stack'[c]) = Len(inst) + 1
    BY ONLY <2>1, PushTree
  <2> QED BY <1>0, <2>2
<1>12. c # 0 => OnStack(stack, inst, c)
  <2> SUFFICES ASSUME c # 0 PROVE OnStack(stack, inst, c)
    OBVIOUS
  <2>1. stack[inst[c].on] # <<>> /\ c = Last(stack[inst[c].on])
    BY <1>0, <1>1, <1>2, ChainHome DEF Intact, On, Active
  <2>2. inst[c].on \in Contexts
    BY <1>0, <1>1, WorkFacts
  <2>3. Len(stack[inst[c].on]) \in Nat /\ Len(stack[inst[c].on]) > 0
    BY <1>4, <2>1, <2>2, TreeFacts
  <2>4. Len(stack[inst[c].on]) \in 1..Len(stack[inst[c].on])
    BY <2>3
  <2> QED BY <2>1, <2>4 DEF OnStack, Last
<1>13. Sound
  BY <1>0, <1>1, <1>4, <1>7, <1>10, <1>12, PushSound
<1>14. n \in 1..Len(inst') /\ n \in Contexts
  BY <1>0, <1>4, <1>9, <1>11 DEF Contexts
<1>15. ASSUME Kept, d \in Components => Len(calls') >= N /\ calls'[N].fn = "component" /\ calls'[N].dc = c
       PROVE  FullOK'
  BY <1>0, <1>1, <1>4, <1>7, <1>10, <1>13, <1>15, PushFull DEF Sound
<1>16. ASSUME prompted' = prompted PROVE prompted \notin Live'
  BY <1>1, <1>2, <1>13, <1>16, Unheard, Untroubled
<1>17. CASE d \in Waterfalls /\ Jump(Call("step", c)) /\ UNCHANGED prompted
  <2>1. PICK f : f = Call("step", c)
    OBVIOUS
  <2>2. f \in Frame /\ f.fn = "step" /\ f.dc = c
    BY <1>4, <2>1 DEF Call, Frame
  <2>3. calls' = Append(Front(calls), f) /\ ret' = None /\ prompted' = prompted
    BY <1>17, <2>1 DEF Jump
  <2>4. Kept
    BY <1>1, <1>4, <2>2, <2>3, JumpShape
  <2>5. d \notin Components
    BY <1>17, DialogsAssumption
  <2>6. stack'[c] # <<>> /\ inst'[Last(stack'[c])].id \in Waterfalls
    BY <1>7, <1>11, <1>17
  <2> QED BY <1>0, <1>1, <1>2, <1>13, <1>15, <1>16, <2>2, <2>3, <2>4, <2>5, <2>6, ChainStep
<1>18. CASE d \in Prompts /\ Return("waiting") /\ prompted' = n
  <2>1. calls' = Front(calls) /\ ret' = "waiting"
    BY <1>18 DEF Return
  <2>2. Kept
    BY <1>1, <1>4, <2>1, ReturnShape
  <2>3. d \notin Components
    BY <1>18, DialogsAssumption
  <2>4. LeafIn(stack', inst', n) = n
    <3>1. ~Deeper(stack', inst', n)
      BY <1>7, <1>11, <2>3 DEF Deeper
    <3>2. Tree(stack', inst') /\ n \in 1..Len(inst')
      BY <1>11, <1>14
    <3> QED BY ONLY <3>1, <3>2, LeafUnfolds
  <2>5. stack'[c] # <<>> /\ prompted' \in Contexts /\ prompted' <= Len(inst')
        /\ LeafIn(stack', inst', Last(stack'[c])) = prompted'
    BY <1>11, <1>14, <1>18, <2>4
  <2> QED BY <1>0, <1>1, <1>2, <1>13, <1>15, <2>1, <2>2, <2>3, <2>5, WaitStep
<1>19. CASE /\ d \in Components /\ UNCHANGED prompted
            /\ Enter(ComponentCall(c, "begin"), BeginCall(n, InitialDialog[d]))
  <2>1. PICK g, f : g = ComponentCall(c, "begin") /\ f = BeginCall(n, InitialDialog[d])
    OBVIOUS
  <2>2. g \in Frame /\ g.fn = "component" /\ g.dc = c
    BY <1>4, <2>1 DEF ComponentCall, Frame
  <2>3. InitialDialog[d] \in Dialog
    BY <1>9, <1>19
  <2>4. f \in Frame /\ f.fn = "begin" /\ f.dc = n /\ f.id = InitialDialog[d]
    BY <1>14, <2>1, <2>3 DEF BeginCall, Frame
  <2>5. calls' = Front(calls) \o <<g, f>> /\ ret' = None /\ prompted' = prompted
    BY <1>19, <2>1 DEF Enter
  <2>6. Kept /\ Len(calls') = N + 1 /\ calls'[N] = g
    BY <1>0, <1>1, <1>4, <2>2, <2>4, <2>5, EnterShape
  <2>7. Len(calls') >= N /\ calls'[N].fn = "component" /\ calls'[N].dc = c
    <3>1. N \in Nat
      BY <1>0, <1>1, <1>4, TopFacts
    <3> QED BY <2>2, <2>6, <3>1
  <2>8. HasRoom(inst', f.id)
    BY <1>9, <1>11, <1>19, <2>4 DEF HasRoom
  <2>9. stack'[c] # <<>> /\ f.dc = Last(stack'[c]) /\ inst'[f.dc].id \in Components
    BY <1>7, <1>11, <1>19, <2>4
  <2> QED BY <1>0, <1>1, <1>2, <1>13, <1>15, <1>16, <2>2, <2>4, <2>5, <2>6, <2>7, <2>8, <2>9, EnterStep
<1> QED BY <1>0, <1>17, <1>18, <1>19 DEF Begin

\* The call of the turn itself has none above it.
LEMMA RunAlone ==
  ASSUME IInv, Returns("run")
  PROVE  /\ Len(calls) = 1 /\ Frames = {1} /\ calls[1].fn = "run" /\ Top.dc = 0 /\ calls # <<>> /\ ret # None
         /\ Front(calls) = <<>>
         /\ ret = "waiting" \/ stack[0] # <<>> => Heard(0)
         /\ ret \in {"empty", "complete"} => stack[0] = <<>>
         /\ ret = "cancelled" => stack[0] = <<>> \/ spared
         /\ ret = "empty" => HasRoom(inst, RootDialog) /\ prompted \notin Live
<1>1. calls # <<>> /\ ret # None /\ Top.fn = "run" /\ calls \in Seq(Frame) /\ CallsOK
  BY DEF Returns, IInv, CallsOK
<1>2. PICK N : N = Len(calls)
  OBVIOUS
<1>3. N \in Nat /\ N \in Frames /\ Top = calls[N] /\ CallOK(N)
  BY <1>1, <1>2, TopFacts DEF CallsOK
<1>4. N = 1 /\ Top.dc = 0
  BY <1>1, <1>3 DEF CallOK
<1>5. Frames = {1}
  <2>1. Len(calls) = 1
    BY <1>2, <1>4
  <2> QED BY <2>1 DEF Frames
<1>6. Front(calls) = <<>>
  <2>1. Front(calls) \in Seq(Frame) /\ Len(Front(calls)) = Len(calls) - 1
    BY <1>1, FrontShape
  <2>2. Len(Front(calls)) = 0
    <3>1. 1 - 1 = 0 /\ Len(calls) = 1
      BY <1>2, <1>4
    <3> QED BY ONLY <2>1, <3>1
  <2> QED BY <2>1, <2>2, EmptySeq
<1>7. prompted \in Live => ret = "waiting" \/ (ret = "cancelled" /\ Leaving(0))
  BY <1>1, <1>4 DEF IInv, PromptOK
<1>8. /\ ret = "waiting" => Heard(0)
      /\ ret \in {"empty", "complete"} => stack[0] = <<>>
      /\ ret = "cancelled" => stack[0] = <<>> \/ spared
  BY <1>1, <1>4 DEF IInv, ReturnedOK
<1>9. ret = "empty" => HasRoom(inst, RootDialog) /\ prompted \notin Live
  <2>1. ret = "empty" => HasRoom(inst, RootDialog)
    BY <1>1 DEF IInv, ReturnedOK
  <2> QED BY <1>7, <2>1
<1>10. stack[0] # <<>> => Heard(0)
  BY <1>7, <1>8 DEF Heard, Leaving
<1> QED BY <1>1, <1>2, <1>3, <1>4, <1>5, <1>6, <1>8, <1>9, <1>10

\* The root dialog begins.
LEMMA RunBeginsKeeps ==
  ASSUME IInv, RunBegins
  PROVE  IInv'
<1>1. Returns("run") /\ ret = "empty" /\ UNCHANGED <<stack, inst, spared>> /\ Quiet /\ prompted' = prompted
  BY DEF RunBegins, Quiet, conversation
<1>2. /\ Len(calls) = 1 /\ calls # <<>> /\ Front(calls) = <<>> /\ prompted \notin Live
      /\ stack[0] = <<>> /\ HasRoom(inst, RootDialog) /\ Top.fn = "run"
  BY <1>1, RunAlone DEF Returns
<1>3. /\ Tree(stack, inst) /\ StacksOK /\ CallsOK /\ FullOK /\ calls \in Seq(Frame)
      /\ prompted \in Contexts /\ prompted <= Len(inst) /\ Len(inst) \in Nat
  BY <1>2, WorkFacts
<1>4. Sound /\ Live' = Live
  BY <1>1, <1>3, StillSound
<1>5. PICK g, f : g = Call("run", 0) /\ f = BeginCall(0, RootDialog)
  OBVIOUS
<1>6. 0 \in Contexts /\ RootDialog \in Dialog
  BY DialogsAssumption DEF Contexts, Dialog
<1>7. g \in Frame /\ g.fn = "run" /\ g.dc = 0
  BY <1>5, <1>6 DEF Call, Frame
<1>8. f \in Frame /\ f.fn = "begin" /\ f.dc = 0 /\ f.id = RootDialog
  BY <1>5, <1>6 DEF BeginCall, Frame
<1>9. ret' = None /\ calls' = Front(calls) \o <<g, f>>
  BY <1>5 DEF RunBegins, Enter
<1>10. /\ Kept /\ Len(calls') = 2 /\ calls'[1] = g /\ calls'[2] = f /\ calls' # <<>> /\ Top' = f
  BY <1>2, <1>3, <1>7, <1>8, <1>9, EnterShape
<1>11. \A i \in Frames' : i = 1 \/ i = 2
  BY <1>10 DEF Frames
<1>12. CallsOK'
  <2>1. CallOK(1)'
    <3>1. LinkOK(1)'
      BY <1>7, <1>10 DEF LinkOK, Linked, Chain
    <3>2. calls'[1].dc \in 0..Len(inst') /\ 1..1 - 1 = {}
      BY <1>1, <1>3, <1>7, <1>10
    <3> QED BY <1>7, <1>10, <3>1, <3>2 DEF CallOK, Waits
  <2>2. CallOK(2)'
    <3>1. \A j \in 1..2 - 1 : j = 1
      OBVIOUS
    <3>2. LinkOK(2)'
      BY <1>7, <1>8, <1>10, <3>1 DEF LinkOK, Linked, Chain, Waits, Intact
    <3>3. calls'[2].dc \in 0..Len(inst')
      BY <1>1, <1>3, <1>8, <1>10
    <3>4. \A j \in 1..2 - 1 : OrderOK(j, 2)'
      BY <1>7, <1>8, <1>10, <3>1 DEF OrderOK
    <3>5. Over(calls[1], calls[2])'
      BY <1>7, <1>8, <1>10 DEF Over, Chain
    <3> QED BY <1>8, <1>10, <3>2, <3>3, <3>4, <3>5 DEF CallOK
  <2> QED BY <1>10, <1>11, <2>1, <2>2 DEF CallsOK, Kept
<1>13. ChildrenOK'
  BY <1>7, <1>8, <1>10, <1>11 DEF ChildrenOK, ChildOK
<1>14. FullOK'
  BY <1>1, <1>2, <1>3, <1>4, <1>10, KeptFull DEF Sound
<1>15. RunningOK'
  <2>1. HasRoom(inst', RootDialog)
    BY <1>1, <1>2 DEF HasRoom
  <2> QED BY <1>1, <1>2, <1>8, <1>10, <2>1 DEF RunningOK, Runs
<1>16. ReturnedOK'
  BY <1>9 DEF ReturnedOK
<1>17. prompted' \in Contexts /\ prompted' <= Len(inst')
  BY <1>1, <1>3
<1>18. PromptOK'
  BY <1>1, <1>2, <1>4, <1>17 DEF PromptOK
<1>19. ret' \in Status \union {None}
  BY <1>9
<1> QED BY <1>1, <1>2, <1>4, <1>10, <1>19, <1>12, <1>13, <1>14, <1>15, <1>16, <1>17, <1>18, WorkStep

\* What holds of a state in which no turn runs.
LEMMA RestStep ==
  ASSUME TypeOK', Forest(stack', inst'), Full(stack', inst'), History(stack', inst'), SavedOK',
         calls' = <<>>, ret' = None, IdleOK', LostOK'
  PROVE  IInv'
<1>1. StacksOK'
  BY DEF StacksOK
<1>2. FullOK'
  BY DEF FullOK, Full
<1>3. Frames' = {} /\ CallsOK'
  <2>1. Frames' = {}
    BY DEF Frames
  <2> QED BY <2>1 DEF CallsOK
<1>4. ChildrenOK' /\ RunningOK' /\ ReturnedOK' /\ PromptOK'
  BY <1>3 DEF ChildrenOK, RunningOK, ReturnedOK, PromptOK
<1> QED BY <1>1, <1>2, <1>3, <1>4 DEF IInv

\* A turn ends, and the conversation is saved.
LEMMA RunEndsKeeps ==
  ASSUME IInv, RunEnds
  PROVE  IInv'
<1>1. /\ Returns("run") /\ UNCHANGED <<stack, inst, access, activity, turns, now, prompted, spared, failures>>
      /\ cleared' = FALSE
      /\ calls' = <<>> /\ ret' = None /\ status' = ret /\ touched' = now
      /\ saved' = [stack |-> stack, inst |-> inst, access |-> access]
  BY DEF RunEnds, conversation
<1>2. /\ Frames = {1} /\ calls[1].fn = "run" /\ ret # None
      /\ ret = "waiting" \/ stack[0] # <<>> => Heard(0)
      /\ ret \in {"empty", "complete"} => stack[0] = <<>>
      /\ ret = "cancelled" => stack[0] = <<>> \/ spared
      /\ calls # <<>>
  BY <1>1, RunAlone
<1>3. Full(stack, inst)
  <2> SUFFICES ASSUME NEW c \in Contexts, NEW i \in 1..Len(stack[c]), Hollow(stack, inst, c, i)
               PROVE  FALSE
    BY DEF Full
  <2>1. PICK j \in Frames : Ends(j, c)
    BY DEF IInv, FullOK
  <2> QED BY <1>2, <2>1 DEF Ends
<1>4. Forest(stack, inst) /\ History(stack, inst)
  BY DEF IInv, StacksOK
<1>5. SavedOK'
  <2>1. saved'.stack = stack /\ saved'.inst = inst
    BY <1>1
  <2> QED BY <1>3, <1>4, <2>1 DEF SavedOK
<1>6. TypeOK'
  <2>1. ret \in Status
    BY <1>2 DEF IInv, TypeOK
  <2>2. saved' \in Conversation /\ Len(saved'.inst) <= MaxBegins
    BY <1>1 DEF IInv, TypeOK
  <2> QED BY <1>1, <2>1, <2>2 DEF IInv, TypeOK
<1>7. IdleOK'
  <2>1. Heard(0) => Heard(0)'
    <3>1. PICK m : m = Active(0)
      OBVIOUS
    <3>2. Active(0)' = m /\ Live' = Live /\ prompted' = prompted
      BY <1>1, <3>1, Unfolded, UnfoldedNext DEF Active
    <3>3. Leaf(m)' = Leaf(m)
      BY <1>1, Unfolded, UnfoldedNext
    <3> QED BY <1>1, <3>1, <3>2, <3>3 DEF Heard
  <2>2. /\ status' = "waiting" => stack'[0] # <<>>
        /\ status' \in {"empty", "complete"} => stack'[0] = <<>>
        /\ status' = "cancelled" => stack'[0] = <<>> \/ spared'
    BY <1>1, <1>2 DEF Heard
  <2>3. stack'[0] # <<>> => Heard(0)'
    BY <1>1, <1>2, <2>1
  <2> QED BY <1>1, <2>2, <2>3 DEF IdleOK
<1>9. LostOK'
  <2>1. failures \in Nat /\ turns \in Nat /\ saved'.inst = inst
    BY <1>1, DialogsAssumption DEF IInv, TypeOK
  <2>2. LostOK
    BY DEF IInv
  <2> QED BY <1>1, <1>2, <2>1, <2>2 DEF LostOK
<1>8. Forest(stack', inst') /\ Full(stack', inst') /\ History(stack', inst')
  BY <1>1, <1>3, <1>4
<1> QED BY <1>1, <1>5, <1>6, <1>7, <1>8, <1>9, RestStep

\* The clock goes on between turns.
LEMMA TickKeeps ==
  ASSUME IInv, Tick
  PROVE  IInv'
<1>1. /\ UNCHANGED <<stack, inst, access, saved, calls, ret, activity, turns, status, prompted,
                     spared, cleared, touched, failures>>
      /\ now < MaxTime /\ now' = now + 1 /\ calls = <<>>
  BY DEF Tick, conversation
<1>2. TypeOK'
  <2>1. now' \in 0..MaxTime
    BY <1>1, DialogsAssumption DEF IInv, TypeOK
  <2> QED BY <1>1, <2>1 DEF IInv, TypeOK
<1>3. ret = None /\ Forest(stack, inst) /\ Full(stack, inst) /\ History(stack, inst)
  <2>1. Frames = {}
    BY <1>1 DEF Frames
  <2> QED BY <1>1, <2>1 DEF IInv, StacksOK, IdleOK, FullOK, Full
<1>4. SavedOK'
  BY <1>1 DEF IInv, SavedOK
<1>5. IdleOK'
  <2>1. PICK m : m = Active(0)
    OBVIOUS
  <2>2. Active(0)' = m /\ Live' = Live
    BY <1>1, <2>1, Unfolded, UnfoldedNext DEF Active
  <2>3. Leaf(m)' = Leaf(m)
    BY <1>1, Unfolded, UnfoldedNext
  <2>4. Heard(0) => Heard(0)'
    BY <1>1, <2>1, <2>2, <2>3 DEF Heard
  <2>5. IdleOK
    BY DEF IInv
  <2> QED BY <1>1, <2>4, <2>5 DEF IdleOK
<1>7. LostOK'
  BY <1>1 DEF IInv, LostOK
<1>6. Forest(stack', inst') /\ Full(stack', inst') /\ History(stack', inst') /\ calls' = <<>> /\ ret' = None
  BY <1>1, <1>3
<1> QED BY <1>2, <1>4, <1>5, <1>6, <1>7, RestStep

\* A conversation without dialogs.
LEMMA NothingBegun ==
  /\ NoStack \in [Contexts -> Seq(1..MaxBegins)] /\ 0 \in Contexts /\ NoStack[0] = <<>>
  /\ <<>> \in Seq(Instance) /\ Len(<<>>) = 0 /\ Len(<<>>) <= MaxBegins
  /\ Forest(NoStack, <<>>) /\ Full(NoStack, <<>>) /\ History(NoStack, <<>>)
<1>1. 0 \in Contexts /\ MaxBegins \in Nat
  BY DialogsAssumption DEF Contexts
<1>2. NoStack \in [Contexts -> Seq(1..MaxBegins)] /\ \A c \in Contexts : NoStack[c] = <<>>
  BY DEF NoStack
<1>3. <<>> \in Seq(Instance) /\ Len(<<>>) = 0 /\ 1..0 = {}
  OBVIOUS
<1>4. \A c \in Contexts : 1..Len(NoStack[c]) = {}
  BY <1>2, <1>3
<1>5. Forest(NoStack, <<>>)
  BY <1>1, <1>2, <1>3, <1>4 DEF Forest
<1>6. Full(NoStack, <<>>) /\ History(NoStack, <<>>)
  BY <1>3, <1>4 DEF Full, History
<1> QED BY <1>1, <1>2, <1>3, <1>5, <1>6

\* The calls of a turn that starts, or starts again.
LEMMA RunStep ==
  ASSUME TypeOK', Forest(stack', inst'), Full(stack', inst'), History(stack', inst'), SavedOK',
         LostOK', stack'[0] = <<>> => HasRoom(inst', RootDialog),
         calls' = <<Call("run", 0), Call("continue", 0)>>, ret' = None,
         prompted' \notin Live', prompted' <= Len(inst')
  PROVE  IInv'
<1>6. Len(inst') \in Nat
  BY LenProperties DEF TypeOK, Conversation
<1>8. StacksOK' /\ FullOK'
  BY DEF StacksOK, FullOK, Full
<1>10. PICK g, f : g = Call("run", 0) /\ f = Call("continue", 0)
  OBVIOUS
<1>11. /\ g \in Frame /\ g.fn = "run" /\ g.dc = 0
       /\ f \in Frame /\ f.fn = "continue" /\ f.dc = 0
  BY <1>10, NothingBegun DEF Call, Frame
<1>12. /\ calls' \in Seq(Frame) /\ Len(calls') = 2 /\ calls'[1] = g /\ calls'[2] = f
       /\ calls' # <<>> /\ Top' = f
  <2>1. calls' = <<g, f>>
    BY <1>10
  <2>2. <<g, f>> \in Seq(Frame) /\ Len(<<g, f>>) = 2 /\ <<g, f>>[1] = g /\ <<g, f>>[2] = f
    BY <1>11
  <2>3. calls' # <<>>
    BY <2>1, <2>2
  <2> QED BY <2>1, <2>2, <2>3 DEF Last, Top
<1>13. \A i \in Frames' : i = 1 \/ i = 2
  BY <1>12 DEF Frames
<1>14. CallsOK'
  <2>1. CallOK(1)'
    <3>1. LinkOK(1)'
      BY <1>11, <1>12 DEF LinkOK, Linked, Chain
    <3>2. calls'[1].dc \in 0..Len(inst') /\ 1..1 - 1 = {}
      BY <1>6, <1>11, <1>12
    <3> QED BY <1>11, <1>12, <3>1, <3>2 DEF CallOK, Waits
  <2>2. CallOK(2)'
    <3>1. \A j \in 1..2 - 1 : j = 1
      OBVIOUS
    <3>2. LinkOK(2)'
      BY <1>11, <1>12, <3>1 DEF LinkOK, Linked, Chain, Waits, Intact
    <3>3. calls'[2].dc \in 0..Len(inst')
      BY <1>6, <1>11, <1>12
    <3>4. \A j \in 1..2 - 1 : OrderOK(j, 2)'
      BY <1>11, <1>12, <3>1 DEF OrderOK
    <3>5. Over(calls[1], calls[2])'
      BY <1>11, <1>12 DEF Over, Chain
    <3> QED BY <1>11, <1>12, <3>2, <3>3, <3>4, <3>5 DEF CallOK
  <2> QED BY <1>12, <1>13, <2>1, <2>2 DEF CallsOK
<1>15. ChildrenOK'
  BY <1>11, <1>12, <1>13 DEF ChildrenOK, ChildOK
<1>16. RunningOK'
  BY <1>11, <1>12 DEF RunningOK, Runs
<1>17. ReturnedOK'
  BY DEF ReturnedOK
<1>18. PromptOK'
  BY DEF PromptOK
<1>19. IdleOK'
  BY <1>12 DEF IdleOK
<1> QED BY <1>8, <1>14, <1>15, <1>16, <1>17, <1>18, <1>19 DEF IInv

\* A turn begins with the conversation it finds in the storage, or with none.
LEMMA BeginTurnKeeps ==
  ASSUME IInv, BeginTurn
  PROVE  IInv'
<1>1. /\ calls = <<>> /\ turns < MaxTurns /\ turns' = turns + 1 /\ activity' \in {"message", "event"}
      /\ stack'[0] = <<>> => HasRoom(inst', RootDialog)
      /\ calls' = <<Call("run", 0), Call("continue", 0)>> /\ ret' = None /\ prompted' = 0
      /\ spared' = FALSE /\ UNCHANGED <<saved, now, status, touched, failures>>
  BY DEF BeginTurn
<1>2. \/ stack' = NoStack /\ inst' = <<>> /\ cleared'
      \/ stack' = saved.stack /\ inst' = saved.inst
  BY DEF BeginTurn
<1>3. access' \in Nat /\ cleared' \in BOOLEAN
  <2>1. saved.access \in Nat \union {None} /\ now \in Nat
    BY DialogsAssumption DEF IInv, TypeOK, Conversation
  <2>2. access' \in Nat
    BY <2>1 DEF BeginTurn
  <2>3. cleared' \in BOOLEAN
    BY DEF BeginTurn
  <2> QED BY <2>2, <2>3
<1>4. SavedOK /\ TypeOK
  BY DEF IInv
<1>5. /\ Forest(stack', inst') /\ Full(stack', inst') /\ History(stack', inst')
      /\ stack' \in [Contexts -> Seq(1..MaxBegins)] /\ inst' \in Seq(Instance) /\ Len(inst') <= MaxBegins
  <2>1. CASE stack' = NoStack /\ inst' = <<>>
    BY <2>1, NothingBegun
  <2>2. CASE stack' = saved.stack /\ inst' = saved.inst
    BY <1>4, <2>2 DEF SavedOK, TypeOK, Conversation, Instance
  <2> QED BY <1>2, <2>1, <2>2
<1>6. Len(inst') \in Nat
  BY <1>5, LenProperties
<1>7. TypeOK'
  <2>1. [stack |-> stack', inst |-> inst', access |-> access'] \in Conversation
    BY <1>3, <1>5 DEF Conversation, Instance
  <2>2. turns' \in 0..MaxTurns
    BY <1>1, <1>4, DialogsAssumption DEF TypeOK
  <2>3. prompted' \in Contexts
    BY <1>1, NothingBegun
  <2>4. spared' \in BOOLEAN
    BY <1>1
  <2> QED BY <1>1, <1>3, <1>4, <1>5, <2>1, <2>2, <2>3, <2>4 DEF TypeOK
<1>9. SavedOK'
  BY <1>1, <1>4 DEF SavedOK
<1>10. LostOK'
  <2>1. LostOK /\ failures \in Nat /\ turns \in Nat
    BY DialogsAssumption DEF IInv, TypeOK
  <2>2. failures' <= turns' /\ failures' < turns'
    BY <1>1, <2>1 DEF LostOK
  <2>3. CASE stack' = NoStack /\ inst' = <<>> /\ cleared'
    <3>1. 1..Len(inst') = {}
      BY <2>3
    <3> QED BY <1>1, <2>1, <2>2, <2>3, <3>1 DEF LostOK
  <2>4. CASE stack' = saved.stack /\ inst' = saved.inst
    <3>1. Grown(saved.inst, saved.inst)
      <4>1. \A n \in 1..Len(inst') : inst'[n] \in Instance
        BY <1>5, ElementOfSeq
      <4> QED BY <1>6, <2>4, <4>1 DEF Grown, Instance
    <3> QED BY <1>1, <2>1, <2>2, <2>4, <3>1 DEF LostOK
  <2> QED BY <1>2, <2>3, <2>4
<1>11. prompted' \notin Live' /\ prompted' <= Len(inst')
  <2>1. 0 \notin Live'
    BY UnfoldedNext DEF LiveSet
  <2> QED BY <1>1, <1>6, <2>1
<1> QED BY <1>1, <1>5, <1>7, <1>9, <1>10, <1>11, RunStep

\* What is left on the stacks when a dialog throws is a conversation to continue.
LEMMA ThrownIsFull ==
  ASSUME IInv, calls # <<>>, ret = None, Top.fn \in {"continue", "step", "resume"},
         stack[Top.dc] # <<>>
  PROVE  Full(stack, inst)
<1>1. SUFFICES ASSUME NEW c \in Contexts, NEW i \in 1..Len(stack[c]), Hollow(stack, inst, c, i)
               PROVE  FALSE
  BY DEF Full
<1>2. PICK N, b : N = Len(calls) /\ b = Top.dc
  OBVIOUS
<1>3. Tree(stack, inst) /\ CallsOK /\ FullOK /\ Top.fn \in Chain /\ Top.fn \notin {"component", "ending", "end"}
  BY Trees DEF IInv, Chain
<1>4. /\ N \in Nat /\ N > 1 /\ N \in Frames /\ Top = calls[N] /\ stack[b] # <<>>
      /\ \A k \in Frames : /\ k \in Nat /\ CallOK(k) /\ calls[k] \in Frame
                           /\ calls[k].dc \in Contexts /\ \A j \in 1..k - 1 : j \in Frames
  <2>1. N \in Nat /\ N > 1 /\ Top = calls[N]
    BY <1>2, <1>3, HasCaller
  <2>2. Frames = 1..N
    BY <1>2 DEF Frames
  <2>3. \A k \in Frames : CallOK(k) /\ calls[k] \in Frame
    BY <1>3, <2>2, ElementOfSeq DEF CallsOK, Frames
  <2>4. \A f \in Frame : f.dc \in Contexts
    BY DEF Frame
  <2> QED BY <1>2, <2>1, <2>2, <2>3, <2>4
<1>5. i = Len(stack[c]) /\ \E j \in Frames : Ends(j, c)
  BY <1>1, <1>3 DEF FullOK
<1>6. PICK j \in Frames : Ends(j, c)
  BY <1>5
<1>7. j \in 1..N - 1 /\ calls[j].dc = c /\ calls[j].fn = "component"
  <2>1. j # N
    BY <1>2, <1>3, <1>4, <1>6 DEF Ends
  <2>2. j \in 1..N - 1
    BY <1>2, <1>4, <2>1 DEF Frames
  <2>3. calls[j].fn \in Waits
    BY <1>3, <1>4, <2>2 DEF CallOK, LinkOK, Linked
  <2> QED BY <1>2, <1>6, <2>2, <2>3 DEF Ends, Waits
<1>8. c < b /\ b \in Contexts
  <2>1. OrderOK(j, N)
    BY <1>4, <1>7 DEF CallOK
  <2> QED BY <1>2, <1>3, <1>4, <1>7, <2>1 DEF OrderOK
<1> DEFINE S == {d \in Contexts : /\ c < d /\ stack[d] # <<>>
                                  /\ \E k \in Frames : calls[k].fn \in Chain /\ calls[k].dc = d}
<1>9. PICK a \in S : \A d \in S : a <= d
  <2>1. b \in S
    BY <1>2, <1>3, <1>4, <1>8
  <2>2. S \subseteq Nat
    BY DialogsAssumption DEF Contexts
  <2>3. PICK T : T = S
    OBVIOUS
  <2>4. \E x \in T : \A y \in T : x <= y
    BY <2>1, <2>2, <2>3, Least
  <2> QED BY <2>3, <2>4
<1>10. PICK k \in Frames : calls[k].fn \in Chain /\ calls[k].dc = a
  BY <1>9
<1>11. a \in Contexts /\ a # 0 /\ c < a /\ stack[a] # <<>> /\ c \in Nat /\ a \in Nat
  BY <1>9, DialogsAssumption DEF Contexts
<1>12. /\ stack[On(a)] # <<>> /\ Active(On(a)) = a
       /\ \E g \in 1..k - 1 : calls[g].fn = "component" /\ calls[g].dc = On(a)
       /\ \A g \in 1..k - 1 : calls[g].fn \in Chain /\ calls[g].dc < a => calls[g].dc <= On(a)
  <2>1. LinkOK(k) /\ Linked(calls[k])
    BY <1>4, <1>10 DEF CallOK, Linked
  <2> QED BY <1>10, <1>11, <2>1 DEF LinkOK, Intact
<1>13. On(a) \in Contexts /\ On(a) < a
  <2>1. a \in 1..Len(inst)
    BY <1>4, <1>10, <1>11, <1>3, TreeFacts DEF CallOK
  <2>2. inst[a].on \in 0..a - 1
    BY <1>3, <2>1, TreeFacts
  <2> QED BY <1>11, <2>2, DialogsAssumption DEF On, Contexts
<1>14. c <= On(a)
  <2>1. CASE j < k
    <3>1. j \in 1..k - 1
      BY <1>4, <1>7, <2>1
    <3> QED BY <1>7, <1>11, <1>12, <3>1 DEF Chain
  <2>2. CASE k < j
    <3>1. k \in 1..j - 1
      BY <1>4, <2>2 DEF Frames
    <3>2. OrderOK(k, j)
      BY <1>4, <3>1 DEF CallOK
    <3>3. a <= c
      BY <1>7, <1>10, <3>2 DEF OrderOK, Chain
    <3> QED BY <1>11, <3>3
  <2>3. j # k
    BY <1>7, <1>10, <1>11
  <2> QED BY <1>4, <2>1, <2>2, <2>3
<1>15. CASE c = On(a)
  <2>1. stack[c][i] = a
    BY <1>5, <1>12, <1>15 DEF Active, Last
  <2> QED BY <1>1, <1>11, <2>1 DEF Hollow
<1>16. CASE c # On(a)
  <2>1. On(a) \in Nat /\ c < On(a)
    BY <1>11, <1>13, <1>14, <1>16, DialogsAssumption DEF Contexts
  <2>2. PICK g \in 1..k - 1 : calls[g].fn = "component" /\ calls[g].dc = On(a)
    BY <1>12
  <2>3. g \in Frames
    BY <1>4, <2>2
  <2>4. On(a) \in S
    BY <1>12, <1>13, <2>1, <2>2, <2>3 DEF Chain
  <2>5. a <= On(a)
    BY <1>9, <2>4
  <2> QED BY <1>11, <1>13, <2>1, <2>5
<1> QED BY <1>15, <1>16

\* A dialog handled the error: the turn runs again.
LEMMA RunsAgainKeeps ==
  ASSUME IInv, RunsAgain, calls # <<>>, ret = None, Top.fn \in {"continue", "step", "resume"},
         stack[Top.dc] # <<>>
  PROVE  IInv'
<1>1. /\ UNCHANGED <<stack, inst, access, saved, activity, turns, now, status, prompted,
                     spared, cleared, touched, failures>>
      /\ calls' = <<Call("run", 0), Call("continue", 0)>> /\ ret' = None
      /\ stack[0] # <<>>
  BY DEF RunsAgain, Handled, conversation
<1>2. Full(stack, inst) /\ prompted \notin Live
  <2>1. Top.fn # "end"
    OBVIOUS
  <2> QED BY <2>1, ThrownIsFull, Unheard
<1>3. Forest(stack', inst') /\ Full(stack', inst') /\ History(stack', inst')
  BY <1>1, <1>2 DEF IInv, StacksOK
<1>4. TypeOK'
  BY <1>1 DEF IInv, TypeOK
<1>5. calls' # <<>>
  BY <1>1
<1>6. SavedOK' /\ LostOK'
  BY <1>1, <1>5 DEF IInv, SavedOK, LostOK
<1>7. prompted' \notin Live' /\ prompted' <= Len(inst')
  <2>1. Live' = Live
    BY <1>1, Unfolded, UnfoldedNext
  <2> QED BY <1>1, <1>2, <2>1 DEF IInv, PromptOK
<1> QED BY <1>1, <1>3, <1>4, <1>6, <1>7, RunStep

\* A turn that throws leaves the conversation as it was saved, but for what the
\* dialogs were told.
LEMMA TurnThrowsKeeps ==
  ASSUME IInv, TurnThrows, calls # <<>>
  PROVE  IInv'
<1>1. /\ calls' = <<>> /\ ret' = None /\ status' = "failed" /\ saved' = [saved EXCEPT !.inst = Resaved]
      /\ stack' = saved.stack /\ inst' = Resaved /\ access' = saved.access
      /\ cleared' = FALSE /\ failures' = failures + 1
      /\ UNCHANGED <<activity, turns, now, prompted, spared, touched>>
  BY DEF TurnThrows
<1>2. PICK is, js : is = saved.inst /\ js = Resaved
  OBVIOUS
<1>3. /\ TypeOK /\ Tree(saved.stack, is) /\ Full(saved.stack, is) /\ History(saved.stack, is)
      /\ saved.access \in Nat \union {None} /\ failures \in Nat /\ turns \in Nat /\ MaxTurns \in Nat
      /\ saved = [stack |-> saved.stack, inst |-> saved.inst, access |-> saved.access]
  BY <1>2, DialogsAssumption DEF IInv, TypeOK, SavedOK, Tree, Conversation, Instance
<1>4. /\ Len(is) \in Nat /\ Len(inst) \in Nat
      /\ \A n \in 1..Len(is) : is[n] \in Instance
      /\ \A n \in 1..Len(inst) : inst[n] \in Instance /\ inst[n].told \in {0, 1}
  <2>1. Tree(stack, inst) /\ History(stack, inst)
    BY Trees DEF IInv, StacksOK
  <2> QED BY <1>3, <2>1, TreeFacts DEF History
<1>5. ASSUME NEW n \in 1..Len(is)
      PROVE  /\ js[n] \in Instance /\ js[n].id = is[n].id /\ js[n].on = is[n].on
             /\ js[n].cut = is[n].cut /\ js[n].told = is[n].told /\ js[n].lost <= failures + 1
  <2>1. is[n] \in Instance /\ is[n].lost <= failures
    BY <1>2, <1>4 DEF IInv, LostOK
  <2>2. CASE cleared
    <3>1. js[n] = is[n]
      BY <1>2, <2>2 DEF Resaved
    <3> QED BY <1>3, <2>1, <3>1 DEF Instance
  <2>3. CASE ~cleared
    <3>1. n \in 1..Len(inst) /\ is[n].told <= inst[n].told
      BY <1>2, <1>4, <2>3 DEF IInv, LostOK, Grown
    <3>2. PICK x : x = is[n].lost + inst[n].told - is[n].told
      OBVIOUS
    <3>3. inst[n].told \in {0, 1} /\ is[n].told \in Nat /\ is[n].lost \in Nat
      <4>1. inst[n].told \in {0, 1}
        BY <1>4, <3>1
      <4>2. is[n].told \in Nat /\ is[n].lost \in Nat
        BY <2>1 DEF Instance
      <4> QED BY <4>1, <4>2
    <3>4. x \in Nat /\ x <= failures + 1
      <4>1. \A p, q, b \in Nat : \A a \in {0, 1} :
              b <= a /\ p <= q => p + a - b \in Nat /\ p + a - b <= q + 1
        OBVIOUS
      <4>2. is[n].lost <= failures /\ is[n].told <= inst[n].told /\ failures \in Nat
        BY <1>3, <2>1, <3>1
      <4> QED BY ONLY <3>2, <3>3, <4>1, <4>2
    <3>5. js[n] = [is[n] EXCEPT !.lost = x]
      BY <1>2, <2>3, <3>2 DEF Resaved
    <3> QED BY <2>1, <3>4, <3>5 DEF Instance
  <2> QED BY <2>2, <2>3
<1>6. Same(is, js)
  <2>1. js = [n \in 1..Len(is) |-> js[n]]
    BY <1>2 DEF Resaved
  <2>2. js \in Seq(Instance) /\ Len(js) = Len(is)
    <3>1. js \in [1..Len(is) -> Instance]
      BY <1>5, <2>1
    <3> QED BY <1>4, <3>1
  <2> QED BY <1>5, <2>2 DEF Same
<1>7. Tree(saved.stack, js) /\ History(saved.stack, js)
  <2>1. Tree(saved.stack, is) /\ History(saved.stack, is) /\ Same(is, js)
        /\ \A n \in 1..Len(is) : js[n].told = is[n].told
    BY <1>3, <1>5, <1>6
  <2> QED BY ONLY <2>1, SameTree, StayHistory
<1>8. Full(saved.stack, js)
  <2> SUFFICES ASSUME NEW c \in Contexts, NEW i \in 1..Len(saved.stack[c]), Hollow(saved.stack, js, c, i)
               PROVE  FALSE
    BY DEF Full
  <2>1. saved.stack[c][i] \in 1..Len(is)
    BY <1>3 DEF Tree, Forest
  <2> QED BY <1>3, <1>5, <2>1 DEF Full, Hollow
<1>9. saved' = [stack |-> saved.stack, inst |-> js, access |-> saved.access] /\ inst' = js
  BY <1>1, <1>2, <1>3
<1>10. Forest(stack', inst') /\ Full(stack', inst') /\ History(stack', inst') /\ SavedOK'
  BY <1>1, <1>7, <1>8, <1>9 DEF SavedOK, Tree
<1>11. TypeOK'
  <2>1. saved' \in Conversation /\ Len(saved'.inst) <= MaxBegins
    BY <1>3, <1>7, <1>9 DEF Conversation, Tree, Instance
  <2>2. [stack |-> stack', inst |-> inst', access |-> access'] = saved'
    BY <1>1, <1>9
  <2>3. failures' \in 0..MaxTurns
    <3>1. failures < turns /\ turns <= MaxTurns
      BY <1>3 DEF IInv, LostOK, TypeOK
    <3> QED BY <1>1, <1>3, <3>1
  <2>4. inst' = saved'.inst /\ status' = "failed" /\ cleared' \in BOOLEAN
    BY <1>1, <1>9
  <2> QED BY <1>1, <1>3, <2>1, <2>2, <2>3, <2>4 DEF TypeOK
<1>12. LostOK'
  <2>1. failures' <= turns'
    <3>1. failures < turns
      BY DEF IInv, LostOK
    <3> QED BY <1>1, <1>3, <3>1
  <2>2. inst' = js /\ saved'.inst = js /\ Len(js) = Len(is)
    BY <1>6, <1>9 DEF Same
  <2> QED BY <1>1, <1>5, <2>1, <2>2 DEF LostOK
<1>13. IdleOK'
  BY <1>1 DEF IdleOK, Status
<1> QED BY <1>1, <1>10, <1>11, <1>12, <1>13, RestStep

\* A step, a prompt or the reprompt of a component throws.
LEMMA ThrowsKeeps ==
  ASSUME IInv, StepThrows \/ PromptThrows \/ RepromptThrows
  PROVE  IInv'
<1>1. Throws /\ calls # <<>> /\ ret = None /\ Top.fn \in {"continue", "step", "resume"}
  BY DEF StepThrows, PromptThrows, RepromptThrows, Executes
<1>2. stack[Top.dc] # <<>>
  <2>1. CASE PromptThrows
    BY <2>1 DEF PromptThrows
  <2>2. CASE StepThrows \/ RepromptThrows
    BY <1>1, <2>2 DEF StepThrows, RepromptThrows, Executes, IInv, RunningOK
  <2> QED BY <2>1, <2>2
<1> QED BY <1>1, <1>2, RunsAgainKeeps, TurnThrowsKeeps DEF Throws

\* The invariant holds before the first turn.
LEMMA InitInv ==
  ASSUME Init
  PROVE  IInv
<1>1. /\ stack = NoStack /\ inst = <<>> /\ access = None
      /\ saved = [stack |-> NoStack, inst |-> <<>>, access |-> None]
      /\ calls = <<>> /\ ret = None /\ activity = None /\ turns = 0 /\ now = 0
      /\ status = None /\ prompted = 0 /\ cleared = FALSE /\ touched = 0
      /\ spared = FALSE /\ failures = 0
  BY DEF Init
<1>2. TypeOK
  <2>1. [stack |-> stack, inst |-> inst, access |-> access] \in Conversation /\ saved \in Conversation
    BY <1>1, NothingBegun DEF Conversation, Instance
  <2>2. Len(inst) <= MaxBegins /\ Len(saved.inst) <= MaxBegins
    BY <1>1, NothingBegun
  <2>3. 0 \in 0..MaxTurns /\ 0 \in 0..MaxTime /\ 0 \in Contexts
    BY NothingBegun, DialogsAssumption
  <2>4. /\ prompted \in Contexts /\ cleared \in BOOLEAN /\ spared \in BOOLEAN
        /\ failures \in 0..MaxTurns
    BY <1>1, <2>3
  <2>5. turns \in 0..MaxTurns /\ now \in 0..MaxTime /\ touched \in 0..MaxTime
    BY <1>1, <2>3
  <2>6. ret \in Status \union {None} /\ activity \in {"message", "event", None}
        /\ status \in Status \union {"failed", None}
    BY <1>1
  <2> QED BY <2>1, <2>2, <2>4, <2>5, <2>6 DEF TypeOK
<1>3. StacksOK /\ SavedOK /\ FullOK
  BY <1>1, NothingBegun DEF StacksOK, SavedOK, FullOK, Full
<1>4. Frames = {} /\ CallsOK
  <2>1. Frames = {}
    BY <1>1 DEF Frames
  <2> QED BY <1>1, <2>1 DEF CallsOK
<1>5. ChildrenOK /\ RunningOK /\ ReturnedOK /\ PromptOK
  BY <1>1, <1>4 DEF ChildrenOK, RunningOK, ReturnedOK, PromptOK
<1>6. IdleOK
  BY <1>1, DialogsAssumption DEF IdleOK, Status
<1>7. LostOK
  BY <1>1, NothingBegun DEF LostOK
<1> QED BY <1>2, <1>3, <1>4, <1>5, <1>6, <1>7 DEF IInv

\* Nor does the invariant depend on anything else.
LEMMA StutterKeeps ==
  ASSUME IInv, UNCHANGED vars
  PROVE  IInv'
<1>1. /\ UNCHANGED <<stack, inst, access, saved, calls, ret, activity, turns, now, status, prompted,
                     spared, cleared, touched, failures>>
      /\ Live' = Live
  <2>1. UNCHANGED <<stack, inst, access, saved, calls, ret, activity, turns, now, status, prompted,
                    spared, cleared, touched, failures>>
    BY DEF vars, conversation
  <2> QED BY <2>1, Unfolded, UnfoldedNext
<1>2. ASSUME NEW c PROVE (Heard(c)' <=> Heard(c)) /\ (Leaving(c)' <=> Leaving(c))
  <2>1. PICK m : m = Active(c)
    OBVIOUS
  <2>2. Active(c)' = m
    BY <1>1, <2>1 DEF Active
  <2>3. Leaf(m)' = Leaf(m) /\ Descent(m)' = Descent(m)
    BY <1>1, Unfolded, UnfoldedNext
  <2> QED BY <1>1, <2>1, <2>2, <2>3 DEF Heard, Leaving
<1>3. TypeOK'
  BY <1>1 DEF IInv, TypeOK
<1>4. StacksOK' /\ SavedOK'
  BY <1>1 DEF IInv, StacksOK, SavedOK
<1>5. FullOK'
  BY <1>1 DEF IInv, FullOK, Frames, Ends
<1>6. CallsOK'
  BY <1>1 DEF IInv, CallsOK, Frames, CallOK, Passed, IdOf, Over, On, Active, LinkOK, Linked, Intact, OrderOK
<1>7. ChildrenOK'
  BY <1>1 DEF IInv, ChildrenOK, Frames, ChildOK, Active, Bare
<1>8. RunningOK'
  BY <1>1 DEF IInv, RunningOK, Top, IdOf, Active, Bare, HasRoom
<1>9. ReturnedOK'
  <2>1. PICK t : t = Top
    OBVIOUS
  <2>2. Top' = t
    BY <1>1, <2>1 DEF Top
  <2> QED BY <1>1, <1>2, <2>1, <2>2 DEF IInv, ReturnedOK, Active, Bare, HasRoom
<1>10. PromptOK'
  <2>1. PICK t : t = Top
    OBVIOUS
  <2>2. Top' = t
    BY <1>1, <2>1 DEF Top
  <2> QED BY <1>1, <1>2, <2>1, <2>2 DEF IInv, PromptOK
<1>11. IdleOK'
  BY <1>1, <1>2 DEF IInv, IdleOK
<1>12. LostOK'
  BY <1>1 DEF IInv, LostOK, Grown
<1> QED BY <1>3, <1>4, <1>5, <1>6, <1>7, <1>8, <1>9, <1>10, <1>11, <1>12 DEF IInv

-----------------------------------------------------------------------------
(* What every conversation keeps.                                          *)

\* The calls of a turn follow the nesting of the components, each component
\* whose dialogs are gone is about to be ended, and the instance that prompted
\* last waits, is about to leave, or has left: true of every state of every
\* conversation, whatever the code of the steps does (dialogContext.ts).
THEOREM CallsFollowStacks == Spec => []IInv
<1>1. Init => IInv
  BY InitInv
<1>2. IInv /\ [Next]_vars => IInv'
  <2> SUFFICES ASSUME IInv, [Next]_vars PROVE IInv'
    OBVIOUS
  <2>1. CASE Tick
    BY <2>1, TickKeeps
  <2>2. CASE BeginTurn
    BY <2>2, BeginTurnKeeps
  <2>3. CASE RunBegins
    BY <2>3, RunBeginsKeeps
  <2>4. CASE RunEnds
    BY <2>4, RunEndsKeeps
  <2>5. CASE Begin
    BY <2>5, BeginKeeps
  <2>6. CASE Step
    BY <2>6, StepKeeps
  <2>7. CASE StepThrows
    BY <2>7, ThrowsKeeps
  <2>8. CASE Continue
    BY <2>8, ContinueKeeps
  <2>9. CASE End
    BY <2>9, EndKeeps
  <2>10. CASE Resume
    BY <2>10, ResumeKeeps
  <2>11. CASE RepromptThrows
    BY <2>11, ThrowsKeeps
  <2>12. CASE InnerWaits
    BY <2>12, InnerWaitsKeeps
  <2>13. CASE InnerEnds
    BY <2>13, InnerEndsKeeps
  <2>14. CASE CancelledReturns
    BY <2>14, CancelledReturnsKeeps
  <2>15. CASE CancelUp
    BY <2>15, CancelUpKeeps
  <2>16. CASE CancelIntercepted
    BY <2>16, CancelInterceptedKeeps
  <2>17. CASE CancelOne
    BY <2>17, CancelOneKeeps
  <2>18. CASE EndingReturns
    BY <2>18, EndingReturnsKeeps
  <2>19. CASE UNCHANGED vars
    BY <2>19, StutterKeeps
  <2>20. CASE PromptThrows
    BY <2>20, ThrowsKeeps
  <2> QED BY <2>1, <2>2, <2>3, <2>4, <2>5, <2>6, <2>7, <2>8, <2>9, <2>10, <2>11, <2>12, <2>13,
             <2>14, <2>15, <2>16, <2>17, <2>18, <2>19, <2>20 DEF Next, Work
<1> QED BY <1>1, <1>2, PTL DEF Spec

\* The variables of a conversation have their types: at no time does a stack
\* hold what is no instance, or a turn report what is no status.
THEOREM TypeCorrect == Spec => []TypeOK
<1>1. IInv => TypeOK
  BY DEF IInv
<1> QED BY <1>1, CallsFollowStacks, PTL

\* Dialogs inside a component that left its stack were passed by, with it or one above it.
LEMMA PassedBy ==
  ASSUME NEW s, NEW is, Tree(s, is), History(s, is), NEW m \in 1..Len(is),
         m \notin LiveSet(s, is), s[m] # <<>>
  PROVE  \E k \in LineageIn(is)[m] : k # 0 /\ k \notin LiveSet(s, is) /\ (is[k].cut \/ is[k].told = 0)
<1> DEFINE Good(n) ==
      \E k \in LineageIn(is)[n] : k # 0 /\ k \notin LiveSet(s, is) /\ (is[k].cut \/ is[k].told = 0)
           Bad == {n \in 1..Len(is) : n \notin LiveSet(s, is) /\ s[n] # <<>> /\ ~Good(n)}
<1>1. SUFFICES ASSUME Bad # {} PROVE FALSE
  BY <1>1
<1>2. PICK x \in Bad : \A y \in Bad : x <= y
  <2>1. Bad \subseteq Nat
    OBVIOUS
  <2> HIDE DEF Bad
  <2> QED BY <1>1, <2>1, Least
<1>3. x \in 1..Len(is) /\ x \notin LiveSet(s, is) /\ s[x] # <<>> /\ ~Good(x) /\ x # 0
  BY <1>2
<1>4. PICK p : p = is[x].on
  OBVIOUS
<1>5. p \in 0..x - 1 /\ Len(is) \in Nat /\ 1..Len(is) \subseteq Contexts
  BY <1>3, <1>4, TreeFacts
<1>6. x \in 0..Len(is) /\ LineageIn(is)[x] = {x} \union LineageIn(is)[p]
  <2>1. x \in 0..Len(is)
    BY <1>3
  <2>2. LineageIn(is)[x] = Parents(is, LineageIn(is), x)
    BY <2>1, LineageUnfolds
  <2> QED BY <1>3, <1>4, <2>1, <2>2 DEF Parents
<1>7. CASE ~OnStack(s, is, x)
  <2>1. is[x].cut \/ is[x].told = 0
    BY <1>3, <1>7 DEF History
  <2> QED BY <1>3, <1>6, <2>1
<1>8. CASE OnStack(s, is, x)
  <2>1. p # 0 /\ p \notin LiveSet(s, is)
    BY <1>3, <1>4, <1>8, LiveUnfolds
  <2>2. p \in 1..Len(is) /\ p < x
    BY <1>3, <1>5, <2>1
  <2>3. s[p] # <<>>
    <3>1. PICK i \in 1..Len(s[p]) : s[p][i] = x
      BY <1>4, <1>8 DEF OnStack
    <3>2. p \in Contexts /\ Len(s[p]) \in Nat
      BY <1>5, <2>2, TreeFacts
    <3>3. Len(s[p]) > 0
      BY <3>1, <3>2
    <3> QED BY <3>2, <3>3, TreeFacts
  <2>4. p \notin Bad
    <3>1. ~(x <= p)
      BY <1>3, <2>2
    <3> QED BY <1>2, <3>1
  <2>5. Good(p)
    BY <2>1, <2>2, <2>3, <2>4
  <2> QED BY <1>3, <1>6, <2>5
<1> QED BY <1>7, <1>8

\* In the turns that are saved endDialog is called once for every instance that
\* leaves its stack, but for the two kinds the property names, and for none that
\* stays; each turn that throws adds one call at most to an instance that comes
\* back (dialogContext.ts, endActiveDialog; dialogHelper.ts, internalRun).
THEOREM ToldAsTheyLeave == Spec => []EndedOnce
<1>1. IInv => EndedOnce
  <2> SUFFICES ASSUME IInv, NEW n \in Instances
               PROVE  /\ n \in Live => inst[n].told = 0
                      /\ n \notin Live => \/ inst[n].told = 1
                                          \/ inst[n].id \notin SetOf(inst[n].on)
                                          \/ \E k \in Lineage(n) \ ({n} \union Live) :
                                               k # 0 /\ (inst[k].cut \/ inst[k].told = 0)
    BY DEF EndedOnce, IInv, LostOK, Instances
  <2>1. Tree(stack, inst) /\ History(stack, inst) /\ Forest(stack, inst)
    BY Trees DEF IInv
  <2>2. n \in 1..Len(inst)
    BY DEF Instances
  <2>3. PICK p : p = inst[n].on
    OBVIOUS
  <2>4. n \in Live <=> OnStack(stack, inst, n) /\ (p = 0 \/ p \in Live)
    BY <2>1, <2>2, <2>3, LiveUnfolds, Unfolded
  <2>5. CASE ~OnStack(stack, inst, n)
    <3>1. inst[n].told = 1 \/ inst[n].id \notin DialogSet(inst, p)
      BY <2>1, <2>2, <2>3, <2>5 DEF History
    <3> QED BY <2>3, <2>4, <2>5, <3>1, Unfolded
  <2>6. CASE OnStack(stack, inst, n)
    <3>1. inst[n].told = 0
      BY <2>1, <2>2, <2>6 DEF History
    <3> SUFFICES ASSUME n \notin Live
                 PROVE  \E k \in Lineage(n) \ ({n} \union Live) : k # 0 /\ (inst[k].cut \/ inst[k].told = 0)
      BY <3>1
    <3>2. p # 0 /\ p \notin LiveSet(stack, inst)
      BY <2>4, <2>6, Unfolded
    <3>3. p \in 0..n - 1 /\ Len(inst) \in Nat /\ 1..Len(inst) \subseteq Contexts
      BY <2>1, <2>2, <2>3, TreeFacts
    <3>4. p \in 1..Len(inst) /\ p < n /\ n # 0 /\ n \in 0..Len(inst) /\ p \in 0..Len(inst)
      BY <2>2, <3>2, <3>3
    <3>5. stack[p] # <<>>
      <4>1. PICK i \in 1..Len(stack[p]) : stack[p][i] = n
        BY <2>3, <2>6 DEF OnStack
      <4>2. Len(stack[p]) > 0 /\ p \in Contexts
        BY <2>1, <3>3, <3>4, <4>1, TreeFacts
      <4> QED BY <2>1, <4>2, TreeFacts
    <3>6. PICK k \in LineageIn(inst)[p] :
            k # 0 /\ k \notin LiveSet(stack, inst) /\ (inst[k].cut \/ inst[k].told = 0)
      BY <2>1, <3>2, <3>4, <3>5, PassedBy
    <3>7. k \in 0..p /\ LineageIn(inst)[n] = {n} \union LineageIn(inst)[p]
      <4>1. LineageIn(inst)[p] \subseteq 0..p /\ LineageIn(inst)[n] = Parents(inst, LineageIn(inst), n)
        BY <2>1, <3>4, LineageUnfolds
      <4> QED BY <2>3, <3>4, <3>6, <4>1 DEF Parents
    <3>8. k # n
      BY <3>4, <3>7
    <3> QED BY <3>6, <3>7, <3>8, Unfolded
  <2> QED BY <2>5, <2>6
<1> QED BY <1>1, CallsFollowStacks, PTL

\* The result of a turn tells the truth, whatever its dialogs do: one that waits
\* has an instance that listens, one that is complete has none, one that is
\* cancelled has one only if the cancellation passed the root dialogs by, and
\* the instance that listens is the one that prompted last (dialogHelper.ts,
\* internalRun; componentDialog.ts, beginDialog).
THEOREM ResultsTellTheTruth == Spec => []WaitingIsHeard
<1>1. IInv => WaitingIsHeard
  <2> SUFFICES ASSUME IInv, Idle, status \in Status
               PROVE  /\ status = "waiting" => stack[0] # <<>>
                      /\ status \in {"empty", "complete"} => stack[0] = <<>>
                      /\ status = "cancelled" => stack[0] = <<>> \/ spared
                      /\ stack[0] # <<>> => LET leaf == Leaf(Active(0)) IN
                           /\ inst[leaf].id \notin Components
                           /\ prompted \in Live => leaf = prompted
    BY DEF WaitingIsHeard
  <2>1. Tree(stack, inst) /\ IdleOK /\ FullOK /\ calls = <<>>
    BY Trees DEF IInv, Idle
  <2>2. /\ status = "waiting" => stack[0] # <<>>
        /\ status \in {"empty", "complete"} => stack[0] = <<>>
        /\ status = "cancelled" => stack[0] = <<>> \/ spared
        /\ stack[0] # <<>> => Heard(0)
    BY <2>1 DEF IdleOK
  <2>3. Full(stack, inst)
    <3>1. Frames = {}
      BY <2>1 DEF Frames
    <3> QED BY <2>1, <3>1 DEF FullOK, Full
  <2>4. 0 \in Contexts
    BY NothingBegun
  <2>5. stack[0] # <<>> => inst[LeafIn(stack, inst, Last(stack[0]))].id \notin Components
    BY <2>1, <2>3, <2>4, LeafIsNoComponent
  <2>6. Leaf(Active(0)) = LeafIn(stack, inst, Last(stack[0]))
    BY Unfolded DEF Active
  <2> QED BY <2>2, <2>5, <2>6 DEF Heard
<1> QED BY <1>1, CallsFollowStacks, PTL

=============================================================================
