------------------------------ MODULE Dialogs ------------------------------
(***************************************************************************)
(* The dialog stacks of one conversation:                                  *)
(*   - packages/agents-hosting-dialogs/src/dialogManager.ts, onTurn, and   *)
(*     dialogHelper.ts, internalRun: what a turn does around its dialogs;  *)
(*   - dialogContext.ts: begin, continue, end, replace, cancel, reprompt;  *)
(*   - waterfallDialog.ts, componentDialog.ts, prompts/prompt.ts.          *)
(*                                                                         *)
(* A turn is a stack of calls.  Most calls of the library are made in      *)
(* tail position and replace their caller; those that look at a result,    *)
(* or loop, stay on the stack.  An instance is known by its number; a      *)
(* component keeps its inner stack under its own number, the conversation  *)
(* keeps the root stack under 0.                                           *)
(***************************************************************************)
EXTENDS Integers, Sequences, SequencesExt

CONSTANTS
  Waterfalls, Prompts, Components, \* ids of dialogs, by class
  Members,       \* DialogSet of a component
  RootMembers,   \* DialogSet of the manager
  RootDialog,
  InitialDialog, \* dialog a component starts
  StepCount,     \* steps of a waterfall
  Uses,          \* dialogs the steps of a waterfall begin
  Help,          \* dialogs a component begins when it is interrupted
  Interceptors,  \* dialogs that handle the event cancelDialog
  ErrorHandlers, \* dialogs that handle the event error
  Depth,         \* instances a dialog begins at once: itself and initial dialogs
  ExpireAfter,
  MaxTurns,      \* bound: turns of the conversation
  MaxBegins,     \* bound: instances of a conversation
  MaxTime,       \* bound: ticks of the clock
  None

Dialog == Waterfalls \union Prompts \union Components
Contexts == 0..MaxBegins

ASSUME DialogsAssumption ==
  /\ MaxTurns \in Nat /\ MaxBegins \in Nat /\ MaxTime \in Nat /\ ExpireAfter \in Nat
  /\ Waterfalls \intersect (Prompts \union Components) = {} /\ Prompts \intersect Components = {}
  /\ StepCount \in [Waterfalls -> Nat \ {0}] /\ Uses \in [Waterfalls -> SUBSET Dialog]
  /\ Members \in [Components -> SUBSET Dialog]
  /\ Help \in [Components -> SUBSET Dialog] /\ Interceptors \subseteq Dialog
  /\ ErrorHandlers \subseteq Dialog /\ RootMembers \subseteq Dialog /\ RootDialog \in RootMembers
  /\ InitialDialog \in [Components -> Dialog] /\ Depth \in [Dialog -> Nat \ {0}]
  /\ \A d \in Components : InitialDialog[d] \in Members[d] /\ Depth[InitialDialog[d]] < Depth[d]
  /\ None \notin {"empty", "waiting", "complete", "cancelled", "failed"}

VARIABLES
  stack,     \* instances of each context, the active one last
  inst,      \* each instance: its dialog, its context, the waterfall step it is at
             \* and, as history, how often its endDialog was called in the turns
             \* that were saved (told) and in those that threw (lost), and
             \* whether a cancellation has passed its inner dialogs by
  access,    \* _lastAccess of the state
  saved,     \* the conversation state in the storage
  calls,     \* calls of the running turn
  ret,       \* the status returned to the last of them, or None
  activity,  \* type of the incoming activity
  turns, now,
  status,    \* history: result of the last turn
  prompted,  \* history: the instance that prompted last in this turn, 0 for none
  spared,    \* history: a cancellation of this turn has passed the root dialogs by
  cleared,   \* history: this turn has dropped the state it found
  touched,   \* history: when a turn was last completed
  failures   \* history: the turns that threw

conversation == <<stack, inst, access>>
vars == <<conversation, saved, calls, ret, activity, turns, now, status,
          prompted, spared, cleared, touched, failures>>

NoStack == [c \in Contexts |-> <<>>]

Init ==
  /\ stack = NoStack /\ inst = <<>> /\ access = None
  /\ saved = [stack |-> NoStack, inst |-> <<>>, access |-> None]
  /\ calls = <<>> /\ ret = None /\ activity = None
  /\ turns = 0 /\ now = 0
  /\ status = None /\ prompted = 0 /\ spared = FALSE /\ cleared = FALSE
  /\ touched = 0 /\ failures = 0

-----------------------------------------------------------------------------
(* Calls and contexts.                                                     *)

Call(fn, c) == [fn |-> fn, dc |-> c]
BeginCall(c, d) == [fn |-> "begin", dc |-> c, id |-> d]
\* A context made from a TurnContext has no parent: it is not linked.
CancelCall(c, linked, parents) ==
  [fn |-> "cancel", dc |-> c, linked |-> linked, parents |-> parents, notify |-> FALSE]
ComponentCall(c, op) == [fn |-> "component", dc |-> c, op |-> op]

Top == Last(calls)
Executes(fn) == calls # <<>> /\ ret = None /\ Top.fn = fn
Returns(fn) == calls # <<>> /\ ret # None /\ Top.fn = fn

Jump(f) == calls' = Append(Front(calls), f) /\ ret' = None
Enter(f, g) == calls' = Front(calls) \o <<f, g>> /\ ret' = None
Return(s) == calls' = Front(calls) /\ ret' = s

Active(c) == Last(stack[c])
IdOf(n) == inst[n].id

SetOf(c) == IF c = 0 THEN RootMembers ELSE Members[IdOf(c)]

\* A context and its parents: those of a component are older than it is.
Lineage(c) ==
  LET up[k \in 0..Len(inst)] == IF k = 0 THEN {0} ELSE {k} \union up[inst[k].on] IN up[c]

Found(c, d, linked) == \E k \in IF linked THEN Lineage(c) ELSE {c} : d \in SetOf(k)

\* From an instance down through the active instances of the components.
Descent(n) ==
  LET down[k \in 1..Len(inst)] ==
        IF IdOf(k) \in Components /\ stack[k] # <<>>
        THEN {k} \union down[Active(k)] ELSE {k}
  IN down[n]

Leaf(n) == CHOOSE k \in Descent(n) : \A j \in Descent(n) : j <= k

\* History: a cancellation has left the stacks of these contexts as they are.
Cut(cs) == [n \in 1..Len(inst) |-> IF n \in cs THEN [inst[n] EXCEPT !.cut = TRUE] ELSE inst[n]]

Spares(cs) == inst' = Cut(cs) /\ spared' = (spared \/ 0 \in cs)

\* The bound leaves room for a component and the dialogs it starts.
HasRoom(is, d) == Len(is) + Depth[d] <= MaxBegins
MayBegin(c, d) == Found(c, d, TRUE) /\ HasRoom(inst, d)

Told(n) == [inst EXCEPT ![n].told = @ + 1]
Pop(c) == stack' = [stack EXCEPT ![c] = Front(@)]

-----------------------------------------------------------------------------
(* Around the dialogs: DialogManager.onTurn and internalRun.               *)

Tick ==
  /\ now < MaxTime /\ calls = <<>> /\ now' = now + 1
  /\ UNCHANGED <<conversation, saved, calls, ret, activity, turns, status,
                 prompted, spared, cleared, touched, failures>>

BeginTurn ==
  LET last == IF saved.access = None THEN now ELSE saved.access
      expired == now - last >= ExpireAfter
  IN
  /\ calls = <<>> /\ turns < MaxTurns /\ turns' = turns + 1
  /\ activity' \in {"message", "event"}
  /\ stack' = IF expired THEN NoStack ELSE saved.stack
  /\ inst' = IF expired THEN <<>> ELSE saved.inst
  /\ access' = last
  /\ stack'[0] = <<>> => HasRoom(inst', RootDialog)
  /\ calls' = <<Call("run", 0), Call("continue", 0)>> /\ ret' = None
  /\ prompted' = 0 /\ spared' = FALSE
  /\ cleared' = expired
  /\ UNCHANGED <<saved, now, status, touched, failures>>

\* Nothing to continue: the root dialog begins.
RunBegins ==
  /\ Returns("run") /\ ret = "empty"
  /\ Enter(Call("run", 0), BeginCall(0, RootDialog))
  /\ UNCHANGED <<conversation, saved, activity, turns, now, status, prompted,
                 spared, cleared, touched, failures>>

RunEnds ==
  /\ Returns("run") /\ ret # "empty"
  /\ calls' = <<>> /\ ret' = None /\ status' = ret
  /\ saved' = [stack |-> stack, inst |-> inst, access |-> access]
  /\ touched' = now /\ cleared' = FALSE
  /\ UNCHANGED <<conversation, activity, turns, now, prompted, spared, failures>>

\* The error bubbles from the active dialog of the innermost context, if it has one.
Handled ==
  /\ stack[0] # <<>> /\ IdOf(Leaf(Active(0))) \notin Components
  /\ \E n \in Descent(Active(0)) : IdOf(n) \in ErrorHandlers

\* internalRun continues with the stacks as the error and its handler left them.
RunsAgain ==
  /\ Handled
  /\ calls' = <<Call("run", 0), Call("continue", 0)>> /\ ret' = None
  /\ UNCHANGED <<conversation, saved, activity, turns, now, status, prompted,
                 spared, cleared, touched, failures>>

\* What was saved, and as history the calls of endDialog in the turn that throws.
Resaved ==
  [n \in 1..Len(saved.inst) |->
     IF cleared THEN saved.inst[n]
     ELSE [saved.inst[n] EXCEPT !.lost = @ + inst[n].told - saved.inst[n].told]]

\* No dialog handles the error: the turn throws and saves nothing.
TurnThrows ==
  /\ ~Handled
  /\ calls' = <<>> /\ ret' = None /\ status' = "failed"
  /\ saved' = [saved EXCEPT !.inst = Resaved]
  /\ stack' = saved.stack /\ inst' = Resaved /\ access' = saved.access
  /\ cleared' = FALSE /\ failures' = failures + 1
  /\ UNCHANGED <<activity, turns, now, prompted, spared, touched>>

Throws == RunsAgain \/ TurnThrows

-----------------------------------------------------------------------------
(* DialogContext.beginDialog with the beginDialog of each class.           *)

Begin ==
  LET c == Top.dc
      d == Top.id
      n == Len(inst) + 1
  IN
  /\ Executes("begin")
  /\ inst' = Append(inst, [id |-> d, on |-> c, told |-> 0, lost |-> 0, cut |-> FALSE,
                           step |-> IF d \in Waterfalls THEN 1 ELSE 0])
  /\ stack' = [stack EXCEPT ![c] = Append(@, n)]
  /\ \/ d \in Waterfalls /\ Jump(Call("step", c)) /\ UNCHANGED prompted
     \/ d \in Prompts /\ Return("waiting") /\ prompted' = n
     \/ /\ d \in Components /\ UNCHANGED prompted
        /\ Enter(ComponentCall(c, "begin"), BeginCall(n, InitialDialog[d]))
  /\ UNCHANGED <<access, saved, activity, turns, now, status,
                 spared, cleared, touched, failures>>

-----------------------------------------------------------------------------
(* WaterfallDialog: resumeDialog and runStep.                              *)

NextStep(c) ==
  LET n == Active(c) IN
  \/ /\ inst[n].step < StepCount[IdOf(n)]
     /\ inst' = [inst EXCEPT ![n].step = @ + 1]
     /\ Jump(Call("step", c))
  \/ /\ inst[n].step = StepCount[IdOf(n)]
     /\ Jump(Call("end", c)) /\ UNCHANGED inst

StepWaits == Return("waiting") /\ UNCHANGED <<stack, inst>>

StepGoesOn(c) == NextStep(c) /\ UNCHANGED stack

StepEnds(c) == Jump(Call("end", c)) /\ UNCHANGED <<stack, inst>>

StepBegins(c) ==
  /\ \E d \in Uses[IdOf(Active(c))] : MayBegin(c, d) /\ Jump(BeginCall(c, d))
  /\ UNCHANGED <<stack, inst>>

\* replaceDialog: the dialog below is not resumed.
StepReplaces(c) ==
  /\ \E d \in Uses[IdOf(Active(c))] : MayBegin(c, d) /\ Jump(BeginCall(c, d))
  /\ inst' = Told(Active(c)) /\ Pop(c)

StepCancels(c) ==
  /\ \E parents \in BOOLEAN : Jump(CancelCall(c, TRUE, parents))
  /\ UNCHANGED <<stack, inst>>

\* The code of a step: any call of the context, the result of which it returns.
Step ==
  LET c == Top.dc IN
  /\ Executes("step")
  /\ \/ StepWaits \/ StepGoesOn(c) \/ StepEnds(c)
     \/ StepBegins(c) \/ StepReplaces(c) \/ StepCancels(c)
  /\ UNCHANGED <<access, saved, activity, turns, now, status, prompted,
                 spared, cleared, touched, failures>>

StepThrows == Executes("step") /\ Throws

-----------------------------------------------------------------------------
(* DialogContext.continueDialog with the continueDialog of each class.     *)

ContinueNothing(c) == stack[c] = <<>> /\ Return("empty") /\ UNCHANGED <<inst, prompted>>

\* Mutant: another status for a dialog that is still active.
ContinueCompletes(c) ==
  /\ stack[c] # <<>> /\ IdOf(Active(c)) \notin Components
  /\ activity # "message"
  /\ Return("completeAndWait") /\ UNCHANGED <<inst, prompted>>

\* Prompts and waterfalls only listen to messages.
ContinueIgnores(c) ==
  /\ stack[c] # <<>> /\ IdOf(Active(c)) \notin Components
  /\ activity # "message"
  /\ Return("waiting") /\ UNCHANGED <<inst, prompted>>

\* The answer is valid and ends the prompt, or the user is asked again, unless
\* the turn has already sent something.
ContinuePrompt(c) ==
  /\ stack[c] # <<>> /\ IdOf(Active(c)) \in Prompts /\ activity = "message"
  /\ \/ Jump(Call("end", c)) /\ UNCHANGED prompted
     \/ Return("waiting") /\ prompted' \in {prompted, Active(c)}
  /\ UNCHANGED inst

ContinueWaterfall(c) ==
  /\ stack[c] # <<>> /\ IdOf(Active(c)) \in Waterfalls /\ activity = "message"
  /\ NextStep(c) /\ UNCHANGED prompted

\* onContinueDialog continues the inner dialogs; one that is overridden may
\* instead cancel them, or begin another dialog on top of them.
ContinueComponent(c) ==
  LET n == Active(c) IN
  /\ stack[c] # <<>> /\ IdOf(n) \in Components
  /\ \/ Enter(ComponentCall(c, "continue"), Call("continue", n))
     \/ /\ Help[IdOf(n)] # {}
        /\ Enter(ComponentCall(c, "continue"), CancelCall(n, TRUE, FALSE))
     \/ \E d \in Help[IdOf(n)] :
          /\ MayBegin(n, d)
          /\ Enter(ComponentCall(c, "continue"), BeginCall(n, d))
  /\ UNCHANGED <<inst, prompted>>

Continue ==
  LET c == Top.dc IN
  /\ Executes("continue")
  /\ \/ ContinueNothing(c) \/ ContinueIgnores(c) \/ ContinuePrompt(c)
     \/ ContinueWaterfall(c) \/ ContinueComponent(c)
  /\ UNCHANGED <<stack, access, saved, activity, turns, now, status,
                 spared, cleared, touched, failures>>

\* The recognizer or the validator of a prompt throws.
PromptThrows ==
  LET c == Top.dc IN
  /\ Executes("continue") /\ activity = "message"
  /\ stack[c] # <<>> /\ IdOf(Active(c)) \in Prompts
  /\ Throws

-----------------------------------------------------------------------------
(* DialogContext.endDialog with the resumeDialog of each class.            *)

End ==
  LET c == Top.dc IN
  /\ Executes("end")
  /\ \/ stack[c] = <<>> /\ Return("complete") /\ UNCHANGED <<stack, inst>>
     \/ /\ stack[c] # <<>>
        /\ inst' = Told(Active(c)) /\ Pop(c)
        /\ IF Len(stack[c]) = 1 THEN Return("complete") ELSE Jump(Call("resume", c))
  /\ UNCHANGED <<access, saved, activity, turns, now, status, prompted,
                 spared, cleared, touched, failures>>

\* Components reprompt through contexts that are not linked: a dialog that
\* belongs to the set of a parent is not found.
RepromptFails(n) ==
  \E k \in Descent(n) :
    IdOf(k) \in Components /\ stack[k] # <<>> /\ ~Found(k, IdOf(Active(k)), FALSE)

Resume ==
  LET c == Top.dc
      n == Active(c)
  IN
  /\ Executes("resume")
  /\ \/ IdOf(n) \in Waterfalls /\ NextStep(c) /\ UNCHANGED prompted
     \/ /\ IdOf(n) \notin Waterfalls /\ ~RepromptFails(n)
        /\ Return("waiting") /\ prompted' = Leaf(n) /\ UNCHANGED inst
  /\ UNCHANGED <<stack, access, saved, activity, turns, now, status,
                 spared, cleared, touched, failures>>

RepromptThrows ==
  /\ Executes("resume") /\ IdOf(Active(Top.dc)) \in Components
  /\ RepromptFails(Active(Top.dc)) /\ Throws

-----------------------------------------------------------------------------
(* ComponentDialog: what becomes of the result of the inner dialogs.       *)

InnerWaits ==
  /\ Returns("component") /\ ret = "waiting"
  /\ Return("waiting")
  /\ UNCHANGED <<conversation, saved, activity, turns, now, status, prompted,
                 spared, cleared, touched, failures>>

\* Mutant: only a completed result ends the component.
InnerEndsIfComplete ==
  /\ Returns("component") /\ ret # "waiting"
  /\ IF ret = "complete" THEN Jump(Call("end", Top.dc)) ELSE Return("waiting")
  /\ UNCHANGED <<stack, inst, access, saved, activity, turns, now, status, prompted,
                 spared, cleared, touched, failures>>

InnerEnds ==
  /\ Returns("component") /\ ret # "waiting"
  /\ IF ret = "cancelled" /\ Top.op = "begin"
     THEN /\ Enter(Call("cancelled", Top.dc), Call("end", Top.dc))
          /\ Spares({Top.dc})
     ELSE Jump(Call("end", Top.dc)) /\ UNCHANGED <<inst, spared>>
  /\ UNCHANGED <<stack, access, saved, activity, turns, now, status, prompted,
                 cleared, touched, failures>>

\* beginDialog returns cancelled whatever the dialog below did when resumed.
CancelledReturns ==
  /\ Returns("cancelled") /\ Return("cancelled")
  /\ UNCHANGED <<conversation, saved, activity, turns, now, status, prompted,
                 spared, cleared, touched, failures>>

-----------------------------------------------------------------------------
(* DialogContext.cancelAllDialogs.                                         *)

Notified(f) == [f EXCEPT !.notify = TRUE]

\* The stack is empty: go on with the parent, if asked to.
CancelUp ==
  /\ Executes("cancel") /\ stack[Top.dc] = <<>>
  /\ IF Top.parents /\ Top.linked /\ Top.dc # 0
     THEN Jump([Notified(Top) EXCEPT !.dc = inst[Top.dc].on])
     ELSE Return("cancelled")
  /\ UNCHANGED <<conversation, saved, activity, turns, now, status, prompted,
                 spared, cleared, touched, failures>>

Intercepted(f) ==
  LET d == IdOf(Active(f.dc)) IN f.notify /\ d \in Interceptors /\ Found(f.dc, d, f.linked)

\* The dialog that handles the event stays, and what is below it.
CancelIntercepted ==
  /\ Executes("cancel") /\ stack[Top.dc] # <<>> /\ Intercepted(Top)
  /\ Return("cancelled")
  /\ Spares({Top.dc, Active(Top.dc)})
  /\ UNCHANGED <<stack, access, saved, activity, turns, now, status, prompted,
                 cleared, touched, failures>>

\* Mutant: a dialog that is not found stays on the stack.
CancelUnknownKeeps(c) == Jump(Notified(Top)) /\ UNCHANGED <<stack, inst>>

\* endActiveDialog: a dialog that is not found is popped and not told.
CancelUnknown(c) == Pop(c) /\ Jump(Notified(Top)) /\ UNCHANGED inst

CancelSimple(c) == Pop(c) /\ Jump(Notified(Top)) /\ inst' = Told(Active(c))

\* Mutant: the component does not forward the cancellation.
CancelOuter(c) == Pop(c) /\ Jump(Notified(Top)) /\ inst' = Told(Active(c))

\* A component first cancels its own dialogs, through a context that is not linked.
CancelComponent(c) ==
  /\ calls' = Front(calls) \o <<Notified(Top), Call("ending", c),
                                CancelCall(Active(c), FALSE, FALSE)>>
  /\ ret' = None /\ UNCHANGED <<stack, inst>>

CancelOne ==
  LET c == Top.dc
      d == IdOf(Active(c))
  IN
  /\ Executes("cancel") /\ stack[c] # <<>> /\ ~Intercepted(Top)
  /\ \/ ~Found(c, d, Top.linked) /\ CancelUnknown(c)
     \/ Found(c, d, Top.linked) /\ d \notin Components /\ CancelSimple(c)
     \/ Found(c, d, Top.linked) /\ d \in Components /\ CancelComponent(c)
  /\ UNCHANGED <<access, saved, activity, turns, now, status, prompted,
                 spared, cleared, touched, failures>>

EndingReturns ==
  /\ Returns("ending")
  /\ inst' = Told(Active(Top.dc)) /\ Pop(Top.dc)
  /\ calls' = Front(calls) /\ ret' = None
  /\ UNCHANGED <<access, saved, activity, turns, now, status, prompted,
                 spared, cleared, touched, failures>>

-----------------------------------------------------------------------------

Work ==
  \/ RunBegins \/ RunEnds \/ Begin \/ Step \/ StepThrows \/ Continue
  \/ PromptThrows \/ End \/ Resume \/ RepromptThrows \/ InnerWaits \/ InnerEnds
  \/ CancelledReturns \/ CancelUp \/ CancelIntercepted \/ CancelOne
  \/ EndingReturns

Next == Tick \/ BeginTurn \/ Work

Spec == Init /\ [][Next]_vars

\* The event loop runs the turn, and the code of a step returns.
FairSpec == Spec /\ WF_vars(Work)

=============================================================================
