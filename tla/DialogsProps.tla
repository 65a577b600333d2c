---------------------------- MODULE DialogsProps ----------------------------
(***************************************************************************)
(* What the dialog stacks of a conversation guarantee.                     *)
(***************************************************************************)
EXTENDS Dialogs

Instances == 1..Len(inst)
Idle == calls = <<>>

\* Instances on the root stack, or on that of a component that is.
Live ==
  LET live[k \in Contexts] ==
        IF k = 0 THEN TRUE
        ELSE k <= Len(inst) /\ k \in ToSet(stack[inst[k].on]) /\ live[inst[k].on]
  IN {k \in Instances : live[k]}

Status == {"empty", "waiting", "complete", "cancelled"}

Conversation ==
  [stack : [Contexts -> Seq(1..MaxBegins)],
   inst : Seq([id : Dialog, on : Contexts, told : Nat, lost : Nat, cut : BOOLEAN, step : Nat]),
   access : Nat \union {None}]

\* Types of the variables.
TypeOK ==
  /\ [stack |-> stack, inst |-> inst, access |-> access] \in Conversation
  /\ saved \in Conversation
  /\ Len(inst) <= MaxBegins /\ Len(saved.inst) <= MaxBegins
  /\ ret \in Status \union {None}
  /\ activity \in {"message", "event", None}
  /\ turns \in 0..MaxTurns /\ now \in 0..MaxTime /\ touched \in 0..MaxTime
  /\ status \in Status \union {"failed", None}
  /\ prompted \in Contexts /\ spared \in BOOLEAN /\ cleared \in BOOLEAN
  /\ failures \in 0..MaxTurns

\* In the turns that are saved endDialog is called once for every instance that
\* leaves its stack, and for none that stays.  Two kinds of instances leave
\* untold: one that its component found in the set of a parent, and one inside a
\* component that went first, which takes a cancellation that was intercepted,
\* by the component or inside it, or met the component at its first turn.  A
\* turn that throws brings the instances back that it has told: each such turn
\* adds one call at most.
EndedOnce ==
  \A n \in Instances :
    /\ n \in Live => inst[n].told = 0
    /\ n \notin Live => \/ inst[n].told = 1
                        \/ inst[n].id \notin SetOf(inst[n].on)
                        \/ \E k \in Lineage(n) \ ({n} \union Live) :
                             k # 0 /\ (inst[k].cut \/ inst[k].told = 0)
    /\ inst[n].lost <= failures

\* The result of a turn tells the truth: one that says waiting has an instance
\* that waits for the next message, and one that says complete has none; one
\* that says cancelled has none unless a cancellation has passed the root
\* dialogs by.  The instance that waits is the one that prompted last, if that
\* one has not left with a component that was cancelled as it began.
WaitingIsHeard ==
  (Idle /\ status \in Status) =>
    /\ status = "waiting" => stack[0] # <<>>
    /\ status \in {"empty", "complete"} => stack[0] = <<>>
    /\ status = "cancelled" => stack[0] = <<>> \/ spared
    /\ stack[0] # <<>> => LET leaf == Leaf(Active(0)) IN
         /\ inst[leaf].id \notin Components
         /\ prompted \in Live => leaf = prompted

\* A turn ends, though it may run again after each error that a dialog handles
\* and its dialogs make calls of each other: if errors are not handled for ever,
\* and if the code of the steps returns and begins finitely many dialogs.
TurnsEnd == <>[][~RunsAgain]_vars => ((calls # <<>>) ~> (calls = <<>>))

\* A conversation that was used within expireAfter keeps its dialogs.
ActiveIsKept == cleared /\ saved.stack[0] # <<>> => now - touched >= ExpireAfter

=============================================================================
