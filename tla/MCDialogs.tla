----------------------------- MODULE MCDialogs -----------------------------
(***************************************************************************)
(* A root waterfall, a prompt and a component that starts another one.     *)
(* The waterfall of the inner component borrows the prompt of the root;    *)
(* another waterfall is begun by the root, and helps out when the outer    *)
(* component is interrupted.                                               *)
(***************************************************************************)
EXTENDS DialogsProps

CONSTANTS flow, ask, sub, form, steps, page

MCWaterfalls == {flow, steps, page}
MCPrompts == {ask}
MCComponents == {sub, form}
MCMembers == [d \in MCComponents |-> IF d = sub THEN {form, page} ELSE {steps}]
MCRootMembers == {flow, sub, ask, page}
MCInitialDialog == [d \in MCComponents |-> IF d = sub THEN form ELSE steps]
MCDepth == [d \in Dialog |-> CASE d = sub -> 3 [] d = form -> 2 [] OTHER -> 1]
MCStepCount == [d \in MCWaterfalls |-> IF d = page THEN 1 ELSE 2]
MCUses == [d \in MCWaterfalls |->
  CASE d = flow -> {sub, page} [] d = steps -> {ask} [] OTHER -> {}]
MCHelp == [d \in MCComponents |-> IF d = sub THEN {page} ELSE {}]
MCInterceptors == {flow, sub}
MCErrorHandlers == {form}

=============================================================================
