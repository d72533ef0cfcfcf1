------------------------- MODULE ExpressionLowering -------------------------
(***************************************************************************)
(* Where the intermediate values of an expression live while the code      *)
(* src/codegen/expr.rs emits for it runs.                                  *)
(*                                                                         *)
(* The generator walks an expression recursively; every operator saves its *)
(* first operand in the temporary of its nesting depth, and every call     *)
(* parks its arguments in the slots of its call depth.  `stack` holds the  *)
(* activations of the walk, innermost last.  Shapes of expressions are     *)
(* chosen as the walk reaches them, within what the surveys of             *)
(* src/codegen/frame.rs measured before any code was emitted, so a         *)
(* behaviour is the lowering of a body of arbitrary expressions.           *)
(*                                                                         *)
(* `temps` and `parked` record which activation last wrote each slot; 0    *)
(* stands for a value nobody needs any more.  What is modelled of a        *)
(* branch is that the second operand of && and || may not run.             *)
(***************************************************************************)
EXTENDS Integers, Sequences

CONSTANT Needs          (* possible survey results, Requirements records   *)

ASSUME LoweringNeedsAssumption ==
  Needs \subseteq [temporaries : Nat, arguments : Nat, call_depth : Nat, outgoing : Nat]

VARIABLES
  needs,       (* the Requirements the frame was built from                *)
  stack,       (* activations of the lowering methods, innermost last      *)
  depth,       (* Generator.depth: nesting of the expression being lowered *)
  call_depth,  (* Generator.call_depth: calls whose arguments are pending  *)
  temps,       (* temporary -> level of the activation that last wrote it  *)
  parked,      (* argument slot -> level of the activation that wrote it   *)
  unlowered    (* whether an Internal diagnostic was reported              *)

walk == <<stack, depth, call_depth, temps, parked, unlowered>>
vars == <<needs, walk>>

Nobody == 0

(* The operators that keep a value in the temporary of their depth: an     *)
(* operand (binary), or the address of a target or of an array.            *)
Spilling == {"binary", "assign", "element", "step"}
Kinds == Spilling \cup {"unary", "short_circuit", "call"}

(* The ways an operand is reached: `deeper` and `deeper_address` raise     *)
(* depth, an argument raises call_depth only, a statement neither.         *)
Routes == {"statement", "deeper", "argument"}

(* An activation: its operator, how many operands were evaluated (`done`)  *)
(* and saved in the frame (`saved`), the generator's counters when it was  *)
(* entered, and the call depth the survey gave the same node.              *)
Activations ==
  [kind : Kinds, route : Routes, args : Nat, done : Nat, saved : Nat,
   depth : Nat, calls : Nat, survey : Nat]

Top == stack[Len(stack)]

Operands(a) ==
  IF a.kind = "call" THEN a.args
  ELSE IF a.kind \in {"unary", "step"} THEN 1 ELSE 2

(* How many operand results are kept in the frame: every argument of a     *)
(* call, the first operand of a spilling operator, none otherwise.         *)
Saves(a) ==
  IF a.kind = "call" THEN a.args
  ELSE IF a.kind \in Spilling THEN 1 ELSE 0

MustSave(a) == a.saved < a.done /\ a.saved < Saves(a)

Complete(a) == a.done = Operands(a) /\ ~MustSave(a)

(* A fault of argument: every call depth shares one row of slots. *)
argument_shared(calls, index) == index

(* FrameLayout::argument: the position of an argument slot, counted over   *)
(* all call depths.                                                        *)
argument(calls, index) == calls * needs.arguments + index

ArgumentSlots == 0 .. needs.call_depth * needs.arguments - 1
TemporarySlots == 0 .. needs.temporaries - 1

(* The value of a popped activation is consumed: nobody needs what it left *)
(* in the frame.                                                           *)
Forget(slots, level) ==
  [s \in DOMAIN slots |-> IF slots[s] = level THEN Nobody ELSE slots[s]]

(* A fault of binary: its second operand is not lowered deeper. *)
DepthBelowFirstOnly(route) ==
  IF route = "deeper" /\ Top.done = 0 THEN depth + 1 ELSE depth

(* The depths `deeper` and `call` set before lowering an operand. *)
DepthBelow(route) == IF route = "deeper" THEN depth + 1 ELSE depth
CallsBelow(route) == IF route = "argument" THEN Top.calls + 1 ELSE call_depth

(* Faults of deeper: depth is lowered on the way out of every expression,  *)
(* or only on the way out of a first operand.                              *)
RestoredDepthAlways(route) == depth - 1
RestoredDepthFirstOnly(route) ==
  IF route = "deeper" /\ stack[Len(stack) - 1].done = 0 THEN depth - 1 ELSE depth

(* The depths they put back afterwards. *)
RestoredDepth(route) ==
  IF route = "deeper" /\ depth > 0 THEN depth - 1 ELSE depth
RestoredCalls(route) ==
  IF route = "argument" THEN stack[Len(stack) - 1].calls ELSE call_depth

(* The slot of an argument is looked up before the argument is lowered. *)
SlotMissing ==
  /\ Top.kind = "call"
  /\ Top.done < Top.args
  /\ ~MustSave(Top)
  /\ argument(Top.calls, Top.done) \notin ArgumentSlots

(* The next operand of the innermost activation may be lowered. *)
OperandRoute ==
  IF stack = <<>> THEN "statement"
  ELSE IF Top.kind = "call" THEN "argument" ELSE "deeper"

ReadyForOperand ==
  stack # <<>> =>
    /\ Top.done < Operands(Top)
    /\ ~MustSave(Top)
    /\ ~SlotMissing

(* A fault of survey_expr: arguments are surveyed at the depth of the call. *)
SurveyDepthFlat == 0

(* survey_expr's depth parameter for the operand about to be lowered. *)
SurveyDepth ==
  IF stack = <<>> THEN 0
  ELSE IF Top.kind = "call" THEN Top.survey + 1 ELSE Top.survey

(* What expression_depth and survey_expr measured bounds every expression  *)
(* of the body: how deep a node sits (below an operator is at least an     *)
(* operand or the name of a callee), how deep a call is nested in others'  *)
(* arguments, how many arguments it has.                                   *)
Surveyed(kind, args) ==
  /\ Len(stack) + (IF kind = "leaf" THEN 1 ELSE 2) <= needs.temporaries
  /\ kind = "call" => SurveyDepth + 1 <= needs.call_depth /\ args <= needs.arguments

(* `stack` with one more operand of its innermost activation evaluated. *)
OperandDone(s) ==
  IF s = <<>> THEN s ELSE [s EXCEPT ![Len(s)].done = @ + 1]

Popped == SubSeq(stack, 1, Len(stack) - 1)

------------------------------------------------------------------------------

Init ==
  /\ needs \in Needs
  /\ stack = <<>>
  /\ depth = 0
  /\ call_depth = 0
  /\ temps = [t \in TemporarySlots |-> Nobody]
  /\ parked = [p \in ArgumentSlots |-> Nobody]
  /\ unlowered = FALSE

(* A literal, a name or the address of either: one load, no frame slot.    *)
Leaf ==
  /\ stack # <<>>
  /\ ReadyForOperand
  /\ Surveyed("leaf", 0)
  /\ stack' = OperandDone(stack)
  /\ UNCHANGED <<needs, depth, call_depth, temps, parked, unlowered>>

(* expr and address_of dispatch to the method of an operator, which first  *)
(* asks for its temporary.  Without one it reports an Internal diagnostic  *)
(* and returns, leaving the operand unlowered.                             *)
Enter(kind, args) ==
  LET route   == OperandRoute
      below   == DepthBelow(route)
      missing == kind \in Spilling /\ below \notin TemporarySlots
      entered == [kind |-> kind, route |-> route, args |-> args, done |-> 0, saved |-> 0,
                  depth |-> below, calls |-> CallsBelow(route), survey |-> SurveyDepth]
  IN  /\ ReadyForOperand
      /\ Surveyed(kind, args)
      /\ stack' = IF missing THEN OperandDone(stack) ELSE Append(stack, entered)
      /\ depth' = IF missing THEN depth ELSE below
      /\ call_depth' = IF missing THEN call_depth ELSE CallsBelow(route)
      /\ unlowered' = (unlowered \/ missing)
      /\ UNCHANGED <<needs, temps, parked>>

(* store_to_frame of the first operand, or of its address. *)
Spill ==
  /\ stack # <<>>
  /\ Top.kind \in Spilling
  /\ MustSave(Top)
  /\ temps' = [temps EXCEPT ![Top.depth] = Len(stack)]
  /\ stack' = [stack EXCEPT ![Len(stack)].saved = @ + 1]
  /\ UNCHANGED <<needs, depth, call_depth, parked, unlowered>>

(* store_to_frame of the argument just evaluated. *)
Park ==
  /\ stack # <<>>
  /\ Top.kind = "call"
  /\ MustSave(Top)
  /\ parked' = [parked EXCEPT ![argument(Top.calls, Top.saved)] = Len(stack)]
  /\ stack' = [stack EXCEPT ![Len(stack)].saved = @ + 1]
  /\ UNCHANGED <<needs, depth, call_depth, temps, unlowered>>

(* The innermost activation is over: its saved operands are reloaded (or   *)
(* its arguments placed and the callee called), and the method that asked  *)
(* for it restores its own depth.                                          *)
Leave ==
  /\ stack' = OperandDone(Popped)
  /\ depth' = RestoredDepth(Top.route)
  /\ call_depth' = RestoredCalls(Top.route)
  /\ temps' = Forget(temps, Len(stack))
  /\ parked' = Forget(parked, Len(stack))
  /\ UNCHANGED needs

(* A call whose next argument has no slot is abandoned with an Internal    *)
(* diagnostic.                                                             *)
Finish ==
  /\ stack # <<>>
  /\ Complete(Top) \/ SlotMissing
  /\ Leave
  /\ unlowered' = (unlowered \/ SlotMissing)

(* The left operand of && or || decides, and the branch skips the right. *)
ShortCircuit ==
  /\ stack # <<>>
  /\ Top.kind = "short_circuit"
  /\ Top.done = 1
  /\ Leave
  /\ UNCHANGED unlowered

Next ==
  \/ Leaf
  \/ \E kind \in Kinds, args \in 0 .. needs.arguments :
       /\ kind # "call" => args = 0
       /\ Enter(kind, args)
  \/ Spill
  \/ Park
  \/ Finish
  \/ ShortCircuit

Spec == Init /\ [][Next]_vars

------------------------------------------------------------------------------
(* Properties. *)

(* Type invariant: every variable has the shape the generator gives it. *)
TypeOK ==
  /\ needs \in Needs
  /\ stack \in Seq(Activations)
  /\ depth \in Nat
  /\ call_depth \in Nat
  /\ temps \in [TemporarySlots -> Nat]
  /\ parked \in [ArgumentSlots -> Nat]
  /\ unlowered \in BOOLEAN

(* A value spilled by an operator is still there when the operator reloads *)
(* it, whatever was lowered in between: no inner expression is given the   *)
(* temporary of an outer one, even through the arguments of calls, which   *)
(* do not raise the expression depth.                                      *)
SpilledSurvives ==
  \A k \in 1 .. Len(stack) :
    stack[k].kind \in Spilling /\ stack[k].saved > 0
      => temps[stack[k].depth] = k

(* Every argument a call has parked is still in its slot until the call    *)
(* places it: f(1, g(2, 3)) does not have g's arguments written over f's.  *)
ParkedSurvives ==
  \A k \in 1 .. Len(stack) :
    stack[k].kind = "call"
      => \A i \in 0 .. stack[k].saved - 1 : parked[argument(stack[k].calls, i)] = k

(* The surveys made before lowering reserve enough: no expression that     *)
(* analysis accepted ends in an Internal diagnostic.                       *)
SurveySuffices == ~unlowered

(* Between statements the counters are back where they started, so the     *)
(* next statement begins at temporary 0 and argument block 0.              *)
CountersRestored ==
  stack = <<>> => depth = 0 /\ call_depth = 0

=============================================================================
