----------------------------- MODULE FrameSurvey -----------------------------
(***************************************************************************)
(* What a function's frame needs and where everything in it lies, computed *)
(* before any of its code is emitted (src/codegen/frame.rs).  Module       *)
(* FrameLayout models the loops of build one placement at a time; here the *)
(* finished layout is a value the code generator consults.                 *)
(***************************************************************************)
EXTENDS CTypes, Alignment, FiniteSetsExt

SAVED_REGISTERS == 16
TEMPORARY_BYTES == 8
STACK_ALIGNMENT == 16
ARGUMENT_REGISTERS == 8

Widest(S) == Max(S \cup {0})

Operands(e) ==
  CASE e.k \in {"Unary", "Postfix"} -> {e.e}
    [] e.k \in {"Binary", "Assign", "Index"} -> {e.l, e.r}
    [] e.k = "Call" -> {e.args[i] : i \in DOMAIN e.args}
    [] OTHER -> {}

(* How deeply `e` nests, counting itself; the callee of a call is a name   *)
(* and counts as an operand.                                               *)
RECURSIVE expression_depth(_)
expression_depth(e) ==
  1 + Widest({expression_depth(o) : o \in Operands(e)}
               \cup (IF e.k = "Call" THEN {1} ELSE {}))

(* survey_expr: how deep calls nest in one another's arguments, and the    *)
(* most arguments any one of them passes.                                  *)
RECURSIVE survey_calls(_), survey_arguments(_)
survey_calls(e) ==
  Widest({survey_calls(o) : o \in Operands(e)}) + (IF e.k = "Call" THEN 1 ELSE 0)
survey_arguments(e) ==
  Widest({survey_arguments(o) : o \in Operands(e)}
           \cup (IF e.k = "Call" THEN {Len(e.args)} ELSE {}))

InSequence(s) == {s[i] : i \in DOMAIN s}

(* Every expression a statement lowers as a whole: what statement_depth    *)
(* and survey_stmt visit.                                                  *)
RECURSIVE expressions_in(_)
expressions_in(s) ==
  CASE s.k = "Block" -> UNION {expressions_in(t) : t \in InSequence(s.body)}
    [] s.k = "If"    -> {s.c} \cup expressions_in(s.then)
                              \cup UNION {expressions_in(t) : t \in InSequence(s.else)}
    [] s.k = "While" -> {s.c} \cup expressions_in(s.body)
    [] s.k = "For"   -> InSequence(s.c) \cup InSequence(s.step) \cup expressions_in(s.body)
                              \cup UNION {expressions_in(t) : t \in InSequence(s.init)}
    [] s.k = "Return"   -> InSequence(s.value)
    [] s.k = "Expr"     -> {s.e}
    [] s.k = "LocalVar" -> InSequence(s.init.es)
    [] OTHER -> {}

(* requirements: one temporary per level of nesting, a block of argument   *)
(* slots per call depth, and room for the arguments past the eighth.       *)
requirements(body) ==
  LET es        == expressions_in(Block(body))
      arguments == Widest({survey_arguments(e) : e \in es})
  IN  [temporaries |-> Widest({expression_depth(e) : e \in es}),
       call_depth  |-> Widest({survey_calls(e) : e \in es}),
       arguments   |-> arguments,
       outgoing    |-> align_to(Widest({arguments - ARGUMENT_REGISTERS}) * 8,
                                STACK_ALIGNMENT)]

(* FrameLayout::build, as the value it returns: slots in order of          *)
(* declaration, then temporaries, then argument slots, each at the next    *)
(* multiple of its alignment.                                              *)
build(slots, needs) ==
  LET eight  == [size |-> TEMPORARY_BYTES, align |-> TEMPORARY_BYTES]
      blocks == needs.call_depth * needs.arguments
      items  == [i \in DOMAIN slots |-> [size |-> slots[i].size, align |-> slots[i].align]]
                  \o [i \in 1 .. needs.temporaries + blocks |-> eight]
      cursor[i \in 0 .. Len(items)] ==
        IF i = 0 THEN SAVED_REGISTERS
        ELSE align_to(cursor[i - 1], items[i].align) + items[i].size
      at(i)  == cursor[i] - items[i].size
      first  == Len(slots) + needs.temporaries
  IN  [offsets     |-> [name \in {slots[i].name : i \in DOMAIN slots} |->
                          at(CHOOSE i \in DOMAIN slots : slots[i].name = name)],
       temporaries |-> [d \in 1 .. needs.temporaries |-> at(Len(slots) + d)],
       arguments   |-> [p \in 1 .. blocks |-> at(first + p)],
       per_call    |-> needs.arguments,
       outgoing    |-> needs.outgoing,
       size        |-> align_to(cursor[Len(items)] + needs.outgoing, STACK_ALIGNMENT)]

(* The offset of argument `index` of a call `depth` calls deep. *)
HasArgument(l, depth, index) == depth * l.per_call + index + 1 \in DOMAIN l.arguments
argument(l, depth, index) == l.arguments[depth * l.per_call + index + 1]

incoming(l) == l.size - l.outgoing

(* incoming_offset: where the caller left the stack-passed parameter at    *)
(* `position` (counted from 0), packed at natural size and alignment.      *)
incoming_offset(slots, position) ==
  LET cursor[p \in ARGUMENT_REGISTERS .. position] ==
        align_to(IF p = ARGUMENT_REGISTERS THEN 0 ELSE cursor[p - 1] + slots[p].size,
                 slots[p + 1].align)
  IN  cursor[position]

=============================================================================
