---------------------------- MODULE TypeChecker ----------------------------
(***************************************************************************)
(* The analyzer of src/sema/mod.rs over the expressions of one statement   *)
(* or declaration: the type of every node, the conversion of every value,  *)
(* what is reported and in which order, and the constants it folds.        *)
(*                                                                         *)
(* The walk types a node after its parts, so it is a machine with a stack  *)
(* of typed expressions, `typed`, and the program is whatever expression   *)
(* the steps build.  A name is looked up in `Declared`, what the open      *)
(* scopes hold: which declaration that is, is module Scopes' subject.  The *)
(* text is reduced to offsets: Gap bytes lie between two operands, an      *)
(* operator in front takes one of them and a closing bracket one more.     *)
(*                                                                         *)
(* An expression that folds stands for its value: no rule looks inside it, *)
(* so it is kept as one node.  The bounds are MaxNodes, IntMax and         *)
(* Sampled, the operators tried where there is no folding: the rules only  *)
(* tell arithmetic, comparison and logic apart.                            *)
(*                                                                         *)
(* The depth guard leaves an expression `Levels` levels: MAX_NESTING_DEPTH *)
(* less those of the statements around it.  The expressions are those it   *)
(* lets the walk descend; that a deeper one is reported and refused        *)
(* (expr_used_as) is left out, and what folds is taken to be within it.    *)
(***************************************************************************)
EXTENDS Types, Diagnostics, FiniteSets

CONSTANTS
  Declared,    \* the names in scope, with their types
  Undeclared,  \* names that are not in scope
  Letters,     \* the values of character literals
  Texts,       \* the lengths of string literals
  Places,      \* what the expression may be written in
  Levels,      \* how deep an expression may go
  MaxNodes, IntMax, Sampled

(* What a statement may hold, and a declaration of a type as written.      *)
Statement(form, returns) == [form |-> form, ty |-> returns, init |-> "expression", redeclared |-> FALSE]
Declaration(form, ty, init, redeclared) ==
  [form |-> form, ty |-> ty, init |-> init, redeclared |-> redeclared]
Declarations == {"local", "global"}

(* A type as it is written in front of a name. *)
Written ==
  {TyInt, TyChar, TyVoid} \cup [shape : {"array"}, base : Bases \cup {"void"}, len : Nat]

(* Names have the types of accepted declarations, a character fits an int, *)
(* and a function returns no array.                                        *)
ASSUME TypeCheckerAssumption ==
  /\ MaxNodes \in Nat /\ Levels \in Nat /\ IntMax \in Nat \ {0}
  /\ Letters \subseteq 0 .. IntMax /\ Texts \subseteq Nat
  /\ \A name \in DOMAIN Declared : Declared[name] \in Objects \cup Functions
  /\ DOMAIN Declared \cap Undeclared = {}
  /\ \A site \in Places :
       \/ \E form \in {"expression", "condition"} : site = Statement(form, TyVoid)
       \/ \E ty \in {TyInt, TyChar, TyVoid} : site = Statement("return", ty)
       \/ \E form \in Declarations, init \in {"none", "expression", "list"} :
            /\ site = Declaration(form, site.ty, init, site.redeclared)
            /\ site.ty \in Written /\ site.redeclared \in BOOLEAN

VARIABLES
  place,        \* the statement or declaration whose expression this is
  typed,        \* the expressions typed whose parent is still to come
  diagnostics,  \* the bag, in the order of discovery
  analysis,     \* the diagnostics handed on, once the walk is over
  phase

vars == <<place, typed, diagnostics, analysis, phase>>

IntMin == -IntMax - 1
Gap == MaxNodes + 2
NameSpan == Span(0, 1)
Opening == 1

SizeOf(nodes) == FoldLeft(LAMBDA sum, n : sum + n.size, 0, nodes)

(* An expression with its annotations.  `is` is its name, operator or      *)
(* length; `value` is what it folds to, if it does.                        *)
Node(kind, is, parts, ty, span) ==
  [kind |-> kind, is |-> is, parts |-> parts, ty |-> ty, span |-> span,
   value |-> <<>>, conversion |-> "None", size |-> 1 + SizeOf(parts)]

Kinds ==
  {"Constant", "StrLit", "Ident", "Callee", "Unary", "Binary", "Assign", "Index", "Postfix", "Call"}
Conversions == {"None", "PromoteCharToInt", "TruncateIntToChar", "DecayArrayToPtr"}

Constant(v, ty, span) == [Node("Constant", "", <<>>, ty, span) EXCEPT !.value = <<v>>]

(* The nodes so far; a declaration is one.                                 *)
Nodes == SizeOf(typed) + (IF place.form \in Declarations THEN 1 ELSE 0)
-----------------------------------------------------------------------------
(* constant_value.  An Option is a sequence of at most one.                *)
checked(v) == IF v \in IntMin .. IntMax THEN <<v>> ELSE <<>>
from(p) == IF p THEN <<1>> ELSE <<0>>

Magnitude(v) == IF v < 0 THEN -v ELSE v
Truncated(a, b) ==
  LET q == Magnitude(a) \div Magnitude(b) IN IF (a < 0) # (b < 0) THEN -q ELSE q

UnaryOperators == {"Plus", "Negate", "Not", "PreIncrement", "PreDecrement"}

folded_unary(op, v) ==
  CASE op = "Plus"   -> <<v>>
    [] op = "Negate" -> checked(-v)
    [] op = "Not"    -> from(v = 0)
    [] OTHER -> <<>>

(* A fault: a remainder is checked for nothing but a zero divisor.         *)
RemainderUnchecked(a, b) == IF b = 0 THEN <<>> ELSE <<a - b * Truncated(a, b)>>
checked_rem(a, b) ==
  IF b = 0 \/ checked(Truncated(a, b)) = <<>> THEN <<>> ELSE <<a - b * Truncated(a, b)>>

BinaryOperators ==
  {"Add", "Subtract", "Multiply", "Divide", "Remainder"} \cup Comparisons \cup Logical

folded_binary(op, a, b) ==
  CASE op = "Add"          -> checked(a + b)
    [] op = "Subtract"     -> checked(a - b)
    [] op = "Multiply"     -> checked(a * b)
    [] op = "Divide"       -> IF b = 0 THEN <<>> ELSE checked(Truncated(a, b))
    [] op = "Remainder"    -> checked_rem(a, b)
    [] op = "Equal"        -> from(a = b)
    [] op = "NotEqual"     -> from(a # b)
    [] op = "Less"         -> from(a < b)
    [] op = "Greater"      -> from(a > b)
    [] op = "LessEqual"    -> from(a <= b)
    [] op = "GreaterEqual" -> from(a >= b)
    [] op = "And"          -> from(a # 0 /\ b # 0)
    [] op = "Or"           -> from(a # 0 \/ b # 0)
-----------------------------------------------------------------------------
(* Reports, and the conversions recorded against a node.                   *)
Report(condition, span, about, types) ==
  IF condition THEN <<Diagnostic(span, [about |-> about, types |-> types])>> ELSE <<>>

reports(found) == diagnostics' = diagnostics \o found

(* A fault: nothing is promoted. *)
LeaveAsWritten(n) == n
record_promotion(n) == IF promotes(n.ty) THEN [n EXCEPT !.conversion = "PromoteCharToInt"] ELSE n

carry_into(n, expected) ==
  IF assignability(expected, n.ty) \in {"Exact", "Incompatible"} THEN n
  ELSE [n EXCEPT !.conversion = assignability(expected, n.ty)]

Cannot(carrying, n, expected) ==
  Report(assignability(expected, n.ty) = "Incompatible", n.span, carrying, <<n.ty, expected>>)

NotACondition(n, span) == Report(~is_scalar(n.ty), span, "not a condition", <<n.ty>>)

check_written_type(ty) ==
  IF ty.base = "void" THEN Report(TRUE, NameSpan, "incomplete type", <<ty>>)
  ELSE Report(ty.shape = "array" /\ ty.len = 0, NameSpan, "array size", <<ty>>)
-----------------------------------------------------------------------------
Init ==
  /\ place \in Places
  /\ typed = <<>>
  /\ phase = IF place.form \in Declarations THEN "declaration" ELSE "expression"
  /\ diagnostics = <<>> /\ analysis = <<>>

(* The head of a declaration.  A global is declared before its initializer *)
(* is looked at, a local after it.                                         *)
declaration ==
  /\ phase = "declaration"
  /\ reports(check_written_type(place.ty)
               \o Report(place.form = "global" /\ place.redeclared, NameSpan, "redeclaration", <<>>))
  /\ phase' = "expression"
  /\ UNCHANGED <<place, typed, analysis>>

(* The node made of the last `n` expressions takes their place; a          *)
(* constant is as wide as its first part.                                  *)
Below(n) == SubSeq(typed, 1, Len(typed) - n)
Make(n, node) ==
  /\ typed' = Append(Below(n), node)
  /\ UNCHANGED <<place, analysis, phase>>

Folded(node, first, value) ==
  IF value = <<>> THEN node ELSE Constant(value[1], TyInt, first.span)

(* A callee that is a name is the only one looked up to be called. *)
Values(n) == Len(typed) >= n /\ \A i \in Len(typed) - n + 1 .. Len(typed) : typed[i].kind # "Callee"
Operand(n, i) == typed[Len(typed) - n + i]
is_assignable(n) == n.kind \in {"Ident", "Index"}

NextOperand ==
  LET start == Gap + (IF typed = <<>> THEN 1 ELSE Last(typed).span.end) IN Span(start, start + 1)

(* Two expressions take a node that joins them, unless a list does.        *)
Leaf(node) ==
  /\ Nodes + (IF typed = <<>> \/ place.init = "list" THEN 1 ELSE 2) =< MaxNodes
  /\ Make(0, node)

literal ==
  \E node \in {Constant(v, TyInt, NextOperand) : v \in {0, 1, IntMax}}
                \cup {Constant(v, TyChar, NextOperand) : v \in Letters}
                \cup {Node("StrLit", "", <<>>, Array("char", n + 1), NextOperand) : n \in Texts} :
    Leaf(node) /\ UNCHANGED diagnostics

(* A fault, and what the comment on resolve says: a name that is not       *)
(* declared has type int.                                                  *)
UnresolvedIsInt == TyInt
Unresolved == TyError

resolve(name, used_as) ==
  LET found == name \in DOMAIN Declared
      misused == found /\ used_as = "Ident" /\ Declared[name].shape = "func"
  IN  /\ Leaf(Node(used_as, name, <<>>,
                   IF ~found THEN Unresolved ELSE IF misused THEN TyError ELSE Declared[name],
                   NextOperand))
      /\ reports(Report(~found, NextOperand, "undeclared identifier", <<>>)
                   \o Report(misused, NextOperand, "can only be called", <<>>))

unary(op) ==
  /\ Values(1)
  /\ LET operand == Operand(1, 1)
         span == Span(operand.span.start - 1, operand.span.end)
         node == Node("Unary", op, <<record_promotion(operand)>>,
                      IF op = "Not" THEN TyInt ELSE promoted(operand.ty), span)
     IN  /\ op \in {"PreIncrement", "PreDecrement"} => is_assignable(operand)
         /\ Make(1, Folded(node, operand, IF operand.value = <<>> THEN <<>>
                                          ELSE folded_unary(op, operand.value[1])))
         /\ \/ op = "Not" /\ reports(NotACondition(operand, operand.span))
            \/ op # "Not" /\ reports(Report(~is_arithmetic(operand.ty), span,
                                            "operand of unary", <<operand.ty>>))

check_binary(op, left, right, span) ==
  IF op \in Logical THEN NotACondition(left, span) \o NotACondition(right, span)
  ELSE Report(common_arithmetic(left.ty, right.ty) = TyVoid, span,
              "operands of binary", <<left.ty, right.ty>>)

binary_type(op, left, right) ==
  IF op \in Logical \cup Comparisons \/ common_arithmetic(left, right) = TyVoid THEN TyInt
  ELSE common_arithmetic(left, right)

binary(op) ==
  /\ Values(2)
  /\ LET left == Operand(2, 1)
         right == Operand(2, 2)
         span == Span(left.span.start, right.span.end)
         constant == left.value # <<>> /\ right.value # <<>>
         node == Node("Binary", op, <<record_promotion(left), record_promotion(right)>>,
                      binary_type(op, left.ty, right.ty), span)
     IN  /\ constant \/ op \in Sampled
         /\ Make(2, Folded(node, left, IF constant THEN folded_binary(op, left.value[1], right.value[1])
                                       ELSE <<>>))
         /\ reports(check_binary(op, left, right, span))

assign ==
  /\ Values(2)
  /\ LET target == Operand(2, 1)
         value == Operand(2, 2)
         span == Span(target.span.start, value.span.end)
     IN  /\ is_assignable(target)
         /\ \/ /\ target.ty.shape = "array"
               /\ Make(2, Node("Assign", "", <<target, value>>, target.ty, span))
               /\ reports(Report(TRUE, target.span, "array not assignable", <<>>))
            \/ /\ target.ty.shape # "array"
               /\ Make(2, Node("Assign", "", <<target, carry_into(value, target.ty)>>, target.ty, span))
               /\ reports(Cannot("assign", value, target.ty))

index ==
  /\ Values(2)
  /\ LET base == Operand(2, 1)
         subscript == Operand(2, 2)
         span == Span(base.span.start, subscript.span.end + 1)
         holds == base.ty.shape \in {"array", "ptr"}
     IN  /\ Make(2, Node("Index", "", <<base, record_promotion(subscript)>>,
                         IF holds THEN Scalar(base.ty.base) ELSE TyError, span))
         /\ reports(Report(~is_arithmetic(subscript.ty), subscript.span, "subscript", <<>>)
                      \o Report(~holds /\ base.ty # TyError, span, "not subscriptable", <<>>))

postfix ==
  /\ Values(1)
  /\ LET operand == Operand(1, 1)
         span == Span(operand.span.start, operand.span.end + 1)
     IN  /\ is_assignable(operand)
         /\ Make(1, Node("Postfix", "", <<operand>>, promoted(operand.ty), span))
         /\ reports(Report(~is_arithmetic(operand.ty), span, "operand of postfix", <<operand.ty>>))

(* type_of_call and check_arguments, of a callee and `n` arguments.        *)
call(n) ==
  /\ Values(n) /\ Len(typed) > n
  /\ LET callee == typed[Len(typed) - n]
         args == SubSeq(typed, Len(typed) - n + 1, Len(typed))
         span == Span(callee.span.start, Last(typed).span.end + 1)
         called == callee.ty.shape = "func"
         fits == called /\ Len(callee.ty.params) = n
         carried == [i \in 1 .. n |-> IF fits THEN carry_into(args[i], callee.ty.params[i]) ELSE args[i]]
     IN  /\ callee.kind # "Ident"
         /\ Make(n + 1, Node("Call", "", <<callee>> \o carried,
                             IF called THEN callee.ty.ret ELSE TyError, span))
         /\ reports(CASE fits -> FlattenSeq([i \in 1 .. n |->
                                               Cannot("pass", args[i], callee.ty.params[i])])
                      [] called /\ ~fits -> Report(TRUE, span, "arity", <<>>)
                      [] OTHER -> Report(callee.ty # TyError, span, "not a function", <<>>))
-----------------------------------------------------------------------------
(* The statement or declaration the expression is in has it.               *)
Finished(form) ==
  /\ phase = "expression" /\ place.form = form
  /\ phase' = "walked"
  /\ UNCHANGED <<place, analysis>>

full_expression ==
  /\ Finished("expression")
  /\ Values(1) /\ Len(typed) = 1
  /\ UNCHANGED <<typed, diagnostics>>

condition ==
  /\ Finished("condition")
  /\ Values(1) /\ Len(typed) = 1
  /\ typed' = <<record_promotion(typed[1])>>
  /\ reports(NotACondition(typed[1], typed[1].span))

return_value ==
  /\ Finished("return")
  /\ Values(1) /\ Len(typed) = 1
  /\ LET span == Span(Opening, typed[1].span.end)
     IN  \/ /\ place.ty = TyVoid
            /\ reports(Report(TRUE, span, "value from void", <<>>))
            /\ UNCHANGED typed
         \/ /\ place.ty # TyVoid
            /\ typed' = <<carry_into(typed[1], place.ty)>>
            /\ reports(Cannot("return", typed[1], place.ty))

return_nothing ==
  /\ Finished("return")
  /\ typed = <<>>
  /\ reports(Report(place.ty # TyVoid, Span(Opening, Opening + 1), "no value", <<place.ty>>))
  /\ UNCHANGED typed

(* type_initializer: the reports about an initializer of a variable of     *)
(* type `declared`, and the values as they are stored.  A fault: text is   *)
(* assigned like any other value.                                          *)
FillsNothing(n, declared) == FALSE
fills_an_array(n, declared) == n.kind = "StrLit" /\ declared.shape = "array"

Overrun(count, declared, span) ==
  Report(declared.shape = "array" /\ count > declared.len, span, "initializers", <<declared>>)

(* The end of a declaration, after the reports of its initializer: a local *)
(* is declared now, a global must have been constant.                      *)
Ended(init, found, constant, span) ==
  /\ phase = "expression" /\ place.form \in Declarations /\ place.init = init
  /\ phase' = "walked"
  /\ reports(found \o (IF place.form = "local"
                       THEN Report(place.redeclared, NameSpan, "redeclaration", <<>>)
                       ELSE Report(~constant, span, "not a constant", <<>>)))
  /\ UNCHANGED <<place, analysis>>

uninitialized == typed = <<>> /\ UNCHANGED typed /\ Ended("none", <<>>, TRUE, NameSpan)

initializer_expression ==
  /\ Values(1) /\ Len(typed) = 1
  /\ LET init == typed[1]
         constant == init.kind = "StrLit" \/ init.value # <<>>
     IN  \/ /\ fills_an_array(init, place.ty)
            /\ UNCHANGED typed
            /\ Ended("expression", Overrun(init.ty.len, place.ty, init.span), constant, init.span)
         \/ /\ ~fills_an_array(init, place.ty)
            /\ typed' = <<carry_into(init, place.ty)>>
            /\ Ended("expression", Cannot("initialize", init, place.ty), constant, init.span)

(* A brace list; only the elements of an array are carried anywhere.       *)
initializer_list ==
  /\ Values(Len(typed))
  /\ LET array == place.ty.shape = "array"
         element == Scalar(place.ty.base)
         span == Span(Opening, 1 + (IF typed = <<>> THEN Opening ELSE Last(typed).span.end))
     IN  /\ typed' = [i \in DOMAIN typed |-> IF array THEN carry_into(typed[i], element) ELSE typed[i]]
         /\ Ended("list",
                  FlattenSeq([i \in DOMAIN typed |->
                     IF array THEN Cannot("initialize", typed[i], element) ELSE <<>>])
                    \o Overrun(Len(typed), place.ty, span),
                  \A i \in DOMAIN typed : typed[i].value # <<>>, span)

finish ==
  /\ phase = "walked"
  /\ phase' = "finished"
  /\ analysis' = into_sorted(diagnostics)
  /\ UNCHANGED <<place, typed, diagnostics>>

(* The expressions that go at most so many levels deep: a part is a level  *)
(* lower than the whole.                                                   *)
Marks == DOMAIN Declared \cup Undeclared \cup UnaryOperators \cup BinaryOperators \cup {""}
NodesOver(below) ==
  [kind : Kinds, is : Marks, parts : Seq(below), ty : Ty, span : [start : Int, end : Int],
   value : Seq(Int), conversion : Conversions, size : Nat]
Trees[height \in Nat] == IF height = 0 THEN {} ELSE NodesOver(Trees[height - 1])

Expression ==
  /\ phase = "expression" /\ place.init # "none" /\ Nodes < MaxNodes
  /\ \/ literal \/ assign \/ index \/ postfix
     \/ \E name \in DOMAIN Declared \cup Undeclared, used_as \in {"Ident", "Callee"} : resolve(name, used_as)
     \/ \E op \in UnaryOperators : unary(op)
     \/ \E op \in BinaryOperators : binary(op)
     \/ \E n \in 0 .. MaxNodes : call(n)
  /\ Last(typed') \in Trees[Levels]

Next ==
  \/ declaration \/ Expression
  \/ full_expression \/ condition \/ return_value \/ return_nothing
  \/ uninitialized \/ initializer_expression \/ initializer_list \/ finish

Spec == Init /\ [][Next]_vars
=============================================================================
