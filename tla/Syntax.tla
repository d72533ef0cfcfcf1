------------------------------- MODULE Syntax -------------------------------
(***************************************************************************)
(* The syntax trees of src/ast.rs as records.  `k` is the kind of a node;  *)
(* an optional child is a sequence of length at most one.  Spans and node  *)
(* ids are left out: a node is found by where it is in the tree.           *)
(***************************************************************************)
EXTENDS Integers, Sequences

(* Types.  An array has the length written; a parameter's `[]` is a Ptr.   *)
Scalar(base)   == [shape |-> "scalar", base |-> base, len |-> 1]
Array(base, n) == [shape |-> "array", base |-> base, len |-> n]
Ptr(base)      == [shape |-> "ptr", base |-> base, len |-> 1]

TyInt  == Scalar("int")
TyChar == Scalar("char")
TyVoid == Scalar("void")

(* Expressions. *)
IntLit(v)         == [k |-> "IntLit", v |-> v]
CharLit(v)        == [k |-> "CharLit", v |-> v]
StrLit(bytes)     == [k |-> "StrLit", bytes |-> bytes]
Ident(name)       == [k |-> "Ident", name |-> name]
Unary(op, e)      == [k |-> "Unary", op |-> op, e |-> e]
Binary(op, l, r)  == [k |-> "Binary", op |-> op, l |-> l, r |-> r]
Assign(t, v)      == [k |-> "Assign", l |-> t, r |-> v]
Index(b, i)       == [k |-> "Index", l |-> b, r |-> i]
Call(name, args)  == [k |-> "Call", name |-> name, args |-> args]
Postfix(op, e)    == [k |-> "Postfix", op |-> op, e |-> e]

Comparisons == {"Equal", "NotEqual", "Less", "Greater", "LessEqual", "GreaterEqual"}
Logical     == {"And", "Or"}

(* Initializers: none, one expression or a brace list. *)
NoInit    == [form |-> "none", es |-> <<>>]
ExprOf(e) == [form |-> "expr", es |-> <<e>>]
List(es)  == [form |-> "list", es |-> es]

(* Statements. *)
Block(body)          == [k |-> "Block", body |-> body]
If(c, then, else)    == [k |-> "If", c |-> c, then |-> then, else |-> else]
While(c, body)       == [k |-> "While", c |-> c, body |-> body]
For(init, c, step, body) ==
  [k |-> "For", init |-> init, c |-> c, step |-> step, body |-> body]
Return(value)        == [k |-> "Return", value |-> value]
Do(e)                == [k |-> "Expr", e |-> e]
Local(ty, name, init) == [k |-> "LocalVar", ty |-> ty, name |-> name, init |-> init]
Break    == [k |-> "Break"]
Continue == [k |-> "Continue"]
EmptyStmt == [k |-> "Empty"]

(* Items.  A function without a body is a declaration of the runtime's. *)
Param(ty, name)             == [ty |-> ty, name |-> name]
Global(ty, name, init)      == [ty |-> ty, name |-> name, init |-> init]
Func(ret, name, params, body) ==
  [ret |-> ret, name |-> name, params |-> params, body |-> body]
Program(globals, functions) == [globals |-> globals, functions |-> functions]

(* A function of this name in the program, or one of the runtime's. *)
Runtime ==
  <<Func(TyVoid, "print_int", <<Param(TyInt, "n")>>, <<>>),
    Func(TyVoid, "print_char", <<Param(TyChar, "c")>>, <<>>),
    Func(TyVoid, "print_string", <<Param(Ptr("char"), "s")>>, <<>>)>>

RuntimeNames == {Runtime[i].name : i \in DOMAIN Runtime}

FunctionNamed(program, name) ==
  LET all == program.functions \o Runtime
  IN  all[CHOOSE i \in DOMAIN all : all[i].name = name]

=============================================================================
