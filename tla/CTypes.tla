------------------------------- MODULE CTypes -------------------------------
(***************************************************************************)
(* The type analysis gives each node of an expression (type_of in          *)
(* src/sema/mod.rs) in a program it accepts.                               *)
(*                                                                         *)
(* `names` maps the names in scope to their types; functions are not names *)
(* here, since they can only be called.                                    *)
(***************************************************************************)
EXTENDS Types

(* Analyzer::type_of. *)
RECURSIVE type_of(_, _, _)
type_of(program, names, e) ==
  CASE e.k = "IntLit"  -> TyInt
    [] e.k = "CharLit" -> TyChar
    [] e.k = "StrLit"  -> Array("char", Len(e.bytes) + 1)
    [] e.k = "Ident"   -> names[e.name]
    [] e.k = "Unary"   -> IF e.op = "Not" THEN TyInt
                          ELSE promoted(type_of(program, names, e.e))
    [] e.k = "Binary"  -> TyInt
    [] e.k = "Assign"  -> type_of(program, names, e.l)
    [] e.k = "Index"   -> Scalar(type_of(program, names, e.l).base)
    [] e.k = "Call"    -> FunctionNamed(program, e.name).ret
    [] e.k = "Postfix" -> promoted(type_of(program, names, e.e))

(* A string literal that initializes an array, whatever its elements are. *)
fills_an_array(e, declared) == e.k = "StrLit" /\ declared.shape = "array"

(* Declarations in the order they are met, which is the order of the slots *)
(* of a function's frame.                                                  *)
RECURSIVE declared_in(_)
declared_in(s) ==
  CASE s.k = "LocalVar" -> <<Param(s.ty, s.name)>>
    [] s.k = "Block" ->
         LET before[n \in 0 .. Len(s.body)] ==
               IF n = 0 THEN <<>> ELSE before[n - 1] \o declared_in(s.body[n])
         IN  before[Len(s.body)]
    [] s.k = "If"    -> declared_in(s.then)
                          \o (IF s.else = <<>> THEN <<>> ELSE declared_in(s.else[1]))
    [] s.k = "While" -> declared_in(s.body)
    [] s.k = "For"   -> (IF s.init = <<>> THEN <<>> ELSE declared_in(s.init[1]))
                          \o declared_in(s.body)
    [] OTHER -> <<>>

(* The FrameSlots of a function: its parameters, then its locals.  The     *)
(* names of one function are distinct here; which declaration a name means *)
(* is module Scopes' subject.                                              *)
slots_of(f) ==
  LET all == f.params \o declared_in(Block(f.body))
  IN  [i \in DOMAIN all |->
         [name |-> all[i].name, ty |-> all[i].ty, size |-> layout(all[i].ty).size,
          align |-> layout(all[i].ty).align, parameter |-> i <= Len(f.params)]]

=============================================================================
