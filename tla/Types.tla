------------------------------- MODULE Types -------------------------------
(***************************************************************************)
(* The rules of src/sema/types.rs.  TyError is the type of an expression   *)
(* already reported: every rule lets it pass.                              *)
(***************************************************************************)
EXTENDS Syntax

TyError == Scalar("error")
TyFunc(ret, params) == [shape |-> "func", ret |-> ret, params |-> params]

(* What a parameter, a variable and a function may be declared to be, and  *)
(* the types of expressions.                                               *)
Bases     == {"int", "char"}
Passed    == {TyInt, TyChar} \cup {Ptr(base) : base \in Bases}
Objects   == Passed \cup [shape : {"array"}, base : Bases, len : Nat]
Functions == [shape : {"func"}, ret : {TyInt, TyChar, TyVoid}, params : Seq(Passed)]
Ty        == Objects \cup Functions \cup {TyVoid, TyError}

ScalarBytes(base) == IF base = "char" THEN 1 ELSE 4

(* Ty::layout, of a type that has one. *)
layout(ty) ==
  IF ty.shape = "ptr" THEN [size |-> 8, align |-> 8]
  ELSE [size |-> ScalarBytes(ty.base) * ty.len, align |-> ScalarBytes(ty.base)]

promotes(ty) == ty = TyChar
promoted(ty) == IF promotes(ty) THEN TyInt ELSE ty

is_arithmetic(ty) == ty \in {TyInt, TyChar, TyError}
is_scalar(ty)     == is_arithmetic(ty) \/ ty.shape = "ptr"

(* Whether an arithmetic or comparison operator applies, and to what type  *)
(* its operands go: TyVoid stands for no common type.                      *)
common_arithmetic(left, right) ==
  IF TyError \in {left, right} THEN TyError
  ELSE IF is_arithmetic(left) /\ is_arithmetic(right) THEN TyInt ELSE TyVoid

(* The conversion a value needs on its way into a location of type         *)
(* `target`, or that it cannot go.  Whole arrays and `void` go nowhere.  A *)
(* fault, first: any array decays to any pointer.                          *)
DecaysToAnyPointer(target, source) ==
  CASE TyError \in {target, source} \/ target = source -> "Exact"
    [] target = TyInt /\ source = TyChar -> "PromoteCharToInt"
    [] target = TyChar /\ source = TyInt -> "TruncateIntToChar"
    [] target.shape = "ptr" /\ source.shape = "array" -> "DecayArrayToPtr"
    [] OTHER -> "Incompatible"

assignability(target, source) ==
  CASE TyError \in {target, source} -> "Exact"
    [] target = source /\ (target \in {TyInt, TyChar} \/ target.shape = "ptr") -> "Exact"
    [] target = TyInt /\ source = TyChar -> "PromoteCharToInt"
    [] target = TyChar /\ source = TyInt -> "TruncateIntToChar"
    [] target.shape = "ptr" /\ source.shape = "array" /\ target.base = source.base
         -> "DecayArrayToPtr"
    [] OTHER -> "Incompatible"

(* Annotations::converted_type_of: what the place a value is used in       *)
(* receives.                                                               *)
Received(ty, conversion) ==
  CASE conversion = "PromoteCharToInt"  -> TyInt
    [] conversion = "TruncateIntToChar" -> TyChar
    [] conversion = "DecayArrayToPtr"   -> Ptr(ty.base)
    [] OTHER -> ty

converted(target, source) == Received(source, assignability(target, source))
=============================================================================
