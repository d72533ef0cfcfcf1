--------------------------- MODULE MCTypeChecker ---------------------------
(* Instances of module TypeChecker. *)
EXTENDS TypeJudgement

Names ==
  [x |-> TyInt, c |-> TyChar, a |-> Array("int", 2), s |-> Array("char", 2), p |-> Ptr("char"),
   v |-> TyFunc(TyVoid, <<>>), f |-> TyFunc(TyInt, <<TyChar, Ptr("int")>>)]

Statements ==
  {Statement("expression", TyVoid), Statement("condition", TyVoid)}
    \cup {Statement("return", ty) : ty \in {TyInt, TyChar, TyVoid}}

SomeWritten == {TyInt, TyChar, TyVoid, Array("char", 1), Array("int", 2), Array("int", 0)}

Variables ==
  {Declaration("local", ty, init, FALSE) : ty \in SomeWritten, init \in {"expression", "list"}}
    \cup {Declaration("global", ty, init, FALSE) : ty \in SomeWritten, init \in {"expression", "list"}}
    \cup {Declaration(form, ty, init, TRUE) :
            form \in Declarations, ty \in {TyChar, TyVoid}, init \in {"none", "expression"}}

Everywhere == Statements \cup Variables
=============================================================================
