--------------------------- MODULE TypeJudgement ---------------------------
(***************************************************************************)
(* When an expression of the subset is well typed: a judgement by the      *)
(* rules of C, with no types to recover, no conversions and no order of    *)
(* reporting, and what module TypeChecker owes to it.  `char` and `int`    *)
(* are one sort here, numbers, for C converts each to the other wherever   *)
(* it meets it.                                                            *)
(*                                                                         *)
(* The subset is narrower than C about addresses: an array becomes one     *)
(* only as an argument, and a parameter that holds one is only subscripted *)
(* (ADR 0007).  WellTyped is the subset, AllowedByC is C without           *)
(* arithmetic and comparison of addresses; what the analyzer accepts lies  *)
(* between the two.                                                        *)
(***************************************************************************)
EXTENDS TypeChecker

ASort(is, of) == [is |-> is, of |-> of]
Number   == ASort("number", "")
Function == ASort("function", "")
Void     == ASort("void", "")
Wrong    == ASort("wrong", "")
PointerTo(base) == ASort("pointer", base)
ArrayOf(base)   == ASort("array", base)
Pointers == {PointerTo(base) : base \in Bases}
Arrays   == {ArrayOf(base) : base \in Bases}
Testable == {Number} \cup Pointers

SortOf(ty) ==
  CASE ty \in {TyInt, TyChar} -> Number
    [] ty.shape = "ptr"   -> PointerTo(ty.base)
    [] ty.shape = "array" -> ArrayOf(ty.base)
    [] ty.shape = "func"  -> Function
    [] OTHER -> Void

(* C lets a value go where `sort` is wanted: an array does as the address  *)
(* of its first element.  Where the subset lets one, is UsesFreely below.  *)
Fits(value, sort) ==
  \/ value = sort /\ value \in Testable
  \/ \E base \in Bases : value = ArrayOf(base) /\ sort = PointerTo(base)

Means(name, sorts) == name \in DOMAIN Declared /\ SortOf(Declared[name]) \in sorts
Provided(p, sort) == IF p THEN sort ELSE Wrong

(* No expression is deeper than it has nodes, and a definition may go from *)
(* an expression to its parts.                                             *)
Tree == Trees[MaxNodes]

(* The sort of an expression whose parts have the sorts `of`. *)
SortFrom(n, of) ==
  LET Numbers == \A i \in DOMAIN of : of[i] = Number
  IN  CASE n.kind = "Constant" -> Number
        [] n.kind = "StrLit" -> ArrayOf("char")
        [] n.kind = "Ident" ->
             IF Means(n.is, Testable \cup Arrays) THEN SortOf(Declared[n.is]) ELSE Wrong
        [] n.kind = "Callee" -> Provided(Means(n.is, {Function}), Function)
        [] n.kind = "Unary" /\ n.is # "Not" -> Provided(Numbers, Number)
        [] n.kind = "Unary" /\ n.is = "Not" -> Provided(of[1] \in Testable, Number)
        [] n.kind = "Binary" /\ n.is \in Logical -> Provided({of[1], of[2]} \subseteq Testable, Number)
        [] n.kind = "Binary" /\ n.is \notin Logical -> Provided(Numbers, Number)
        [] n.kind = "Postfix" -> Provided(Numbers, Number)
        [] n.kind = "Assign" -> Provided(of[1] \in Testable /\ Fits(of[2], of[1]), of[1])
        [] n.kind = "Index"  -> Provided(of[1] \in Pointers \cup Arrays /\ of[2] = Number, Number)
        [] n.kind = "Call" ->
             IF of[1] # Function THEN Wrong
             ELSE LET f == Declared[n.parts[1].is]
                  IN  Provided(/\ Len(n.parts) = Len(f.params) + 1
                          /\ \A i \in DOMAIN f.params : Fits(of[i + 1], SortOf(f.params[i])),
                          SortOf(f.ret))

Sort[n \in Tree] == SortFrom(n, [i \in DOMAIN n.parts |-> Sort[n.parts[i]]])

(* A whole statement or declaration, of the expressions `es`.  Two rules   *)
(* are the decisions of ADR 0010: no more initializers than elements, and  *)
(* no array of nothing.                                                    *)
Storable(ty) == ty.base # "void" /\ (ty.shape = "array" => ty.len > 0)
Initializes(es) ==
  CASE place.init = "none" -> TRUE
    [] place.init = "list" ->
         /\ place.ty.shape = "array" /\ Len(es) =< place.ty.len
         /\ \A i \in DOMAIN es : Sort[es[i]] = Number
    [] place.init = "expression" /\ place.ty.shape = "array" ->
         es[1].kind = "StrLit" /\ place.ty.base = "char" /\ es[1].ty.len =< place.ty.len
    [] OTHER -> Sort[es[1]] = Number

Folds(n) == n.value # <<>> \/ (n.kind = "StrLit" /\ place.init = "expression")

AllowedByC(es) ==
  CASE place.form = "expression" -> Sort[es[1]] # Wrong
    [] place.form = "condition"  -> Sort[es[1]] \in Testable
    [] place.form = "return" ->
         IF place.ty = TyVoid THEN es = <<>> ELSE es # <<>> /\ Sort[es[1]] = Number
    [] OTHER -> /\ Storable(place.ty) /\ ~place.redeclared
                /\ Initializes(es)
                /\ place.form = "global" => \A i \in DOMAIN es : Folds(es[i])
-----------------------------------------------------------------------------
(* What the subset leaves an address, and C does not: to be an argument,   *)
(* or named as the base of a subscript (ADR 0007, and of text              *)
(* docs/dive-deep/language-subset.md).                                     *)
Addresses == Pointers \cup Arrays
UsesFreely(n) ==
  \E i \in DOMAIN n.parts :
    /\ Sort[n.parts[i]] \in Addresses
    /\ n.kind # "Call"
    /\ ~(n.kind = "Index" /\ i = 1 /\ n.parts[1].kind = "Ident")

Inside[n \in Tree] == {n} \cup UNION {Inside[n.parts[i]] : i \in DOMAIN n.parts}
InsideAll(es) == UNION {Inside[es[i]] : i \in DOMAIN es}

AddressesUsedFreely(es) ==
  \/ place.form \in {"expression", "condition"} /\ Sort[es[1]] \in Addresses
  \/ \E n \in InsideAll(es) : UsesFreely(n)

WellTyped(es) == AllowedByC(es) /\ ~AddressesUsedFreely(es)

(* Two initializers the analyzer passes that the judgement refuses: a      *)
(* brace list for a scalar, and text for an array of int.                  *)
ListForAScalar == place.init = "list" /\ place.ty.shape # "array"
TextForNumbers ==
  /\ place.form \in Declarations /\ place.init = "expression"
  /\ place.ty.shape = "array" /\ place.ty.base = "int" /\ typed[1].kind = "StrLit"

(* A program that is well typed is accepted, and one that is accepted is   *)
(* typed by C: no rule of conversion, of recovery or of the two places of  *)
(* a declaration refuses anything of the subset, or lets anything through  *)
(* that C has no type for (Analyzer::type_of and type_initializer).        *)
AcceptedIsWellTyped ==
  phase = "finished" /\ ~ListForAScalar /\ ~TextForNumbers =>
    /\ WellTyped(typed) => analysis = <<>>
    /\ analysis = <<>> => AllowedByC(typed)

(* The type a use of the i-th part of `n` receives is the one it computes  *)
(* with: arithmetic and subscripts an int, a store and an argument the     *)
(* type of where they go (Annotations::converted_type_of).  It is of what  *)
(* analysis records: that code generation asks for it everywhere is not    *)
(* said, and stmt.rs:201 does not.                                         *)
Receives(part) == Received(part.ty, part.conversion)
PartsMeetTheirUse(n) ==
  LET gets == [i \in DOMAIN n.parts |-> Receives(n.parts[i])]
  IN  CASE n.kind = "Binary" /\ n.is \notin Logical -> gets = <<TyInt, TyInt>>
        [] n.kind = "Binary" /\ n.is \in Logical -> \A i \in 1 .. 2 : gets[i] = TyInt \/ gets[i].shape = "ptr"
        [] n.kind = "Unary" /\ n.is # "Not" -> gets = <<TyInt>>
        [] n.kind = "Unary" /\ n.is = "Not" -> gets[1] = TyInt \/ gets[1].shape = "ptr"
        [] n.kind = "Index"  -> gets[1] = n.parts[1].ty /\ gets[2] = TyInt
        [] n.kind = "Assign" -> gets[1] = n.ty /\ gets[2] = n.ty
        [] n.kind = "Call" -> \A i \in DOMAIN n.parts[1].ty.params : gets[i + 1] = n.parts[1].ty.params[i]
        [] OTHER -> TRUE

SiteGetsItsType ==
  CASE place.form = "condition" -> Receives(typed[1]) = TyInt \/ Receives(typed[1]).shape = "ptr"
    [] place.form = "return" /\ typed # <<>> -> Receives(typed[1]) = place.ty
    [] place.form \in Declarations /\ place.init = "list" /\ ~ListForAScalar ->
         \A i \in DOMAIN typed : Receives(typed[i]) = Scalar(place.ty.base)
    [] place.form \in Declarations /\ place.init = "expression" /\ place.ty.shape = "scalar" ->
         Receives(typed[1]) = place.ty
    [] OTHER -> TRUE

ConversionsMeetTheirUse ==
  phase = "finished" /\ analysis = <<>> =>
    SiteGetsItsType /\ \A n \in InsideAll(typed) : PartsMeetTheirUse(n)

(* Recovery is silent: if one name is what is wrong, not declared or a     *)
(* function where a value is meant, so that some other name in its place   *)
(* would have made the whole well typed, it is reported there and nothing  *)
(* else is (Ty::Error; "one mistake, one message").                        *)
Misnamed(n) ==
  \/ n.kind = "Ident" /\ Sort[n] = Wrong
  \/ n.kind = "Callee" /\ n.is \notin DOMAIN Declared

Mended(n, broken, name) ==
  LET mend[m \in Tree] ==
        IF m = broken THEN [m EXCEPT !.is = name]
        ELSE [m EXCEPT !.parts = [i \in DOMAIN m.parts |-> mend[m.parts[i]]]]
  IN  mend[n]

RecoveryStaysSilent ==
  phase = "finished" =>
    \A broken \in {n \in InsideAll(typed) : Misnamed(n)} :
      (\E name \in DOMAIN Declared : WellTyped([i \in DOMAIN typed |-> Mended(typed[i], broken, name)]))
        => Len(analysis) = 1 /\ analysis[1].span = broken.span

(* What is handed on is the bag in the order of the source, and reports    *)
(* about one place stay in the order they were made: the i-th report is    *)
(* the turns[i]-th found (DiagnosticBag::into_sorted).                     *)
ReportsInSourceOrder ==
  phase = "finished" =>
    \E turns \in Injection(DOMAIN diagnostics, DOMAIN diagnostics) :
      /\ analysis = [i \in DOMAIN diagnostics |-> diagnostics[turns[i]]]
      /\ \A i, j \in DOMAIN analysis : i < j =>
           \/ Precedes(analysis[i].span, analysis[j].span)
           \/ analysis[i].span = analysis[j].span /\ turns[i] < turns[j]

(* What C makes of two constants: their result, if it is defined and an    *)
(* int holds it.  A quotient is the q of a = q * b + r with the smallest   *)
(* remainder of the sign of a, and a remainder needs the quotient.         *)
Ints == IntMin .. IntMax
Divisions(a, b) ==
  {qr \in (IntMin .. -IntMin) \X (IntMin .. IntMax) :
     a = qr[1] * b + qr[2] /\ Magnitude(qr[2]) < Magnitude(b) /\ qr[2] * a >= 0}

Holds(op, a, b) ==
  CASE op = "Equal" -> a = b      [] op = "NotEqual" -> a # b
    [] op = "Less"  -> a < b      [] op = "LessEqual" -> a =< b
    [] op = "Greater" -> b < a    [] op = "GreaterEqual" -> b =< a
    [] op = "And" -> 0 \notin {a, b}
    [] op = "Or"  -> {a, b} # {0}

DefinedByC(op, a, b) ==
  {v \in Ints :
     CASE op = "Add"       -> v = a + b
       [] op = "Subtract"  -> v = a - b
       [] op = "Multiply"  -> v = a * b
       [] op = "Divide"    -> \E qr \in Divisions(a, b) : v = qr[1]
       [] op = "Remainder" -> \E qr \in Divisions(a, b) : v = qr[2] /\ qr[1] \in Ints
       [] OTHER -> v = IF Holds(op, a, b) THEN 1 ELSE 0}

AnOption(values) == IF values = {} THEN <<>> ELSE <<CHOOSE v \in values : TRUE>>

(* Any two constants the program can write, joined by any operator, fold   *)
(* to what C defines, and to nothing where C does not define it            *)
(* (constant_value: a global is given the value the expression has).       *)
FoldsAsCDoes ==
  phase = "expression" /\ Len(typed) = 2 /\ (\A i \in 1 .. 2 : typed[i].value # <<>>) =>
    LET a == typed[1].value[1]
        b == typed[2].value[1]
    IN  /\ \A op \in BinaryOperators : folded_binary(op, a, b) = AnOption(DefinedByC(op, a, b))
        /\ folded_unary("Negate", a) = AnOption({v \in Ints : v + a = 0})
        /\ folded_unary("Not", a) = folded_binary("Equal", a, 0)
-----------------------------------------------------------------------------
(* What the repository says and the analyzer does not do.                  *)

(* "A string literal filling a `char` array is the one initializer that is *)
(* not an assignment" (the comment in type_initializer): text fills no     *)
(* array of int.                                                           *)
TextFillsOnlyCharArrays == phase = "finished" /\ TextForNumbers => analysis # <<>>

(* "An array becomes a pointer at one place only — the function-argument   *)
(* position" (types.rs): what an accepted program stores is no array's     *)
(* address.                                                                *)
DecaysOnlyAsArgument ==
  phase = "finished" /\ analysis = <<>> =>
    \A n \in InsideAll(typed) : \A i \in DOMAIN n.parts :
      n.parts[i].conversion = "DecayArrayToPtr" => n.kind = "Call"

(* "A parameter written `int a[]` has pointer type inside the function     *)
(* body, and indexing it is the only legal use", and of text, "legal only  *)
(* as an argument, as the initializer of a `char` array"                   *)
(* (docs/dive-deep/language-subset.md): an accepted program uses addresses *)
(* in no other way.                                                        *)
AddressesStayInTheirPlaces ==
  phase = "finished" /\ analysis = <<>> => \A n \in InsideAll(typed) : ~UsesFreely(n)

(* "One mistake, one message" (the comment on Ty::Error): if one operator  *)
(* with a single operand is all that is wrong, it alone is reported.       *)
Mistakes == {n \in InsideAll(typed) : Sort[n] = Wrong /\ \A i \in DOMAIN n.parts : Sort[n.parts[i]] # Wrong}
OneMistakeOneMessage ==
  phase = "finished" /\ place.form = "expression" /\ (\E n \in Mistakes : Mistakes = {n} /\ n.kind = "Unary")
    => Len(analysis) = 1
=============================================================================
