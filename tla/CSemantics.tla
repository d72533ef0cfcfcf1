----------------------------- MODULE CSemantics -----------------------------
(***************************************************************************)
(* What a program of the subset means: the abstract specification a        *)
(* compiled program is compared with.  It is written from the rules of C,  *)
(* not from the compiler: values and objects instead of registers and      *)
(* bytes, conversions where C makes them.                                  *)
(*                                                                         *)
(* A configuration `c` has the objects of the program (`mem`, sequences of *)
(* values), what names denote (`env`), the output so far, the last value   *)
(* computed and how the last statement ended.  The value of an array is    *)
(* the number of its object, and a parameter written as an array can be    *)
(* given another.  Operands and arguments are evaluated from    *)
(* left to right and the target of an assignment before its value, one of  *)
(* the orders C allows.                                                    *)
(***************************************************************************)
EXTENDS Syntax

(* A value as an object of type `base` holds it. *)
ConvertedTo(base, v) ==
  IF base = "char" THEN (IF v % 256 > 127 THEN (v % 256) - 256 ELSE v % 256) ELSE v

Magnitude(v) == IF v < 0 THEN -v ELSE v

(* Division truncates toward zero. *)
Quotient(a, b) ==
  LET q == Magnitude(a) \div Magnitude(b) IN IF (a < 0) # (b < 0) THEN -q ELSE q

Truth(p) == IF p THEN 1 ELSE 0

Applied(op, a, b) ==
  CASE op = "Add"       -> a + b
    [] op = "Subtract"  -> a - b
    [] op = "Multiply"  -> a * b
    [] op = "Divide"    -> Quotient(a, b)
    [] op = "Remainder" -> a - Quotient(a, b) * b
    [] op = "Equal"        -> Truth(a = b)
    [] op = "NotEqual"     -> Truth(a # b)
    [] op = "Less"         -> Truth(a < b)
    [] op = "Greater"      -> Truth(a > b)
    [] op = "LessEqual"    -> Truth(a <= b)
    [] op = "GreaterEqual" -> Truth(a >= b)

(* `c` with a new object, denoted by `name`. *)
WithObject(c, name, ty, values) ==
  [c EXCEPT !.mem = Append(@, values),
            !.env = [n \in DOMAIN @ \cup {name} |->
                       IF n = name THEN [ty |-> ty, object |-> Len(c.mem) + 1] ELSE @[n]]]

Valued(c, v) == [c EXCEPT !.v = v]

RECURSIVE Eval(_, _), EvalArguments(_, _, _), Exec(_, _), Loop(_, _, _, _)

(* The object, position and base type an lvalue designates, as the value.  *)
Designated(c, e) ==
  IF e.k = "Ident"
  THEN Valued(c, [object |-> c.env[e.name].object, at |-> 1, base |-> c.env[e.name].ty.base])
  ELSE LET array == Eval(c, e.l)
           index == Eval(array, e.r)
       IN  Valued(index, [object |-> array.v, at |-> index.v + 1,
                          base |-> c.env[e.l.name].ty.base])

Stored(c, place, v) ==
  Valued([c EXCEPT !.mem[place.object][place.at] = ConvertedTo(place.base, v)],
         ConvertedTo(place.base, v))

Stepped(c, e, by, old) ==
  LET place == Designated(c, e)
      was   == place.mem[place.v.object][place.v.at]
      after == Stored(place, place.v, was + by)
  IN  IF old THEN Valued(after, was) ELSE after

(* What the runtime's functions write. *)
Printed(c, name, v) ==
  CASE name = "print_int"    -> Append(c.out, <<v>>)
    [] name = "print_char"   -> Append(c.out, <<ConvertedTo("char", v)>>)
    [] name = "print_string" ->
         LET text == c.mem[v]
             end  == CHOOSE n \in DOMAIN text : text[n] = 0 /\ \A m \in 1 .. n - 1 : text[m] # 0
         IN  c.out \o [n \in 1 .. end - 1 |-> <<text[n]>>]

(* `values` are the arguments, already evaluated; arrays are shared with   *)
(* the caller, scalars are copied and converted.                           *)
Called(c, e, values) ==
  IF e.name \in RuntimeNames
  THEN Valued([c EXCEPT !.out = Printed(c, e.name, values[1])], 0)
  ELSE LET f == FunctionNamed(c.program, e.name)
           bound[n \in 0 .. Len(f.params)] ==
             IF n = 0 THEN [c EXCEPT !.env = c.globals]
             ELSE LET p == f.params[n]
                  IN  IF p.ty.shape = "ptr"
                      THEN [bound[n - 1] EXCEPT
                              !.env = [m \in DOMAIN @ \cup {p.name} |->
                                         IF m = p.name THEN [ty |-> p.ty, object |-> values[n]]
                                         ELSE @[m]]]
                      ELSE WithObject(bound[n - 1], p.name, p.ty,
                                      <<ConvertedTo(p.ty.base, values[n])>>)
           done == Exec(bound[Len(f.params)], Block(f.body))
       IN  [done EXCEPT !.env = c.env, !.flow = "next",
                        !.v = IF done.flow = "return" THEN ConvertedTo(f.ret.base, @) ELSE 0]

EvalArguments(c, e, values) ==
  IF Len(values) = Len(e.args) THEN Called(c, e, values)
  ELSE LET next == Eval(c, e.args[Len(values) + 1])
       IN  EvalArguments(next, e, Append(values, next.v))

Eval(c, e) ==
  CASE e.k \in {"IntLit", "CharLit"} -> Valued(c, e.v)
    [] e.k = "StrLit" -> Valued([c EXCEPT !.mem = Append(@, e.bytes \o <<0>>)], Len(c.mem) + 1)
    [] e.k = "Ident" ->
         LET d == c.env[e.name]
         IN  Valued(c, IF d.ty.shape = "scalar" THEN c.mem[d.object][1] ELSE d.object)
    [] e.k = "Index" ->
         LET place == Designated(c, e)
         IN  Valued(place, place.mem[place.v.object][place.v.at])
    [] e.k = "Unary" ->
         IF e.op = "PreIncrement" THEN Stepped(c, e.e, 1, FALSE)
         ELSE IF e.op = "PreDecrement" THEN Stepped(c, e.e, -1, FALSE)
         ELSE LET x == Eval(c, e.e)
              IN  Valued(x, IF e.op = "Negate" THEN -x.v
                            ELSE IF e.op = "Not" THEN Truth(x.v = 0) ELSE x.v)
    [] e.k = "Postfix" -> Stepped(c, e.e, IF e.op = "Increment" THEN 1 ELSE -1, TRUE)
    [] e.k = "Assign" /\ e.l.k = "Ident" /\ c.env[e.l.name].ty.shape = "ptr" ->
         LET array == Eval(c, e.r)
         IN  [array EXCEPT !.env[e.l.name].object = array.v]
    [] e.k = "Assign" /\ (e.l.k = "Ident" => c.env[e.l.name].ty.shape # "ptr") ->
         LET place == Designated(c, e.l)
             value == Eval(place, e.r)
         IN  Stored(value, place.v, value.v)
    [] e.k = "Binary" ->
         LET x == Eval(c, e.l)
             y == Eval(x, e.r)
         IN  IF e.op = "And" THEN Valued(IF x.v = 0 THEN x ELSE y, Truth(x.v # 0 /\ y.v # 0))
             ELSE IF e.op = "Or" THEN Valued(IF x.v # 0 THEN x ELSE y, Truth(x.v # 0 \/ y.v # 0))
             ELSE Valued(y, Applied(e.op, x.v, y.v))
    [] e.k = "Call" -> EvalArguments(c, e, <<>>)

(* The values of an object of type `ty` after its initializer; what a      *)
(* partial one leaves out is zero.                                         *)
Filled(ty, values) ==
  [n \in 1 .. ty.len |-> IF n <= Len(values) THEN ConvertedTo(ty.base, values[n]) ELSE 0]

Declared(c, s) ==
  IF s.init.form = "none" THEN WithObject(c, s.name, s.ty, Filled(s.ty, <<>>))
  ELSE IF s.init.es[1].k = "StrLit"
  THEN WithObject(c, s.name, s.ty, Filled(s.ty, s.init.es[1].bytes))
  ELSE LET after[n \in 0 .. Len(s.init.es)] ==
             IF n = 0 THEN [c |-> c, values |-> <<>>]
             ELSE LET x == Eval(after[n - 1].c, s.init.es[n])
                  IN  [c |-> x, values |-> Append(after[n - 1].values, x.v)]
           all == after[Len(s.init.es)]
       IN  WithObject(all.c, s.name, s.ty, Filled(s.ty, all.values))

(* One more turn of a loop, unless its condition fails. *)
Loop(c, condition, step, body) ==
  LET test == IF condition = <<>> THEN Valued(c, 1) ELSE Eval(c, condition[1])
  IN  IF test.v = 0 THEN test
      ELSE LET turn == Exec(test, body)
           IN  IF turn.flow = "return" THEN turn
               ELSE IF turn.flow = "break" THEN [turn EXCEPT !.flow = "next"]
               ELSE LET on == [turn EXCEPT !.flow = "next"]
                    IN  Loop(IF step = <<>> THEN on ELSE Eval(on, step[1]),
                             condition, step, body)

Exec(c, s) ==
  CASE s.k = "Expr"     -> Eval(c, s.e)
    [] s.k = "LocalVar" -> Declared(c, s)
    [] s.k = "Block" ->
         LET after[n \in 0 .. Len(s.body)] ==
               IF n = 0 THEN c
               ELSE LET before == after[n - 1]
                    IN  IF before.flow = "next" THEN Exec(before, s.body[n]) ELSE before
         IN  after[Len(s.body)]
    [] s.k = "If" ->
         LET test == Eval(c, s.c)
         IN  IF test.v # 0 THEN Exec(test, s.then)
             ELSE IF s.else = <<>> THEN test ELSE Exec(test, s.else[1])
    [] s.k = "While" -> Loop(c, <<s.c>>, <<>>, s.body)
    [] s.k = "For" -> Loop(IF s.init = <<>> THEN c ELSE Exec(c, s.init[1]), s.c, s.step, s.body)
    [] s.k = "Return" ->
         [(IF s.value = <<>> THEN c ELSE Eval(c, s.value[1])) EXCEPT !.flow = "return"]
    [] s.k = "Break"    -> [c EXCEPT !.flow = "break"]
    [] s.k = "Continue" -> [c EXCEPT !.flow = "continue"]
    [] OTHER -> c

(* A whole program: its globals, then a call of main. *)
Meaning(program) ==
  LET start == [program |-> program, mem |-> <<>>, env |-> <<>>, globals |-> <<>>,
                out |-> <<>>, v |-> 0, flow |-> "next"]
      after[n \in 0 .. Len(program.globals)] ==
        IF n = 0 THEN start ELSE Declared(after[n - 1], program.globals[n])
      ready == after[Len(program.globals)]
  IN  Called([ready EXCEPT !.globals = ready.env], Call("main", <<>>), <<>>)

(* The final values of the global `name`. *)
GlobalAfter(c, name) == c.mem[c.globals[name].object]

=============================================================================
