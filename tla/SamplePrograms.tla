--------------------------- MODULE SamplePrograms ---------------------------
(***************************************************************************)
(* The programs the compiler model is run on.  Each is the syntax tree of  *)
(* a small C program, written above it, that the parser and analysis       *)
(* accept, that terminates and whose meaning C defines: no overflow, no    *)
(* read of an uninitialized variable, no dependence on evaluation order.   *)
(***************************************************************************)
EXTENDS Syntax

N(n)    == IntLit(n)
a       == Ident("a")
b       == Ident("b")
c       == Ident("c")
i       == Ident("i")
n       == Ident("n")
s       == Ident("s")
t       == Ident("t")
x       == Ident("x")
y       == Ident("y")
Plus(l, r)  == Binary("Add", l, r)
Minus(l, r) == Binary("Subtract", l, r)
Times(l, r) == Binary("Multiply", l, r)
Less(l, r)  == Binary("Less", l, r)
Equal(l, r) == Binary("Equal", l, r)
And(l, r)   == Binary("And", l, r)
Or(l, r)    == Binary("Or", l, r)
Set(l, r)   == Do(Assign(l, r))
IntVar(name, e) == Local(TyInt, name, ExprOf(e))
PrintInt(e)     == Do(Call("print_int", <<e>>))
Incremented(e)  == Postfix("Increment", e)

OneFunction(body) == Program(<<>>, <<Func(TyInt, "main", <<>>, body)>>)
WithMain(globals, functions, body) ==
  Program(globals, Append(functions, Func(TyInt, "main", <<>>, body)))

------------------------------------------------------------------------------
(* Expressions over an int, a char and a call, two operators deep:         *)
(*   int f(int n) { return n - 9; }                                        *)
(*   int main(void) { int x = 7; char c; c = -3; return <expression>; }    *)

Leaves == {x, c, Call("f", <<x>>)}
Inner  == {Binary(op, l, r) : op \in {"Subtract", "LessEqual", "And"}, l, r \in Leaves}
Outer  == {Binary(op, l, r) : op \in {"Subtract", "Or"}, l \in Inner, r \in Leaves \ {x}}
            \cup {Binary(op, l, r) : op \in {"Subtract", "Or"}, l \in Leaves \ {x}, r \in Inner}
            \cup {Binary(op, l, r) : op \in {"Divide", "Remainder", "Greater"},
                                    l \in Inner, r \in Leaves \ {c}}
            \cup {Unary(op, e) : op \in {"Negate", "Not"}, e \in Inner}
            \cup {Call("f", <<e>>) : e \in Inner}

ExpressionProgram(e) ==
  WithMain(<<>>,
    <<Func(TyInt, "f", <<Param(TyInt, "n")>>, <<Return(<<Minus(n, N(9))>>)>>)>>,
    <<IntVar("x", N(7)), Local(TyChar, "c", NoInit), Set(c, Unary("Negate", N(3))),
      Return(<<e>>)>>)

------------------------------------------------------------------------------
(* int main(void) {                                                        *)
(*   int x = 0;                                                            *)
(*   for (int i = 0; i < 5; i++) {                                         *)
(*     if (i == 1) continue;                                               *)
(*     if (i == 4) break; else x = x + i;                                  *)
(*     for (int y = 0; ; y++) { if (y == 2) break; x = x + 10; }           *)
(*   }                                                                     *)
(*   while (x > 40) { x = x - 7; if (!(x - 46)) continue; ; }              *)
(*   return x; }                                                           *)
Loops ==
  OneFunction(<<
    IntVar("x", N(0)),
    For(<<IntVar("i", N(0))>>, <<Less(i, N(5))>>, <<Incremented(i)>>, Block(<<
      If(Equal(i, N(1)), Continue, <<>>),
      If(Equal(i, N(4)), Break, <<Set(x, Plus(x, i))>>),
      For(<<IntVar("y", N(0))>>, <<>>, <<Incremented(y)>>, Block(<<
        If(Equal(y, N(2)), Break, <<>>),
        Set(x, Plus(x, N(10)))>>))>>)),
    While(Binary("Greater", x, N(40)), Block(<<
      Set(x, Minus(x, N(7))),
      If(Unary("Not", Minus(x, N(46))), Continue, <<>>), EmptyStmt>>)),
    Return(<<x>>)>>)

(* int noisy(int n) { print_int(n); return n; }                            *)
(* int main(void) {                                                        *)
(*   if (noisy(0) && noisy(1) || noisy(2)) print_int(-1);                  *)
(*   return noisy(3) - noisy(4) * (noisy(5) || noisy(6)); }                *)
Noisy ==
  Func(TyInt, "noisy", <<Param(TyInt, "n")>>, <<PrintInt(n), Return(<<n>>)>>)
NoisyCall(v) == Call("noisy", <<N(v)>>)
ShortCircuits ==
  WithMain(<<>>, <<Noisy>>, <<
    If(Or(And(NoisyCall(0), NoisyCall(1)), NoisyCall(2)), PrintInt(Unary("Negate", N(1))), <<>>),
    Return(<<Minus(NoisyCall(3), Times(NoisyCall(4), Or(NoisyCall(5), NoisyCall(6))))>>)>>)

(* int sub(int a, int b) { return a - b; }                                 *)
(* int fact(int n) { if (n < 2) return 1; return n * fact(n - 1); }        *)
(* int main(void) { return sub(fact(4), sub(sub(9, 2), sub(1, fact(3))))   *)
(*                         + sub(1, 2) * 3; }                              *)
Sub(l, r) == Call("sub", <<l, r>>)
NestedCalls ==
  WithMain(<<>>,
    <<Func(TyInt, "sub", <<Param(TyInt, "a"), Param(TyInt, "b")>>, <<Return(<<Minus(a, b)>>)>>),
      Func(TyInt, "fact", <<Param(TyInt, "n")>>,
           <<If(Less(n, N(2)), Return(<<N(1)>>), <<>>),
             Return(<<Times(n, Call("fact", <<Minus(n, N(1))>>))>>)>>)>>,
    <<Return(<<Plus(Sub(Call("fact", <<N(4)>>),
                        Sub(Sub(N(9), N(2)), Sub(N(1), Call("fact", <<N(3)>>)))),
                    Times(Sub(N(1), N(2)), N(3)))>>)>>)

(* Twelve parameters, four of them on the stack: a char, an int, an array  *)
(* and a char that is narrowed on the way.                                 *)
(* int many(int a, ..., int h, char c, int n, int s[], char t) {           *)
(*   s[1] = n; return a - h + c * 2 + t; }                                 *)
(* int main(void) { int s[2] = {1}; char c; c = -5;                        *)
(*   int x = many(1, 2, ..., 8, c, c, s, 300); return x * 100 + s[1]; }    *)
ParameterNames == <<"a", "p2", "p3", "p4", "p5", "p6", "p7", "h">>
Many ==
  Func(TyInt, "many",
       [k \in 1 .. 8 |-> Param(TyInt, ParameterNames[k])]
         \o <<Param(TyChar, "c"), Param(TyInt, "n"), Param(Ptr("int"), "s"), Param(TyChar, "t")>>,
       <<Set(Index(s, N(1)), n),
         Return(<<Plus(Plus(Minus(a, Ident("h")), Times(c, N(2))), t)>>)>>)
StackArguments ==
  WithMain(<<>>, <<Many>>,
    <<Local(Array("int", 2), "s", List(<<N(1)>>)), Local(TyChar, "c", NoInit),
      Set(c, Unary("Negate", N(5))),
      IntVar("x", Call("many", [k \in 1 .. 8 |-> N(k)] \o <<c, c, s, N(300)>>)),
      Return(<<Plus(Times(x, N(100)), Index(s, N(1)))>>)>>)

(* int at(int n) { print_int(n); return n; }                               *)
(* int main(void) { int a[4] = {5, 1, 2}; int b[2] = {0, 3}; int x = 0;    *)
(*   a[at(1)]++; --a[b[0]]; x = a[3] = a[a[2]] + 4; a[x++ - 6] = 9;        *)
(*   print_int(x);                                                         *)
(*   return a[0] * 1000 + a[1] * 100 + a[2] * 10 + a[3]; }                 *)
Elements ==
  WithMain(<<>>, <<Func(TyInt, "at", <<Param(TyInt, "n")>>, <<PrintInt(n), Return(<<n>>)>>)>>,
    <<Local(Array("int", 4), "a", List(<<N(5), N(1), N(2)>>)),
      Local(Array("int", 2), "b", List(<<N(0), N(3)>>)),
      IntVar("x", N(0)),
      Do(Incremented(Index(a, Call("at", <<N(1)>>)))),
      Do(Unary("PreDecrement", Index(a, Index(b, N(0))))),
      Set(x, Assign(Index(a, N(3)), Plus(Index(a, Index(a, N(2))), N(4)))),
      Set(Index(a, Minus(Incremented(x), N(6))), N(9)),
      PrintInt(x),
      Return(<<Plus(Plus(Times(Index(a, N(0)), N(1000)), Times(Index(a, N(1)), N(100))),
                    Plus(Times(Index(a, N(2)), N(10)), Index(a, N(3))))>>)>>)

(* void upper(char s[], int n) {                                           *)
(*   for (int i = 0; i < n; i = i + 1) { s[i] = s[i] - 32; s[i]++; } }     *)
(* int main(void) { char t[4] = "ab"; upper(t, 2); print_string(t);        *)
(*   print_string("z"); print_char(t[1] + 256); char c = 'x'; c--;         *)
(*   return c; }                                                           *)
Characters ==
  WithMain(<<>>,
    <<Func(TyVoid, "upper", <<Param(Ptr("char"), "s"), Param(TyInt, "n")>>,
        <<For(<<IntVar("i", N(0))>>, <<Less(i, n)>>, <<Assign(i, Plus(i, N(1)))>>, Block(<<
            Set(Index(s, i), Minus(Index(s, i), N(32))),
            Do(Incremented(Index(s, i)))>>))>>)>>,
    <<Local(Array("char", 4), "t", ExprOf(StrLit(<<97, 98>>))),
      Do(Call("upper", <<t, N(2)>>)),
      Do(Call("print_string", <<t>>)),
      Do(Call("print_string", <<StrLit(<<122>>)>>)),
      Do(Call("print_char", <<Plus(Index(t, N(1)), N(256))>>)),
      Local(TyChar, "c", ExprOf(CharLit(120))),
      Do(Postfix("Decrement", c)),
      Return(<<c>>)>>)

(* int x = 2 * 3 - 1;  char c = 'A';  int a[3] = {1, -2};  char s[4] = "h";*)
(* int t;  char y = -(3 < 4);                                              *)
(* void touch(int x) { t = x + a[1]; s[1] = 105; a[2] = a[0] - y; c++; }   *)
(* int main(void) { touch(x); print_string(s); x = x + 1; }                *)
Globals ==
  WithMain(
    <<Global(TyInt, "x", ExprOf(Minus(Times(N(2), N(3)), N(1)))),
      Global(TyChar, "c", ExprOf(CharLit(65))),
      Global(Array("int", 3), "a", List(<<N(1), Unary("Negate", N(2))>>)),
      Global(Array("char", 4), "s", ExprOf(StrLit(<<104>>))),
      Global(TyInt, "t", NoInit),
      Global(TyChar, "y", ExprOf(Unary("Negate", Less(N(3), N(4)))))>>,
    <<Func(TyVoid, "touch", <<Param(TyInt, "x")>>,
        <<Set(t, Plus(x, Index(a, N(1)))),
          Set(Index(s, N(1)), N(105)),
          Set(Index(a, N(2)), Minus(Index(a, N(0)), y)),
          Do(Incremented(c))>>)>>,
    <<Do(Call("touch", <<x>>)), Do(Call("print_string", <<s>>)), Set(x, Plus(x, N(1)))>>)

(* A frame too large for the small prologue, and for direct offsets:       *)
(* int sum(int a[], int n) { if (n == 0) return 0;                         *)
(*                           return a[n - 1] + sum(a, n - 1); }            *)
(* int main(void) { char c = 'c'; int a[30] = {7}; int x; char b[6] = "b"; *)
(*   a[29] = 4; a[1] = 5; x = c; b[5] = x + 1; x = sum(a, 2) + b[5];       *)
(*   return x * (x - (x + a[29])) - a[28]; }                               *)
LargeFrame ==
  WithMain(<<>>,
    <<Func(TyInt, "sum", <<Param(Ptr("int"), "a"), Param(TyInt, "n")>>,
        <<If(Equal(n, N(0)), Return(<<N(0)>>), <<>>),
          Return(<<Plus(Index(a, Minus(n, N(1))), Call("sum", <<a, Minus(n, N(1))>>))>>)>>)>>,
    <<Local(TyChar, "c", ExprOf(CharLit(99))),
      Local(Array("int", 30), "a", List(<<N(7)>>)),
      Local(TyInt, "x", NoInit),
      Local(Array("char", 6), "b", ExprOf(StrLit(<<98>>))),
      Set(Index(a, N(29)), N(4)), Set(Index(a, N(1)), N(5)),
      Set(x, c), Set(Index(b, N(5)), Plus(x, N(1))),
      Set(x, Plus(Call("sum", <<a, N(2)>>), Index(b, N(5)))),
      Return(<<Minus(Times(x, Minus(x, Plus(x, Index(a, N(29))))), Index(a, N(28)))>>)>>)

Samples ==
  <<Loops, ShortCircuits, NestedCalls, StackArguments, Elements, Characters, Globals, LargeFrame>>

=============================================================================
