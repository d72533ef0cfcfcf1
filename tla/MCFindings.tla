----------------------------- MODULE MCFindings -----------------------------
(***************************************************************************)
(* Programs the compiler accepts and does not compile as the repository    *)
(* says it does.  Each group is one run, and each property is the claim    *)
(* that run refutes.                                                       *)
(***************************************************************************)
EXTENDS MCCompiledProgram

(* int main(void) { char c = 'a'; int x = c; return x; } *)
CharInitializesInt ==
  <<OneFunction(<<Local(TyChar, "c", ExprOf(CharLit(97))), IntVar("x", c), Return(<<x>>)>>)>>

(* types.rs, of the conversion analysis records here: "A `char` widened to *)
(* `int`, sign-extending."  The initializer of a local is stored at the    *)
(* width of its own type, so one byte of the int is written.               *)
CharIsWidenedToInt == AgreesWithC

(* int main(void) { int x; char c; x = (c = 300); return x; }              *)
(* int main(void) { char c; c = 127; return ++c; }                         *)
(* char f(int n) { return n; }  int main(void) { return f(300); }          *)
IntNarrowedToChar ==
  <<OneFunction(<<Local(TyInt, "x", NoInit), Local(TyChar, "c", NoInit),
                  Set(x, Assign(c, N(300))), Return(<<x>>)>>),
    OneFunction(<<Local(TyChar, "c", NoInit), Set(c, N(127)),
                  Return(<<Unary("PreIncrement", c)>>)>>),
    WithMain(<<>>, <<Func(TyChar, "f", <<Param(TyInt, "n")>>, <<Return(<<n>>)>>)>>,
             <<Return(<<Call("f", <<N(300)>>)>>)>>)>>

(* types.rs: "An `int` narrowed to `char`, keeping the low byte."  Storage *)
(* keeps the low byte, but the value left in w0 is the whole int.          *)
NarrowingKeepsTheLowByte == AgreesWithC

(* char c = 300;  int main(void) { return c; } *)
WideGlobalChar ==
  <<Program(<<Global(TyChar, "c", ExprOf(N(300)))>>,
            <<Func(TyInt, "main", <<>>, <<Return(<<c>>)>>)>>)>>

(* The same sentence of types.rs: analysis records the truncation, and the *)
(* data section is written as `.byte 300`, which does not assemble.        *)
AGlobalKeepsTheLowByte == EveryInstructionExecutes

(* int main(void) { int x = {1, 2, 3}; return 0; } *)
ScalarBraceList ==
  <<OneFunction(<<Local(TyInt, "x", List(<<N(1), N(2), N(3)>>)), Return(<<N(0)>>)>>)>>

(* sema/mod.rs: "An array is the one declared type an initializer can      *)
(* overrun".  A brace list for a scalar is neither checked for length nor  *)
(* cut, and is stored over whatever follows the variable.                  *)
OnlyAnArrayCanBeOverrun == StoresStayInObjects

(* int f(int s[]) { int b[2] = {1, 2}; s = b; return s[1]; }               *)
(* int main(void) { int a[2] = {3, 4}; return f(a) * 10 + a[0]; }          *)
ArrayAssignedToParameter ==
  <<WithMain(<<>>,
      <<Func(TyInt, "f", <<Param(Ptr("int"), "s")>>,
             <<Local(Array("int", 2), "b", List(<<N(1), N(2)>>)), Set(s, b),
               Return(<<Index(s, N(1))>>)>>)>>,
      <<Local(Array("int", 2), "a", List(<<N(3), N(4)>>)),
        Return(<<Plus(Times(Call("f", <<a>>), N(10)), Index(a, N(0)))>>)>>)>>

(* types.rs: "An array becomes a pointer at one place only — the           *)
(* function-argument position."  Analysis lets an array decay into an      *)
(* assignment to an array parameter as well, and the code it leads to      *)
(* writes the address over the caller's first element.                     *)
ArraysDecayOnlyAtArguments == AgreesWithC

(* int main(void) { char a[488]; return 0; }: the pair, the array and the  *)
(* temporary of `return 0` fill 512 bytes.                                 *)
FrameOf512Bytes ==
  <<OneFunction(<<Local(Array("char", 488), "a", NoInit), Return(<<N(0)>>)>>)>>

(* docs/dive-deep/code-generation.md, of the prologue's pre-indexed form:  *)
(* "That immediate reaches 512 bytes".  The stp does; the post-indexed ldp *)
(* that closes the same frame reaches 504.                                 *)
TheImmediateReaches512Bytes == EveryInstructionExecutes

=============================================================================
