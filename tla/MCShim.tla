------------------------------- MODULE MCShim -------------------------------
(***************************************************************************)
(* Programs of up to two calls, with ints of eight bits: every int alone,  *)
(* and those at the edges before and after other output.                   *)
(***************************************************************************)
EXTENDS Shim

Decimal(n) == [name |-> "print_int", n |-> n]
Edges      == {Decimal(n) : n \in {-128, -10, 0, 127}}
Texts      == {[name |-> "print_char", c |-> "a"], [name |-> "print_string", s |-> <<>>],
               [name |-> "print_string", s |-> <<"b", "c">>]}
SomeCalls  == {<<Decimal(n)>> : n \in -128 .. 127}
                \cup {<<a, b>> : a, b \in Edges \cup Texts}

PowersOfTen == [i \in 0 .. 4 |-> 10^i]
=============================================================================
