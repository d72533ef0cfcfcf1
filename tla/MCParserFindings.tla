-------------------------- MODULE MCParserFindings --------------------------
(***************************************************************************)
(* Streams on which the parser does not do what its comments say.          *)
(***************************************************************************)
EXTENDS ParserReference

Repeat(kind, n) == [k \in 1 .. n |-> kind]

(* int x = - - ... - a + a ... + a;  with 20 minuses and 20 sums, under a  *)
(* limit of 32.  Each chain keeps to the limit on its own, and the tree    *)
(* holds one above the other.                                              *)
DeepLeftOperand ==
  {<<"int", "ident", "=">> \o Repeat("-", 20) \o <<"ident">>
     \o [k \in 1 .. 40 |-> IF k % 2 = 1 THEN "+" ELSE "ident"] \o <<";">>}

(* int f() { int a[2] = {1 1}; a; }  int g;                                *)
BrokenBraceList ==
  {<<"int", "ident", "(", ")", "{",
     "int", "ident", "[", "int_lit", "]", "=", "{", "int_lit", "int_lit", "}", ";",
     "ident", ";", "}", "int", "ident", ";">>}

(* int x = f(a)[a] = a; *)
ElementOfCall ==
  {<<"int", "ident", "=", "ident", "(", "ident", ")", "[", "ident", "]", "=", "ident", ";">>}
=============================================================================
