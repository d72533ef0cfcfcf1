------------------------------ MODULE MCParser ------------------------------
(***************************************************************************)
(* Token streams for the parser.  Each family puts every short sequence of *)
(* the tokens that matter in one place of a program that goes on after it, *)
(* so a construct is met complete, cut short, wrong and nested, and what   *)
(* recovery makes of the rest is seen.                                     *)
(***************************************************************************)
EXTENDS ParserReference

UpTo(kinds, n) == UNION {[1 .. m -> kinds] : m \in 0 .. n}

Global == <<"int", "ident", ";">>
Around(before, middles, after) == {before \o middle \o after : middle \in middles}
InBody(statements) == Around(<<"int", "ident", "(", ")", "{">>, statements, <<"}">> \o Global)

(* What may follow the type and the name of an item. *)
Items ==
  Around(<<"int", "ident">>,
         UpTo({"(", ")", "{", "}", "[", "]", "int_lit", "=", ";", ",", "void"}, 3), Global)
Functions_ ==
  Around(<<"char", "ident", "(">>, UpTo({"void", "int", "ident", ",", "[", "]", ")"}, 3),
         <<")", "{", "}">> \o Global)
Lists ==
  Around(<<"int", "ident", "[", "int_lit", "]", "=", "{">>, UpTo({"ident", ",", ";", "+"}, 3),
         <<"}", ";">> \o Global)

(* A body. *)
Bodies == InBody(UpTo({"{", "}", ";", "int", "ident", "(", "=", "else"}, 3))
Branches ==
  InBody(Around(<<"if", "(", "ident", ")">>, UpTo({"{", "}", ";", "else", "ident", "if"}, 3), <<>>))
Fors ==
  InBody(Around(<<"for", "(">>, UpTo({";", "ident", "int", ")"}, 4), <<";">>))
Jumps ==
  InBody({<<"return", ";">>, <<"return", "ident", ";">>, <<"break", ";">>, <<"continue">>,
          <<"while", "(", "ident", ")", "{", "break", ";", "}">>, <<"while", ";">>,
          <<"for", "(", "int", "ident", "=", "ident", ";", "ident", "<", "ident", ";",
            "ident", "++", ")", ";">>})

(* The initializer of a global, which is a full expression. *)
Valued(es) == Around(<<"int", "ident", "=">>, es, <<";">> \o Global)
Chains == Valued(UpTo({"ident", "+", "*", "=", "<"}, 4)
                   \cup {<<"ident", a, "ident", b, "ident">> : a, b \in {"||", "&&", "==", "<", "-", "*"}}
                   \cup {<<"ident", a, "ident", b, "ident", c, "ident">> : a, b, c \in {"&&", "-", "%"}})
Nests == Valued(UpTo({"ident", "(", ")", "[", "]", "-", "++", ","}, 4))
Calls_ == Valued(Around(<<"ident", "(", "ident">>, UpTo({"ident", "(", ")", ",", "="}, 3), <<")">>))
Deep == Valued({[k \in 1 .. n |-> "("] \o <<"ident">> \o [k \in 1 .. n |-> ")"] : n \in 2 .. 4}
                 \cup {[k \in 1 .. n |-> "-"] \o <<"ident">> : n \in 4 .. 8})

Streams ==
  {<<>>} \cup Items \cup Functions_ \cup Lists \cup Bodies \cup Branches \cup Fors \cup Jumps
    \cup Chains \cup Nests \cup Calls_ \cup Deep
=============================================================================
