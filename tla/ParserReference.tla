-------------------------- MODULE ParserReference ---------------------------
(***************************************************************************)
(* What the parser promises: the language of grammar/syntax.ebnf, and the  *)
(* tree that C's precedence and associativity give an expression.  Neither *)
(* is written the way the parser works.  The grammar is data, and the      *)
(* recognizer tries every derivation.  A tree is found by splitting the    *)
(* tokens of the expression at the operator that binds loosest.            *)
(***************************************************************************)
EXTENDS Parser, SequencesExt

(* A nonterminal has a set of alternatives, each a sequence of symbols.  A *)
(* repetition { x } is a nonterminal of its own, an option two             *)
(* alternatives.                                                           *)
Tail_(operand, operators, again) == {<<>>} \cup {<<op, operand, again>> : op \in operators}

Statements_ ==
  [stmt |->
     {<<"block">>, <<"if", "(", "expr", ")", "stmt">>,
      <<"if", "(", "expr", ")", "stmt", "else", "stmt">>, <<"while", "(", "expr", ")", "stmt">>,
      <<"for", "(", "for_init", ";", "opt_expr", ";", "opt_expr", ")", "stmt">>,
      <<"return", "opt_expr", ";">>, <<"break", ";">>, <<"continue", ";">>, <<"opt_expr", ";">>},
   block       |-> {<<"{", "block_items", "}">>},
   block_items |-> {<<>>, <<"block_item", "block_items">>},
   block_item  |-> {<<"var_decl">>, <<"stmt">>},
   for_init    |-> {<<>>, <<"var_decl_body">>, <<"expr">>},
   opt_expr    |-> {<<>>, <<"expr">>}]

Declarations_ ==
  [program       |-> {<<>>, <<"global_decl", "program">>},
   global_decl   |-> {<<"func", "block">>, <<"func", ";">>, <<"var_decl">>},
   func          |-> {<<"type", "ident", "(", "params", ")">>},
   params        |-> {<<>>, <<"void">>, <<"param", "other_params">>},
   other_params  |-> {<<>>, <<",", "param", "other_params">>},
   param         |-> {<<"type", "ident">>, <<"type", "ident", "[", "]">>},
   var_decl      |-> {<<"var_decl_body", ";">>},
   var_decl_body |-> {<<"type", "ident", "length", "init">>},
   length        |-> {<<>>, <<"[", "int_lit", "]">>},
   init          |-> {<<>>, <<"=", "expr">>, <<"=", "{", "list", "}">>},
   list          |-> {<<>>, <<"expr", "other_elements">>},
   other_elements |-> {<<>>, <<",">>, <<",", "expr", "other_elements">>},
   type          |-> {<<"int">>, <<"char">>, <<"void">>}]

Expressions_ ==
  [expr           |-> {<<"assignment">>},
   assignment     |-> {<<"target", "=", "assignment">>, <<"logical_or">>},
   target         |-> {<<"ident", "indices">>, <<"(", "target", ")">>},
   indices        |-> {<<>>, <<"[", "expr", "]", "indices">>},
   logical_or     |-> {<<"logical_and", "ors">>},
   ors            |-> Tail_("logical_and", {"||"}, "ors"),
   logical_and    |-> {<<"equality", "ands">>},
   ands           |-> Tail_("equality", {"&&"}, "ands"),
   equality       |-> {<<"relational", "equals">>},
   equals         |-> Tail_("relational", {"==", "!="}, "equals"),
   relational     |-> {<<"additive", "relations">>},
   relations      |-> Tail_("additive", {"<", ">", "<=", ">="}, "relations"),
   additive       |-> {<<"multiplicative", "sums">>},
   sums           |-> Tail_("multiplicative", {"+", "-"}, "sums"),
   multiplicative |-> {<<"unary", "products">>},
   products       |-> Tail_("unary", {"*", "/", "%"}, "products"),
   unary          |-> {<<op, "unary">> : op \in PrefixOperators} \cup {<<"postfix">>},
   postfix        |-> {<<"primary", "suffixes">>},
   suffixes       |-> {<<>>, <<"[", "expr", "]", "suffixes">>, <<"(", "args", ")", "suffixes">>,
                       <<"++", "suffixes">>, <<"--", "suffixes">>},
   args           |-> {<<>>, <<"assignment", "other_args">>},
   other_args     |-> {<<>>, <<",", "assignment", "other_args">>},
   primary        |-> {<<literal>> : literal \in Literals}
                        \cup {<<"ident">>, <<"(", "expr", ")">>}]

Grammar == Statements_ @@ Declarations_ @@ Expressions_

(* expr.rs also lets an element of anything postfix be assigned to.        *)
WiderGrammar ==
  [Grammar EXCEPT !.target = @ \cup {<<"primary", "suffixes", "[", "expr", "]", "indices">>}]

(* The positions reached from position `i` of the stream by a derivation.  *)
RECURSIVE After(_, _, _)
After(G, symbols, i) ==
  IF symbols = <<>> THEN {i}
  ELSE LET s == Head(symbols)
           first == IF s \in DOMAIN G THEN UNION {After(G, alternative, i) : alternative \in G[s]}
                    ELSE IF i < Len(tokens) /\ tokens[i + 1] = s THEN {i + 1} ELSE {}
       IN  UNION {After(G, Tail(symbols), j) : j \in first}

Derives(G) == Len(tokens) \in After(G, <<"program">>, 0)
-----------------------------------------------------------------------------
(* The tree of tokens i .. j.                                              *)
Openers == {"(", "["}
Closers == {")", "]"}
Open(i, k) == Cardinality({m \in i .. k : tokens[m] \in Openers})
            - Cardinality({m \in i .. k : tokens[m] \in Closers})

(* Whether an operand ends at k, so that an operator after it is binary.   *)
RECURSIVE OperandEnds(_, _)
OperandEnds(i, k) ==
  k >= i /\ (\/ tokens[k] \in Literals \cup Closers \cup {"ident"}
             \/ tokens[k] \in PostfixOperators /\ OperandEnds(i, k - 1))

Outside(i, j, kinds) == {k \in i .. j : tokens[k] \in kinds /\ Open(i, k) = 0}
Opening(i, j) == Max({i} \cup {k \in i .. j : tokens[k] \in Openers /\ Open(i, k - 1) = 0})

RECURSIVE TreeOf(_, _)
TreeOf(i, j) ==
  LET assigns  == Outside(i, j, {"="})
      binaries == {k \in Outside(i, j, DOMAIN binary_operator) : OperandEnds(i, k - 1)}
      Rank(k)  == binary_operator[tokens[k]]
      loosest  == {k \in binaries : \A m \in binaries : Rank(k) <= Rank(m)}
      last     == tokens[j]
      open     == Opening(i, j)
      commas   == {k \in open + 1 .. j - 1 : tokens[k] = "," /\ Open(open + 1, k) = 0}
      bounds   == SetToSortSeq(commas \cup {open, j}, <)
  IN  CASE assigns # {} ->
             LET k == Min(assigns) IN Node("=", <<TreeOf(i, k - 1), TreeOf(k + 1, j)>>)
        [] assigns = {} /\ loosest # {} ->
             LET k == Max(loosest) IN Node(tokens[k], <<TreeOf(i, k - 1), TreeOf(k + 1, j)>>)
        [] assigns \cup loosest = {} /\ tokens[i] \in PrefixOperators ->
             Node(tokens[i], <<TreeOf(i + 1, j)>>)
        [] assigns \cup loosest = {} /\ tokens[i] \notin PrefixOperators ->
             CASE i = j -> Node(last, <<>>)
               [] last = "++" -> Node("increment", <<TreeOf(i, j - 1)>>)
               [] last = "--" -> Node("decrement", <<TreeOf(i, j - 1)>>)
               [] last = "]" -> Node("index", <<TreeOf(i, open - 1), TreeOf(open + 1, j - 1)>>)
               [] last = ")" /\ open = i -> TreeOf(i + 1, j - 1)
               [] last = ")" /\ open > i ->
                    Node("call", <<TreeOf(i, open - 1)>> \o
                      IF open + 1 = j THEN <<>>
                      ELSE [a \in 1 .. Len(bounds) - 1 |-> TreeOf(bounds[a] + 1, bounds[a + 1] - 1)])

RECURSIVE Height(_)
Height(tree) == 1 + Max({0} \cup {Height(tree.children[c]) : c \in DOMAIN tree.children})
-----------------------------------------------------------------------------
Parsed == work = <<>>
Accepted == Parsed /\ diagnostics = {}

(* A stream is parsed without a diagnostic exactly when the grammar        *)
(* derives it, as long as it is not too deep.                              *)
AcceptsTheGrammar ==
  Parsed /\ ~tooDeep => (diagnostics = {} <=> Derives(WiderGrammar))

(* Every expression gets the tree that precedence and associativity give   *)
(* its tokens, in a program with errors elsewhere as well.                 *)
TreesFollowPrecedence ==
  \A e \in built : e.tree = TreeOf(e.from + 1, e.to)

(* parser/expr.rs, of is_assignable: "a shape the grammar allows on the    *)
(* left of `=`".                                                           *)
TargetsAreTheGrammars == Accepted => Derives(Grammar)

(* parser/mod.rs, of Parser::nested and Parser::deepen: "so the tree       *)
(* itself never passes MAX_NESTING_DEPTH".                                 *)
TreeStaysWithinTheLimit == \A e \in built : e.depth + Height(e.tree) <= MaxDepth

(* parser/mod.rs, of a `}` seen at depth zero: "it belongs to the block    *)
(* the parser is inside".                                                  *)
BraceBelongsToTheBlock ==
  \A b \in closed : /\ Nesting(b[1], b[2]) = -1
                    /\ \A q \in b[1] .. b[2] - 1 : Nesting(b[1], q) >= 0
=============================================================================
