------------------------------- MODULE Parser -------------------------------
(***************************************************************************)
(* The recursive-descent parser of src/parser: parser/mod.rs, its items,   *)
(* statements and panic-mode recovery, and parser/expr.rs, its expressions *)
(* by precedence climbing.                                                 *)
(*                                                                         *)
(* The Rust call stack is the variable `work`, next call first.  A parsing *)
(* function is an item bearing its name; running it replaces the item by   *)
(* the calls its body makes.  An item "restore" is the end of a            *)
(* restoring_depth, an item "catch" the match on Err(Bail) of a loop.      *)
(* Tokens are their kinds: the spelling of a name or a literal, the spans  *)
(* and the text of a diagnostic are left out, and so are the nodes of      *)
(* declarations and statements.  Tokens stand without space between them,  *)
(* so a `+` before an `=` is the `+=` that adjacent_operator reports.      *)
(***************************************************************************)
EXTENDS Integers, Sequences, FiniteSets

CONSTANTS
  Inputs,    \* the token streams parsed, without their Eof
  MaxDepth   \* MAX_NESTING_DEPTH

TypeKeywords == {"int", "char", "void"}
Literals     == {"int_lit", "char_lit", "string_lit"}

TokenKind ==
  TypeKeywords \cup Literals \cup {"ident"}
    \cup {"if", "else", "while", "for", "return", "break", "continue"}
    \cup {"+", "-", "*", "/", "%", "=", "==", "!=", "<", ">", "<=", ">=", "&&", "||", "!", "++", "--"}
    \cup {"(", ")", "{", "}", "[", "]", ";", ","}

ASSUME ParserAssumption ==
  /\ Inputs \subseteq Seq(TokenKind)
  /\ MaxDepth \in Nat

VARIABLES
  tokens,       \* the stream
  position,     \* how many tokens have been consumed
  depth,        \* how many levels deep the construct being parsed sits
  work,         \* the calls still to make, the next one first
  values,       \* the expression trees those calls have returned so far
  diagnostics,  \* the positions at which problems were reported
  tooDeep,      \* whether one of them was too_deep
  built,        \* every full expression parsed: where, how deep, its tree
  closed,       \* the blocks parsed: the places of their braces
  lostList      \* whether a bail abandoned a brace list

vars == <<tokens, position, depth, work, values, diagnostics, tooDeep, built, closed, lostList>>
-----------------------------------------------------------------------------
(* Calls, and the nodes of expressions. *)
Parse(name)       == [do |-> name, token |-> "", n |-> 0]
Expect(token)     == [do |-> "expect", token |-> token, n |-> 0]
Advance           == Parse("advance")
Operators(least)  == [do |-> "binary_chain", token |-> "", n |-> least]
Operand(least)    == [do |-> "binary", token |-> "", n |-> least]
Build(op, arity)  == [do |-> "build", token |-> op, n |-> arity]
Restore(entry)    == [do |-> "restore", token |-> "", n |-> entry]
Catch(started_at) == [do |-> "catch", token |-> "", n |-> started_at]
Take(from)        == [do |-> "take", token |-> "", n |-> from]
EndOfBlock(open)  == [do |-> "end_of_block", token |-> "", n |-> open]
Deepen            == Parse("deepen")

Node(op, children) == [op |-> op, children |-> children]
Top == values[Len(values)]

(* Looking at the stream.  Past its end every token is Eof. *)
peek_at(ahead) ==
  IF position + ahead < Len(tokens) THEN tokens[position + ahead + 1] ELSE "eof"
At(kinds) == peek_at(0) \in kinds
AtEof == At({"eof"})
Advanced(p) == IF p < Len(tokens) THEN p + 1 ELSE p

PrefixOperators     == {"-", "!", "+", "++", "--"}
PostfixOperators    == {"++", "--"}

binary_operator ==
  [t \in {"||", "&&", "==", "!=", "<", ">", "<=", ">=", "+", "-", "*", "/", "%"} |->
     CASE t = "||" -> 1 [] t = "&&" -> 2 [] t \in {"==", "!="} -> 3
       [] t \in {"<", ">", "<=", ">="} -> 4 [] t \in {"+", "-"} -> 5 [] OTHER -> 6]

adjacent_operator ==
  \/ At({"+", "-", "*", "/", "%"}) /\ peek_at(1) = "="
  \/ At({"<"}) /\ peek_at(1) = "<"
  \/ At({">"}) /\ peek_at(1) = ">"

is_assignable(tree) == tree.op \in {"ident", "index"}
-----------------------------------------------------------------------------
(* Recovery.  Two faults come first in this part: the skip does not count  *)
(* braces, and recovery trusts the skip to make progress.                  *)
(*                                                                         *)
(* Nesting(p, q) is how many braces tokens p+1 to q leave open. *)
(* SkipEnds(p, q) is when a skip begun at p looks no further than q: the   *)
(* stream is out, a `}` of the enclosing block is next, or a `;` or the    *)
(* `}` of a nested brace was just consumed.                                *)
Nesting(p, q) == Cardinality({i \in p + 1 .. q : tokens[i] = "{"})
               - Cardinality({i \in p + 1 .. q : tokens[i] = "}"})

SkipEndsUncounted(p, q) ==
  \/ q = Len(tokens)
  \/ tokens[q + 1] = "}"
  \/ q > p /\ tokens[q] = ";"

SkipEnds(p, q) ==
  \/ q = Len(tokens)
  \/ tokens[q + 1] = "}" /\ Nesting(p, q) = 0
  \/ q > p /\ tokens[q] \in {";", "}"} /\ Nesting(p, q) = 0

skip_to_boundary(p) ==
  LET q == CHOOSE q \in p .. Len(tokens) :
             SkipEnds(p, q) /\ \A earlier \in p .. q - 1 : ~SkipEnds(p, earlier)
      skipped_brace == q > p /\ tokens[q] = "}"
  IN  IF skipped_brace /\ q < Len(tokens) /\ tokens[q + 1] = ";" THEN q + 1 ELSE q

RecoverBySkipping(started_at, p) == skip_to_boundary(p)

recover_from(started_at, p) ==
  LET q == skip_to_boundary(p) IN IF q = started_at THEN Advanced(q) ELSE q
-----------------------------------------------------------------------------
(* What running one call does.                                             *)
Doing(name) == work # <<>> /\ Head(work).do = name
Calling(calls) == work' = calls \o Tail(work)

Calls(calls) ==
  /\ Calling(calls)
  /\ UNCHANGED <<tokens, position, depth, values, diagnostics, tooDeep, built, closed, lostList>>

(* Run `calls` one level deeper and give the level back afterwards.        *)
Nested(calls) == Calls(<<Deepen>> \o calls \o <<Restore(depth)>>)

(* A fault: the levels a bail passes are not given back.                   *)
DepthKept(bailed) == depth

(* Each restoring_depth puts back the depth it started from, the outermost *)
(* one last.                                                               *)
DepthRestored(bailed) ==
  LET restores == {i \in 1 .. Len(bailed) : bailed[i].do = "restore"}
  IN  IF restores = {} THEN depth
      ELSE bailed[CHOOSE i \in restores : \A j \in restores : j <= i].n

(* A call returns Err(Bail): every restoring_depth on the way out puts its *)
(* depth back, and the nearest loop recovers.                              *)
Bails ==
  LET caught == CHOOSE i \in 1 .. Len(work) :
                  work[i].do = "catch" /\ \A j \in 1 .. i - 1 : work[j].do # "catch"
  IN  /\ diagnostics' = diagnostics \cup {position}
      /\ position' = recover_from(work[caught].n, position)
      /\ work' = SubSeq(work, caught + 1, Len(work))
      /\ depth' = DepthRestored(SubSeq(work, 1, caught))
      /\ lostList' = (lostList \/ \E i \in 1 .. caught : work[i].do = "end_of_list")
      /\ values' = <<>>
      /\ UNCHANGED <<tokens, built, closed>>

Rejects == Bails /\ UNCHANGED tooDeep
-----------------------------------------------------------------------------
(* The helpers every function uses. *)
advance ==
  /\ Doing("advance")
  /\ position' = Advanced(position)
  /\ Calling(<<>>)
  /\ UNCHANGED <<tokens, depth, values, diagnostics, tooDeep, built, closed, lostList>>

expect ==
  /\ Doing("expect")
  /\ \/ At({Head(work).token}) /\ Calls(<<Advance>>)
     \/ ~At({Head(work).token}) /\ Rejects

(* A fault: one level more than the limit. *)
deepen_one_more ==
  /\ Doing("deepen")
  /\ \/ /\ depth <= MaxDepth
        /\ depth' = depth + 1
        /\ Calling(<<>>)
        /\ UNCHANGED <<tokens, position, values, diagnostics, tooDeep, built, closed, lostList>>
     \/ depth > MaxDepth /\ Bails /\ tooDeep' = TRUE

deepen ==
  /\ Doing("deepen")
  /\ \/ /\ depth < MaxDepth
        /\ depth' = depth + 1
        /\ Calling(<<>>)
        /\ UNCHANGED <<tokens, position, values, diagnostics, tooDeep, built, closed, lostList>>
     \/ depth >= MaxDepth /\ Bails /\ tooDeep' = TRUE

restoring_depth ==
  /\ Doing("restore")
  /\ depth' = Head(work).n
  /\ Calling(<<>>)
  /\ UNCHANGED <<tokens, position, values, diagnostics, tooDeep, built, closed, lostList>>

(* The end of a pass of a loop whose construct was parsed. *)
Caught == Doing("catch") /\ Calls(<<>>)

(* A node takes its children from the values, an argument joins its call.  *)
build ==
  /\ Doing("build")
  /\ LET n == Len(values) - Head(work).n
     IN  values' = Append(SubSeq(values, 1, n),
                          Node(Head(work).token, SubSeq(values, n + 1, Len(values))))
  /\ Calling(<<>>)
  /\ UNCHANGED <<tokens, position, depth, diagnostics, tooDeep, built, closed, lostList>>

push_argument ==
  /\ Doing("push_argument")
  /\ LET n == Len(values) - 1
     IN  values' = Append(SubSeq(values, 1, n - 1),
                          Node(values[n].op, Append(values[n].children, Top)))
  /\ Calling(<<>>)
  /\ UNCHANGED <<tokens, position, depth, diagnostics, tooDeep, built, closed, lostList>>

(* A statement takes the tree of a full expression. *)
take ==
  /\ Doing("take")
  /\ built' = built \cup {[from |-> Head(work).n, to |-> position, depth |-> depth, tree |-> Top]}
  /\ values' = <<>>
  /\ Calling(<<>>)
  /\ UNCHANGED <<tokens, position, depth, diagnostics, tooDeep, closed, lostList>>
-----------------------------------------------------------------------------
(* Declarations. *)
program ==
  /\ Doing("program")
  /\ \/ AtEof /\ Calls(<<>>)
     \/ ~AtEof /\ Calls(<<Parse("item"), Catch(position), Parse("program")>>)

item ==
  /\ Doing("item")
  /\ Calls(<<Parse("type_spec"), Parse("name"), Parse("rest_of_item")>>)

rest_of_item ==
  /\ Doing("rest_of_item")
  /\ \/ At({"("}) /\ Calls(<<Expect("("), Parse("params"), Expect(")"), Parse("rest_of_function")>>)
     \/ ~At({"("}) /\ Calls(<<Parse("finish_var_decl"), Expect(";")>>)

rest_of_function ==
  /\ Doing("rest_of_function")
  /\ \/ At({"{"}) /\ Calls(<<Parse("block")>>)
     \/ ~At({"{"}) /\ Calls(<<Expect(";")>>)

params ==
  /\ Doing("params")
  /\ \/ At({")"}) /\ Calls(<<>>)
     \/ At({"void"}) /\ peek_at(1) = ")" /\ Calls(<<Advance>>)
     \/ /\ ~At({")"}) /\ ~(At({"void"}) /\ peek_at(1) = ")")
        /\ Calls(<<Parse("param"), Parse("more_params")>>)

more_params ==
  /\ Doing("more_params")
  /\ \/ At({","}) /\ Calls(<<Advance, Parse("param"), Parse("more_params")>>)
     \/ ~At({","}) /\ Calls(<<>>)

param ==
  /\ Doing("param")
  /\ Calls(<<Parse("type_spec"), Parse("name"), Parse("unsized")>>)

unsized ==
  /\ Doing("unsized")
  /\ \/ At({"["}) /\ Calls(<<Advance, Expect("]")>>)
     \/ ~At({"["}) /\ Calls(<<>>)

type_spec ==
  /\ Doing("type_spec")
  /\ \/ At(TypeKeywords) /\ Calls(<<Advance>>)
     \/ ~At(TypeKeywords) /\ Rejects

name == Doing("name") /\ Calls(<<Expect("ident")>>)

finish_var_decl ==
  /\ Doing("finish_var_decl")
  /\ \/ At({"["}) /\ Calls(<<Advance, Expect("int_lit"), Expect("]"), Parse("optional_initializer")>>)
     \/ ~At({"["}) /\ Calls(<<Parse("optional_initializer")>>)

optional_initializer ==
  /\ Doing("optional_initializer")
  /\ \/ At({"="}) /\ Calls(<<Advance, Parse("initializer")>>)
     \/ ~At({"="}) /\ Calls(<<>>)

initializer ==
  /\ Doing("initializer")
  /\ \/ At({"{"}) /\ Calls(<<Advance, Parse("elements"), Parse("end_of_list")>>)
     \/ ~At({"{"}) /\ Calls(<<Parse("full_expression")>>)

(* A fault: an element must follow a comma. *)
elements_without_trailing_comma ==
  /\ Doing("elements")
  /\ Calls(<<Parse("full_expression"), Parse("more_elements")>>)

elements ==
  /\ Doing("elements")
  /\ \/ At({"}", "eof"}) /\ Calls(<<>>)
     \/ ~At({"}", "eof"}) /\ Calls(<<Parse("full_expression"), Parse("more_elements")>>)

more_elements ==
  /\ Doing("more_elements")
  /\ \/ At({","}) /\ Calls(<<Advance, Parse("elements")>>)
     \/ ~At({","}) /\ Calls(<<>>)

end_of_list ==
  /\ Doing("end_of_list")
  /\ \/ At({"}"}) /\ Calls(<<Advance>>)
     \/ ~At({"}"}) /\ Rejects
-----------------------------------------------------------------------------
(* Blocks and statements. *)
block ==
  /\ Doing("block")
  /\ \/ At({"{"}) /\ Calls(<<Advance, Parse("block_items"), EndOfBlock(position + 1)>>)
     \/ ~At({"{"}) /\ Rejects

block_items ==
  /\ Doing("block_items")
  /\ \/ At({"}", "eof"}) /\ Calls(<<>>)
     \/ ~At({"}", "eof"}) /\ Calls(<<Parse("block_item"), Catch(position), Parse("block_items")>>)

end_of_block ==
  /\ Doing("end_of_block")
  /\ \/ /\ At({"}"})
        /\ closed' = closed \cup {<<Head(work).n, position + 1>>}
        /\ Calling(<<Advance>>)
        /\ UNCHANGED <<tokens, position, depth, values, diagnostics, tooDeep, built, lostList>>
     \/ ~At({"}"}) /\ Rejects

block_item ==
  /\ Doing("block_item")
  /\ \/ /\ At(TypeKeywords)
        /\ Calls(<<Parse("type_spec"), Parse("name"), Parse("finish_var_decl"), Expect(";")>>)
     \/ ~At(TypeKeywords) /\ Calls(<<Parse("statement")>>)

statement == Doing("statement") /\ Nested(<<Parse("statement_inner")>>)

Condition == <<Advance, Expect("("), Parse("full_expression"), Expect(")")>>
Clauses == <<Advance, Expect("("), Parse("for_init"), Expect(";"),
             Parse("condition_clause"), Expect(";"), Parse("step_clause"), Expect(")")>>

statement_inner ==
  /\ Doing("statement_inner")
  /\ \/ At({"{"}) /\ Calls(<<Parse("block")>>)
     \/ At({";"}) /\ Calls(<<Advance>>)
     \/ At({"if"}) /\ Calls(Condition \o <<Parse("statement"), Parse("else_branch")>>)
     \/ At({"while"}) /\ Calls(Condition \o <<Parse("statement")>>)
     \/ At({"for"}) /\ Calls(Clauses \o <<Parse("statement")>>)
     \/ At({"return"}) /\ Calls(<<Advance, Parse("condition_clause"), Expect(";")>>)
     \/ At({"break", "continue"}) /\ Calls(<<Advance, Expect(";")>>)
     \/ At({"else"} \cup TypeKeywords) /\ Rejects
     \/ /\ ~At({"{", ";", "if", "while", "for", "return", "break", "continue", "else"}
               \cup TypeKeywords)
        /\ Calls(<<Parse("full_expression"), Expect(";")>>)

else_branch ==
  /\ Doing("else_branch")
  /\ \/ At({"else"}) /\ Calls(<<Advance, Parse("statement")>>)
     \/ ~At({"else"}) /\ Calls(<<>>)

for_init ==
  /\ Doing("for_init")
  /\ \/ At({";"}) /\ Calls(<<>>)
     \/ At(TypeKeywords) /\ Calls(<<Parse("type_spec"), Parse("name"), Parse("finish_var_decl")>>)
     \/ ~At({";"} \cup TypeKeywords) /\ Calls(<<Parse("full_expression")>>)

(* An expression that may be left out: the condition of a `for` and the    *)
(* value of a `return`, which end at a `;`, and the step of a `for`.       *)
OmittedBefore(clause, end) ==
  /\ Doing(clause)
  /\ \/ At({end}) /\ Calls(<<>>)
     \/ ~At({end}) /\ Calls(<<Parse("full_expression")>>)

condition_clause == OmittedBefore("condition_clause", ";")
step_clause      == OmittedBefore("step_clause", ")")
-----------------------------------------------------------------------------
(* Expressions. *)
full_expression ==
  Doing("full_expression") /\ Calls(<<Parse("expression"), Take(position)>>)

expression == Doing("expression") /\ Nested(<<Parse("assignment")>>)

assignment == Doing("assignment") /\ Calls(<<Operand(1), Parse("assigned")>>)

assigned ==
  /\ Doing("assigned")
  /\ \/ ~At({"="}) /\ Calls(<<>>)
     \/ At({"="}) /\ ~is_assignable(Top) /\ Rejects
     \/ At({"="}) /\ is_assignable(Top) /\ Calls(<<Advance, Parse("expression"), Build("=", 2)>>)

binary ==
  /\ Doing("binary")
  /\ Calls(<<Parse("unary"), Operators(Head(work).n), Restore(depth)>>)

(* The right operand binds more tightly; a fault lets it bind as tightly.  *)
RightOperandAsTight(op) == Operand(binary_operator[op])
RightOperand(op) == Operand(binary_operator[op] + 1)

binary_chain ==
  LET least == Head(work).n
      op    == peek_at(0)
      Binds == op \in DOMAIN binary_operator /\ binary_operator[op] >= least
  IN  /\ Doing("binary_chain")
      /\ \/ adjacent_operator /\ Rejects
         \/ ~adjacent_operator /\ ~Binds /\ Calls(<<>>)
         \/ /\ ~adjacent_operator /\ Binds
            /\ Calls(<<Deepen, Advance, RightOperand(op), Build(op, 2), Operators(least)>>)

unary == Doing("unary") /\ Nested(<<Parse("unary_inner")>>)

unary_inner ==
  /\ Doing("unary_inner")
  /\ \/ At(PrefixOperators) /\ Calls(<<Advance, Parse("unary"), Build(peek_at(0), 1)>>)
     \/ ~At(PrefixOperators) /\ Calls(<<Parse("primary"), Parse("postfix")>>)

postfix ==
  /\ Doing("postfix")
  /\ \/ /\ At({"["})
        /\ Calls(<<Deepen, Advance, Parse("expression"), Expect("]"), Build("index", 2),
                   Parse("postfix")>>)
     \/ /\ At({"("})
        /\ Calls(<<Deepen, Build("call", 1), Advance, Parse("call_args"), Expect(")"),
                   Parse("postfix")>>)
     \/ /\ At(PostfixOperators)
        /\ Calls(<<Deepen, Advance,
                   Build(IF At({"++"}) THEN "increment" ELSE "decrement", 1), Parse("postfix")>>)
     \/ ~At({"[", "("} \cup PostfixOperators) /\ Calls(<<>>)

Argument == <<Parse("expression"), Parse("push_argument"), Parse("more_args")>>

call_args ==
  /\ Doing("call_args")
  /\ \/ At({")"}) /\ Calls(<<>>)
     \/ ~At({")"}) /\ Calls(Argument)

more_args ==
  /\ Doing("more_args")
  /\ \/ At({","}) /\ Calls(<<Advance>> \o Argument)
     \/ ~At({","}) /\ Calls(<<>>)

(* A literal or a name is a leaf, and parentheses leave nothing behind.    *)
primary ==
  /\ Doing("primary")
  /\ \/ At(Literals \cup {"ident"}) /\ Calls(<<Advance, Build(peek_at(0), 0)>>)
     \/ At({"("}) /\ Calls(<<Advance, Parse("expression"), Expect(")")>>)
     \/ ~At(Literals \cup {"ident", "("}) /\ Rejects
-----------------------------------------------------------------------------
Init ==
  /\ tokens \in Inputs
  /\ position = 0 /\ depth = 0
  /\ work = <<Parse("program")>>
  /\ values = <<>>
  /\ diagnostics = {} /\ tooDeep = FALSE /\ lostList = FALSE
  /\ built = {} /\ closed = {}

Helpers == \/ advance \/ expect \/ deepen \/ restoring_depth \/ Caught
           \/ build \/ push_argument \/ take

Declarations ==
  \/ program \/ item \/ rest_of_item \/ rest_of_function \/ params \/ more_params \/ param
  \/ unsized \/ type_spec \/ name \/ finish_var_decl \/ optional_initializer \/ initializer
  \/ elements \/ more_elements \/ end_of_list

Statements ==
  \/ block \/ block_items \/ end_of_block \/ block_item \/ statement \/ statement_inner
  \/ else_branch \/ for_init \/ condition_clause \/ step_clause

Expressions ==
  \/ full_expression \/ expression \/ assignment \/ assigned \/ binary \/ binary_chain
  \/ unary \/ unary_inner \/ postfix \/ call_args \/ more_args \/ primary

(* parse returned. *)
Done == work = <<>> /\ UNCHANGED vars

Next == Helpers \/ Declarations \/ Statements \/ Expressions \/ Done

(* A sequential program: as long as a call is left to make, it is made.    *)
Spec == Init /\ [][Next]_vars /\ WF_vars(Next)
-----------------------------------------------------------------------------
Call ==
  {"advance", "expect", "deepen", "restore", "catch", "build", "push_argument", "take"}
    \cup {"program", "item", "rest_of_item", "rest_of_function", "params", "more_params", "param",
          "unsized", "type_spec", "name", "finish_var_decl", "optional_initializer", "initializer",
          "elements", "more_elements", "end_of_list"}
    \cup {"block", "block_items", "end_of_block", "block_item", "statement", "statement_inner",
          "else_branch", "for_init", "condition_clause", "step_clause"}
    \cup {"full_expression", "expression", "assignment", "assigned", "binary", "binary_chain",
          "unary", "unary_inner", "postfix", "call_args", "more_args", "primary"}

Label == TokenKind \cup {"", "index", "call", "increment", "decrement"}
Item == [do : Call, token : Label, n : Nat]

(* No state breaks the type of a variable: the parser never reads past its *)
(* tokens, and never parses deeper than MAX_NESTING_DEPTH.                 *)
TypeOK ==
  /\ tokens \in Seq(TokenKind)
  /\ position \in 0 .. Len(tokens)
  /\ depth \in 0 .. MaxDepth
  /\ work \in Seq(Item)
  /\ diagnostics \subseteq 0 .. Len(tokens)
  /\ tooDeep \in BOOLEAN /\ lostList \in BOOLEAN
  /\ \A e \in built : e.from < e.to /\ e.to <= Len(tokens) /\ e.depth \in 0 .. MaxDepth
  /\ closed \subseteq (1 .. Len(tokens)) \X (1 .. Len(tokens))

(* "No way out of a construct can leave its levels charged to whatever the *)
(* parser reads next": whenever a loop is about to read another item or    *)
(* statement, the depth is the number of statements it is inside of; and   *)
(* it never passes MAX_NESTING_DEPTH.                                      *)
LevelsAreGivenBack ==
  /\ depth =< MaxDepth
  /\ work # <<>> /\ Head(work).do \in {"program", "block_items"}
       => depth = Cardinality({i \in DOMAIN work : work[i].do = "restore"})

(* A block ends at the `}` that matches its `{`, whatever errors recovery  *)
(* skipped inside it - unless one of them was inside a brace list.         *)
BlocksCloseAtTheirBrace ==
  \A b \in closed :
    lostList \/ /\ Nesting(b[1], b[2]) = -1
                /\ \A q \in b[1] .. b[2] - 1 : Nesting(b[1], q) >= 0

(* "Parsing terminates" for every stream, valid or not.                    *)
Terminates == <>(work = <<>>)
=============================================================================
