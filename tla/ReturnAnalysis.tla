--------------------------- MODULE ReturnAnalysis ---------------------------
(***************************************************************************)
(* Whether control can run off the end of a function: the judgement the    *)
(* analyzer makes on the tree (check_reaches_the_end and the functions     *)
(* under it) against what the lowered code does when it runs.              *)
(*                                                                         *)
(* A statement is a record [kind, when, parts].  `when' is what the        *)
(* condition of an `if', a `while' or a `for' is: a constant that is never *)
(* zero, the constant zero, an expression the folder cannot fold, or, in a *)
(* `for', absent.  An expression statement, a declaration and `;' are all  *)
(* Other: no judgement here tells them apart.                              *)
(***************************************************************************)
EXTENDS Integers, Sequences

CONSTANTS MAX_NESTING_DEPTH,   \* the limit the passes share
          Statements,          \* the statements there are, and the statements in them
          Bodies               \* the function bodies to analyze: sequences of statements

(***************************************************************************)
(* Statements.                                                             *)
(***************************************************************************)
Always == "always"
Never == "never"
Maybe == "maybe"
Absent == "absent"

Shape(kind, when, parts) == [kind |-> kind, when |-> when, parts |-> parts]
Leaf(kind) == Shape(kind, Absent, <<>>)

Return == Leaf("return")
Break == Leaf("break")
Continue == Leaf("continue")
Other == Leaf("other")
Block(stmts) == Shape("block", Absent, stmts)
If(when, then) == Shape("if", when, <<then>>)
IfElse(when, then, else) == Shape("if", when, <<then, else>>)
While(when, part) == Shape("while", when, <<part>>)
For(when, part) == Shape("for", when, <<part>>)

IsLoop(stmt) == stmt.kind \in {"while", "for"}
HasElse(stmt) == Len(stmt.parts) = 2
SomeOf(stmts, Test(_)) == \E i \in DOMAIN stmts : Test(stmts[i])

\* A limit that leaves room for a statement, and statements the parser can build.
ASSUME DepthAssumption == MAX_NESTING_DEPTH \in Nat \ {0}
ASSUME StatementAssumption ==
    /\ \A stmt \in Statements :
          /\ stmt.when \in {Always, Never, Maybe, Absent}
          /\ stmt.parts \in Seq(Statements)
          /\ \/ stmt.kind \in {"return", "break", "continue", "other"} /\ stmt.parts = <<>>
             \/ stmt.kind = "block"
             \/ stmt.kind = "if" /\ Len(stmt.parts) \in {1, 2}
             \/ IsLoop(stmt) /\ Len(stmt.parts) = 1
    /\ Bodies \subseteq Seq(Statements)

(***************************************************************************)
(* The walk of the body: the count of the loops around a statement, and    *)
(* what was reported.  The guard's count is an argument of the walk, since *)
(* `stmt' gives back on its one way out what `enter' charged.  A value or  *)
(* a condition is a tree one level below its statement.                    *)
(***************************************************************************)
Messages == {"too deep", "outside a loop", "reaches the end"}
Walks == [loop_depth : Int, reports : SUBSET Messages]

Report(walk, message) == [walk EXCEPT !.reports = @ \cup {message}]

TooDeep(depth) == depth >= MAX_NESTING_DEPTH
enter(depth) == depth + 1

IntoLoop(walk) == [walk EXCEPT !.loop_depth = @ + 1]

\* A bug: the count of the enclosing loops is never taken back.
StillInLoop(walk) == walk
OutOfLoop(walk) == [walk EXCEPT !.loop_depth = @ - 1]

\* The expression of a statement, entered and left.
expr(depth, walk) == IF TooDeep(depth) THEN Report(walk, "too deep") ELSE walk

HasExpression(stmt) ==
    \/ stmt.kind \in {"return", "if", "while"}
    \/ stmt.kind = "for" /\ stmt.when /= Absent

check_inside_a_loop(walk) ==
    IF walk.loop_depth = 0 THEN Report(walk, "outside a loop") ELSE walk

\* Statements one after the other, at one depth.
InTurn(walked, depth, walk, stmts) ==
    LET after[i \in 0 .. Len(stmts)] ==
            IF i = 0 THEN walk ELSE walked[stmts[i]][depth][after[i - 1]]
    IN after[Len(stmts)]

stmt_walk[stmt \in Statements] == [depth \in Nat |-> [walk \in Walks |->
    IF TooDeep(depth) THEN Report(walk, "too deep")
    ELSE LET deeper == enter(depth)
             tested == IF HasExpression(stmt) THEN expr(deeper, walk) ELSE walk
         IN IF IsLoop(stmt) THEN OutOfLoop(stmt_walk[stmt.parts[1]][deeper][IntoLoop(tested)])
            ELSE IF stmt.kind \in {"break", "continue"} THEN check_inside_a_loop(tested)
            ELSE InTurn(stmt_walk, deeper, tested, stmt.parts)]]

(***************************************************************************)
(* The judgement.  Past the limit always_returns answers TRUE and          *)
(* escapes_the_loop FALSE; a block costs two levels, one of its own and    *)
(* one that block_always_returns adds.                                     *)
(***************************************************************************)
is_always_true(when) == when = Always
CannotEnd(loop) == is_always_true(loop.when) \/ (loop.kind = "for" /\ loop.when = Absent)

\* The parts of a statement in which a `break' belongs to the loop around the statement.
\* The bug: an `else' arm is not looked into.
WithoutElse(stmt) ==
    CASE stmt.kind = "block" -> stmt.parts [] stmt.kind = "if" -> <<stmt.parts[1]>> [] OTHER -> <<>>
Descended(stmt) == IF stmt.kind \in {"block", "if"} THEN stmt.parts ELSE <<>>

escapes_the_loop[stmt \in Statements] == [depth \in Nat |->
    /\ depth < MAX_NESTING_DEPTH
    /\ \/ stmt.kind = "break"
       \/ SomeOf(Descended(stmt), LAMBDA part : escapes_the_loop[part][depth + 1])]

always_returns[stmt \in Statements] == [depth \in Nat |->
    \/ depth >= MAX_NESTING_DEPTH
    \/ stmt.kind = "return"
    \/ stmt.kind = "block" /\ SomeOf(stmt.parts, LAMBDA part : always_returns[part][depth + 2])
    \/ /\ stmt.kind = "if" /\ HasElse(stmt)
       /\ \A arm \in {1, 2} : always_returns[stmt.parts[arm]][depth + 1]
    \/ IsLoop(stmt) /\ CannotEnd(stmt) /\ ~escapes_the_loop[stmt.parts[1]][depth + 1]]

block_always_returns(stmts, depth) ==
    SomeOf(stmts, LAMBDA stmt : always_returns[stmt][depth + 1])

\* `main' is excepted: C defines an implicit `return 0' for it.
check_reaches_the_end(walk, stmts, is_main) ==
    IF is_main \/ block_always_returns(stmts, 0) THEN walk
    ELSE Report(walk, "reaches the end")

check_function(stmts, is_main) ==
    LET start == [loop_depth |-> 0, reports |-> {}]
    IN check_reaches_the_end(InTurn(stmt_walk, 0, start, stmts), stmts, is_main).reports

(***************************************************************************)
(* The function: analyzed, and run if nothing was reported.  `todo' holds  *)
(* what is left to execute, innermost first; a loop that is being executed *)
(* stands in it as itself under `Again', which is where the pair of labels *)
(* the generator pushed for it leads: to the next round or past the loop.  *)
(***************************************************************************)
VARIABLES
    body,      \* the statements of the function
    is_main,   \* whether it is `main'
    phase,     \* "analysis", "rejected", "running", "returned" or "fell off"
    reports,   \* what the analyzer reported of it
    todo       \* what is left to execute

vars == <<body, is_main, phase, reports, todo>>

Again(loop) == [kind |-> "again", loop |-> loop]
IsAgain(item) == item.kind = "again"

Init ==
    /\ body \in Bodies
    /\ is_main \in BOOLEAN
    /\ phase = "analysis"
    /\ reports = {}
    /\ todo = <<>>

\* The pipeline goes on to generate code only when nothing was reported.
Accepted(found) == found = {}

analyze ==
    /\ phase = "analysis"
    /\ reports' = check_function(body, is_main)
    /\ IF Accepted(reports')
         THEN phase' = "running" /\ todo' = body
         ELSE phase' = "rejected" /\ todo' = todo
    /\ UNCHANGED <<body, is_main>>

\* What follows the statement at the head of `todo' is `rest'.
Executes(kind) == phase = "running" /\ todo /= <<>> /\ Head(todo).kind = kind
Goes(next) == todo' = next /\ UNCHANGED <<body, is_main, phase, reports>>

\* The values the condition may have when it is tested.
Outcomes(when) ==
    CASE when \in {Always, Absent} -> {TRUE}
      [] when = Never -> {FALSE}
      [] when = Maybe -> BOOLEAN

branch ==
    /\ Executes("if")
    /\ \E holds \in Outcomes(Head(todo).when) :
          LET stmt == Head(todo)
              rest == Tail(todo)
          IN Goes(CASE holds -> <<stmt.parts[1]>> \o rest
                    [] ~holds /\ HasElse(stmt) -> <<stmt.parts[2]>> \o rest
                    [] OTHER -> rest)

Loop(kind) ==
    /\ Executes(kind)
    /\ \E holds \in Outcomes(Head(todo).when) :
          LET loop == Head(todo)
          IN Goes(IF holds THEN <<loop.parts[1], Again(loop)>> \o Tail(todo) ELSE Tail(todo))

while_loop == Loop("while")
for_loop == Loop("for")

\* The end of the loop's body: the jump back to its top, past the step of a `for'.
next_round ==
    /\ phase = "running" /\ todo /= <<>> /\ IsAgain(Head(todo))
    /\ Goes(<<Head(todo).loop>> \o Tail(todo))

\* The innermost loop under way, as a position in `todo'.
LoopsUnderWay == {i \in DOMAIN todo : IsAgain(todo[i])}
Innermost == CHOOSE i \in LoopsUnderWay : \A j \in LoopsUnderWay : i <= j

leave_loop(breaking) ==
    /\ Executes(IF breaking THEN "break" ELSE "continue")
    /\ LoopsUnderWay /= {}
    /\ Goes(SubSeq(todo, IF breaking THEN Innermost + 1 ELSE Innermost, Len(todo)))

block == Executes("block") /\ Goes(Head(todo).parts \o Tail(todo))
other == Executes("other") /\ Goes(Tail(todo))

Ends(how) == phase' = how /\ todo' = <<>> /\ UNCHANGED <<body, is_main, reports>>

return == Executes("return") /\ Ends("returned")

\* The closing brace: `main' returns its implicit zero, any other function whatever w0 holds.
closing_brace ==
    /\ phase = "running" /\ todo = <<>>
    /\ Ends(IF is_main THEN "returned" ELSE "fell off")

Next ==
    \/ analyze
    \/ branch \/ while_loop \/ for_loop \/ next_round
    \/ \E breaking \in BOOLEAN : leave_loop(breaking)
    \/ block \/ other \/ return \/ closing_brace

Spec == Init /\ [][Next]_vars

(***************************************************************************)
(* Properties.                                                             *)
(***************************************************************************)

\* Only a function with nothing reported is run, and only a run has something left to do.
TypeOK ==
    /\ phase \in {"analysis", "rejected", "running", "returned", "fell off"}
    /\ reports \subseteq {"too deep", "outside a loop", "reaches the end"}
    /\ reports /= {} <=> phase = "rejected"
    /\ todo /= <<>> => phase = "running"

\* Whether a statement at this level of the body goes past half the limit, one of the body
\* itself being at level 1.
PastHalf[stmt \in Statements] == [level \in Nat |->
    \/ 2 * level > MAX_NESTING_DEPTH
    \/ SomeOf(stmt.parts, LAMBDA part : PastHalf[part][level + 1])]

\* No function whose body goes no deeper than half the limit runs off its closing brace once the
\* analyzer has accepted it: the judgement made on the shapes of the tree (always_returns and
\* escapes_the_loop) covers every path the lowered branches, loops, breaks and continues take.
NoSilentFall ==
    phase = "fell off" => SomeOf(body, LAMBDA stmt : PastHalf[stmt][1])

\* A `break' or a `continue' that is reached in a function the analyzer accepted has a loop
\* under way to belong to: leave_loop never finds the generator's stack of labels empty.
LeavesALoop ==
    phase = "running" /\ todo /= <<>> /\ Head(todo).kind \in {"break", "continue"}
        => LoopsUnderWay /= {}

\* The comment on always_returns: past the limit its TRUE suppresses the message only "about a
\* tree that has already been reported as too deep".  So nothing accepted runs off its end.
SilenceMeansTooDeep == phase /= "fell off"
=============================================================================
