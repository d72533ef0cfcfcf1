-------------------------- MODULE MCReturnAnalysis --------------------------
(* Function bodies for TLC: two statements with one level under them, or one with two. *)
EXTENDS ReturnAnalysis, SequencesExt

Leaves == {Return, Break, Continue, Other}

Over(stmts) == UNION {
    Leaves,
    {Block(seq) : seq \in UNION {[1 .. n -> stmts] : n \in 0..2}},
    {If(when, then) : when \in {Always, Maybe}, then \in stmts},
    {IfElse(Maybe, then, else) : then \in stmts, else \in stmts},
    {While(when, part) : when \in {Always, Maybe, Never}, part \in stmts},
    {For(when, part) : when \in {Absent, Maybe}, part \in stmts}}

One == Over(Leaves)
Two == Over(One)
\* Blocks nested in blocks, around one leaf.
RECURSIVE Nest(_, _)
Nest(leaf, n) == IF n = 0 THEN leaf ELSE Block(<<Nest(leaf, n - 1)>>)
Nests == {Nest(leaf, n) : leaf \in Leaves, n \in 0..6}

\* TLC keeps the value of a definition, but not of one put in a constant's place.
Small == UNION {Two, Nests}
MCStatements == Small
MCBodies == UNION {{<<stmt>> : stmt \in Small},
                   {<<first, second>> : first \in One, second \in One}}
MCNested == {<<stmt>> : stmt \in Nests}

\* How control can leave a statement, the constant conditions taken at their value: the
\* reference for the comment below.
RECURSIVE LeavesBy(_), LeavesInTurn(_)
LeavesBy(stmt) ==
    CASE stmt.kind \in {"return", "break", "continue"} -> {stmt.kind}
      [] stmt.kind = "other" -> {"end"}
      [] stmt.kind = "block" -> LeavesInTurn(stmt.parts)
      [] stmt.kind = "if" ->
            (IF TRUE \in Outcomes(stmt.when) THEN LeavesBy(stmt.parts[1]) ELSE {})
            \cup (IF FALSE \notin Outcomes(stmt.when) THEN {}
                  ELSE IF HasElse(stmt) THEN LeavesBy(stmt.parts[2]) ELSE {"end"})
      [] IsLoop(stmt) ->
            LET around == IF TRUE \in Outcomes(stmt.when) THEN LeavesBy(stmt.parts[1]) ELSE {}
            IN (around \cap {"return"})
               \cup (IF FALSE \in Outcomes(stmt.when) \/ "break" \in around THEN {"end"} ELSE {})
LeavesInTurn(stmts) ==
    IF stmts = <<>> THEN {"end"}
    ELSE LET first == LeavesBy(Head(stmts))
         IN IF "end" \in first THEN (first \ {"end"}) \cup LeavesInTurn(Tail(stmts)) ELSE first

\* The comment on always_returns: "the diagnostic is raised only where the analysis is sure",
\* that is, only for a body whose closing brace control can reach.
ReportedOnlyWhenSure == "reaches the end" \in reports => "end" \in LeavesInTurn(body)
=============================================================================
