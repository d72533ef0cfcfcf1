--------------------------- MODULE LexerReference ---------------------------
(***************************************************************************)
(* What the scan of a file should come to, said without a scan.  A file is *)
(* cut into pieces: at each place the piece is the longest run of bytes    *)
(* that is one of C's lexical elements, or a recognized damaged one.  The  *)
(* tokens, the values and the reports are read off the pieces.             *)
(***************************************************************************)
EXTENDS Lexer

n == Len(source)
Has(s, e, byte) == \E i \in s .. e - 1 : byte_at(i) = byte
Opens(s, two) == s + 2 =< n /\ slice(s, s + 2) = Bytes(two)

(* A byte is escaped if an odd number of backslashes runs up to it. *)
Escaped(s, i) ==
  LET k == Max({j \in 0 .. i - s - 1 : \A m \in 1 .. j : byte_at(i - m) = "\\"}) IN k % 2 = 1
Closes(s, i) == byte_at(i) = byte_at(s) /\ ~Escaped(s, i) /\ ~Has(s, i, "\n")
Closings(s) == {i \in s + 1 .. n - 1 : Closes(s, i)}

IsQuote(s) == byte_at(s) \in {"'", "\""}
IsSpace(s, e)       == e = s + 1 /\ byte_at(s) \in Whitespace
IsLineComment(s, e) == Opens(s, "//") /\ ~Has(s, e, "\n")
IsBlockComment(s, e) ==
  /\ Opens(s, "/*") /\ e >= s + 4 /\ Opens(e - 2, "*/")
  /\ ~\E i \in s + 2 .. e - 3 : Opens(i, "*/")
IsOpenComment(s, e) == Opens(s, "/*") /\ e = n /\ ~\E i \in s + 2 .. n - 2 : Opens(i, "*/")
IsWord(s, e)    == byte_at(s) \in IdentStart /\ \A i \in s .. e - 1 : byte_at(i) \in IdentContinue
IsNumber(s, e)  == byte_at(s) \in Digits /\ \A i \in s .. e - 1 : byte_at(i) \in IdentContinue
IsLiteral(s, e) == IsQuote(s) /\ Closings(s) # {} /\ e = Min(Closings(s)) + 1
IsOpenLiteral(s, e) == IsQuote(s) /\ Closings(s) = {} /\ ~Has(s, e, "\n")
Operators ==
  {Bytes(two) : two \in Doubled \cup {"&&", "||"}} \cup {<<b>> : b \in MaybeDoubled \cup Single}
IsOperator(s, e) == slice(s, e) \in Operators
Continued(s, i) ==
  \E cr \in {<<>>, <<"\r">>} : i - s > Len(cr) + 1 /\ slice(i - 1 - Len(cr), i) = <<"\\">> \o cr
IsDirective(s, e, first) ==
  first /\ byte_at(s) = "#" /\ \A i \in s .. e - 1 : byte_at(i) = "\n" => Continued(s, i)

IsComment(s, e) == IsLineComment(s, e) \/ IsBlockComment(s, e) \/ IsOpenComment(s, e)
IsToken(s, e) ==
  IsWord(s, e) \/ IsNumber(s, e) \/ IsLiteral(s, e) \/ IsOpenLiteral(s, e) \/ IsOperator(s, e)

PieceEnd(s, first) ==
  Max({s + 1} \cup {e \in s + 1 .. n : IsSpace(s, e) \/ IsComment(s, e) \/ IsToken(s, e)
                                         \/ IsDirective(s, e, first)})

(* The pieces from s on.  A directive may begin where its line has only    *)
(* spaces and comments before it.                                          *)
RECURSIVE PiecesFrom(_, _)
PiecesFrom(s, first) ==
  IF s = n THEN <<>>
  ELSE LET e == PieceEnd(s, first) IN
       <<[s |-> s, e |-> e, first |-> first]>>
         \o PiecesFrom(e, IF IsSpace(s, e) THEN first \/ byte_at(s) = "\n"
                          ELSE first /\ IsComment(s, e))

KindOf(s, e) ==
  CASE IsWord(s, e) ->
         IF \E word \in Keywords : Bytes(word) = slice(s, e) THEN "keyword" ELSE "ident"
    [] IsNumber(s, e) -> "int_lit"
    [] IsQuote(s)     -> IF byte_at(s) = "'" THEN "char_lit" ELSE "str_lit"
    [] e = s + 2      -> byte_at(s) \o byte_at(s + 1)
    [] OTHER          -> byte_at(s)

(* Numbers by the place of each digit, without a running sum. *)
RadixOf(s, e) ==
  IF e > s + 1 /\ byte_at(s) = "0" /\ byte_at(s + 1) \in {"x", "X"} THEN 16
  ELSE IF e > s + 1 /\ byte_at(s) = "0" /\ byte_at(s + 1) \in Digits THEN 8
  ELSE 10
DigitsIn(s, e) == slice(IF RadixOf(s, e) = 16 THEN s + 2 ELSE s, e)
GoodDigits(s, e) ==
  DigitsIn(s, e) # <<>> /\ ToSet(DigitsIn(s, e)) \subseteq DigitsOf(RadixOf(s, e))
PlaceValue(s, e) ==
  LET digits == DigitsIn(s, e)
  IN  MapThenSumSet(LAMBDA i : to_digit(digits[i]) * RadixOf(s, e)^(Len(digits) - i), DOMAIN digits)
GoodNumber(s, e) == GoodDigits(s, e) /\ PlaceValue(s, e) =< IntMax

(* The bytes a literal stands for: each byte of its body but the           *)
(* backslashes that escape, an escaped letter by what it means.            *)
BodyEnd(s, e) == IF IsLiteral(s, e) THEN e - 1 ELSE e
Escapes(s, i) == byte_at(i) = "\\" /\ ~Escaped(s, i)
Meaning(s, i) ==
  IF Escaped(s, i) /\ byte_at(i) \in EscapeLetters THEN escape_byte(byte_at(i)) ELSE byte_at(i)
Decoded(s, e) ==
  LET body == [k \in 1 .. BodyEnd(s, e) - s - 1 |-> s + k]
      places == SelectSeq(body, LAMBDA i : ~Escapes(s, i))
  IN  [k \in DOMAIN places |-> Meaning(s, places[k])]

ValueOf(s, e) ==
  CASE IsWord(s, e)   -> slice(s, e)
    [] IsNumber(s, e) -> <<IF GoodNumber(s, e) THEN PlaceValue(s, e) ELSE 0>>
    [] IsQuote(s) /\ byte_at(s) = "'" ->
         IF Decoded(s, e) = <<>> THEN <<"00">> ELSE SubSeq(Decoded(s, e), 1, 1)
    [] IsQuote(s) /\ byte_at(s) = "\"" -> Decoded(s, e)
    [] OTHER -> <<>>

(* The spans of a piece that have to be reported. *)
BadEscapes(s, e) ==
  {Span(i - 1, i + 1) : i \in {j \in s + 1 .. BodyEnd(s, e) - 1 :
                                  Escaped(s, j) /\ byte_at(j) \notin EscapeLetters}}
Defects(p) ==
  LET s == p.s  e == p.e  whole == {Span(p.s, p.e)}
  IN  CASE IsQuote(s) ->
             BadEscapes(s, e)
               \cup (IF IsLiteral(s, e) /\ (byte_at(s) = "'" => Len(Decoded(s, e)) = 1)
                     THEN {} ELSE whole)
        [] IsNumber(s, e) -> IF GoodNumber(s, e) THEN {} ELSE whole
        [] IsDirective(s, e, p.first) ->
             {Span(s, Max({i \in s + 1 .. e : byte_at(i - 1) \notin Whitespace}))}
        [] IsOpenComment(s, e) /\ ~IsBlockComment(s, e) -> whole
        [] OTHER -> IF IsToken(s, e) \/ IsSpace(s, e) \/ IsComment(s, e) THEN {} ELSE whole
-----------------------------------------------------------------------------
(* What a scan has produced is well formed: nothing is consumed past the   *)
(* end, spans lie in what was consumed, and tokens do not overlap.         *)
TypeOK ==
  /\ offset \in 0 .. n /\ at_line_start \in BOOLEAN /\ lexed \in BOOLEAN
  /\ literal.quote \in {NoByte, "'", "\""} /\ literal.start =< offset
  /\ \A i \in DOMAIN tokens : tokens[i].span.end =< offset
  /\ \A i \in 1 .. Len(tokens) - 1 : tokens[i].span.end =< tokens[i + 1].span.start
  /\ \A i \in DOMAIN diagnostics : diagnostics[i].span.end =< offset

(* Every operator is matched by maximal munch, keywords only on whole      *)
(* words, and a directive only where its line begins: the tokens are those *)
(* of the longest pieces, in order, and then the end of the file, whatever *)
(* is damaged in between.                                                  *)
TokensAreLongestMatches ==
  lexed =>
    LET wanted == SelectSeq(PiecesFrom(0, TRUE), LAMBDA p : IsToken(p.s, p.e))
    IN  /\ Len(tokens) = Len(wanted) + 1
        /\ \A i \in DOMAIN wanted :
             /\ tokens[i].kind = KindOf(wanted[i].s, wanted[i].e)
             /\ tokens[i].span = Span(wanted[i].s, wanted[i].e)
        /\ Last(tokens).kind = "eof" /\ Last(tokens).span = Span(n, n)

(* A literal is decoded here once and never read again: a number is the    *)
(* sum of its digits at their places or, if int cannot hold it, zero; a    *)
(* string or a character is its bytes with the escapes resolved.           *)
LiteralsKeepTheirValue ==
  lexed => \A i \in DOMAIN tokens :
             tokens[i].value = ValueOf(tokens[i].span.start, tokens[i].span.end)

(* A malformed construct is reported and the scan goes on: each defect of  *)
(* each piece is reported once, at its own bytes and in the order of the   *)
(* source, and nothing else is reported, so every byte of a file without   *)
(* reports is in a token, a comment or a space.                            *)
DefectsAreReported ==
  lexed =>
    LET pieces == PiecesFrom(0, TRUE)
        wanted == UNION {Defects(pieces[i]) : i \in DOMAIN pieces}
    IN  /\ {diagnostics[i].span : i \in DOMAIN diagnostics} = wanted
        /\ Len(diagnostics) = Cardinality(wanted)
        /\ \A i \in 1 .. Len(diagnostics) - 1 :
             Precedes(diagnostics[i].span, diagnostics[i + 1].span)

(* A report is shown under the line it starts in: carets stand under the   *)
(* characters of its span that are on that line, whatever tabs and bytes   *)
(* of longer characters come before and however far the span goes on, and  *)
(* under one place if it has none there.                                   *)
Character(i) == byte_at(i) \notin Continuations
Column(from, i) == Cardinality({j \in from .. i - 1 : Character(j)}) + 1
LineStart(i) == Max({0} \cup {j \in 1 .. i : byte_at(j - 1) = "\n"})
LineEnd(i) ==
  LET end == EndOfLine(i) IN IF end > i /\ byte_at(end - 1) = "\r" THEN end - 1 ELSE end

CaretsPointIntoTheirLine ==
  lexed => \A i \in DOMAIN diagnostics :
    LET span == diagnostics[i].span
        from == LineStart(span.start)
        end  == LineEnd(from)
        shown == {j \in span.start .. span.end - 1 : j < end /\ Character(j)}
        here == render_at(source, span)
        marked == {k \in DOMAIN here.caret : here.caret[k] \in {"^", "~"}}
    IN  /\ here.at.line = 1 + Cardinality({j \in 0 .. span.start - 1 : byte_at(j) = "\n"})
        /\ here.line = slice(from, end)
        /\ marked = IF shown = {} THEN {Column(from, Min({span.start, end}))}
                    ELSE {Column(from, j) : j \in shown}
        /\ \A j \in from .. span.start - 1 :
             j < end /\ Character(j) => (here.caret[Column(from, j)] = "\t" <=> byte_at(j) = "\t")
-----------------------------------------------------------------------------
(* "Nothing outside it is silently accepted"                               *)
(* (docs/dive-deep/language-subset.md:50): the octal escapes of C, which   *)
(* take up to three digits and which the table of escapes does not have,   *)
(* are not read as a NUL and the characters of their other digits.         *)
OctalEscapesAreRefused ==
  lexed /\ diagnostics = <<>> =>
    \A i \in DOMAIN tokens : \A j \in tokens[i].span.start + 1 .. tokens[i].span.end - 2 :
      IsQuote(tokens[i].span.start) /\ Escaped(tokens[i].span.start, j) /\ byte_at(j) = "0"
        => byte_at(j + 1) \notin DigitsOf(8)

(* "The lexer reports the whole directive once and skips it", and "C       *)
(* treats the whole comment as a single space before it looks for          *)
(* directives" (docs/dive-deep/lexer.md:42): no token comes of a comment   *)
(* that a directive began.                                                 *)
DirectivesAreSkippedWhole ==
  lexed => \A i \in DOMAIN diagnostics :
    LET span == diagnostics[i].span IN
    diagnostics[i].message = "preprocessor directives" =>
      \A s \in span.start .. span.end - 1 : \A e \in s .. n :
        IsBlockComment(s, e) => \A j \in DOMAIN tokens : tokens[j].span.start \notin s .. e - 1

(* "Nothing outside it is silently accepted": a backslash before the       *)
(* newline splices the lines before comments are looked for, so what goes  *)
(* on a comment in C is not read as code.                                  *)
SplicedCommentsGoOn ==
  lexed /\ diagnostics = <<>> =>
    \A i \in 1 .. n - 1 : is_spliced(i) /\ byte_at(i) = "\n" =>
      ~\E s \in 0 .. i - 1 : IsLineComment(s, i)
=============================================================================
