------------------------------- MODULE Lexer -------------------------------
(***************************************************************************)
(* The scanner of src/lexer/mod.rs: bytes in, tokens and reports out.  One *)
(* step is one turn of skip_trivia, one scan of a token, or one turn of    *)
(* the loop over the body of a literal.                                    *)
(*                                                                         *)
(* A token's kind is its spelling, for the tokens that have one, and its   *)
(* value is a sequence: the bytes of a name or a literal, or one number.   *)
(***************************************************************************)
EXTENDS Diagnostics, FiniteSets

CONSTANTS
  Sources,  \* the files to scan
  IntMax,   \* i32::MAX
  SumMax    \* u64::MAX, where the sum of a literal's digits saturates

ASSUME LexerAssumption == IntMax \in Nat /\ SumMax \in Nat /\ IntMax < SumMax

VARIABLES
  source,         \* the bytes being scanned
  offset,         \* how many have been consumed
  at_line_start,  \* only whitespace and comments since the last newline
  literal,        \* the literal whose body is being read
  tokens, diagnostics,
  lexed           \* whether the scan is over

vars == <<source, offset, at_line_start, literal, tokens, diagnostics, lexed>>

NoByte == "end of input"
NoLiteral == [quote |-> NoByte, start |-> 0, bytes |-> <<>>]

byte_at(i) == IF i \in 0 .. Len(source) - 1 THEN source[i + 1] ELSE NoByte
peek == byte_at(offset)
peek_at(ahead) == byte_at(offset + ahead)
slice(start, end) == SubSeq(source, start + 1, end)

(* The bytes of a word. *)
Bytes(text) == [i \in 1 .. Len(text) |-> SubSeq(text, i, i)]
BytesIn(text) == {Bytes(text)[i] : i \in 1 .. Len(text)}

Whitespace    == {" ", "\t", "\n", "\f", "\r"}
Digits        == BytesIn("0123456789")
IdentStart    == BytesIn("abcdefghijklmnopqrstuvwxyzABCDEFGHIJKLMNOPQRSTUVWXYZ_")
IdentContinue == IdentStart \cup Digits
Keywords == {"int", "char", "void", "if", "else", "while", "for", "return", "break", "continue"}

(* one_or_two, paired_only, and the bytes that are a token by themselves.  *)
MaybeDoubled == {"+", "-", "=", "!", "<", ">"}
Doubled      == {"++", "--", "==", "!=", "<=", ">="}
PairedOnly   == {"&", "|"}
Single       == BytesIn("*/%(){}[];,")
Unsupported  == BytesIn("#?:^~")

ESCAPES ==
  {<<"n", "\n">>, <<"t", "\t">>, <<"r", "\r">>, <<"0", "00">>, <<"\\", "\\">>, <<"'", "'">>,
   <<"\"", "\"">>, <<"a", "07">>, <<"b", "08">>, <<"f", "\f">>, <<"v", "0B">>}
EscapeLetters == {escape[1] : escape \in ESCAPES}
escape_byte(letter) == (CHOOSE escape \in ESCAPES : escape[1] = letter)[2]

(* char::to_digit, for the radices of the language. *)
Figures == Bytes("0123456789abcdef")
Capitals == Bytes("0123456789ABCDEF")
DigitsOf(radix) == {Figures[d] : d \in 1 .. radix} \cup {Capitals[d] : d \in 1 .. radix}
to_digit(byte) == (CHOOSE d \in 1 .. 16 : byte \in {Figures[d], Capitals[d]}) - 1
-----------------------------------------------------------------------------
(* Where a word, or a line, that goes on at `from` ends. *)
EndOfWord(from) == Min({i \in from .. Len(source) : byte_at(i) \notin IdentContinue})
EndOfLine(from) == Min({i \in from .. Len(source) : byte_at(i) \in {"\n", NoByte}})

Between == ~lexed /\ literal = NoLiteral
AtComment == peek = "/" /\ peek_at(1) \in {"/", "*"}
AtToken == Between /\ peek \notin Whitespace \cup {NoByte} /\ ~AtComment

Token(kind, value, start, end) ==
  [kind |-> kind, value |-> value, span |-> Span(start, end)]

(* What run does around scan: the bytes up to `end` are consumed, a token  *)
(* or none comes of them, and the line has begun.  A fault: it is not      *)
(* marked as begun.                                                        *)
LineNotBegun == at_line_start
LineBegun == FALSE

Scanned(end, new_tokens, reports) ==
  /\ offset' = end
  /\ tokens' = tokens \o new_tokens
  /\ diagnostics' = diagnostics \o reports
  /\ at_line_start' = LineBegun
  /\ literal' = NoLiteral
  /\ UNCHANGED <<source, lexed>>

Init ==
  /\ source \in Sources
  /\ offset = 0
  /\ at_line_start = TRUE
  /\ literal = NoLiteral
  /\ tokens = <<>>
  /\ diagnostics = <<>>
  /\ lexed = FALSE
-----------------------------------------------------------------------------
(* skip_trivia. *)
skip_whitespace ==
  /\ Between
  /\ peek \in Whitespace
  /\ offset' = offset + 1
  /\ at_line_start' = (at_line_start \/ peek = "\n")
  /\ UNCHANGED <<source, literal, tokens, diagnostics, lexed>>

skip_line_comment ==
  /\ Between
  /\ peek = "/" /\ peek_at(1) = "/"
  /\ offset' = EndOfLine(offset)
  /\ UNCHANGED <<source, at_line_start, literal, tokens, diagnostics, lexed>>

(* Where a block comment may be found closed: after both bytes that open   *)
(* it.  A fault: the star that opens it may also close it.                 *)
OverlappingCommentEnds == {i \in offset + 3 .. Len(source) : slice(i - 2, i) = <<"*", "/">>}
CommentEnds == {i \in offset + 4 .. Len(source) : slice(i - 2, i) = <<"*", "/">>}

skip_block_comment ==
  /\ Between
  /\ peek = "/" /\ peek_at(1) = "*"
  /\ offset' = IF CommentEnds = {} THEN Len(source) ELSE Min(CommentEnds)
  /\ diagnostics' =
       IF CommentEnds = {}
       THEN Append(diagnostics, Diagnostic(Span(offset, Len(source)), "unterminated comment"))
       ELSE diagnostics
  /\ UNCHANGED <<source, at_line_start, literal, tokens, lexed>>
-----------------------------------------------------------------------------
(* scan. *)
scan_word ==
  /\ AtToken
  /\ peek \in IdentStart
  /\ LET end  == EndOfWord(offset)
         text == slice(offset, end)
         kind == IF \E word \in Keywords : Bytes(word) = text THEN "keyword" ELSE "ident"
     IN  Scanned(end, <<Token(kind, text, offset, end)>>, <<>>)

(* The sum saturates.  A fault: it wraps.                                  *)
Wrapped(value) == value % (SumMax + 1)
Saturated(value) == IF value > SumMax THEN SumMax ELSE value

Radix ==
  IF peek = "0" /\ peek_at(1) \in {"x", "X"} THEN 16
  ELSE IF peek = "0" /\ peek_at(1) \in Digits THEN 8
  ELSE 10
DigitsStart == offset + (CASE Radix = 16 -> 2 [] Radix = 8 -> 1 [] OTHER -> 0)

(* The value of a literal whose digits are all good, or what is wrong.     *)
NumberFault(digits, value) ==
  CASE digits = <<>> -> "no digits"
    [] ToSet(digits) \ DigitsOf(Radix) # {} -> "invalid digit"
    [] value > IntMax -> "too large for int"
    [] OTHER -> "none"

scan_number ==
  /\ AtToken
  /\ peek \in Digits
  /\ LET end    == EndOfWord(offset)
         digits == slice(DigitsStart, end)
         add(value, byte) == Saturated(Saturated(value * Radix) + to_digit(byte))
         value  == IF ToSet(digits) \subseteq DigitsOf(Radix) THEN FoldLeft(add, 0, digits) ELSE 0
         fault  == NumberFault(digits, value)
     IN  IF fault = "none"
         THEN Scanned(end, <<Token("int_lit", <<value>>, offset, end)>>, <<>>)
         ELSE Scanned(end, <<Token("int_lit", <<0>>, offset, end)>>,
                      <<Diagnostic(Span(offset, end), fault)>>)

one_or_two ==
  /\ AtToken
  /\ peek \in MaybeDoubled
  /\ LET two == peek \o peek_at(1) IN
     IF two \in Doubled THEN Scanned(offset + 2, <<Token(two, <<>>, offset, offset + 2)>>, <<>>)
     ELSE Scanned(offset + 1, <<Token(peek, <<>>, offset, offset + 1)>>, <<>>)

Reported(end, message) == Scanned(end, <<>>, <<Diagnostic(Span(offset, end), message)>>)

paired_only ==
  /\ AtToken
  /\ peek \in PairedOnly
  /\ IF peek_at(1) = peek
     THEN Scanned(offset + 2, <<Token(peek \o peek, <<>>, offset, offset + 2)>>, <<>>)
     ELSE Reported(offset + 1, "unsupported")

punctuator ==
  /\ AtToken
  /\ peek \in Single
  /\ Scanned(offset + 1, <<Token(peek, <<>>, offset, offset + 1)>>, <<>>)

(* A fault: a carriage return before the newline is not looked through.    *)
is_spliced_at_once(newline) == byte_at(newline - 1) = "\\"
is_spliced(newline) ==
  \/ byte_at(newline - 1) = "\\"
  \/ byte_at(newline - 1) = "\r" /\ byte_at(newline - 2) = "\\"

skip_directive ==
  /\ AtToken
  /\ peek = "#" /\ at_line_start
  /\ LET stop == Min({i \in offset + 1 .. Len(source) :
                        byte_at(i) = NoByte \/ (byte_at(i) = "\n" /\ ~is_spliced(i))})
         end  == Max({i \in offset + 1 .. stop :
                        i = offset + 1 \/ byte_at(i - 1) \notin Whitespace})
     IN  Scanned(stop, <<>>, <<Diagnostic(Span(offset, end), "preprocessor directives")>>)

unsupported_punctuation ==
  /\ AtToken
  /\ peek \in Unsupported
  /\ ~(peek = "#" /\ at_line_start)
  /\ Reported(offset + 1, "unsupported")

stray ==
  /\ AtToken
  /\ peek \notin IdentContinue \cup MaybeDoubled \cup PairedOnly \cup Single \cup Unsupported
       \cup {"'", "\""}
  /\ Reported(offset + 1, "stray")

eof ==
  /\ Between
  /\ peek = NoByte
  /\ tokens' = Append(tokens, Token("eof", <<>>, offset, offset))
  /\ diagnostics' = into_sorted(diagnostics)
  /\ lexed' = TRUE
  /\ UNCHANGED <<source, offset, at_line_start, literal>>
-----------------------------------------------------------------------------
(* scan_char_literal, scan_string_literal and the loop of                  *)
(* scan_literal_body that both run.                                        *)
open_literal ==
  /\ AtToken
  /\ peek \in {"'", "\""}
  /\ literal' = [quote |-> peek, start |-> offset, bytes |-> <<>>]
  /\ offset' = offset + 1
  /\ UNCHANGED <<source, at_line_start, tokens, diagnostics, lexed>>

InLiteral == literal # NoLiteral

Read(end, byte, reports) ==
  /\ offset' = end
  /\ literal' = [literal EXCEPT !.bytes = Append(@, byte)]
  /\ diagnostics' = diagnostics \o reports
  /\ UNCHANGED <<source, at_line_start, tokens, lexed>>

literal_byte ==
  /\ InLiteral
  /\ peek \notin {NoByte, "\n", "\\", literal.quote}
  /\ Read(offset + 1, peek, <<>>)

(* An escape that is not one keeps its letter. *)
literal_escape ==
  /\ InLiteral
  /\ peek = "\\" /\ peek_at(1) \notin {NoByte, "\n"}
  /\ IF peek_at(1) \in EscapeLetters THEN Read(offset + 2, escape_byte(peek_at(1)), <<>>)
     ELSE Read(offset + 2, peek_at(1),
               <<Diagnostic(Span(offset, offset + 2), "unknown escape sequence")>>)

LiteralFault(terminated) ==
  IF ~terminated THEN "unterminated literal"
  ELSE IF literal.quote = "\"" THEN "none"
  ELSE IF literal.bytes = <<>> THEN "empty character literal"
  ELSE IF Len(literal.bytes) > 1 THEN "more than one character"
  ELSE "none"

CloseLiteral(terminated, end) ==
  LET fault   == LiteralFault(terminated)
      reports == IF fault = "none" THEN <<>> ELSE <<Diagnostic(Span(literal.start, end), fault)>>
      value   == IF literal.quote = "\"" THEN literal.bytes
                 ELSE IF literal.bytes = <<>> THEN <<"00">> ELSE <<literal.bytes[1]>>
      kind    == IF literal.quote = "\"" THEN "str_lit" ELSE "char_lit"
  IN  Scanned(end, <<Token(kind, value, literal.start, end)>>, reports)

close_literal == InLiteral /\ peek = literal.quote /\ CloseLiteral(TRUE, offset + 1)

end_of_line_in_literal ==
  InLiteral /\ peek \in {NoByte, "\n"} /\ CloseLiteral(FALSE, offset)

(* The newline after a backslash is left to end the line.                  *)
backslash_at_end_of_line ==
  InLiteral /\ peek = "\\" /\ peek_at(1) \in {NoByte, "\n"} /\ CloseLiteral(FALSE, offset + 1)

Next ==
  \/ skip_whitespace \/ skip_line_comment \/ skip_block_comment
  \/ scan_word \/ scan_number \/ one_or_two \/ paired_only \/ punctuator
  \/ skip_directive \/ unsupported_punctuation \/ stray
  \/ open_literal \/ literal_byte \/ literal_escape \/ close_literal
  \/ end_of_line_in_literal \/ backslash_at_end_of_line
  \/ eof

Spec == Init /\ [][Next]_vars
=============================================================================
