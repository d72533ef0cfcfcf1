------------------------------ MODULE MCLexer ------------------------------
(***************************************************************************)
(* Files for the scanner.  Each family is every short file over the bytes  *)
(* that decide one part of the scan, with bytes that end it and go on.     *)
(***************************************************************************)
EXTENDS LexerReference

UpTo(bytes, m) == UNION {[1 .. k -> bytes] : k \in 0 .. m}

Trivia    == UpTo({"\n", "/", "*", "#", "a"}, 5)
Directives == {<<"#">> \o rest : rest \in UpTo({"\n", "\\", "\r", " ", "a", "#"}, 4)}
Literals  == {<<quote>> \o rest : quote \in {"'", "\""},
                                  rest \in UpTo({"'", "\"", "\\", "\n", "n", "q", "0"}, 4)}
Numbers   == {<<figure>> \o rest : figure \in {"0", "1"},
                                   rest \in UpTo({"0", "7", "8", "x", "f", "G"}, 4)}
Operators_ == UpTo({"+", "-", "=", "<", "!", "&", "|", "?", ";", "@", " "}, 3)
Words     == {Bytes(text) : text \in {"int", "integer", "if(", "_i1", "for 9x", "Else", "in t"}}
Comments  == {<<"/", "/">> \o rest : rest \in UpTo({"\\", "\n", "a"}, 3)}
Commented == {<<"#">> \o rest : rest \in UpTo({"/", "*", "\n", "a"}, 6)}
Located   == UpTo({"\t", "C3", "A9", "@", "\n", "\r"}, 4)

Files ==
  Trivia \cup Directives \cup Literals \cup Numbers \cup Operators_ \cup Words
    \cup Comments \cup Commented \cup Located
=============================================================================
