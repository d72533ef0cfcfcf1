---------------------------- MODULE Diagnostics ----------------------------
(***************************************************************************)
(* src/diagnostics.rs: spans of bytes, the bag a pass collects its reports *)
(* in, and the map that turns an offset into a line, a column and a caret. *)
(* A file is a sequence of bytes and offsets count from 0.  A byte is      *)
(* named by its character, or in hexadecimal if it has none.               *)
(***************************************************************************)
EXTENDS Integers, Sequences, SequencesExt

Span(start, end) == [start |-> start, end |-> IF end < start THEN start ELSE end]

(* The order of spans: by start, then by end. *)
Precedes(a, b) == a.start < b.start \/ (a.start = b.start /\ a.end < b.end)

Diagnostic(span, message) == [span |-> span, message |-> message]

(* A fault of the sort: among equal spans the latest goes first.           *)
InsertedUnstably(sorted, d) ==
  LET n == Cardinality({i \in DOMAIN sorted : Precedes(sorted[i].span, d.span)})
  IN  SubSeq(sorted, 1, n) \o <<d>> \o SubSeq(sorted, n + 1, Len(sorted))

(* DiagnosticBag::into_sorted: a stable sort by span.  Each report goes    *)
(* after those found before it that its own span does not precede.         *)
Inserted(sorted, d) ==
  LET n == Cardinality({i \in DOMAIN sorted : ~Precedes(d.span, sorted[i].span)})
  IN  SubSeq(sorted, 1, n) \o <<d>> \o SubSeq(sorted, n + 1, Len(sorted))

into_sorted(bag) == FoldLeft(Inserted, <<>>, bag)
-----------------------------------------------------------------------------
(* SourceMap.  Of the bytes of a UTF-8 character all but the first         *)
(* continue it.                                                            *)
Continuations == {"80", "A9"}

line_starts(file) ==
  <<0>> \o SelectSeq([i \in DOMAIN file |-> i], LAMBDA i : file[i] = "\n")

(* The index of the line that holds `offset`, from 1. *)
line_index(file, offset) ==
  Cardinality({i \in DOMAIN line_starts(file) : line_starts(file)[i] =< offset})

location(file, offset) ==
  LET at == IF offset > Len(file) THEN Len(file) ELSE offset
      i  == line_index(file, at)
  IN  [line |-> i, column |-> at - line_starts(file)[i] + 1]

Stripped(line, byte) ==
  IF line # <<>> /\ Last(line) = byte THEN Front(line) ELSE line

line_bytes(file, i) ==
  LET starts == line_starts(file)
      end    == IF i < Len(starts) THEN starts[i + 1] ELSE Len(file)
  IN  Stripped(Stripped(SubSeq(file, starts[i] + 1, end), "\n"), "\r")

(* A tab is kept so that the caret follows it, and the rest of a           *)
(* multi-byte character takes no room.  A fault: every byte takes room.    *)
KeptWhole(bytes) == bytes
Kept(bytes) == SelectSeq(bytes, LAMBDA b : b \notin Continuations)

caret_line(line, column_offset, width) ==
  LET before == Kept(SubSeq(line, 1, IF column_offset > Len(line) THEN Len(line) ELSE column_offset))
      under  == Len(Kept(SubSeq(line, column_offset + 1,
                                IF column_offset + width > Len(line) THEN Len(line)
                                ELSE column_offset + width)))
  IN  [i \in DOMAIN before |-> IF before[i] = "\t" THEN "\t" ELSE " "]
        \o [i \in 1 .. (IF under = 0 THEN 1 ELSE under) |-> IF i = 1 THEN "^" ELSE "~"]

render_at(file, span) ==
  LET at == location(file, span.start)
      line == line_bytes(file, at.line)
  IN  [at |-> at, line |-> line,
       caret |-> caret_line(line, at.column - 1, span.end - span.start)]
=============================================================================
