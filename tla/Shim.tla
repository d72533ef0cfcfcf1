-------------------------------- MODULE Shim --------------------------------
(***************************************************************************)
(* The runtime a compiled program prints through, src/runtime/shim.c: a    *)
(* program's calls of print_int, print_char and print_string, and below    *)
(* them write(2), which may write part of what it is given, be interrupted *)
(* by a signal, write nothing, or fail.                                    *)
(***************************************************************************)
EXTENDS Integers, Sequences, FiniteSets, SequencesExt

CONSTANTS
  Programs,    \* the calls each program makes, in order
  UIntMax,     \* UINT_MAX; an int has half of its range below zero
  BufferSize,  \* of the digits of print_int
  Power        \* the powers of ten up to BufferSize

IntMin == -((UIntMax + 1) \div 2)
IntMax == UIntMax \div 2

Figures == <<"0", "1", "2", "3", "4", "5", "6", "7", "8", "9">>
Figure(d) == Figures[d + 1]

(* The buffer has room for the sign and the digits of INT_MIN. *)
ASSUME ShimAssumption ==
  /\ UIntMax \in Nat /\ UIntMax % 2 = 1
  /\ BufferSize \in Nat \ {0}
  /\ Power \in [0 .. BufferSize -> Nat] /\ Power[0] = 1
  /\ \A i \in 1 .. BufferSize : Power[i] = 10 * Power[i - 1]
  /\ UIntMax \div 2 + 1 < Power[BufferSize - 1]
  /\ \A p \in Programs : Len(p) \in Nat /\ DOMAIN p = 1 .. Len(p)
  /\ \A p \in Programs : \A i \in DOMAIN p :
       \/ p[i].name = "print_int" /\ p[i].n \in IntMin .. IntMax
       \/ p[i].name = "print_char" /\ p[i].c \in STRING
       \/ p[i].name = "print_string" /\ p[i].s \in Seq(STRING)

VARIABLES
  program,    \* the calls of this run
  made,       \* how many of them have been made
  pc,         \* what the shim does next
  magnitude,  \* print_int's, divided by ten at each digit
  index,      \* where print_int's digits begin in the buffer
  digits,     \* the buffer from there on
  s,          \* what print_string has still to print
  bytes,      \* what write_all was given
  written,    \* how much of that it has seen written
  result,     \* what the last write(2) returned
  errno,      \* why, if that was -1
  out,        \* what has reached the standard output
  failed      \* whether a write has failed

vars == <<program, made, pc, magnitude, index, digits, s, bytes, written, result, errno, out, failed>>

Call == program[made]
Calls(name) == pc = "program" /\ made < Len(program) /\ program[made + 1].name = name

writing == <<bytes, written>>
kernel  == <<result, errno, out, failed>>
decimal == <<magnitude, index, digits>>

Init ==
  /\ program \in Programs
  /\ made = 0
  /\ pc = "program"
  /\ magnitude = 0 /\ index = BufferSize /\ digits = <<>>
  /\ s = <<>> /\ bytes = <<>> /\ written = 0
  /\ result = 0 /\ errno = "none" /\ out = <<>> /\ failed = FALSE

(* write_all begins. *)
Write(given) ==
  /\ bytes' = given
  /\ written' = 0
  /\ pc' = "write"
-----------------------------------------------------------------------------
(* An int as unsigned, and its magnitude in unsigned arithmetic, which     *)
(* wraps.                                                                  *)
Unsigned(n) == n % (UIntMax + 1)
Magnitude(n) == IF n < 0 THEN Unsigned(0 - Unsigned(n)) ELSE Unsigned(n)

print_int ==
  /\ Calls("print_int")
  /\ made' = made + 1
  /\ magnitude' = Magnitude(program[made + 1].n)
  /\ index' = BufferSize
  /\ digits' = <<>>
  /\ pc' = "digit"
  /\ UNCHANGED <<program, s, writing, kernel>>

(* Whether the do-while over the digits goes on after storing one of m's.  *)
(* A fault: it goes on until a turn finds nothing left.                    *)
GoesOnForNothing(m) == m # 0
GoesOn(m) == m \div 10 # 0

store_digit ==
  /\ pc = "digit"
  /\ index' = index - 1
  /\ digits' = <<Figure(magnitude % 10)>> \o digits
  /\ magnitude' = magnitude \div 10
  /\ pc' = IF GoesOn(magnitude) THEN "digit" ELSE "sign"
  /\ UNCHANGED <<program, made, s, writing, kernel>>

store_sign ==
  /\ pc = "sign"
  /\ index' = IF Call.n < 0 THEN index - 1 ELSE index
  /\ digits' = IF Call.n < 0 THEN <<"-">> \o digits ELSE digits
  /\ Write(digits')
  /\ UNCHANGED <<program, made, magnitude, s, kernel>>

print_char ==
  /\ Calls("print_char")
  /\ made' = made + 1
  /\ Write(<<program[made + 1].c>>)
  /\ UNCHANGED <<program, decimal, s, kernel>>

(* One print_char for each byte of a string. *)
print_string ==
  /\ Calls("print_string")
  /\ made' = made + 1
  /\ s' = program[made + 1].s
  /\ pc' = "string"
  /\ UNCHANGED <<program, decimal, writing, kernel>>

next_char ==
  /\ pc = "string" /\ s # <<>>
  /\ Write(<<Head(s)>>)
  /\ s' = Tail(s)
  /\ UNCHANGED <<program, made, decimal, kernel>>

end_of_string ==
  /\ pc = "string" /\ s = <<>>
  /\ pc' = "program"
  /\ UNCHANGED <<program, made, decimal, s, writing, kernel>>
-----------------------------------------------------------------------------
(* The loop of write_all, and write(2) below it. *)
BackToCaller == pc' = IF Call.name = "print_string" THEN "string" ELSE "program"

write_some ==
  /\ pc = "write" /\ written < Len(bytes)
  /\ \E k \in 1 .. Len(bytes) - written :
       /\ result' = k
       /\ out' = out \o SubSeq(bytes, written + 1, written + k)
  /\ errno' = "none"
  /\ pc' = "returned"
  /\ UNCHANGED <<program, made, decimal, s, writing, failed>>

write_nothing ==
  /\ pc = "write" /\ written < Len(bytes)
  /\ \/ result' = 0 /\ errno' = "none"
     \/ result' = -1 /\ errno' = "EIO"
  /\ failed' = TRUE
  /\ pc' = "returned"
  /\ UNCHANGED <<program, made, decimal, s, writing, out>>

write_interrupted ==
  /\ pc = "write" /\ written < Len(bytes)
  /\ result' = -1 /\ errno' = "EINTR"
  /\ pc' = "returned"
  /\ UNCHANGED <<program, made, decimal, s, writing, out, failed>>

(* Faults: an interrupted call is not made again; every failed call is;    *)
(* the count of written bytes is replaced by that of the last call.        *)
GivesUpWhenInterrupted == result =< 0
NeverGivesUp == FALSE
GivesUp == result = 0 \/ (result < 0 /\ errno # "EINTR")

WrittenLast == result
WrittenSoFar == written + result

result_of_write ==
  /\ pc = "returned"
  /\ \/ GivesUp /\ BackToCaller /\ UNCHANGED written
     \/ ~GivesUp /\ result =< 0 /\ pc' = "write" /\ UNCHANGED written
     \/ ~GivesUp /\ result > 0 /\ pc' = "write" /\ written' = WrittenSoFar
  /\ UNCHANGED <<program, made, decimal, s, bytes, kernel>>

all_written ==
  /\ pc = "write" /\ ~(written < Len(bytes))
  /\ BackToCaller
  /\ UNCHANGED <<program, made, decimal, s, writing, kernel>>

Next ==
  \/ print_int \/ store_digit \/ store_sign \/ print_char
  \/ print_string \/ next_char \/ end_of_string
  \/ write_some \/ write_nothing \/ write_interrupted
  \/ result_of_write \/ all_written

(* A program goes on, and signals do not hit every call of write(2): one   *)
(* that is made again and again is at last let through or refused.         *)
Fairness == WF_vars(Next) /\ SF_vars(write_some \/ write_nothing)

Spec == Init /\ [][Next]_vars /\ Fairness
-----------------------------------------------------------------------------
(* What a program asks to be printed, in C's terms: the decimal numeral of *)
(* an int, figure by figure, and the bytes of characters and strings.      *)
Size(n) == IF n < 0 THEN -n ELSE n
NumeralLength(n) ==
  CHOOSE k \in 1 .. BufferSize : Size(n) < Power[k] /\ (k = 1 \/ Power[k - 1] =< Size(n))
Numeral(n) ==
  (IF n < 0 THEN <<"-">> ELSE <<>>)
    \o [i \in 1 .. NumeralLength(n) |-> Figure((Size(n) \div Power[NumeralLength(n) - i]) % 10)]

Text(call) ==
  IF call.name = "print_int" THEN Numeral(call.n)
  ELSE IF call.name = "print_char" THEN <<call.c>>
  ELSE call.s
Asked == FlattenSeq([i \in 1 .. made |-> Text(program[i])])

TypeOK ==
  /\ program \in Programs /\ made \in 0 .. Len(program)
  /\ pc \in {"program", "digit", "sign", "string", "write", "returned"}
  /\ magnitude \in 0 .. UIntMax
  /\ written \in 0 .. Len(bytes)
  /\ failed \in BOOLEAN

(* The buffer of print_int has a byte for every digit of every int and for *)
(* the sign, that of INT_MIN too: nothing is stored below it.              *)
DigitsFitTheBuffer == index \in 0 .. BufferSize /\ Len(digits) = BufferSize - index

(* What was printed is what was asked with some of its bytes left out: a   *)
(* byte that was kept comes out at the place that its rank gives it.       *)
PartOf(printed, asked) ==
  \E kept \in SUBSET (1 .. Len(asked)) :
    /\ Cardinality(kept) = Len(printed)
    /\ \A p \in kept : printed[Cardinality({q \in kept : q =< p})] = asked[p]

(* Every byte comes out once and in order, however write(2) cuts it up and *)
(* signals interrupt it: as long as no write has failed the output is what *)
(* the calls asked for, up to the call being made.  After a failure bytes  *)
(* are missing, and none are repeated or moved.                            *)
EveryByteOnceInOrder ==
  /\ ~failed => IsPrefix(out, Asked) /\ (pc = "program" => out = Asked)
  /\ PartOf(out, Asked)

(* "A genuine write error ends the attempt rather than looping forever",   *)
(* and an interrupted one does go on: every call returns.                  *)
EveryCallReturns == <>(pc = "program" /\ made = Len(program))
=============================================================================
