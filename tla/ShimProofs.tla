----------------------------- MODULE ShimProofs -----------------------------
(***************************************************************************)
(* For every width of int, every program and whatever write(2) does:       *)
(* print_int stores within its buffer, and every byte comes out once and   *)
(* in order.                                                               *)
(*                                                                         *)
(* That nothing is stored below the buffer is not inductive: a step that   *)
(* stores a digit has to know that there is room for it, and for the sign  *)
(* after it.  The invariant gives the reason: while digits are stored what *)
(* is left of the magnitude is below the power of ten of the room left     *)
(* beside the sign.  A digit takes one place of the room and a factor of   *)
(* ten off the magnitude, and when one place is left there is one digit,   *)
(* so the loop ends.  At its beginning the magnitude is at most that of    *)
(* INT_MIN, which is where unsigned negation matters.                      *)
(*                                                                         *)
(* Nor is the order of the output: a step of write_all has to know what    *)
(* its bytes are of what was asked for.  The second invariant, OInv,       *)
(* balances the two: what was asked for is what came through, or would     *)
(* have if no write had failed, and then the rest, which `pc' tells where  *)
(* to find.  The rest of an int is its numeral, so the digits stored so    *)
(* far have to be that numeral's last figures, and the magnitude what they *)
(* leave of it.  A failed write moves its bytes from the rest to what      *)
(* would have come, and the output is a part of that from then on.         *)
(***************************************************************************)
EXTENDS Shim, SequenceTheorems, FiniteSetTheorems, WellFoundedInduction, TLAPS

(* A prefix of a sequence. *)
LEMMA PrefixOfSeq ==
  ASSUME NEW S, NEW whole \in Seq(S), NEW n \in 0 .. Len(whole)
  PROVE  /\ SubSeq(whole, 1, n) \in Seq(S)
         /\ Len(SubSeq(whole, 1, n)) = n
         /\ \A i \in 1 .. n : SubSeq(whole, 1, n)[i] = whole[i]
  OBVIOUS

(* A function on the first numbers is a sequence. *)
LEMMA FunctionIsSeq ==
  ASSUME NEW n \in Nat, NEW S, NEW f \in [1 .. n -> S]
  PROVE  f \in Seq(S) /\ Len(f) = n
<1>1. f \in Seq(S)
  BY SeqDef
<1>2. DOMAIN f = 1 .. n
  OBVIOUS
<1>3. Len(f) \in Nat /\ DOMAIN f = 1 .. Len(f)
  BY <1>1, LenProperties
<1> QED
  BY <1>1, <1>2, <1>3

(* A nonempty set of numbers has a least member. *)
LEMMA HasLeast ==
  ASSUME NEW S, S \subseteq Nat, S # {}
  PROVE  \E i \in S : \A j \in S : i <= j
<1>1. PICK i \in S : \A j \in S : <<j, i>> \notin OpToRel(<, Nat)
  BY WFMin, NatLessThanWellFounded
<1>2. \A j \in S : ~(j < i)
  BY <1>1 DEF OpToRel
<1>3. \A j \in S : i <= j
  BY <1>2
<1> QED
  BY <1>3

(* What print_int stores. *)
Characters == {Figure(d) : d \in 0 .. 9} \cup {"-"}

(* There is room for what is left to store. *)
RoomForTheRest ==
  /\ pc = "digit" => index >= 2 /\ magnitude < Power[index - 1]
  /\ pc = "sign" => index >= 1

IInv ==
  /\ program \in Programs /\ made \in Nat
  /\ magnitude \in Nat
  /\ index \in 0 .. BufferSize
  /\ digits \in Seq(Characters) /\ Len(digits) = BufferSize - index
  /\ RoomForTheRest
-----------------------------------------------------------------------------
(* Division by any number. *)
LEMMA Division ==
  ASSUME NEW m \in Nat \ {0}, NEW a \in Int
  PROVE  a % m \in 0 .. m - 1 /\ a = m * (a \div m) + (a % m) /\ a \div m \in Int
  OBVIOUS

(* A multiple of m that is nearer to zero than m is zero. *)
LEMMA NearerThanOne ==
  ASSUME NEW m \in Nat \ {0}, NEW q \in Int, m * q > -m, m * q < m
  PROVE  q = 0
<1>1. CASE q >= 1
  <2>1. PICK k \in Nat : q = 1 + k
    <3>1. q - 1 \in Nat /\ q = 1 + (q - 1)
      BY <1>1
    <3> QED
      BY <3>1
  <2>2. m * q = m + m * k /\ m * k >= 0
    BY <2>1
  <2> QED
    BY <2>2
<1>2. CASE q =< -1
  <2>1. PICK k \in Nat : q = -1 - k
    <3>1. -1 - q \in Nat /\ q = -1 - (-1 - q)
      BY <1>2
    <3> QED
      BY <3>1
  <2>2. m * q = -m - m * k /\ m * k >= 0
    BY <2>1
  <2> QED
    BY <2>2
<1> QED
  BY <1>1, <1>2

(* The remainder is what is left beside a multiple. *)
LEMMA RemainderIs ==
  ASSUME NEW m \in Nat \ {0}, NEW q \in Int, NEW r \in 0 .. m - 1
  PROVE  (m * q + r) % m = r
<1> DEFINE a == m * q + r
           d == a \div m
<1>1. a \in Int
  OBVIOUS
<1>2. a % m \in 0 .. m - 1 /\ a = m * d + (a % m) /\ d \in Int
  <2> HIDE DEF a
  <2> QED
    BY <1>1, Division
<1>3. m * (d - q) = m * d - m * q /\ m * d \in Int /\ m * q \in Int
  BY <1>2
<1>4. m * (d - q) > -m /\ m * (d - q) < m
  <2>1. m * d - m * q = r - (a % m)
    BY <1>2, <1>3
  <2> QED
    BY <1>2, <1>3, <2>1
<1>5. d - q = 0
  BY <1>2, <1>4, NearerThanOne
<1>6. d = q
  BY <1>2, <1>5
<1> QED
  BY <1>2, <1>6
-----------------------------------------------------------------------------
(* The constants: an int's range is within that of the buffer's digits. *)
LEMMA Constants ==
  /\ UIntMax \in Nat /\ UIntMax % 2 = 1
  /\ BufferSize \in Nat /\ BufferSize >= 2
  /\ Power \in [0 .. BufferSize -> Nat] /\ Power[0] = 1
  /\ UIntMax \div 2 + 1 \in Nat /\ UIntMax \div 2 + 1 < Power[BufferSize - 1]
<1>1. /\ UIntMax \in Nat /\ UIntMax % 2 = 1
      /\ BufferSize \in Nat \ {0}
      /\ Power \in [0 .. BufferSize -> Nat] /\ Power[0] = 1
      /\ UIntMax \div 2 + 1 < Power[BufferSize - 1]
  BY ShimAssumption DEF ShimAssumption
<1>2. UIntMax \div 2 \in Nat
  BY <1>1
<1>3. BufferSize # 1
  BY <1>1, <1>2
<1> QED
  BY <1>1, <1>2, <1>3

(* Negation in unsigned arithmetic gives every int its magnitude, INT_MIN  *)
(* too, whose magnitude is no int.                                         *)
LEMMA MagnitudeIsSize ==
  ASSUME NEW n \in IntMin .. IntMax
  PROVE  Magnitude(n) = Size(n) /\ Size(n) \in 0 .. UIntMax \div 2 + 1
<1> DEFINE m == UIntMax + 1
<1>1. m \in Nat \ {0} /\ n \in Int /\ UIntMax \in Nat /\ UIntMax = 2 * (UIntMax \div 2) + 1 /\ UIntMax \div 2 \in Nat
  BY Constants DEF IntMin, IntMax
<1>2. n >= -(UIntMax \div 2 + 1) /\ n =< UIntMax \div 2
  <2>1. m \div 2 = UIntMax \div 2 + 1
    BY <1>1
  <2> QED
    BY <1>1, <2>1 DEF IntMin, IntMax
<1>3. Size(n) \in 0 .. UIntMax \div 2 + 1
  BY <1>1, <1>2 DEF Size
<1>4. CASE n >= 0
  <2>1. (m * 0 + n) % m = n
    <3>1. n \in 0 .. m - 1
      BY <1>1, <1>2, <1>4
    <3> QED
      BY <1>1, <3>1, RemainderIs
  <2>2. m * 0 + n = n
    BY <1>1
  <2> QED
    BY <1>1, <1>3, <1>4, <2>1, <2>2 DEF Magnitude, Unsigned, Size
<1>5. CASE n < 0
  <2>1. n + m \in 0 .. m - 1 /\ -n \in 0 .. m - 1
    BY <1>1, <1>2, <1>5
  <2>2. (m * (-1) + (n + m)) % m = n + m /\ (m * (-1) + (-n)) % m = -n
    BY <1>1, <2>1, RemainderIs
  <2>3. m * (-1) + (n + m) = n /\ m * (-1) + (-n) = 0 - (n + m)
    BY <1>1
  <2>4. Unsigned(n) = n + m /\ Unsigned(0 - (n + m)) = -n
    BY <2>2, <2>3 DEF Unsigned
  <2> QED
    BY <1>1, <1>3, <1>5, <2>4 DEF Magnitude, Size
<1> QED
  BY <1>1, <1>4, <1>5, <1>3

(* A digit takes one place and a factor of ten. *)
LEMMA OneDigitLess ==
  ASSUME NEW i \in 2 .. BufferSize, NEW m \in Nat, m < Power[i - 1]
  PROVE  /\ m \div 10 \in Nat
         /\ m \div 10 < Power[i - 2]
         /\ GoesOn(m) => i >= 3
<1>1. Power[i - 1] = 10 * Power[i - 2] /\ Power[i - 2] \in Nat
  <2>1. i - 1 \in 1 .. BufferSize /\ i - 2 \in 0 .. BufferSize /\ (i - 1) - 1 = i - 2
    BY Constants
  <2>2. \A j \in 1 .. BufferSize : Power[j] = 10 * Power[j - 1]
    BY ShimAssumption DEF ShimAssumption
  <2>3. Power[i - 1] = 10 * Power[(i - 1) - 1]
    BY <2>1, <2>2
  <2> QED
    BY <2>1, <2>3, Constants
<1>2. m \div 10 \in Nat /\ m \div 10 < Power[i - 2]
  BY <1>1
<1>3. i = 2 => m \div 10 = 0
  BY <1>2, Constants
<1> QED
  BY <1>2, <1>3 DEF GoesOn

(* Another character before those stored. *)
LEMMA OneMore ==
  ASSUME NEW stored \in Seq(Characters), NEW c \in Characters
  PROVE  <<c>> \o stored \in Seq(Characters) /\ Len(<<c>> \o stored) = Len(stored) + 1
  OBVIOUS
-----------------------------------------------------------------------------
LEMMA InitEstablishes ==
  Init => IInv
  BY Constants DEF Init, IInv, RoomForTheRest

LEMMA NextPreserves ==
  IInv /\ [Next]_vars => IInv'
<1> SUFFICES ASSUME IInv, [Next]_vars
             PROVE  IInv'
  OBVIOUS
<1> USE DEF IInv, RoomForTheRest
<1>1. CASE print_int
  <2>1. /\ made + 1 \in DOMAIN program /\ program[made + 1].name = "print_int"
        /\ made' = made + 1 /\ program' = program
        /\ index' = BufferSize /\ digits' = <<>> /\ pc' = "digit"
        /\ magnitude' = Magnitude(program[made + 1].n)
    BY <1>1, ShimAssumption DEF ShimAssumption, print_int, Calls
  <2>2. program[made + 1].n \in IntMin .. IntMax
    BY <2>1, ShimAssumption DEF ShimAssumption
  <2>3. magnitude' \in 0 .. UIntMax \div 2 + 1
    BY <2>1, <2>2, MagnitudeIsSize
  <2>4. magnitude' \in Nat /\ magnitude' < Power[BufferSize - 1]
    <3>1. Power[BufferSize - 1] \in Nat
      BY Constants
    <3> QED
      BY <2>3, <3>1, Constants
  <2> QED
    <3>1. digits' \in Seq(Characters) /\ Len(digits') = 0
      BY <2>1
    <3>2. index' = BufferSize /\ index' \in 0 .. BufferSize /\ index' >= 2
      BY <2>1, Constants
    <3> QED
      BY <2>1, <2>4, <3>1, <3>2, Constants
<1>2. CASE store_digit
  <2>1. /\ pc = "digit" /\ program' = program /\ made' = made
        /\ index' = index - 1 /\ magnitude' = magnitude \div 10
        /\ digits' = <<Figure(magnitude % 10)>> \o digits
        /\ pc' = IF GoesOn(magnitude) THEN "digit" ELSE "sign"
    BY <1>2 DEF store_digit
  <2>2. index \in 2 .. BufferSize /\ magnitude < Power[index - 1]
    BY <2>1, Constants
  <2>3. magnitude' \in Nat /\ magnitude' < Power[index' - 1] /\ (GoesOn(magnitude) => index' >= 2)
    <3>1. index - 1 - 1 = index - 2
      BY <2>2
    <3> QED
      BY <2>1, <2>2, <3>1, OneDigitLess
  <2>4. digits' \in Seq(Characters) /\ Len(digits') = BufferSize - index'
    <3>1. Figure(magnitude % 10) \in Characters
      BY DEF Characters
    <3>2. /\ <<Figure(magnitude % 10)>> \o digits \in Seq(Characters)
          /\ Len(<<Figure(magnitude % 10)>> \o digits) = Len(digits) + 1
      BY <3>1, OneMore
    <3> QED
      BY <2>1, <2>2, <3>2, Constants
  <2> QED
    BY <2>1, <2>2, <2>3, <2>4, Constants
<1>3. CASE store_sign
  <2>1. /\ pc = "sign" /\ pc' = "write" /\ program' = program /\ made' = made
        /\ magnitude' = magnitude
        /\ \/ index' = index /\ digits' = digits
           \/ index' = index - 1 /\ digits' = <<"-">> \o digits
    BY <1>3 DEF store_sign, Write
  <2>2. index \in 1 .. BufferSize
    BY <2>1, Constants
  <2>3. digits' \in Seq(Characters) /\ Len(digits') = BufferSize - index'
    <3>1. "-" \in Characters
      BY DEF Characters
    <3>2. /\ <<"-">> \o digits \in Seq(Characters)
          /\ Len(<<"-">> \o digits) = Len(digits) + 1
      BY <3>1, OneMore
    <3> QED
      <4>1. CASE index' = index /\ digits' = digits
        BY <4>1
      <4>2. CASE index' = index - 1 /\ digits' = <<"-">> \o digits
        BY <2>2, <3>2, <4>2, Constants
      <4> QED
        BY <2>1, <4>1, <4>2
  <2>4. index' \in 0 .. BufferSize
    BY <2>1, <2>2, Constants
  <2>5. program' \in Programs /\ made' \in Nat /\ magnitude' \in Nat
    BY <2>1
  <2>6. RoomForTheRest'
    BY <2>1 DEF RoomForTheRest
  <2> QED
    BY <2>3, <2>4, <2>5, <2>6
<1>4. CASE print_char \/ print_string
  BY <1>4 DEF print_char, print_string, Write, decimal, Calls
<1>5. CASE next_char \/ end_of_string
  BY <1>5 DEF next_char, end_of_string, Write, decimal
<1>6. CASE write_some \/ write_nothing \/ write_interrupted
  BY <1>6 DEF write_some, write_nothing, write_interrupted, decimal
<1>7. CASE result_of_write \/ all_written
  BY <1>7 DEF result_of_write, all_written, BackToCaller, decimal
<1>8. CASE UNCHANGED vars
  BY <1>8 DEF vars
<1> QED
  BY <1>1, <1>2, <1>3, <1>4, <1>5, <1>6, <1>7, <1>8 DEF Next

(* What is left of the magnitude always has room, whatever the program     *)
(* prints and however its writes end.                                      *)
THEOREM RoomIsLeft == Spec => []IInv
  BY InitEstablishes, NextPreserves, PTL DEF Spec

(* print_int never stores below its buffer: not for the longest int, and   *)
(* not after any calls before it.                                          *)
THEOREM DigitsFit == Spec => []DigitsFitTheBuffer
<1>1. IInv => DigitsFitTheBuffer
  BY DEF IInv, DigitsFitTheBuffer
<1> QED
  BY <1>1, RoomIsLeft, PTL
-----------------------------------------------------------------------------
(* The numeral of an int.  Powers of ten, and division by them. *)
LEMMA TenTimes ==
  ASSUME NEW k \in 0 .. BufferSize - 1
  PROVE  /\ Power[k] \in Nat \ {0}
         /\ Power[k + 1] \in Nat
         /\ Power[k + 1] = 10 * Power[k]
<1> DEFINE Zeros == {j \in 0 .. BufferSize : Power[j] = 0}
<1>1. \A j \in 1 .. BufferSize : Power[j] = 10 * Power[j - 1]
  BY ShimAssumption DEF ShimAssumption
<1>2. \A j \in 0 .. BufferSize : Power[j] \in Nat
  BY Constants
<1>3. Zeros = {}
  <2> SUFFICES ASSUME Zeros # {}
               PROVE  FALSE
    OBVIOUS
  <2>1. Zeros \subseteq Nat
    BY Constants
  <2>2. PICK j \in Zeros : \A l \in Zeros : j <= l
    <3> HIDE DEF Zeros
    <3> QED
      BY <2>1, HasLeast
  <2>3. j \in 0 .. BufferSize /\ Power[j] = 0
    OBVIOUS
  <2>4. j \in 1 .. BufferSize
    BY <2>3, Constants
  <2>5. j - 1 \in 0 .. BufferSize /\ Power[j - 1] \in Nat /\ Power[j] = 10 * Power[j - 1]
    BY <2>4, <1>1, <1>2, Constants
  <2>6. Power[j - 1] = 0
    BY <2>3, <2>5
  <2>7. j - 1 \in Zeros
    BY <2>5, <2>6
  <2> QED
    BY <2>2, <2>4, <2>7
<1>4. k \in 0 .. BufferSize /\ k + 1 \in 1 .. BufferSize /\ (k + 1) - 1 = k /\ k + 1 \in 0 .. BufferSize
  BY Constants
<1>5. Power[k] # 0
  BY <1>3, <1>4
<1>6. Power[k + 1] = 10 * Power[(k + 1) - 1]
  BY <1>1, <1>4
<1> QED
  BY <1>2, <1>4, <1>5, <1>6

LEMMA PowersIncrease ==
  ASSUME NEW i \in 0 .. BufferSize, NEW j \in 0 .. BufferSize, i =< j
  PROVE  Power[i] =< Power[j]
<1> DEFINE Smaller == {l \in i .. BufferSize : Power[l] < Power[i]}
<1>0. BufferSize \in Nat /\ \A l \in 0 .. BufferSize : Power[l] \in Nat
  BY Constants
<1>1. Smaller = {}
  <2> SUFFICES ASSUME Smaller # {}
               PROVE  FALSE
    OBVIOUS
  <2>1. Smaller \subseteq Nat
    BY <1>0
  <2>2. PICK l \in Smaller : \A m \in Smaller : l <= m
    <3> HIDE DEF Smaller
    <3> QED
      BY <2>1, HasLeast
  <2>3. l \in i .. BufferSize /\ Power[l] < Power[i]
    OBVIOUS
  <2>4. l # i
    BY <2>3, <1>0
  <2>5. PICK m \in i .. BufferSize - 1 : l = m + 1
    <3>1. l - 1 \in i .. BufferSize - 1 /\ l = (l - 1) + 1
      BY <2>3, <2>4, <1>0
    <3> QED
      BY <3>1
  <2>6. Power[m] \in Nat /\ Power[l] = 10 * Power[m] /\ Power[l] \in Nat /\ Power[i] \in Nat
    <3>1. m \in 0 .. BufferSize - 1
      BY <1>0
    <3> QED
      BY <2>5, <3>1, <1>0, TenTimes
  <2>7. Power[m] < Power[i]
    BY <2>3, <2>6
  <2>8. m \in Smaller
    BY <2>7, <1>0
  <2> QED
    BY <2>2, <2>5, <2>8, <1>0
<1>2. j \in i .. BufferSize
  BY <1>0
<1> QED
  BY <1>0, <1>1, <1>2

(* A quotient is the number of whole multiples. *)
LEMMA QuotientIs ==
  ASSUME NEW m \in Nat \ {0}, NEW q \in Int, NEW r \in 0 .. m - 1
  PROVE  (m * q + r) \div m = q
<1> DEFINE a == m * q + r
           d == a \div m
<1>1. a \in Int /\ m * q \in Int
  OBVIOUS
<1>2. a % m \in 0 .. m - 1 /\ a = m * d + (a % m) /\ d \in Int
  <2> HIDE DEF a
  <2> QED
    BY <1>1, Division
<1>3. a % m = r
  BY RemainderIs
<1>4. m * d = m * q /\ m * d \in Int
  BY <1>1, <1>2, <1>3
<1>5. m * (d - q) = m * d - m * q
  BY <1>2
<1>6. m * (d - q) > -m /\ m * (d - q) < m
  <2>1. m * d - m * q = 0
    BY <1>1, <1>4
  <2>2. m * (d - q) = 0
    BY <1>5, <2>1
  <2> QED
    BY <2>2
<1>7. d - q = 0
  BY <1>2, <1>6, NearerThanOne
<1> QED
  BY <1>2, <1>7

(* Dividing by ten what was divided by p is dividing by ten times p. *)
LEMMA TenfoldQuotient ==
  ASSUME NEW p \in Nat \ {0}, NEW a \in Nat
  PROVE  (a \div p) \div 10 = a \div (10 * p)
<1> DEFINE q == a \div p
           r == a % p
           h == q \div 10
           u == q % 10
<1>1. r \in 0 .. p - 1 /\ a = p * q + r /\ q \in Int
  BY Division
<1>2. u \in 0 .. 9 /\ q = 10 * h + u /\ h \in Int
  <2> HIDE DEF q
  <2> QED
    BY <1>1
<1> HIDE DEF q, r, h, u
<1>3. p * q = (10 * p) * h + p * u /\ p * u \in Int /\ (10 * p) * h \in Int
  BY <1>2
<1>4. p * u + r \in 0 .. (10 * p) - 1
  <2>1. CASE u = 0
    BY <1>1, <2>1
  <2>2. CASE u # 0
    <3>1. u \in {1, 2, 3, 4, 5, 6, 7, 8, 9}
      BY <1>2, <2>2
    <3> QED
      BY <1>1, <3>1
  <2> QED
    BY <2>1, <2>2
<1>5. a = (10 * p) * h + (p * u + r)
  BY <1>1, <1>3
<1>6. ((10 * p) * h + (p * u + r)) \div (10 * p) = h
  <2>1. 10 * p \in Nat \ {0}
    OBVIOUS
  <2> DEFINE m == 10 * p
             v == p * u + r
  <2>2. m \in Nat \ {0} /\ v \in 0 .. m - 1
    BY <2>1, <1>4
  <2>3. (m * h + v) \div m = h
    <3> HIDE DEF m, v
    <3> QED
      BY <2>2, <1>2, QuotientIs
  <2> QED
    BY <2>3
<1> QED
  BY <1>5, <1>6 DEF q, h

(* The last k figures of an int: the first that print_int stores. *)
LastFigures(n, k) == [i \in 1 .. k |-> Figure((Size(n) \div Power[k - i]) % 10)]

LEMMA NumeralLengthIs ==
  ASSUME NEW n \in IntMin .. IntMax, NEW k \in 1 .. BufferSize,
         Size(n) < Power[k], k = 1 \/ Power[k - 1] =< Size(n)
  PROVE  NumeralLength(n) = k
<1> DEFINE IsLength(j) == Size(n) < Power[j] /\ (j = 1 \/ Power[j - 1] =< Size(n))
<1>1. Size(n) \in Nat /\ BufferSize \in Nat /\ \A j \in 0 .. BufferSize : Power[j] \in Nat
  BY MagnitudeIsSize, Constants
<1>2. \A i, j \in 1 .. BufferSize : IsLength(i) /\ IsLength(j) => ~(i < j)
  <2> SUFFICES ASSUME NEW i \in 1 .. BufferSize, NEW j \in 1 .. BufferSize,
                      IsLength(i), IsLength(j), i < j
               PROVE  FALSE
    OBVIOUS
  <2>1. i \in 0 .. BufferSize /\ j - 1 \in 0 .. BufferSize /\ i =< j - 1 /\ j # 1
    BY <1>1
  <2>2. Power[i] =< Power[j - 1]
    BY <2>1, PowersIncrease
  <2>3. Power[i] \in Nat /\ Power[j - 1] \in Nat
    BY <1>1, <2>1
  <2>4. Size(n) < Power[i] /\ Power[j - 1] =< Size(n)
    BY <2>1
  <2> QED
    BY <1>1, <2>2, <2>3, <2>4
<1>3. \A i, j \in 1 .. BufferSize : IsLength(i) /\ IsLength(j) => i = j
  <2> HIDE DEF IsLength
  <2> QED
    BY <1>2
<1>4. IsLength(k)
  OBVIOUS
<1>5. NumeralLength(n) = CHOOSE j \in 1 .. BufferSize : IsLength(j)
  BY DEF NumeralLength
<1>6. (CHOOSE j \in 1 .. BufferSize : IsLength(j)) = k
  <2> HIDE DEF IsLength
  <2> QED
    BY <1>3, <1>4
<1> QED
  BY <1>5, <1>6

LEMMA NumeralLengthExists ==
  ASSUME NEW n \in IntMin .. IntMax
  PROVE  NumeralLength(n) \in 1 .. BufferSize
<1> DEFINE Longer == {k \in 1 .. BufferSize : Size(n) < Power[k]}
<1>1. /\ Size(n) \in Nat /\ Size(n) =< UIntMax \div 2 + 1 /\ BufferSize \in Nat /\ BufferSize >= 2
      /\ UIntMax \div 2 + 1 \in Nat /\ UIntMax \div 2 + 1 < Power[BufferSize - 1]
      /\ \A k \in 0 .. BufferSize : Power[k] \in Nat
  BY MagnitudeIsSize, Constants
<1>2. BufferSize - 1 \in Longer
  <2>1. BufferSize - 1 \in 1 .. BufferSize /\ BufferSize - 1 \in 0 .. BufferSize
    BY <1>1
  <2>2. Power[BufferSize - 1] \in Nat
    BY <1>1, <2>1
  <2>3. Size(n) < Power[BufferSize - 1]
    BY <1>1, <2>2
  <2> QED
    BY <2>1, <2>3
<1>3. Longer \subseteq Nat
  BY <1>1
<1>4. PICK k \in Longer : \A j \in Longer : k <= j
  <2> HIDE DEF Longer
  <2> QED
    BY <1>2, <1>3, HasLeast
<1>5. k \in 1 .. BufferSize /\ Size(n) < Power[k]
  OBVIOUS
<1>6. k = 1 \/ Power[k - 1] =< Size(n)
  <2> SUFFICES ASSUME k # 1, ~(Power[k - 1] =< Size(n))
               PROVE  FALSE
    OBVIOUS
  <2>1. k - 1 \in 1 .. BufferSize /\ k - 1 \in 0 .. BufferSize
    BY <1>1, <1>5
  <2>2. Power[k - 1] \in Nat
    BY <1>1, <2>1
  <2>3. Size(n) < Power[k - 1]
    BY <1>1, <2>2
  <2>4. k - 1 \in Longer
    BY <2>1, <2>3
  <2> QED
    BY <1>4, <1>5, <2>4
<1> QED
  BY <1>5, <1>6, NumeralLengthIs

(* What is printed. *)
Byte == STRING \cup Characters

Sign(n) == IF n < 0 THEN <<"-">> ELSE <<>>

LEMMA FiguresAreBytes ==
  ASSUME NEW n \in IntMin .. IntMax, NEW k \in 0 .. BufferSize
  PROVE  LastFigures(n, k) \in Seq(Byte) /\ Len(LastFigures(n, k)) = k
<1>1. BufferSize \in Nat /\ \A j \in 0 .. BufferSize : Power[j] \in Nat
  BY Constants
<1>2. \A i \in 1 .. k : Figure((Size(n) \div Power[k - i]) % 10) \in Byte
  <2> SUFFICES ASSUME NEW i \in 1 .. k
               PROVE  Figure((Size(n) \div Power[k - i]) % 10) \in Byte
    OBVIOUS
  <2>1. k - i \in 0 .. BufferSize - 1
    BY <1>1
  <2>2. Power[k - i] \in Nat \ {0}
    BY <2>1, TenTimes
  <2>3. Size(n) \in Int
    BY MagnitudeIsSize
  <2>4. Size(n) \div Power[k - i] \in Int
    <3> DEFINE p == Power[k - i]
               a == Size(n)
    <3>1. p \in Nat \ {0} /\ a \in Int
      BY <2>2, <2>3
    <3>2. a \div p \in Int
      <4> HIDE DEF p, a
      <4> QED
        BY <3>1, Division
    <3> QED
      BY <3>2
  <2>5. (Size(n) \div Power[k - i]) % 10 \in 0 .. 9
    BY <2>4
  <2> QED
    BY <2>5 DEF Byte, Characters
<1>3. LastFigures(n, k) \in [1 .. k -> Byte] /\ k \in Nat
  BY <1>1, <1>2 DEF LastFigures
<1> QED
  BY <1>3, FunctionIsSeq

LEMMA NumeralIs ==
  ASSUME NEW n \in IntMin .. IntMax
  PROVE  /\ Numeral(n) = Sign(n) \o LastFigures(n, NumeralLength(n))
         /\ Numeral(n) \in Seq(Byte)
<1>1. Numeral(n) = Sign(n) \o LastFigures(n, NumeralLength(n))
  BY DEF Numeral, Sign, LastFigures
<1>2. Sign(n) \in Seq(Byte)
  <2>1. "-" \in Byte
    BY DEF Byte, Characters
  <2>2. <<"-">> \in Seq(Byte) /\ <<>> \in Seq(Byte)
    BY <2>1
  <2> QED
    BY <2>2 DEF Sign
<1>3. NumeralLength(n) \in 0 .. BufferSize
  BY NumeralLengthExists, Constants
<1>4. LastFigures(n, NumeralLength(n)) \in Seq(Byte)
  BY <1>3, FiguresAreBytes
<1>5. Sign(n) \o LastFigures(n, NumeralLength(n)) \in Seq(Byte)
  BY <1>2, <1>4, ConcatProperties
<1> QED
  BY <1>1, <1>5

(* One figure more before those stored: the quotient goes on. *)
LEMMA OneFigureMore ==
  ASSUME NEW n \in IntMin .. IntMax, NEW k \in 0 .. BufferSize - 1, NEW m, m = Size(n) \div Power[k]
  PROVE  /\ <<Figure(m % 10)>> \o LastFigures(n, k) = LastFigures(n, k + 1)
         /\ m \div 10 = Size(n) \div Power[k + 1]
<1>0. BufferSize \in Nat /\ k \in 0 .. BufferSize /\ k + 1 \in 0 .. BufferSize
  BY Constants
<1>1. Power[k] \in Nat \ {0} /\ Power[k + 1] = 10 * Power[k] /\ Size(n) \in Nat
  BY TenTimes, MagnitudeIsSize
<1>2. m \div 10 = Size(n) \div Power[k + 1]
  BY <1>1, TenfoldQuotient
<1>3. LastFigures(n, k) \in Seq(Byte) /\ Len(LastFigures(n, k)) = k
  BY <1>0, FiguresAreBytes
<1>4. LastFigures(n, k + 1) \in Seq(Byte) /\ Len(LastFigures(n, k + 1)) = k + 1
  BY <1>0, FiguresAreBytes
<1>5. LastFigures(n, k + 1)[1] = Figure(m % 10)
  <2>1. 1 \in 1 .. k + 1 /\ (k + 1) - 1 = k
    BY <1>0
  <2> QED
    BY <2>1 DEF LastFigures
<1>6. \A i \in 2 .. k + 1 : LastFigures(n, k + 1)[i] = LastFigures(n, k)[i - 1]
  <2> SUFFICES ASSUME NEW i \in 2 .. k + 1
               PROVE  LastFigures(n, k + 1)[i] = LastFigures(n, k)[i - 1]
    OBVIOUS
  <2>1. i \in 1 .. k + 1 /\ i - 1 \in 1 .. k /\ (k + 1) - i = k - (i - 1)
    BY <1>0
  <2> QED
    BY <2>1 DEF LastFigures
<1> DEFINE c == Figure(m % 10)
           figures == LastFigures(n, k)
           more == LastFigures(n, k + 1)
<1>7. c \in Byte
  <2>1. 1 \in 1 .. k + 1
    BY <1>0
  <2> QED
    BY <1>4, <1>5, <2>1
<1>8. <<c>> \o figures = more
  <2> HIDE DEF c, figures, more
  <2>0. <<c>> \in Seq(Byte) /\ Len(<<c>>) = 1 /\ <<c>>[1] = c
    BY <1>7
  <2>1. figures \in Seq(Byte) /\ Len(figures) = k /\ more \in Seq(Byte) /\ Len(more) = k + 1
    BY <1>3, <1>4 DEF figures, more
  <2> DEFINE joined == <<c>> \o figures
  <2>2. joined \in Seq(Byte) /\ Len(joined) = k + 1 /\ joined[1] = c
        /\ \A i \in 2 .. k + 1 : joined[i] = figures[i - 1]
    BY <2>0, <2>1
  <2>3. \A i \in 1 .. k + 1 : joined[i] = more[i]
    <3> SUFFICES ASSUME NEW i \in 1 .. k + 1
                 PROVE  joined[i] = more[i]
      OBVIOUS
    <3>1. CASE i = 1
      BY <2>2, <1>5, <3>1 DEF more, c
    <3>2. CASE i # 1
      <4>1. i \in 2 .. k + 1
        BY <3>2
      <4>2. joined[i] = figures[i - 1]
        BY <2>2, <4>1
      <4> QED
        BY <4>1, <4>2, <1>6 DEF figures, more
    <3> QED
      BY <3>1, <3>2
  <2> HIDE DEF joined
  <2>4. joined = more
    BY <2>1, <2>2, <2>3, SeqEqual
  <2> QED
    BY <2>4 DEF joined
<1> QED
  BY <1>2, <1>8
-----------------------------------------------------------------------------
(* Joining sequences: what FlattenSeq computes of one sequence more.  g is *)
(* the function by which it is defined.                                    *)
Joins(seqs, g) == g = [i \in 1 .. Len(seqs) |-> IF i = 1 THEN seqs[i] ELSE g[i - 1] \o seqs[i]]

LEMMA JoinsExist ==
  ASSUME NEW S, NEW seqs \in Seq(Seq(S))
  PROVE  \E g \in [1 .. Len(seqs) -> Seq(S)] : Joins(seqs, g)
<1> DEFINE n == Len(seqs)
           Reached(g, m) == \A i \in 1 .. m : g[i] = (IF i = 1 THEN seqs[i] ELSE g[i - 1] \o seqs[i])
           Bad == {m \in 0 .. n : ~ \E g \in [1 .. m -> Seq(S)] : Reached(g, m)}
<1>0. n \in Nat /\ \A i \in 1 .. n : seqs[i] \in Seq(S)
  OBVIOUS
<1>1. Bad = {}
  <2> SUFFICES ASSUME Bad # {}
               PROVE  FALSE
    OBVIOUS
  <2>1. Bad \subseteq Nat
    BY <1>0
  <2>2. PICK m \in Bad : \A l \in Bad : m <= l
    <3> HIDE DEF Bad
    <3> QED
      BY <2>1, HasLeast
  <2>3. m \in 0 .. n /\ ~ \E g \in [1 .. m -> Seq(S)] : Reached(g, m)
    <3> HIDE DEF Reached
    <3> QED
      BY <2>2
  <2>4. m # 0
    <3>1. <<>> \in [1 .. 0 -> Seq(S)] /\ Reached(<<>>, 0)
      <4>1. 1 .. 0 = {} /\ <<>> = [i \in {} |-> i]
        OBVIOUS
      <4> QED
        BY <4>1
    <3> HIDE DEF Reached
    <3> QED
      BY <2>3, <3>1
  <2>5. PICK l \in 0 .. n : m = l + 1 /\ l \notin Bad
    <3>1. m - 1 \in 0 .. n /\ m = (m - 1) + 1 /\ ~(m <= m - 1)
      BY <2>3, <2>4, <1>0
    <3>2. m - 1 \notin Bad
      <4> HIDE DEF Bad
      <4> QED
        BY <2>2, <3>1
    <3> HIDE DEF Bad
    <3> QED
      BY <3>1, <3>2
  <2>6. PICK g \in [1 .. l -> Seq(S)] : Reached(g, l)
    <3> HIDE DEF Reached
    <3> QED
      BY <2>5
  <2> DEFINE last == IF m = 1 THEN seqs[m] ELSE g[l] \o seqs[m]
             h == [i \in 1 .. m |-> IF i = m THEN last ELSE g[i]]
  <2>7. last \in Seq(S)
    <3>1. m \in 1 .. n /\ seqs[m] \in Seq(S)
      BY <1>0, <2>3, <2>4
    <3>2. CASE m = 1
      BY <3>1, <3>2
    <3>3. CASE m # 1
      <4>1. g[l] \in Seq(S)
        BY <1>0, <2>5, <2>6, <3>3, <2>4
      <4>2. g[l] \o seqs[m] \in Seq(S)
        BY <4>1, <3>1, ConcatProperties
      <4> QED
        BY <3>3, <4>2
    <3> QED
      BY <3>2, <3>3
  <2>8. h \in [1 .. m -> Seq(S)]
    <3> HIDE DEF last
    <3>1. \A i \in 1 .. m : i = m \/ i \in 1 .. l
      BY <1>0, <2>5
    <3> QED
      BY <2>6, <2>7, <3>1
  <2>9. \A i \in 1 .. m : h[i] = (IF i = 1 THEN seqs[i] ELSE h[i - 1] \o seqs[i])
    <3> SUFFICES ASSUME NEW i \in 1 .. m
                 PROVE  h[i] = (IF i = 1 THEN seqs[i] ELSE h[i - 1] \o seqs[i])
      OBVIOUS
    <3>1. CASE i = m
      <4>1. h[i] = last
        BY <3>1
      <4>2. i # 1 => h[i - 1] = g[l]
        <5> HIDE DEF last
        <5>1. i # 1 => i - 1 = l /\ i - 1 \in 1 .. m /\ i - 1 # m
          BY <1>0, <2>5, <3>1
        <5> QED
          BY <5>1
      <4> HIDE DEF h
      <4> QED
        BY <3>1, <4>1, <4>2
    <3>2. CASE i # m
      <4>1. i \in 1 .. l
        BY <1>0, <2>5, <3>2
      <4>2. h[i] = g[i]
        <5> HIDE DEF last
        <5> QED
          BY <3>2
      <4>3. i # 1 => h[i - 1] = g[i - 1]
        <5> HIDE DEF last
        <5>1. i # 1 => i - 1 \in 1 .. m /\ i - 1 # m
          BY <1>0, <2>5, <4>1
        <5> QED
          BY <5>1
      <4>4. g[i] = (IF i = 1 THEN seqs[i] ELSE g[i - 1] \o seqs[i])
        BY <2>6, <4>1
      <4> HIDE DEF h
      <4> QED
        BY <4>2, <4>3, <4>4
    <3> QED
      BY <3>1, <3>2
  <2> HIDE DEF h
  <2>10. Reached(h, m)
    BY <2>9
  <2> HIDE DEF Reached
  <2> QED
    BY <2>3, <2>8, <2>10
<1>2. n \in 0 .. n
  BY <1>0
<1>3. PICK g \in [1 .. n -> Seq(S)] : Reached(g, n)
  <2> HIDE DEF Reached, n
  <2> QED
    BY <1>1, <1>2
<1>4. Joins(seqs, g)
  BY <1>3 DEF Joins
<1> QED
  BY <1>3, <1>4

(* Two such functions agree as far as what they join does. *)
Agree(n, one, other) == \A i \in 1 .. n : one[i] = other[i]

LEMMA JoinsAgree ==
  ASSUME NEW n \in Nat, NEW seqs, NEW more, NEW g, NEW h,
         Len(seqs) \in Nat, Len(more) \in Nat, n =< Len(seqs), n =< Len(more),
         Agree(n, seqs, more), Joins(seqs, g), Joins(more, h)
  PROVE  Agree(n, g, h)
<1> USE DEF Agree
<1> DEFINE Apart == {i \in 1 .. n : g[i] # h[i]}
<1>1. \A i \in 1 .. n : /\ g[i] = (IF i = 1 THEN seqs[i] ELSE g[i - 1] \o seqs[i])
                        /\ h[i] = (IF i = 1 THEN more[i] ELSE h[i - 1] \o more[i])
  <2> SUFFICES ASSUME NEW i \in 1 .. n
               PROVE  /\ g[i] = (IF i = 1 THEN seqs[i] ELSE g[i - 1] \o seqs[i])
                      /\ h[i] = (IF i = 1 THEN more[i] ELSE h[i - 1] \o more[i])
    OBVIOUS
  <2>1. i \in 1 .. Len(seqs) /\ i \in 1 .. Len(more)
    OBVIOUS
  <2>2. g[i] = [j \in 1 .. Len(seqs) |-> IF j = 1 THEN seqs[j] ELSE g[j - 1] \o seqs[j]][i]
    BY Zenon DEF Joins
  <2>3. h[i] = [j \in 1 .. Len(more) |-> IF j = 1 THEN more[j] ELSE h[j - 1] \o more[j]][i]
    BY Zenon DEF Joins
  <2> QED
    BY <2>1, <2>2, <2>3
<1>2. Apart = {}
  <2> SUFFICES ASSUME Apart # {}
               PROVE  FALSE
    OBVIOUS
  <2>1. Apart \subseteq Nat
    OBVIOUS
  <2>2. PICK i \in Apart : \A j \in Apart : i <= j
    <3> HIDE DEF Apart
    <3> QED
      BY <2>1, HasLeast
  <2>3. i # 1
    BY <1>1
  <2>4. i - 1 \in 1 .. n /\ i - 1 \notin Apart
    BY <2>2, <2>3
  <2>5. g[i - 1] = h[i - 1]
    BY <2>4
  <2>6. g[i] = h[i]
    BY <1>1, <2>3, <2>5
  <2> QED
    BY <2>6
<1> QED
  BY <1>2

LEMMA JoinsIsTyped ==
  ASSUME NEW S, NEW seqs \in Seq(Seq(S)), NEW g, Joins(seqs, g)
  PROVE  g \in [1 .. Len(seqs) -> Seq(S)]
<1>1. PICK f \in [1 .. Len(seqs) -> Seq(S)] : Joins(seqs, f)
  BY JoinsExist
<1>2. \A i \in 1 .. Len(seqs) : g[i] = f[i]
  <2>1. Len(seqs) \in Nat /\ Len(seqs) =< Len(seqs) /\ Agree(Len(seqs), seqs, seqs)
    BY DEF Agree
  <2>2. Agree(Len(seqs), g, f)
    BY <1>1, <2>1, JoinsAgree, Zenon
  <2> QED
    BY <2>2 DEF Agree
<1>3. \E F \in [1 .. Len(seqs) -> {g[i] : i \in 1 .. Len(seqs)}] : g = F
  <2>1. g = [i \in 1 .. Len(seqs) |-> g[i]]
    <3> DEFINE e(i) == IF i = 1 THEN seqs[i] ELSE g[i - 1] \o seqs[i]
    <3>1. g = [i \in 1 .. Len(seqs) |-> e(i)]
      BY DEF Joins
    <3> HIDE DEF e
    <3> QED
      BY <3>1
  <2> QED
    BY <2>1
<1> QED
  BY <1>2, <1>3

LEMMA FlattenIs ==
  ASSUME NEW S, NEW seqs \in Seq(Seq(S)), Len(seqs) # 0
  PROVE  \E g \in [1 .. Len(seqs) -> Seq(S)] : Joins(seqs, g) /\ FlattenSeq(seqs) = g[Len(seqs)]
<1>1. FlattenSeq(seqs) = (CHOOSE g : Joins(seqs, g))[Len(seqs)]
  BY DEF FlattenSeq, Joins
<1>2. Joins(seqs, CHOOSE g : Joins(seqs, g))
  <2>1. \E g : Joins(seqs, g)
    BY JoinsExist
  <2> QED
    BY <2>1
<1>3. (CHOOSE g : Joins(seqs, g)) \in [1 .. Len(seqs) -> Seq(S)]
  BY <1>2, JoinsIsTyped
<1> QED
  BY <1>1, <1>2, <1>3

LEMMA FlattenIsSeq ==
  ASSUME NEW S, NEW seqs \in Seq(Seq(S))
  PROVE  FlattenSeq(seqs) \in Seq(S)
<1>1. CASE Len(seqs) = 0
  <2>1. FlattenSeq(seqs) = seqs /\ seqs = <<>>
    BY <1>1 DEF FlattenSeq
  <2> QED
    BY <2>1
<1>2. CASE Len(seqs) # 0
  <2>1. Len(seqs) \in 1 .. Len(seqs)
    BY <1>2
  <2>2. PICK g \in [1 .. Len(seqs) -> Seq(S)] : Joins(seqs, g) /\ FlattenSeq(seqs) = g[Len(seqs)]
    BY <1>2, FlattenIs
  <2> QED
    BY <2>1, <2>2
<1> QED
  BY <1>1, <1>2

LEMMA FlattenOneMore ==
  ASSUME NEW S, NEW seqs \in Seq(Seq(S)), NEW more \in Seq(Seq(S)),
         Len(more) = Len(seqs) + 1, \A i \in 1 .. Len(seqs) : more[i] = seqs[i]
  PROVE  FlattenSeq(more) = FlattenSeq(seqs) \o more[Len(more)]
<1> DEFINE n == Len(seqs)
<1>0. n \in Nat /\ Len(more) = n + 1 /\ n + 1 \in 1 .. Len(more) /\ more[n + 1] \in Seq(S)
  OBVIOUS
<1>1. PICK h \in [1 .. Len(more) -> Seq(S)] : Joins(more, h) /\ FlattenSeq(more) = h[Len(more)]
  BY <1>0, FlattenIs
<1>2. h[n + 1] = (IF n + 1 = 1 THEN more[n + 1] ELSE h[(n + 1) - 1] \o more[n + 1])
  <2>1. h[n + 1] = [j \in 1 .. Len(more) |-> IF j = 1 THEN more[j] ELSE h[j - 1] \o more[j]][n + 1]
    BY <1>1, Zenon DEF Joins
  <2> QED
    BY <1>0, <2>1
<1>3. CASE n = 0
  <2>1. FlattenSeq(seqs) = seqs /\ seqs = <<>>
    BY <1>3 DEF FlattenSeq
  <2>2. h[n + 1] = more[n + 1]
    BY <1>2, <1>3
  <2>3. <<>> \o more[n + 1] = more[n + 1]
    BY <1>0, ConcatEmptySeq
  <2> QED
    BY <1>0, <1>1, <2>1, <2>2, <2>3
<1>4. CASE n # 0
  <2>1. PICK g \in [1 .. Len(seqs) -> Seq(S)] : Joins(seqs, g) /\ FlattenSeq(seqs) = g[Len(seqs)]
    BY <1>4, FlattenIs
  <2>2. \A i \in 1 .. n : g[i] = h[i]
    <3>1. n =< Len(seqs) /\ n =< Len(more) /\ Agree(n, seqs, more)
      BY <1>0 DEF Agree
    <3>2. Agree(n, g, h)
      <4> HIDE DEF n
      <4>1. Len(seqs) \in Nat /\ Len(more) \in Nat /\ n \in Nat
        BY <1>0
      <4> QED
        BY <1>1, <2>1, <3>1, <4>1, JoinsAgree, Zenon
    <3> QED
      BY <3>2 DEF Agree
  <2>3. n \in 1 .. n /\ n + 1 # 1 /\ (n + 1) - 1 = n
    BY <1>0, <1>4
  <2> QED
    BY <1>0, <1>1, <1>2, <2>1, <2>2, <2>3
<1> QED
  BY <1>3, <1>4
-----------------------------------------------------------------------------
(* What the first calls of a program ask for. *)
AskedBy(p, n) == FlattenSeq([i \in 1 .. n |-> Text(p[i])])

LEMMA TextIsBytes ==
  ASSUME NEW p \in Programs, NEW i \in 1 .. Len(p)
  PROVE  /\ Len(p) \in Nat
         /\ Text(p[i]) \in Seq(Byte)
         /\ p[i].name = "print_int" => p[i].n \in IntMin .. IntMax /\ Text(p[i]) = Numeral(p[i].n)
         /\ p[i].name = "print_char" => Text(p[i]) = <<p[i].c>> /\ p[i].c \in Byte
         /\ p[i].name = "print_string" => Text(p[i]) = p[i].s /\ p[i].s \in Seq(Byte)
         /\ p[i].name \in {"print_int", "print_char", "print_string"}
<1> DEFINE call == p[i]
<1>1. /\ Len(p) \in Nat
      /\ \/ call.name = "print_int" /\ call.n \in IntMin .. IntMax
         \/ call.name = "print_char" /\ call.c \in STRING
         \/ call.name = "print_string" /\ call.s \in Seq(STRING)
  BY ShimAssumption DEF ShimAssumption
<1> HIDE DEF call
<1>2. CASE call.name = "print_int" /\ call.n \in IntMin .. IntMax
  <2>1. Text(call) = Numeral(call.n) /\ Numeral(call.n) \in Seq(Byte)
    BY <1>2, NumeralIs DEF Text
  <2> QED
    BY <1>1, <1>2, <2>1 DEF call
<1>3. CASE call.name = "print_char" /\ call.c \in STRING
  <2>1. call.c \in Byte
    BY <1>3 DEF Byte
  <2>2. Text(call) = <<call.c>> /\ <<call.c>> \in Seq(Byte)
    BY <1>3, <2>1 DEF Text
  <2> QED
    BY <1>1, <1>3, <2>1, <2>2 DEF call
<1>4. CASE call.name = "print_string" /\ call.s \in Seq(STRING)
  <2>1. call.s \in Seq(Byte)
    BY <1>4, SeqMonotonic DEF Byte
  <2>2. Text(call) = call.s
    BY <1>4 DEF Text
  <2> QED
    BY <1>1, <1>4, <2>1, <2>2 DEF call
<1> QED
  BY <1>1, <1>2, <1>3, <1>4

LEMMA AskedGrows ==
  ASSUME NEW p \in Programs, NEW n \in Nat, n < Len(p)
  PROVE  AskedBy(p, n + 1) = AskedBy(p, n) \o Text(p[n + 1])
<1> DEFINE seqs == [i \in 1 .. n |-> Text(p[i])]
           more == [i \in 1 .. n + 1 |-> Text(p[i])]
<1>1. Len(p) \in Nat
  BY ShimAssumption DEF ShimAssumption
<1>2. \A i \in 1 .. n + 1 : Text(p[i]) \in Seq(Byte)
  BY <1>1, TextIsBytes
<1>3. seqs \in [1 .. n -> Seq(Byte)] /\ more \in [1 .. n + 1 -> Seq(Byte)]
  BY <1>2
<1>4. more[n + 1] = Text(p[n + 1]) /\ \A i \in 1 .. n : more[i] = seqs[i]
  OBVIOUS
<1>5. AskedBy(p, n) = FlattenSeq(seqs) /\ AskedBy(p, n + 1) = FlattenSeq(more)
  BY DEF AskedBy
<1> HIDE DEF seqs, more
<1>6. seqs \in Seq(Seq(Byte)) /\ Len(seqs) = n
  BY <1>3, FunctionIsSeq
<1>7. more \in Seq(Seq(Byte)) /\ Len(more) = n + 1
  <2>1. n + 1 \in Nat
    OBVIOUS
  <2> QED
    BY <1>3, <2>1, FunctionIsSeq
<1>8. FlattenSeq(more) = FlattenSeq(seqs) \o more[Len(more)]
  <2>1. Len(more) = Len(seqs) + 1 /\ \A i \in 1 .. Len(seqs) : more[i] = seqs[i]
    BY <1>4, <1>6, <1>7
  <2> QED
    BY <1>6, <1>7, <2>1, FlattenOneMore
<1> QED
  BY <1>4, <1>5, <1>7, <1>8

LEMMA AskedIsBytes ==
  ASSUME NEW p \in Programs, NEW n \in Nat, n =< Len(p)
  PROVE  AskedBy(p, n) \in Seq(Byte)
<1> DEFINE seqs == [i \in 1 .. n |-> Text(p[i])]
<1>1. Len(p) \in Nat
  BY ShimAssumption DEF ShimAssumption
<1>2. \A i \in 1 .. n : Text(p[i]) \in Seq(Byte)
  BY <1>1, TextIsBytes
<1>3. seqs \in [1 .. n -> Seq(Byte)]
  BY <1>2
<1>4. AskedBy(p, n) = FlattenSeq(seqs)
  BY DEF AskedBy
<1> HIDE DEF seqs
<1>5. seqs \in Seq(Seq(Byte))
  BY <1>3, FunctionIsSeq
<1> QED
  BY <1>4, <1>5, FlattenIsSeq

LEMMA NothingAsked ==
  ASSUME NEW p
  PROVE  AskedBy(p, 0) = <<>>
<1>1. [i \in 1 .. 0 |-> Text(p[i])] = <<>>
  <2>1. 1 .. 0 = {}
    OBVIOUS
  <2> QED
    BY <2>1
<1>2. FlattenSeq(<<>>) = <<>>
  BY DEF FlattenSeq
<1> QED
  BY <1>1, <1>2 DEF AskedBy
-----------------------------------------------------------------------------
(* Parts of what was asked for. *)
LEMMA NothingIsPartOfNothing ==
  PartOf(<<>>, <<>>)
<1>1. {} \in SUBSET (1 .. Len(<<>>)) /\ Cardinality({}) = Len(<<>>)
  BY FS_EmptySet
<1> QED
  BY <1>1 DEF PartOf

LEMMA PartOfLonger ==
  ASSUME NEW S, NEW o \in Seq(S), NEW b \in Seq(S), NEW c \in Seq(S), PartOf(o, b)
  PROVE  PartOf(o, b \o c)
<1> DEFINE bc == b \o c
<1>1. bc \in Seq(S) /\ Len(bc) = Len(b) + Len(c) /\ \A i \in 1 .. Len(b) : bc[i] = b[i]
  OBVIOUS
<1> HIDE DEF bc
<1>2. PICK kept \in SUBSET (1 .. Len(b)) :
        /\ Cardinality(kept) = Len(o)
        /\ \A p \in kept : o[Cardinality({q \in kept : q =< p})] = b[p]
  BY DEF PartOf
<1>3. kept \in SUBSET (1 .. Len(bc))
  <2>1. Len(b) \in Nat /\ Len(c) \in Nat
    OBVIOUS
  <2> QED
    BY <1>1, <2>1
<1>4. \A p \in kept : o[Cardinality({q \in kept : q =< p})] = bc[p]
  BY <1>1, <1>2
<1>5. PartOf(o, bc)
  BY <1>2, <1>3, <1>4 DEF PartOf
<1> QED
  BY <1>5 DEF bc

LEMMA PartOfBoth ==
  ASSUME NEW S, NEW o \in Seq(S), NEW b \in Seq(S), NEW c \in Seq(S), PartOf(o, b)
  PROVE  PartOf(o \o c, b \o c)
<1> DEFINE bc == b \o c
           oc == o \o c
           nb == Len(b)
           no == Len(o)
           nc == Len(c)
<1>0. nb \in Nat /\ no \in Nat /\ nc \in Nat
  OBVIOUS
<1>1. /\ bc \in Seq(S) /\ Len(bc) = nb + nc
      /\ \A i \in 1 .. nb : bc[i] = b[i]
      /\ \A i \in 1 .. nc : bc[nb + i] = c[i]
  OBVIOUS
<1>2. /\ oc \in Seq(S) /\ Len(oc) = no + nc
      /\ \A i \in 1 .. no : oc[i] = o[i]
      /\ \A i \in 1 .. nc : oc[no + i] = c[i]
  OBVIOUS
<1>3. PICK kept \in SUBSET (1 .. nb) :
        /\ Cardinality(kept) = no
        /\ \A p \in kept : o[Cardinality({q \in kept : q =< p})] = b[p]
  BY DEF PartOf
<1> HIDE DEF bc, oc, nb, no, nc
<1>4. IsFiniteSet(kept)
  <2>1. IsFiniteSet(1 .. nb)
    BY <1>0, FS_Interval
  <2> QED
    BY <2>1, FS_Subset
<1> DEFINE all == kept \cup (nb + 1 .. nb + nc)
           upto(p) == {q \in all : q =< p}
(* The rank of a byte that was appended. *)
<1>5. \A i \in 0 .. nc : Cardinality(kept \cup (nb + 1 .. nb + i)) = no + i
  <2> SUFFICES ASSUME NEW i \in 0 .. nc
               PROVE  Cardinality(kept \cup (nb + 1 .. nb + i)) = no + i
    OBVIOUS
  <2> DEFINE tail == nb + 1 .. nb + i
  <2>1. IsFiniteSet(tail) /\ Cardinality(tail) = i
    <3>1. nb + 1 \in Int /\ nb + i \in Int
      BY <1>0
    <3>2. (IF nb + 1 > nb + i THEN 0 ELSE (nb + i) - (nb + 1) + 1) = i
      BY <1>0
    <3> QED
      BY <3>1, <3>2, FS_Interval
  <2>2. kept \cap tail = {}
    BY <1>0
  <2> HIDE DEF tail
  <2>3. Cardinality(kept \cap tail) = 0
    BY <2>2, FS_EmptySet
  <2>4. Cardinality(kept \cup tail) = Cardinality(kept) + Cardinality(tail) - Cardinality(kept \cap tail)
    BY <1>4, <2>1, FS_Union
  <2>5. Cardinality(kept \cup tail) = no + i
    BY <1>0, <1>3, <2>1, <2>3, <2>4
  <2> QED
    BY <2>5 DEF tail
<1>6. all \in SUBSET (1 .. Len(bc)) /\ Cardinality(all) = Len(oc)
  <2>1. all \in SUBSET (1 .. nb + nc)
    BY <1>0
  <2>2. nc \in 0 .. nc
    BY <1>0
  <2>3. Cardinality(all) = no + nc
    BY <1>5, <2>2
  <2> HIDE DEF all
  <2> QED
    BY <1>1, <1>2, <2>1, <2>3
<1>7. ASSUME NEW p \in all
      PROVE  oc[Cardinality(upto(p))] = bc[p]
  <2>1. CASE p \in kept
    <3> DEFINE before == {q \in kept : q =< p}
    <3>1. upto(p) = before
      BY <1>0, <2>1
    <3>2. IsFiniteSet(before) /\ Cardinality(before) =< Cardinality(kept)
      <4>1. before \in SUBSET kept
        OBVIOUS
      <4> HIDE DEF before
      <4> QED
        BY <1>4, <4>1, FS_Subset
    <3>3. Cardinality(before) \in Nat
      BY <3>2, FS_CardinalityType
    <3>4. Cardinality(before) # 0
      <4>1. p \in before
        BY <1>0, <2>1
      <4> HIDE DEF before
      <4> QED
        BY <3>2, <4>1, FS_EmptySet
    <3>5. Cardinality(before) \in 1 .. no
      <4> HIDE DEF before
      <4> QED
        BY <1>0, <1>3, <3>2, <3>3, <3>4
    <3>6. o[Cardinality(before)] = b[p] /\ p \in 1 .. nb
      BY <1>3, <2>1
    <3> HIDE DEF before, upto
    <3> QED
      BY <1>1, <1>2, <3>1, <3>5, <3>6
  <2>2. CASE p \notin kept
    <3>1. PICK i \in 1 .. nc : p = nb + i
      <4>1. p - nb \in 1 .. nc /\ p = nb + (p - nb)
        BY <1>0, <2>2
      <4> QED
        BY <4>1
    <3>2. upto(p) = kept \cup (nb + 1 .. nb + i)
      <4>1. \A q \in kept : q \in 1 .. nb /\ q =< p
        BY <1>0, <3>1
      <4>2. \A q \in nb + 1 .. nb + nc : q =< p <=> q \in nb + 1 .. nb + i
        BY <1>0, <3>1
      <4>3. nb + 1 .. nb + i \subseteq nb + 1 .. nb + nc
        BY <1>0, <3>1
      <4> QED
        BY <4>1, <4>2, <4>3
    <3>3. i \in 0 .. nc
      BY <1>0
    <3>4. Cardinality(upto(p)) = no + i
      BY <1>5, <3>2, <3>3
    <3> HIDE DEF upto
    <3> QED
      BY <1>1, <1>2, <3>1, <3>4
  <2> QED
    BY <2>1, <2>2
<1>8. PartOf(oc, bc)
  <2>1. \A p \in all : oc[Cardinality({q \in all : q =< p})] = bc[p]
    BY <1>7
  <2> HIDE DEF all
  <2> QED
    BY <1>6, <2>1 DEF PartOf
<1> QED
  BY <1>8 DEF bc, oc
-----------------------------------------------------------------------------
(* Sequences that are cut, and joined again. *)
LEMMA Rejoined ==
  ASSUME NEW S, NEW b \in Seq(S), NEW i \in 0 .. Len(b), NEW j \in i .. Len(b)
  PROVE  /\ SubSeq(b, i + 1, Len(b)) = SubSeq(b, i + 1, j) \o SubSeq(b, j + 1, Len(b))
         /\ SubSeq(b, i + 1, j) \in Seq(S)
         /\ SubSeq(b, j + 1, Len(b)) \in Seq(S)
<1>1. i + 1 \in 1 .. Len(b) + 1 /\ j \in (i + 1) - 1 .. Len(b) /\ Len(b) \in j .. Len(b)
  OBVIOUS
<1>2. SubSeq(b, i + 1, Len(b)) = SubSeq(b, i + 1, j) \o SubSeq(b, j + 1, Len(b))
  <2> DEFINE m == i + 1
             n == Len(b)
  <2>1. m \in 1 .. Len(b) + 1 /\ j \in m - 1 .. Len(b) /\ n \in j .. Len(b)
    BY <1>1
  <2>2. SubSeq(b, m, j) \o SubSeq(b, j + 1, n) = SubSeq(b, m, n)
    <3> HIDE DEF m, n
    <3> QED
      BY <2>1, ConcatAdjacentSubSeq
  <2> QED
    BY <2>2
<1>3. SubSeq(b, i + 1, j) \in Seq(S) /\ SubSeq(b, j + 1, Len(b)) \in Seq(S)
  OBVIOUS
<1> QED
  BY <1>2, <1>3

LEMMA Whole ==
  ASSUME NEW S, NEW b \in Seq(S)
  PROVE  SubSeq(b, 0 + 1, Len(b)) = b /\ SubSeq(b, Len(b) + 1, Len(b)) = <<>>
  OBVIOUS

LEMMA HeadThenTail ==
  ASSUME NEW S, NEW b \in Seq(S), b # <<>>
  PROVE  /\ <<Head(b)>> \in Seq(S) /\ Tail(b) \in Seq(S)
         /\ <<Head(b)>> \o Tail(b) = b
<1>1. Head(b) \in S /\ Tail(b) \in Seq(S)
  OBVIOUS
<1>2. <<Head(b)>> \in Seq(S)
  BY <1>1
<1>3. <<Head(b)>> \o Tail(b) = b
  OBVIOUS
<1> QED
  BY <1>1, <1>2, <1>3
-----------------------------------------------------------------------------
(* What the call being made has still to hand to write(2): the rest of     *)
(* what write_all was given, and of the string it is a byte of.            *)
Later == IF Call.name = "print_string" THEN s ELSE <<>>
Gone  == IF pc = "returned" /\ result > 0 THEN written + result ELSE written
Rest  ==
  IF pc \in {"digit", "sign"} THEN Text(Call)
  ELSE IF pc = "string" THEN s
  ELSE IF pc \in {"write", "returned"} THEN SubSeq(bytes, Gone + 1, Len(bytes)) \o Later
  ELSE <<>>

(* What has been asked for is what came through, or would have come if no  *)
(* write had failed, and that rest.                                        *)
Balanced(asked, rest, o, f) ==
  \E through \in Seq(Byte) :
    /\ asked = through \o rest
    /\ ~f => o = through
    /\ PartOf(o, through)

(* The digits stored so far are the last figures of the int, the magnitude *)
(* is what they leave of it, and there are as many as its numeral has when *)
(* the loop ends.                                                          *)
Numbered ==
  /\ pc = "digit" =>
       /\ digits = LastFigures(Call.n, Len(digits))
       /\ magnitude = Size(Call.n) \div Power[Len(digits)]
       /\ Len(digits) = 0 \/ Power[Len(digits)] =< Size(Call.n)
  /\ pc = "sign" =>
       /\ Len(digits) \in 1 .. BufferSize
       /\ digits = LastFigures(Call.n, Len(digits))
       /\ Size(Call.n) < Power[Len(digits)]
       /\ Len(digits) = 1 \/ Power[Len(digits) - 1] =< Size(Call.n)

Shape ==
  /\ pc \in {"program", "digit", "sign", "string", "write", "returned"}
  /\ made \in 0 .. Len(program)
  /\ pc # "program" => made >= 1
  /\ pc \in {"digit", "sign"} => Call.name = "print_int"
  /\ pc = "string" => Call.name = "print_string"
  /\ s \in Seq(Byte) /\ bytes \in Seq(Byte) /\ out \in Seq(Byte)
  /\ written \in 0 .. Len(bytes)
  /\ failed \in BOOLEAN

(* write(2) returned what it may, and a failure is remembered. *)
Returned ==
  pc = "returned" =>
    /\ result \in Int
    /\ result > 0 => written + result =< Len(bytes)
    /\ result =< 0 /\ ~failed => result < 0 /\ errno = "EINTR"

OInv ==
  /\ Shape
  /\ Returned
  /\ Numbered
  /\ Balanced(AskedBy(program, made), Rest, out, failed)

(* A call asks for its text, and has all of it before it. *)
LEMMA Asks ==
  ASSUME NEW asked, NEW text \in Seq(Byte), NEW o, NEW f, Balanced(asked, <<>>, o, f)
  PROVE  Balanced(asked \o text, text, o, f)
<1>1. PICK through \in Seq(Byte) : asked = through \o <<>> /\ (~f => o = through) /\ PartOf(o, through)
  BY DEF Balanced
<1>2. through \o <<>> = through
  BY ConcatEmptySeq
<1> QED
  BY <1>1, <1>2 DEF Balanced

(* What comes next is written. *)
LEMMA Comes ==
  ASSUME NEW asked, NEW now \in Seq(Byte), NEW later \in Seq(Byte), NEW o \in Seq(Byte), NEW f,
         Balanced(asked, now \o later, o, f)
  PROVE  Balanced(asked, later, o \o now, f)
<1>1. PICK through \in Seq(Byte) : asked = through \o (now \o later) /\ (~f => o = through) /\ PartOf(o, through)
  BY DEF Balanced
<1>2. through \o now \in Seq(Byte) /\ asked = (through \o now) \o later
  <2>1. (through \o now) \o later = through \o (now \o later)
    BY ConcatAssociative
  <2>2. through \o now \in Seq(Byte)
    BY ConcatProperties
  <2> QED
    BY <1>1, <2>1, <2>2
<1>3. ~f => o \o now = through \o now
  BY <1>1
<1>4. PartOf(o \o now, through \o now)
  BY <1>1, PartOfBoth
<1> QED
  BY <1>2, <1>3, <1>4 DEF Balanced

(* A failure loses it. *)
LEMMA IsLost ==
  ASSUME NEW asked, NEW now \in Seq(Byte), NEW later \in Seq(Byte), NEW o \in Seq(Byte), NEW f, f,
         Balanced(asked, now \o later, o, f)
  PROVE  Balanced(asked, later, o, f)
<1>1. PICK through \in Seq(Byte) : asked = through \o (now \o later) /\ PartOf(o, through)
  BY DEF Balanced
<1>2. through \o now \in Seq(Byte) /\ asked = (through \o now) \o later
  <2>1. (through \o now) \o later = through \o (now \o later)
    BY ConcatAssociative
  <2>2. through \o now \in Seq(Byte)
    BY ConcatProperties
  <2> QED
    BY <1>1, <2>1, <2>2
<1>3. PartOf(o, through \o now)
  BY <1>1, PartOfLonger
<1> QED
  BY <1>2, <1>3 DEF Balanced

(* A write(2) that loses nothing and writes nothing. *)
LEMMA Stays ==
  ASSUME NEW asked, NEW rest, NEW o, NEW f \in BOOLEAN, NEW f2 \in BOOLEAN, f => f2, Balanced(asked, rest, o, f)
  PROVE  Balanced(asked, rest, o, f2)
  BY DEF Balanced
-----------------------------------------------------------------------------
(* The rest, at each place the shim can be. *)
LEMMA RestIsBytes ==
  ASSUME program \in Programs, Shape, Returned
  PROVE  /\ Rest \in Seq(Byte)
         /\ pc \in {"write", "returned"} => Gone \in 0 .. Len(bytes) /\ Later \in Seq(Byte)
<1>1. pc \in {"digit", "sign"} => Text(Call) \in Seq(Byte)
  <2> HAVE pc \in {"digit", "sign"}
  <2>1. made \in 1 .. Len(program)
    BY DEF Shape
  <2> QED
    BY <2>1, TextIsBytes DEF Call
<1>2. Later \in Seq(Byte)
  <2>1. s \in Seq(Byte) /\ <<>> \in Seq(Byte)
    BY DEF Shape
  <2> QED
    BY <2>1 DEF Later
<1>3. pc \in {"write", "returned"} => Gone \in 0 .. Len(bytes)
  <2>1. Len(bytes) \in Nat /\ written \in 0 .. Len(bytes)
    BY DEF Shape
  <2> QED
    BY <2>1 DEF Gone, Returned
<1>4. pc \in {"write", "returned"} => SubSeq(bytes, Gone + 1, Len(bytes)) \o Later \in Seq(Byte)
  <2> HAVE pc \in {"write", "returned"}
  <2>1. bytes \in Seq(Byte) /\ Gone \in 0 .. Len(bytes) /\ Gone \in Gone .. Len(bytes)
    BY <1>3 DEF Shape
  <2>2. SubSeq(bytes, Gone + 1, Len(bytes)) \in Seq(Byte)
    BY <2>1, Rejoined
  <2> QED
    BY <1>2, <2>2, ConcatProperties
<1>5. s \in Seq(Byte) /\ <<>> \in Seq(Byte)
  BY DEF Shape
<1> QED
  BY <1>1, <1>2, <1>3, <1>4, <1>5 DEF Rest

LEMMA InitBalances ==
  Init => OInv
<1> SUFFICES ASSUME Init
             PROVE  OInv
  OBVIOUS
<1>1. /\ program \in Programs /\ made = 0 /\ pc = "program" /\ s = <<>> /\ bytes = <<>>
      /\ written = 0 /\ out = <<>> /\ failed = FALSE
  BY DEF Init
<1>2. Len(program) \in Nat
  BY <1>1, ShimAssumption DEF ShimAssumption
<1>3. Shape
  <2>1. <<>> \in Seq(Byte) /\ Len(<<>>) = 0
    OBVIOUS
  <2>2. made \in 0 .. Len(program)
    BY <1>1, <1>2
  <2>3. written \in 0 .. Len(bytes)
    <3>1. Len(bytes) = 0
      BY <1>1
    <3> QED
      BY <1>1, <3>1
  <2>4. s \in Seq(Byte) /\ bytes \in Seq(Byte) /\ out \in Seq(Byte)
    BY <1>1, <2>1
  <2> QED
    BY <1>1, <2>2, <2>3, <2>4 DEF Shape
<1>4. Returned /\ Numbered
  BY <1>1 DEF Returned, Numbered
<1>5. Rest = <<>> /\ AskedBy(program, made) = <<>>
  BY <1>1, NothingAsked DEF Rest
<1>6. Balanced(<<>>, <<>>, <<>>, FALSE)
  <2>1. <<>> \in Seq(Byte) /\ <<>> = <<>> \o <<>>
    OBVIOUS
  <2> QED
    BY <2>1, NothingIsPartOfNothing DEF Balanced
<1> QED
  BY <1>1, <1>3, <1>4, <1>5, <1>6 DEF OInv

(* The call that is made, and what has been asked for with it. *)
LEMMA CallMade ==
  ASSUME program \in Programs, Shape, NEW name, Calls(name), program' = program, made' = made + 1
  PROVE  /\ pc = "program"
         /\ made' \in 1 .. Len(program) /\ made' \in 0 .. Len(program') /\ made' >= 1
         /\ Call' = program[made + 1] /\ (Call').name = name
         /\ AskedBy(program', made') = AskedBy(program, made) \o Text(program[made + 1])
<1>1. /\ pc = "program" /\ made \in Nat /\ made < Len(program) /\ Len(program) \in Nat
      /\ program[made + 1].name = name
  <2>1. Len(program) \in Nat
    BY ShimAssumption DEF ShimAssumption
  <2> QED
    BY <2>1 DEF Calls, Shape
<1>2. AskedBy(program, made + 1) = AskedBy(program, made) \o Text(program[made + 1])
  BY <1>1, AskedGrows
<1>3. Call' = program[made + 1]
  BY DEF Call
<1> QED
  BY <1>1, <1>2, <1>3

(* A step that asks for nothing and writes nothing keeps the balance if it *)
(* keeps the rest.                                                         *)
LEMMA SameBalance ==
  ASSUME OInv, program' = program, made' = made, Rest' = Rest, out' = out,
         failed' \in BOOLEAN, failed => failed'
  PROVE  Balanced(AskedBy(program', made'), Rest', out', failed')
<1>1. Balanced(AskedBy(program, made), Rest, out, failed) /\ failed \in BOOLEAN
  BY DEF OInv, Shape
<1>2. Balanced(AskedBy(program, made), Rest, out, failed')
  BY <1>1, Stays
<1>3. AskedBy(program', made') = AskedBy(program, made)
  OBVIOUS
<1> QED
  BY <1>2, <1>3

(* One that makes a call keeps it if it leaves the call's text to do. *)
LEMMA CallBalances ==
  ASSUME OInv, program \in Programs, NEW name, Calls(name), program' = program, made' = made + 1,
         Rest' = Text(program[made + 1]), out' = out, failed' = failed
  PROVE  Balanced(AskedBy(program', made'), Rest', out', failed')
<1>1. Shape /\ Balanced(AskedBy(program, made), Rest, out, failed)
  BY DEF OInv
<1>2. pc = "program" /\ AskedBy(program', made') = AskedBy(program, made) \o Text(program[made + 1])
  BY <1>1, CallMade
<1>3. Rest = <<>>
  BY <1>2 DEF Rest
<1>4. Text(program[made + 1]) \in Seq(Byte)
  <2>1. made + 1 \in 1 .. Len(program)
    BY <1>1, CallMade
  <2> QED
    BY <2>1, TextIsBytes
<1> DEFINE asked == AskedBy(program, made)
           text == Text(program[made + 1])
<1>5. Balanced(asked \o text, text, out, failed)
  <2>1. Balanced(asked, <<>>, out, failed) /\ text \in Seq(Byte)
    BY <1>1, <1>3, <1>4
  <2> HIDE DEF asked, text
  <2> QED
    BY <2>1, Asks
<1> QED
  BY <1>2, <1>5

LEMMA PrintIntBalances ==
  ASSUME IInv, OInv, print_int
  PROVE  OInv'
<1>1. program \in Programs /\ Shape
  BY DEF IInv, OInv
<1>2. /\ Calls("print_int") /\ program' = program /\ made' = made + 1
      /\ magnitude' = Magnitude(program[made + 1].n) /\ digits' = <<>> /\ pc' = "digit"
      /\ s' = s /\ bytes' = bytes /\ written' = written /\ out' = out /\ failed' = failed
  BY DEF print_int, writing, kernel
<1>3. /\ made' \in 0 .. Len(program') /\ made' >= 1 /\ made + 1 \in 1 .. Len(program)
      /\ Call' = program[made + 1] /\ (Call').name = "print_int"
  BY <1>1, <1>2, CallMade
<1>4. Shape'
  BY <1>1, <1>2, <1>3 DEF Shape
<1>5. Returned'
  BY <1>2 DEF Returned
<1>6. (Call').n \in IntMin .. IntMax /\ magnitude' = Magnitude((Call').n)
  BY <1>1, <1>2, <1>3, TextIsBytes
<1>7. Numbered'
  <2> DEFINE n == (Call').n
  <2>1. magnitude' = Size(n) /\ Size(n) \in Nat
    <3> HIDE DEF n
    <3>1. n \in IntMin .. IntMax /\ magnitude' = Magnitude(n)
      BY <1>6 DEF n
    <3> QED
      BY <3>1, MagnitudeIsSize
  <2>2. digits' = <<>> /\ Len(digits') = 0
    BY <1>2
  <2>3. LastFigures(n, 0) = <<>>
    <3>1. 1 .. 0 = {}
      OBVIOUS
    <3> QED
      BY <3>1 DEF LastFigures
  <2>4. Power[0] = 1 /\ Size(n) \div 1 = Size(n)
    <3> HIDE DEF n
    <3> QED
      BY <2>1, Constants
  <2>5. /\ digits' = LastFigures(n, Len(digits'))
        /\ magnitude' = Size(n) \div Power[Len(digits')]
        /\ Len(digits') = 0
    <3> HIDE DEF n
    <3> QED
      BY <2>1, <2>2, <2>3, <2>4
  <2> QED
    BY <1>2, <2>5 DEF Numbered
<1>8. Rest' = Text(program[made + 1])
  <2>1. Rest' = Text(Call')
    BY <1>2 DEF Rest
  <2> QED
    BY <1>3, <2>1
<1>9. Balanced(AskedBy(program', made'), Rest', out', failed')
  BY <1>1, <1>2, <1>8, CallBalances
<1> QED
  BY <1>4, <1>5, <1>7, <1>9 DEF OInv

LEMMA StoreDigitBalances ==
  ASSUME IInv, OInv, store_digit
  PROVE  OInv'
<1>1. program \in Programs /\ Shape /\ Numbered /\ pc = "digit"
  BY DEF IInv, OInv, store_digit
<1>2. /\ program' = program /\ made' = made
      /\ digits' = <<Figure(magnitude % 10)>> \o digits
      /\ magnitude' = magnitude \div 10
      /\ pc' = IF GoesOn(magnitude) THEN "digit" ELSE "sign"
      /\ s' = s /\ bytes' = bytes /\ written' = written /\ out' = out /\ failed' = failed
  BY DEF store_digit, writing, kernel
<1>3. Call' = Call /\ Call.name = "print_int" /\ made \in 1 .. Len(program)
  BY <1>1, <1>2 DEF Call, Shape
<1>4. Shape'
  BY <1>1, <1>2, <1>3 DEF Shape
<1>5. Returned'
  BY <1>2 DEF Returned
<1> DEFINE n == Call.n
           k == Len(digits)
<1>6. n \in IntMin .. IntMax
  BY <1>1, <1>3, TextIsBytes DEF Call
<1>7. k \in 0 .. BufferSize - 2 /\ digits = LastFigures(n, k) /\ magnitude = Size(n) \div Power[k]
      /\ (k = 0 \/ Power[k] =< Size(n))
  <2>1. index \in 2 .. BufferSize /\ k = BufferSize - index /\ BufferSize \in Nat
    BY <1>1, Constants DEF IInv, RoomForTheRest
  <2> QED
    BY <1>1, <2>1 DEF Numbered
<1>8. /\ digits' = LastFigures(n, k + 1)
      /\ Len(digits') = k + 1
      /\ magnitude' = Size(n) \div Power[k + 1]
  <2> HIDE DEF n, k
  <2>1. k \in 0 .. BufferSize - 1 /\ BufferSize \in Nat /\ k + 1 \in 0 .. BufferSize
    BY <1>7, Constants
  <2>2. /\ <<Figure(magnitude % 10)>> \o LastFigures(n, k) = LastFigures(n, k + 1)
        /\ magnitude \div 10 = Size(n) \div Power[k + 1]
    BY <1>6, <1>7, <2>1, OneFigureMore
  <2>3. Len(LastFigures(n, k + 1)) = k + 1
    BY <1>6, <2>1, FiguresAreBytes
  <2> QED
    BY <1>2, <1>7, <2>2, <2>3
<1>9. /\ Power[k + 1] \in Nat \ {0} /\ Size(n) \in Nat
      /\ Size(n) < Power[k + 1] => ~GoesOn(magnitude)
      /\ ~(Size(n) < Power[k + 1]) => GoesOn(magnitude)
  <2> HIDE DEF n, k
  <2>1. k + 1 \in 0 .. BufferSize - 1
    BY <1>7, Constants
  <2>2. Power[k + 1] \in Nat \ {0} /\ Size(n) \in Nat
    BY <1>6, <2>1, TenTimes, MagnitudeIsSize
  <2>3. magnitude \div 10 = Size(n) \div Power[k + 1]
    BY <1>2, <1>8
  <2> DEFINE p == Power[k + 1]
             a == Size(n)
  <2>4. a < p => a \div p = 0
    <3> HIDE DEF p, a
    <3> SUFFICES ASSUME a < p
                 PROVE  a \div p = 0
      OBVIOUS
    <3>1. p \in Nat \ {0} /\ a \in 0 .. p - 1 /\ p * 0 + a = a
      BY <2>2 DEF p, a
    <3>2. (p * 0 + a) \div p = 0
      BY <3>1, QuotientIs
    <3> QED
      BY <3>1, <3>2
  <2>5. a \div p = 0 => a < p
    <3> HIDE DEF p, a
    <3> SUFFICES ASSUME a \div p = 0
                 PROVE  a < p
      OBVIOUS
    <3>1. p \in Nat \ {0} /\ a \in Int
      BY <2>2 DEF p, a
    <3>2. a % p \in 0 .. p - 1 /\ a = p * (a \div p) + (a % p)
      BY <3>1, Division
    <3>3. p * (a \div p) = 0
      BY <3>1
    <3> QED
      BY <3>1, <3>2, <3>3
  <2> QED
    BY <2>2, <2>3, <2>4, <2>5 DEF GoesOn
<1>10. Numbered'
  <2>1. (k + 1) - 1 = k /\ k + 1 \in 1 .. BufferSize
    <3> HIDE DEF n, k
    <3> QED
      BY <1>7, Constants
  <2>2. (Call').n = n
    BY <1>3
  <2>3. CASE GoesOn(magnitude)
    <3>1. pc' = "digit" /\ Power[k + 1] =< Size(n)
      <4> HIDE DEF n, k
      <4> QED
        BY <1>2, <1>9, <2>3
    <3>2. /\ digits' = LastFigures(n, Len(digits'))
          /\ magnitude' = Size(n) \div Power[Len(digits')]
          /\ Power[Len(digits')] =< Size(n)
      <4> HIDE DEF n, k
      <4> QED
        BY <1>8, <3>1
    <3> HIDE DEF n, k
    <3> QED
      BY <2>2, <3>1, <3>2 DEF Numbered
  <2>4. CASE ~GoesOn(magnitude)
    <3>1. pc' = "sign" /\ Size(n) < Power[k + 1]
      <4> HIDE DEF n, k
      <4> QED
        BY <1>2, <1>9, <2>4
    <3>2. /\ Len(digits') \in 1 .. BufferSize
          /\ digits' = LastFigures(n, Len(digits'))
          /\ Size(n) < Power[Len(digits')]
          /\ Len(digits') = 1 \/ Power[Len(digits') - 1] =< Size(n)
      <4> HIDE DEF n, k
      <4>1. k = 0 => k + 1 = 1
        OBVIOUS
      <4> QED
        BY <1>7, <1>8, <2>1, <3>1, <4>1
    <3> HIDE DEF n, k
    <3> QED
      BY <2>2, <3>1, <3>2 DEF Numbered
  <2> QED
    BY <2>3, <2>4
<1>11. Rest' = Rest
  <2>1. Rest' = Text(Call')
    BY <1>2 DEF Rest
  <2>2. Rest = Text(Call)
    BY <1>1 DEF Rest
  <2> QED
    BY <1>3, <2>1, <2>2
<1>12. Balanced(AskedBy(program', made'), Rest', out', failed')
  BY <1>1, <1>2, <1>11, SameBalance DEF Shape
<1> QED
  BY <1>4, <1>5, <1>10, <1>12 DEF OInv

(* write_all begins with all of its bytes to write. *)
LEMMA WriteBegins ==
  ASSUME NEW given \in Seq(Byte), Write(given)
  PROVE  /\ pc' = "write" /\ bytes' = given /\ written' = 0
         /\ written' \in 0 .. Len(bytes')
         /\ Rest' = given \o Later'
<1>1. bytes' = given /\ written' = 0 /\ pc' = "write"
  BY DEF Write
<1>2. Gone' = 0
  BY <1>1 DEF Gone
<1>3. Rest' = SubSeq(given, 0 + 1, Len(given)) \o Later'
  BY <1>1, <1>2 DEF Rest
<1>4. SubSeq(given, 0 + 1, Len(given)) = given
  BY Whole
<1>5. 0 \in 0 .. Len(given)
  OBVIOUS
<1> QED
  BY <1>1, <1>3, <1>4, <1>5

LEMMA StoreSignBalances ==
  ASSUME IInv, OInv, store_sign
  PROVE  OInv'
<1>1. program \in Programs /\ Shape /\ Numbered /\ pc = "sign"
  BY DEF IInv, OInv, store_sign
<1>2. /\ program' = program /\ made' = made
      /\ digits' = IF Call.n < 0 THEN <<"-">> \o digits ELSE digits
      /\ Write(digits')
      /\ s' = s /\ out' = out /\ failed' = failed
  BY DEF store_sign, kernel
<1>3. Call' = Call /\ Call.name = "print_int" /\ made \in 1 .. Len(program)
  BY <1>1, <1>2 DEF Call, Shape
<1> DEFINE n == Call.n
           k == Len(digits)
<1>4. n \in IntMin .. IntMax /\ Text(Call) = Numeral(n)
  BY <1>1, <1>3, TextIsBytes DEF Call
<1>5. /\ k \in 1 .. BufferSize /\ digits = LastFigures(n, k)
      /\ Size(n) < Power[k] /\ (k = 1 \/ Power[k - 1] =< Size(n))
  BY <1>1 DEF Numbered
<1>6. NumeralLength(n) = k
  <2> HIDE DEF n, k
  <2> QED
    BY <1>4, <1>5, NumeralLengthIs
<1>7. digits' = Numeral(n) /\ Numeral(n) \in Seq(Byte)
  <2>1. Numeral(n) = Sign(n) \o LastFigures(n, NumeralLength(n)) /\ Numeral(n) \in Seq(Byte)
    <3> HIDE DEF n, k
    <3> QED
      BY <1>4, NumeralIs
  <2>2. Numeral(n) = Sign(n) \o digits
    <3> HIDE DEF n, k
    <3> QED
      BY <1>5, <1>6, <2>1
  <2>3. digits \in Seq(Characters) /\ <<>> \o digits = digits
    BY ConcatEmptySeq DEF IInv
  <2>4. digits' = Sign(n) \o digits
    BY <1>2, <2>3 DEF Sign
  <2> HIDE DEF n
  <2> QED
    BY <2>1, <2>2, <2>4
<1>8. pc' = "write" /\ bytes' = digits' /\ written' \in 0 .. Len(bytes') /\ Rest' = digits' \o Later'
  <2>1. digits' \in Seq(Byte)
    BY <1>7
  <2> QED
    BY <1>2, <2>1, WriteBegins, Zenon
<1>9. Shape'
  BY <1>1, <1>2, <1>3, <1>7, <1>8 DEF Shape
<1>10. Returned' /\ Numbered'
  BY <1>8 DEF Returned, Numbered
<1>11. Rest' = Rest
  <2>1. Rest = Numeral(n)
    <3>1. Rest = Text(Call)
      BY <1>1 DEF Rest
    <3> QED
      BY <1>4, <3>1
  <2>2. Later' = <<>>
    BY <1>3 DEF Later
  <2>3. digits' \o <<>> = digits'
    BY <1>7, ConcatEmptySeq
  <2> QED
    BY <1>7, <1>8, <2>1, <2>2, <2>3
<1>12. Balanced(AskedBy(program', made'), Rest', out', failed')
  BY <1>1, <1>2, <1>11, SameBalance DEF Shape
<1> QED
  BY <1>9, <1>10, <1>12 DEF OInv

LEMMA PrintCharBalances ==
  ASSUME IInv, OInv, print_char
  PROVE  OInv'
<1>1. program \in Programs /\ Shape
  BY DEF IInv, OInv
<1> DEFINE text == <<program[made + 1].c>>
<1>2. /\ Calls("print_char") /\ program' = program /\ made' = made + 1 /\ Write(text)
      /\ s' = s /\ out' = out /\ failed' = failed
  BY DEF print_char, kernel
<1>3. /\ made' \in 0 .. Len(program') /\ made' >= 1 /\ made + 1 \in 1 .. Len(program)
      /\ Call' = program[made + 1] /\ (Call').name = "print_char"
  BY <1>1, <1>2, CallMade
<1>4. text = Text(program[made + 1]) /\ text \in Seq(Byte)
  BY <1>1, <1>3, TextIsBytes
<1>5. pc' = "write" /\ bytes' = text /\ written' \in 0 .. Len(bytes') /\ Rest' = text \o Later'
  <2> HIDE DEF text
  <2> QED
    BY <1>2, <1>4, WriteBegins
<1>6. Shape'
  <2> HIDE DEF text
  <2> QED
    BY <1>1, <1>2, <1>3, <1>4, <1>5 DEF Shape
<1>7. Returned' /\ Numbered'
  BY <1>5 DEF Returned, Numbered
<1>8. Rest' = Text(program[made + 1])
  <2>1. Later' = <<>>
    BY <1>3 DEF Later
  <2> HIDE DEF text
  <2>2. text \o <<>> = text
    BY <1>4, ConcatEmptySeq
  <2> QED
    BY <1>4, <1>5, <2>1, <2>2
<1>9. Balanced(AskedBy(program', made'), Rest', out', failed')
  BY <1>1, <1>2, <1>8, CallBalances
<1> QED
  BY <1>6, <1>7, <1>9 DEF OInv

LEMMA PrintStringBalances ==
  ASSUME IInv, OInv, print_string
  PROVE  OInv'
<1>1. program \in Programs /\ Shape
  BY DEF IInv, OInv
<1>2. /\ Calls("print_string") /\ program' = program /\ made' = made + 1
      /\ s' = program[made + 1].s /\ pc' = "string"
      /\ bytes' = bytes /\ written' = written /\ out' = out /\ failed' = failed
  BY DEF print_string, writing, kernel
<1>3. /\ made' \in 0 .. Len(program') /\ made' >= 1 /\ made + 1 \in 1 .. Len(program)
      /\ Call' = program[made + 1] /\ (Call').name = "print_string"
  BY <1>1, <1>2, CallMade
<1>4. s' = Text(program[made + 1]) /\ s' \in Seq(Byte)
  BY <1>1, <1>2, <1>3, TextIsBytes
<1>5. Shape'
  BY <1>1, <1>2, <1>3, <1>4 DEF Shape
<1>6. Returned' /\ Numbered'
  BY <1>2 DEF Returned, Numbered
<1>7. Rest' = Text(program[made + 1])
  BY <1>2, <1>4 DEF Rest
<1>8. Balanced(AskedBy(program', made'), Rest', out', failed')
  BY <1>1, <1>2, <1>7, CallBalances
<1> QED
  BY <1>5, <1>6, <1>8 DEF OInv

LEMMA NextCharBalances ==
  ASSUME IInv, OInv, next_char
  PROVE  OInv'
<1>1. program \in Programs /\ Shape /\ pc = "string" /\ s # <<>>
  BY DEF IInv, OInv, next_char
<1>2. /\ program' = program /\ made' = made /\ Write(<<Head(s)>>)
      /\ s' = Tail(s) /\ out' = out /\ failed' = failed
  BY DEF next_char, kernel
<1>3. Call' = Call /\ Call.name = "print_string"
  BY <1>1, <1>2 DEF Call, Shape
<1>4. <<Head(s)>> \in Seq(Byte) /\ Tail(s) \in Seq(Byte) /\ <<Head(s)>> \o Tail(s) = s
  BY <1>1, HeadThenTail DEF Shape
<1>5. pc' = "write" /\ bytes' = <<Head(s)>> /\ written' \in 0 .. Len(bytes') /\ Rest' = <<Head(s)>> \o Later'
  BY <1>2, <1>4, WriteBegins
<1>6. Shape'
  BY <1>1, <1>2, <1>3, <1>4, <1>5 DEF Shape
<1>7. Returned' /\ Numbered'
  BY <1>5 DEF Returned, Numbered
<1>8. Rest' = Rest
  <2>1. Later' = Tail(s)
    BY <1>2, <1>3 DEF Later
  <2>2. Rest = s
    BY <1>1 DEF Rest
  <2> QED
    BY <1>4, <1>5, <2>1, <2>2
<1>9. Balanced(AskedBy(program', made'), Rest', out', failed')
  BY <1>1, <1>2, <1>8, SameBalance DEF Shape
<1> QED
  BY <1>6, <1>7, <1>9 DEF OInv

LEMMA EndOfStringBalances ==
  ASSUME IInv, OInv, end_of_string
  PROVE  OInv'
<1>1. program \in Programs /\ Shape /\ pc = "string" /\ s = <<>>
  BY DEF IInv, OInv, end_of_string
<1>2. /\ program' = program /\ made' = made /\ pc' = "program"
      /\ s' = s /\ bytes' = bytes /\ written' = written /\ out' = out /\ failed' = failed
  BY DEF end_of_string, writing, kernel
<1>3. Shape'
  BY <1>1, <1>2 DEF Shape
<1>4. Returned' /\ Numbered'
  BY <1>2 DEF Returned, Numbered
<1>5. Rest' = Rest
  BY <1>1, <1>2 DEF Rest
<1>6. Balanced(AskedBy(program', made'), Rest', out', failed')
  BY <1>1, <1>2, <1>5, SameBalance DEF Shape
<1> QED
  BY <1>3, <1>4, <1>6 DEF OInv

LEMMA WriteSomeBalances ==
  ASSUME IInv, OInv, write_some
  PROVE  OInv'
<1>1. /\ program \in Programs /\ Shape /\ Returned /\ pc = "write"
      /\ Balanced(AskedBy(program, made), Rest, out, failed)
  BY DEF IInv, OInv, write_some
<1>2. /\ program' = program /\ made' = made /\ pc' = "returned"
      /\ s' = s /\ bytes' = bytes /\ written' = written /\ failed' = failed
  BY DEF write_some, writing
<1>3. PICK k \in 1 .. Len(bytes) - written :
        result' = k /\ out' = out \o SubSeq(bytes, written + 1, written + k)
  BY DEF write_some
<1> DEFINE n == Len(bytes)
           front == SubSeq(bytes, written + 1, written + k)
           back == SubSeq(bytes, (written + k) + 1, n)
<1>4. bytes \in Seq(Byte) /\ written \in 0 .. n /\ n \in Nat /\ written + k \in written .. n /\ k \in Nat /\ k > 0
  BY <1>1 DEF Shape
<1>5. /\ SubSeq(bytes, written + 1, n) = front \o back
      /\ front \in Seq(Byte) /\ back \in Seq(Byte)
  BY <1>4, Rejoined
<1>6. Later \in Seq(Byte) /\ Rest = SubSeq(bytes, written + 1, n) \o Later
  <2>1. Gone = written
    BY <1>1 DEF Gone
  <2> QED
    BY <1>1, <2>1, RestIsBytes DEF Rest
<1>7. Rest' = back \o Later
  <2>1. Gone' = written + k
    BY <1>2, <1>3, <1>4 DEF Gone
  <2>2. Later' = Later
    BY <1>2 DEF Later, Call
  <2> QED
    BY <1>2, <2>1, <2>2 DEF Rest
<1>8. out \in Seq(Byte) /\ failed \in BOOLEAN
  BY <1>1 DEF Shape
<1> HIDE DEF n, front, back
<1>9. out' \in Seq(Byte) /\ out' = out \o front
  <2>1. out' = out \o front
    BY <1>3 DEF front
  <2> QED
    BY <1>5, <1>8, <2>1, ConcatProperties
<1>10. Shape'
  BY <1>1, <1>2, <1>9 DEF Shape
<1>11. Returned' /\ Numbered'
  <2>1. result' \in Int /\ result' > 0 /\ written' + result' =< Len(bytes')
    BY <1>2, <1>3, <1>4 DEF n
  <2> QED
    BY <1>2, <2>1 DEF Returned, Numbered
<1>12. Balanced(AskedBy(program', made'), Rest', out', failed')
  <2> DEFINE asked == AskedBy(program, made)
             later == back \o Later
  <2>1. Rest = front \o later /\ later \in Seq(Byte)
    <3>1. (front \o back) \o Later = front \o (back \o Later)
      <4>1. front \in Seq(Byte) /\ back \in Seq(Byte) /\ Later \in Seq(Byte)
        BY <1>5, <1>6
      <4> QED
        BY <4>1, ConcatAssociative
    <3>2. back \o Later \in Seq(Byte)
      BY <1>5, <1>6, ConcatProperties
    <3> QED
      BY <1>5, <1>6, <3>1, <3>2
  <2>2. Balanced(asked, front \o later, out, failed)
    BY <1>1, <2>1
  <2>3. Rest' = later /\ AskedBy(program', made') = asked
    BY <1>2, <1>7
  <2> HIDE DEF asked, later
  <2>4. Balanced(asked, later, out \o front, failed)
    BY <1>5, <1>8, <2>1, <2>2, Comes
  <2>5. Balanced(asked, later, out', failed)
    BY <1>9, <2>4
  <2> QED
    BY <1>2, <2>3, <2>5
<1> QED
  BY <1>10, <1>11, <1>12 DEF OInv

LEMMA WriteStopsBalances ==
  ASSUME IInv, OInv, write_nothing \/ write_interrupted
  PROVE  OInv'
<1>1. program \in Programs /\ Shape /\ Returned /\ pc = "write"
  BY DEF IInv, OInv, write_nothing, write_interrupted
<1>2. /\ program' = program /\ made' = made /\ pc' = "returned"
      /\ s' = s /\ bytes' = bytes /\ written' = written /\ out' = out
  BY DEF write_nothing, write_interrupted, writing
<1>3. /\ result' \in {0, -1} /\ failed' \in BOOLEAN /\ (failed => failed')
      /\ ~failed' => result' = -1 /\ errno' = "EINTR"
  BY <1>1 DEF write_nothing, write_interrupted, Shape
<1>4. Shape'
  BY <1>1, <1>2, <1>3 DEF Shape
<1>5. Returned' /\ Numbered'
  <2>1. result' \in Int /\ ~(result' > 0) /\ (~failed' => result' < 0 /\ errno' = "EINTR")
    BY <1>3
  <2> QED
    BY <1>2, <2>1 DEF Returned, Numbered
<1>6. Rest' = Rest
  <2>1. ~(result' > 0)
    BY <1>3
  <2>2. Gone = written /\ Gone' = written
    BY <1>1, <1>2, <2>1 DEF Gone
  <2>3. Later' = Later
    BY <1>2 DEF Later, Call
  <2> QED
    BY <1>1, <1>2, <2>2, <2>3 DEF Rest
<1>7. Balanced(AskedBy(program', made'), Rest', out', failed')
  BY <1>2, <1>3, <1>6, SameBalance
<1> QED
  BY <1>4, <1>5, <1>7 DEF OInv

(* What is left when write_all returns. *)
LEMMA BackLeaves ==
  ASSUME BackToCaller, program' = program, made' = made, s' = s
  PROVE  Rest' = Later /\ pc' \in {"string", "program"} /\ (pc' = "string" => (Call').name = "print_string")
<1>1. Call' = Call /\ Later' = Later
  BY DEF Later, Call
<1>2. CASE Call.name = "print_string"
  <2>1. pc' = "string"
    BY <1>2 DEF BackToCaller
  <2> QED
    BY <1>1, <1>2, <2>1 DEF Rest, Later
<1>3. CASE Call.name # "print_string"
  <2>1. pc' = "program"
    BY <1>3 DEF BackToCaller
  <2> QED
    BY <1>3, <2>1 DEF Rest, Later
<1> QED
  BY <1>2, <1>3

LEMMA ResultBalances ==
  ASSUME IInv, OInv, result_of_write
  PROVE  OInv'
<1>1. /\ program \in Programs /\ Shape /\ Returned /\ pc = "returned"
      /\ Balanced(AskedBy(program, made), Rest, out, failed)
  BY DEF IInv, OInv, result_of_write
<1>2. /\ program' = program /\ made' = made
      /\ s' = s /\ bytes' = bytes /\ out' = out /\ failed' = failed
      /\ \/ GivesUp /\ BackToCaller /\ written' = written
         \/ ~GivesUp /\ result =< 0 /\ pc' = "write" /\ written' = written
         \/ ~GivesUp /\ result > 0 /\ pc' = "write" /\ written' = WrittenSoFar
  BY DEF result_of_write, kernel
<1>3. /\ result \in Int /\ Len(bytes) \in Nat /\ written \in 0 .. Len(bytes)
      /\ result > 0 => written + result =< Len(bytes)
      /\ result =< 0 /\ ~failed => result < 0 /\ errno = "EINTR"
      /\ bytes \in Seq(Byte) /\ out \in Seq(Byte) /\ failed \in BOOLEAN
  BY <1>1 DEF Returned, Shape
<1>4. CASE GivesUp /\ BackToCaller /\ written' = written
  <2>1. failed /\ ~(result > 0)
    BY <1>3, <1>4 DEF GivesUp
  <2>2. Rest' = Later /\ pc' \in {"string", "program"} /\ (pc' = "string" => (Call').name = "print_string")
    BY <1>2, <1>4, BackLeaves
  <2>3. Shape'
    BY <1>1, <1>2, <1>4, <2>2 DEF Shape
  <2>4. Returned' /\ Numbered'
    BY <2>2 DEF Returned, Numbered
  <2>5. Balanced(AskedBy(program', made'), Rest', out', failed')
    <3> DEFINE asked == AskedBy(program, made)
               lost == SubSeq(bytes, written + 1, Len(bytes))
    <3>1. Gone = written
      BY <2>1 DEF Gone
    <3>2. Rest = lost \o Later /\ Later \in Seq(Byte)
      BY <1>1, <3>1, RestIsBytes DEF Rest
    <3>3. lost \in Seq(Byte)
      <4>1. written \in written .. Len(bytes)
        BY <1>3
      <4> QED
        BY <1>3, <4>1, Rejoined
    <3>4. Balanced(asked, lost \o Later, out, failed)
      BY <1>1, <3>2
    <3>5. AskedBy(program', made') = asked
      BY <1>2
    <3> HIDE DEF asked, lost
    <3>6. Balanced(asked, Later, out, failed)
      BY <1>3, <2>1, <3>2, <3>3, <3>4, IsLost
    <3> QED
      BY <1>2, <2>2, <3>5, <3>6
  <2> QED
    BY <2>3, <2>4, <2>5 DEF OInv
<1>5. CASE /\ ~GivesUp /\ pc' = "write"
           /\ \/ result =< 0 /\ written' = written
              \/ result > 0 /\ written' = WrittenSoFar
  <2>1. written' = Gone /\ written' \in 0 .. Len(bytes)
    BY <1>1, <1>3, <1>5 DEF Gone, WrittenSoFar
  <2>2. Shape'
    BY <1>1, <1>2, <1>5, <2>1 DEF Shape
  <2>3. Returned' /\ Numbered'
    BY <1>5 DEF Returned, Numbered
  <2>4. Rest' = Rest
    <3>1. Gone' = written' /\ Later' = Later
      BY <1>2, <1>5 DEF Gone, Later, Call
    <3> QED
      BY <1>1, <1>2, <1>5, <2>1, <3>1 DEF Rest
  <2>5. Balanced(AskedBy(program', made'), Rest', out', failed')
    BY <1>2, <1>3, <2>4, SameBalance
  <2> QED
    BY <2>2, <2>3, <2>5 DEF OInv
<1> QED
  BY <1>2, <1>4, <1>5

LEMMA AllWrittenBalances ==
  ASSUME IInv, OInv, all_written
  PROVE  OInv'
<1>1. program \in Programs /\ Shape /\ Returned /\ pc = "write" /\ ~(written < Len(bytes))
  BY DEF IInv, OInv, all_written
<1>2. /\ program' = program /\ made' = made /\ BackToCaller
      /\ s' = s /\ bytes' = bytes /\ written' = written /\ out' = out /\ failed' = failed
  BY DEF all_written, writing, kernel
<1>3. Rest' = Later /\ pc' \in {"string", "program"} /\ (pc' = "string" => (Call').name = "print_string")
  BY <1>2, BackLeaves
<1>4. Shape'
  BY <1>1, <1>2, <1>3 DEF Shape
<1>5. Returned' /\ Numbered'
  BY <1>3 DEF Returned, Numbered
<1>6. Rest' = Rest
  <2>1. written = Len(bytes) /\ bytes \in Seq(Byte)
    BY <1>1 DEF Shape
  <2>2. Gone = Len(bytes)
    BY <1>1, <2>1 DEF Gone
  <2>3. Rest = SubSeq(bytes, Len(bytes) + 1, Len(bytes)) \o Later /\ Later \in Seq(Byte)
    BY <1>1, <2>2, RestIsBytes DEF Rest
  <2>4. SubSeq(bytes, Len(bytes) + 1, Len(bytes)) = <<>>
    BY <2>1, Whole
  <2>5. <<>> \o Later = Later
    BY <2>3, ConcatEmptySeq
  <2> QED
    BY <1>3, <2>3, <2>4, <2>5
<1>7. Balanced(AskedBy(program', made'), Rest', out', failed')
  BY <1>1, <1>2, <1>6, SameBalance DEF Shape
<1> QED
  BY <1>4, <1>5, <1>7 DEF OInv

LEMMA StutterBalances ==
  ASSUME OInv, UNCHANGED vars
  PROVE  OInv'
<1>1. /\ program' = program /\ made' = made /\ pc' = pc /\ magnitude' = magnitude /\ index' = index
      /\ digits' = digits /\ s' = s /\ bytes' = bytes /\ written' = written /\ result' = result
      /\ errno' = errno /\ out' = out /\ failed' = failed
  BY DEF vars
<1>2. Call' = Call
  BY <1>1 DEF Call
<1>3. Shape' /\ Returned' /\ Numbered' /\ Rest' = Rest
  BY <1>1, <1>2 DEF OInv, Shape, Returned, Numbered, Rest, Gone, Later
<1> QED
  BY <1>1, <1>3 DEF OInv

LEMMA NextBalances ==
  IInv /\ OInv /\ [Next]_vars => OInv'
<1> SUFFICES ASSUME IInv, OInv, [Next]_vars
             PROVE  OInv'
  OBVIOUS
<1>1. CASE print_int \/ store_digit \/ store_sign
  BY <1>1, PrintIntBalances, StoreDigitBalances, StoreSignBalances
<1>2. CASE print_char \/ print_string
  BY <1>2, PrintCharBalances, PrintStringBalances
<1>3. CASE next_char \/ end_of_string
  BY <1>3, NextCharBalances, EndOfStringBalances
<1>4. CASE write_some \/ write_nothing \/ write_interrupted
  BY <1>4, WriteSomeBalances, WriteStopsBalances
<1>5. CASE result_of_write \/ all_written
  BY <1>5, ResultBalances, AllWrittenBalances
<1>6. CASE UNCHANGED vars
  BY <1>6, StutterBalances
<1> QED
  BY <1>1, <1>2, <1>3, <1>4, <1>5, <1>6 DEF Next

(* What the balance says of the output. *)
LEMMA BalanceMeansOrder ==
  IInv /\ OInv => EveryByteOnceInOrder
<1> SUFFICES ASSUME IInv, OInv
             PROVE  EveryByteOnceInOrder
  OBVIOUS
<1>1. program \in Programs /\ Shape /\ Returned
  BY DEF IInv, OInv
<1>2. Rest \in Seq(Byte)
  BY <1>1, RestIsBytes
<1>3. Asked = AskedBy(program, made)
  BY DEF Asked, AskedBy
<1>4. PICK through \in Seq(Byte) : Asked = through \o Rest /\ (~failed => out = through) /\ PartOf(out, through)
  BY <1>3 DEF OInv, Balanced
<1>5. out \in Seq(Byte)
  BY <1>1 DEF Shape
<1>6. PartOf(out, Asked)
  <2>1. PartOf(out, through \o Rest)
    BY <1>2, <1>4, <1>5, PartOfLonger
  <2> QED
    BY <1>4, <2>1
<1>7. ~failed => IsPrefix(out, Asked)
  <2> HAVE ~failed
  <2> DEFINE all == out \o Rest
  <2>1. Asked = all
    BY <1>4
  <2>2. /\ all \in Seq(Byte) /\ Len(out) =< Len(all) /\ Len(out) \in Nat /\ Len(all) \in Nat
        /\ \A i \in 1 .. Len(out) : all[i] = out[i]
    BY <1>2, <1>5
  <2> HIDE DEF all
  <2>3. SubSeq(out, 1, Len(out)) = SubSeq(all, 1, Len(out))
    <3>1. /\ SubSeq(all, 1, Len(out)) \in Seq(Byte) /\ Len(SubSeq(all, 1, Len(out))) = Len(out)
          /\ \A i \in 1 .. Len(out) : SubSeq(all, 1, Len(out))[i] = all[i]
      <4>1. Len(out) \in 0 .. Len(all)
        BY <2>2
      <4> QED
        BY <2>2, <4>1, PrefixOfSeq
    <3>2. SubSeq(out, 1, Len(out)) = out
      BY <1>5, SubSeqFull
    <3>3. out = SubSeq(all, 1, Len(out))
      <4> DEFINE front == SubSeq(all, 1, Len(out))
      <4>1. front \in Seq(Byte) /\ Len(front) = Len(out) /\ \A i \in 1 .. Len(out) : out[i] = front[i]
        BY <2>2, <3>1
      <4> HIDE DEF front
      <4>2. out = front
        BY <1>5, <4>1, SeqEqual
      <4> QED
        BY <4>2 DEF front
    <3> QED
      BY <3>2, <3>3
  <2> QED
    BY <2>1, <2>2, <2>3 DEF IsPrefix
<1>8. ~failed /\ pc = "program" => out = Asked
  <2> HAVE ~failed /\ pc = "program"
  <2>1. Rest = <<>>
    BY DEF Rest
  <2>2. through \o <<>> = through
    BY ConcatEmptySeq
  <2> QED
    BY <1>4, <2>1, <2>2
<1> QED
  BY <1>6, <1>7, <1>8 DEF EveryByteOnceInOrder

(* Whatever programs print, and however write(2) cuts up, interrupts or    *)
(* refuses what write_all gives it: as long as nothing was refused the     *)
(* output is what was asked for, and it never has a byte twice or moved.   *)
THEOREM EveryByteComesOnce == Spec => []EveryByteOnceInOrder
<1>1. Spec => []OInv
  <2>1. Init => OInv
    BY InitBalances
  <2>2. IInv /\ OInv /\ [Next]_vars => OInv'
    BY NextBalances
  <2> QED
    BY <2>1, <2>2, RoomIsLeft, PTL DEF Spec
<1>2. IInv /\ OInv => EveryByteOnceInOrder
  BY BalanceMeansOrder
<1> QED
  BY <1>1, <1>2, RoomIsLeft, PTL
=============================================================================
