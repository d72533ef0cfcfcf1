---------------------------- MODULE ParserProofs ----------------------------
(***************************************************************************)
(* Two results about recovery, for every stream of tokens, valid or not,   *)
(* and every limit.  The second, that a block ends at the brace matching   *)
(* its own, has its argument at the head of its part.                      *)
(*                                                                         *)
(* The first: no way out of a construct leaves its levels charged to what  *)
(* the parser reads next.                                                  *)
(*                                                                         *)
(* The argument.  The calls still to make are numbered from the last one,  *)
(* so that the number of a call does not change until it is made.  A call  *)
(* of the statement grammar is to run at the depth that is the number of   *)
(* statements it is inside of: its level.  Either nothing between now and  *)
(* then changes the depth, and the depth is that level already; or the     *)
(* last call before it that does is a restoring_depth that puts that level *)
(* back (GivenBack).  A call that deepens without giving back - the        *)
(* operators of a chain, a prefix or a postfix operator - is only ever     *)
(* made inside such a restoring_depth, and an error that leaves a construct*)
(* runs every restoring_depth on the way to the loop that catches it.      *)
(***************************************************************************)
EXTENDS Parser, SequenceTheorems, FiniteSetTheorems, WellFoundedInduction, TLAPS

(* A prefix of a sequence. *)
LEMMA PrefixOfSeq ==
  ASSUME NEW S, NEW s \in Seq(S), NEW n \in 0 .. Len(s)
  PROVE  /\ SubSeq(s, 1, n) \in Seq(S)
         /\ Len(SubSeq(s, 1, n)) = n
         /\ \A i \in 1 .. n : SubSeq(s, 1, n)[i] = s[i]
  OBVIOUS

(* A nonempty set of numbers has a least member. *)
LEMMA HasLeast ==
  ASSUME NEW S, S \subseteq Nat, S # {}
  PROVE  \E i \in S : \A j \in S : i <= j
<1>1. PICK i \in S : \A j \in S : <<j, i>> \notin OpToRel(<, Nat)
  BY WFMin, NatLessThanWellFounded
<1>2. \A j \in S : ~(j < i)
  BY <1>1 DEF OpToRel
<1>3. \A j \in S : i <= j
  BY <1>2
<1> QED
  BY <1>3

(* A nonempty set of positions has a greatest member. *)
LEMMA HasGreatest ==
  ASSUME NEW n \in Nat, NEW S, S \subseteq 1 .. n, S # {}
  PROVE  \E i \in S : \A j \in S : j <= i
<1> DEFINE T == {n - j : j \in S}
<1>1. T \subseteq Nat /\ T # {}
  <2>1. \A j \in S : j \in 1 .. n /\ n - j \in Nat
    OBVIOUS
  <2> QED
    BY <2>1
<1>2. \E x \in T : \A y \in T : x <= y
  <2> HIDE DEF T
  <2> QED
    BY <1>1, HasLeast
<1>3. PICK i \in S : \A y \in T : n - i <= y
  BY <1>2
<1>4. \A j \in S : n - i <= n - j
  BY <1>3
<1>5. \A j \in S : j <= i
  BY <1>4
<1> QED
  BY <1>5

(* Calls that may leave the depth other than they found it, and the calls  *)
(* of the statement grammar, which have a level.                           *)
Unsteady == {"restore", "deepen", "unary_inner", "binary_chain", "postfix"}
Levelled == {"program", "item", "rest_of_item", "rest_of_function", "block", "block_items",
             "block_item", "statement", "statement_inner", "else_branch"}

Steady == {call \in Item : call.do \notin Unsteady}
Plain  == {call \in Item : call.do \notin Unsteady \cup Levelled}
Leaky  == {call \in Item : call.do \notin Levelled \cup {"restore"}}

(* The call made b-th from last, the level it is at, and whether all calls *)
(* made between two of them are steady.                                    *)
Low(w, b)   == w[Len(w) + 1 - b]
Below(w, b) == {c \in 1 .. b : Low(w, c).do = "restore"}
Level(w, b) == Cardinality(Below(w, b))
SteadyBetween(w, b, m) == \A c \in b + 1 .. m - 1 : Low(w, c).do \notin Unsteady

(* It will be made at its level: by the depth as it is, by the restoring   *)
(* that comes before it, or once the level that is opening is open.        *)
Now(w, d, b)     == SteadyBetween(w, b, Len(w) + 1) /\ d = Level(w, b)
Later(w, b, m)   == /\ Low(w, m).do = "restore" /\ Low(w, m).n = Level(w, b)
                    /\ SteadyBetween(w, b, m)
Opening(w, d, b) == Len(w) = b + 1 /\ Low(w, b + 1).do = "deepen" /\ d + 1 = Level(w, b)

GivenBack(w, d, b) ==
  Now(w, d, b) \/ (\E m \in b + 1 .. Len(w) : Later(w, b, m)) \/ Opening(w, d, b)

Types ==
  /\ tokens \in Seq(TokenKind)
  /\ position \in 0 .. Len(tokens)
  /\ depth \in 0 .. MaxDepth
  /\ work \in Seq(Item)
  /\ \A b \in 1 .. Len(work) : Low(work, b).do = "restore" => Low(work, b).n \in 0 .. MaxDepth

(* There is a loop to catch every error: that of the program is under all. *)
Anchored ==
  /\ Len(work) >= 1 => Low(work, 1).do = "program"
  /\ Len(work) >= 2 => Low(work, 2).do = "catch"

Levels == \A b \in 1 .. Len(work) : Low(work, b).do \in Levelled => GivenBack(work, depth, b)

IInv == Types /\ Anchored /\ Levels
-----------------------------------------------------------------------------
(* A call was replaced by the calls its body makes. *)
Replaced(w, calls, w2) ==
  /\ Len(w) \in Nat \ {0} /\ Len(calls) \in Nat /\ Len(w2) = Len(w) - 1 + Len(calls)
  /\ \A b \in 1 .. Len(w) - 1 : Low(w2, b) = Low(w, b)
  /\ \A k \in 1 .. Len(calls) : Low(w2, Len(w2) + 1 - k) = calls[k]

LEMMA Pushed ==
  ASSUME NEW w \in Seq(Item), w # <<>>, NEW calls \in Seq(Item), NEW w2, w2 = calls \o Tail(w)
  PROVE  /\ Replaced(w, calls, w2) /\ w2 \in Seq(Item)
         /\ Low(w, Len(w)) = Head(w) /\ Head(w) \in Item
<1>1. /\ Len(w) \in Nat \ {0} /\ Len(calls) \in Nat
      /\ Head(w) = w[1] /\ Head(w) \in Item
      /\ Tail(w) \in Seq(Item) /\ Len(Tail(w)) = Len(w) - 1
      /\ \A i \in 1 .. Len(w) - 1 : Tail(w)[i] = w[i + 1]
  <2>1. Len(w) \in Nat \ {0} /\ Len(calls) \in Nat
    BY EmptySeq, LenProperties
  <2>2. Head(w) \in Item /\ Tail(w) \in Seq(Item) /\ Len(Tail(w)) = Len(w) - 1
    BY HeadTailProperties
  <2>3. Head(w) = w[1] /\ \A i \in 1 .. Len(w) - 1 : Tail(w)[i] = w[i + 1]
    BY <2>1
  <2> QED
    BY <2>1, <2>2, <2>3
<1> DEFINE t == Tail(w)
<1>2. /\ w2 \in Seq(Item) /\ Len(w2) = Len(calls) + Len(t)
      /\ \A i \in 1 .. Len(calls) + Len(t) : w2[i] = IF i <= Len(calls) THEN calls[i] ELSE t[i - Len(calls)]
  BY <1>1, ConcatProperties
<1> HIDE DEF t
<1>3. Len(t) = Len(w) - 1 /\ \A i \in 1 .. Len(w) - 1 : t[i] = w[i + 1]
  BY <1>1 DEF t
<1>4. Low(w, Len(w)) = Head(w)
  BY <1>1 DEF Low
<1>5. ASSUME NEW L \in Nat \ {0}, NEW K \in Nat, NEW b \in 1 .. L - 1,
             \A i \in 1 .. K + (L - 1) : w2[i] = IF i <= K THEN calls[i] ELSE t[i - K],
             \A i \in 1 .. L - 1 : t[i] = w[i + 1]
      PROVE  w2[K + (L - 1) + 1 - b] = w[L + 1 - b]
  <2>1. PICK i \in 1 .. K + (L - 1) : i = K + L - b /\ ~(i <= K)
    OBVIOUS
  <2>2. w2[i] = t[i - K]
    BY <1>5, <2>1
  <2>3. i - K = L - b /\ L - b \in 1 .. L - 1
    BY <2>1
  <2>4. t[L - b] = w[L - b + 1]
    BY <1>5, <2>3
  <2>5. L - b + 1 = L + 1 - b /\ K + (L - 1) + 1 - b = K + L - b
    OBVIOUS
  <2> QED
    BY <2>1, <2>2, <2>3, <2>4, <2>5
<1>6. ASSUME NEW b \in 1 .. Len(w) - 1
      PROVE  Low(w2, b) = Low(w, b)
  BY <1>1, <1>2, <1>3, <1>5 DEF Low
<1>7. ASSUME NEW k \in 1 .. Len(calls)
      PROVE  Low(w2, Len(w2) + 1 - k) = calls[k]
  <2>1. k \in 1 .. Len(calls) + Len(t) /\ k <= Len(calls) /\ Len(w2) + 1 - (Len(w2) + 1 - k) = k
    BY <1>1, <1>2, <1>3
  <2> QED
    BY <1>2, <2>1 DEF Low
<1> QED
  BY <1>1, <1>2, <1>3, <1>4, <1>6, <1>7 DEF Replaced

(* Calls were abandoned. *)
Abandoned(w, caught, w2) ==
  /\ w2 \in Seq(Item) /\ Len(w) \in Nat /\ Len(w2) = Len(w) - caught
  /\ \A b \in 1 .. Len(w2) : Low(w2, b) = Low(w, b)

LEMMA Cut ==
  ASSUME NEW w \in Seq(Item), NEW caught \in 1 .. Len(w), NEW w2, w2 = SubSeq(w, caught + 1, Len(w))
  PROVE  Abandoned(w, caught, w2)
<1>1. Len(w) \in Nat /\ \A i \in caught + 1 .. Len(w) : w[i] \in Item
  BY LenProperties, ElementOfSeq
<1>2. /\ w2 \in Seq(Item) /\ Len(w2) = Len(w) - caught
      /\ \A i \in 1 .. Len(w) - caught : w2[i] = w[caught + i]
  <2>1. caught + 1 \in Int /\ Len(w) \in Int
    BY <1>1
  <2>2. /\ w2 \in Seq(Item)
        /\ Len(w2) = IF caught + 1 <= Len(w) THEN Len(w) - (caught + 1) + 1 ELSE 0
        /\ \A i \in 1 .. Len(w) - (caught + 1) + 1 : w2[i] = w[caught + 1 + i - 1]
    BY <1>1, <2>1, SubSeqProperties
  <2> QED
    BY <1>1, <2>2
<1>3. ASSUME NEW b \in 1 .. Len(w2)
      PROVE  Low(w2, b) = Low(w, b)
  <2>1. Len(w2) + 1 - b \in 1 .. Len(w) - caught /\ caught + (Len(w2) + 1 - b) = Len(w) + 1 - b
    BY <1>1, <1>2
  <2> QED
    BY <1>2, <2>1 DEF Low
<1> QED
  BY <1>1, <1>2, <1>3 DEF Abandoned

(* Levels. *)
LEMMA LevelReads ==
  ASSUME NEW w, NEW w2, NEW b, \A c \in 1 .. b : Low(w2, c) = Low(w, c)
  PROVE  Level(w2, b) = Level(w, b)
<1>1. Below(w2, b) = Below(w, b)
  BY DEF Below
<1> QED
  BY <1>1 DEF Level

LEMMA LevelPasses ==
  ASSUME NEW w, NEW b \in Nat, NEW e \in Nat, b <= e,
         \A c \in b + 1 .. e : Low(w, c).do # "restore"
  PROVE  Level(w, e) = Level(w, b)
<1>1. \A c \in 1 .. e : c \in 1 .. b \/ c \in b + 1 .. e
  OBVIOUS
<1>2. \A c \in 1 .. b : c \in 1 .. e
  OBVIOUS
<1>3. Below(w, e) = Below(w, b)
  BY <1>1, <1>2 DEF Below
<1> QED
  BY <1>3 DEF Level

LEMMA LevelRises ==
  ASSUME NEW w, NEW b \in Nat, Low(w, b + 1).do = "restore"
  PROVE  Level(w, b) \in Nat /\ Level(w, b + 1) = Level(w, b) + 1
<1>1. IsFiniteSet(Below(w, b))
  <2>1. IsFiniteSet(1 .. b) /\ Below(w, b) \subseteq 1 .. b
    BY FS_Interval DEF Below
  <2> QED
    BY <2>1, FS_Subset
<1>2. Below(w, b + 1) = Below(w, b) \cup {b + 1} /\ b + 1 \notin Below(w, b)
  <2>1. 1 .. b + 1 = (1 .. b) \cup {b + 1} /\ b + 1 \notin 1 .. b
    OBVIOUS
  <2> QED
    BY <2>1 DEF Below
<1>3. Cardinality(Below(w, b)) \in Nat
  BY <1>1, FS_CardinalityType
<1> QED
  BY <1>1, <1>2, <1>3, FS_AddElement DEF Level
-----------------------------------------------------------------------------
LEMMA Added ==
  ASSUME NEW w, NEW calls, NEW w2, Replaced(w, calls, w2), NEW b \in Len(w) .. Len(w2)
  PROVE  /\ Len(w2) + 1 - b \in 1 .. Len(calls) /\ Low(w2, b) = calls[Len(w2) + 1 - b]
         /\ \E k \in 1 .. Len(calls) : Low(w2, b) = calls[k]
<1>1. Len(w) \in Nat \ {0} /\ Len(calls) \in Nat /\ Len(w2) = Len(w) - 1 + Len(calls)
  BY DEF Replaced
<1> DEFINE k == Len(w2) + 1 - b
<1>2. k \in 1 .. Len(calls) /\ Len(w2) + 1 - k = b
  BY <1>1
<1> HIDE DEF k
<1>3. Low(w2, Len(w2) + 1 - k) = calls[k]
  BY <1>2 DEF Replaced
<1>4. Low(w2, b) = calls[k] /\ k \in 1 .. Len(calls)
  BY <1>2, <1>3
<1> QED
  BY <1>4 DEF k

(* What is restored before a call that was below the replaced one is       *)
(* restored still.                                                         *)
LEMMA LaterStays ==
  ASSUME NEW w, NEW w2, NEW b \in Nat, NEW m \in b + 1 .. Len(w2), Later(w, b, m),
         \A c \in 1 .. m : Low(w2, c) = Low(w, c), Len(w2) \in Nat, NEW d2
  PROVE  GivenBack(w2, d2, b)
<1>1. Level(w2, b) = Level(w, b)
  BY LevelReads
<1>2. SteadyBetween(w2, b, m)
  BY DEF Later, SteadyBetween
<1>3. Later(w2, b, m)
  BY <1>1, <1>2 DEF Later
<1> QED
  BY <1>3 DEF GivenBack

(* A call below the replaced one, by what the replaced call was. *)
LEMMA BelowSteady ==
  ASSUME NEW w, NEW calls, NEW w2, Replaced(w, calls, w2), NEW b \in 1 .. Len(w) - 1,
         NEW d, GivenBack(w, d, b), Low(w, Len(w)).do # "restore", Low(w, Len(w)).do # "deepen",
         \A k \in 1 .. Len(calls) : calls[k].do \notin Unsteady
  PROVE  GivenBack(w2, d, b)
<1>1. /\ Len(w) \in Nat /\ Len(w2) \in Nat /\ Len(w2) >= Len(w) - 1
      /\ \A c \in 1 .. Len(w) - 1 : Low(w2, c) = Low(w, c)
  BY DEF Replaced
<1>2. Level(w2, b) = Level(w, b)
  BY <1>1, LevelReads
<1>3. CASE Now(w, d, b)
  <2>1. ASSUME NEW c \in b + 1 .. Len(w2)
        PROVE  Low(w2, c).do \notin Unsteady
    <3>1. CASE c <= Len(w) - 1
      BY <1>1, <1>3, <3>1 DEF Now, SteadyBetween
    <3>2. CASE ~(c <= Len(w) - 1)
      <4>1. c \in Len(w) .. Len(w2)
        BY <1>1, <3>2
      <4> QED
        BY <4>1, Added
    <3> QED
      BY <3>1, <3>2
  <2>2. SteadyBetween(w2, b, Len(w2) + 1)
    BY <1>1, <2>1 DEF SteadyBetween
  <2> QED
    BY <1>2, <1>3, <2>2 DEF Now, GivenBack
<1>4. ASSUME NEW m \in b + 1 .. Len(w), Later(w, b, m)
      PROVE  GivenBack(w2, d, b)
  <2>1. m # Len(w)
    BY <1>4 DEF Later
  <2>2. m \in b + 1 .. Len(w2) /\ \A c \in 1 .. m : Low(w2, c) = Low(w, c)
    BY <1>1, <2>1
  <2> QED
    BY <1>1, <1>4, <2>2, LaterStays
<1>5. ~Opening(w, d, b)
  BY <1>1 DEF Opening
<1> QED
  BY <1>3, <1>4, <1>5 DEF GivenBack

LEMMA BelowRestoring ==
  ASSUME NEW w, NEW calls, NEW w2, Replaced(w, calls, w2), NEW b \in 1 .. Len(w) - 1,
         NEW d, GivenBack(w, d, b), Low(w, Len(w)).do # "restore", Low(w, Len(w)).do # "deepen",
         Len(calls) >= 1, calls[Len(calls)].do = "restore", calls[Len(calls)].n = d
  PROVE  GivenBack(w2, d, b)
<1>1. /\ Len(w) \in Nat /\ Len(w2) \in Nat /\ Len(w2) >= Len(w) /\ Len(calls) \in Nat
      /\ Len(w2) + 1 - Len(w) = Len(calls)
      /\ \A c \in 1 .. Len(w) - 1 : Low(w2, c) = Low(w, c)
  BY DEF Replaced
<1>2. Level(w2, b) = Level(w, b)
  BY <1>1, LevelReads
<1>3. Low(w2, Len(w)) = calls[Len(calls)] /\ Len(w) \in b + 1 .. Len(w2)
  <2>1. Len(w) \in Len(w) .. Len(w2) /\ Len(w) \in b + 1 .. Len(w2)
    BY <1>1
  <2> QED
    BY <1>1, <2>1, Added
<1>4. CASE Now(w, d, b)
  <2>1. SteadyBetween(w2, b, Len(w))
    BY <1>1, <1>4 DEF Now, SteadyBetween
  <2>2. Later(w2, b, Len(w))
    BY <1>2, <1>3, <1>4, <2>1 DEF Now, Later
  <2> QED
    BY <1>3, <2>2 DEF GivenBack
<1>5. ASSUME NEW m \in b + 1 .. Len(w), Later(w, b, m)
      PROVE  GivenBack(w2, d, b)
  <2>1. m # Len(w)
    BY <1>5 DEF Later
  <2>2. m \in b + 1 .. Len(w2) /\ \A c \in 1 .. m : Low(w2, c) = Low(w, c)
    BY <1>1, <2>1
  <2> QED
    BY <1>1, <1>5, <2>2, LaterStays
<1>6. ~Opening(w, d, b)
  BY <1>1 DEF Opening
<1> QED
  BY <1>4, <1>5, <1>6 DEF GivenBack

LEMMA BelowLeaking ==
  ASSUME NEW w, NEW calls, NEW w2, Replaced(w, calls, w2), NEW b \in 1 .. Len(w) - 1,
         NEW d, GivenBack(w, d, b), Low(w, Len(w)).do \in {"unary_inner", "binary_chain", "postfix"},
         NEW d2
  PROVE  GivenBack(w2, d2, b)
<1>1. /\ Len(w) \in Nat /\ Len(w2) \in Nat /\ Len(w2) >= Len(w) - 1
      /\ \A c \in 1 .. Len(w) - 1 : Low(w2, c) = Low(w, c)
  BY DEF Replaced
<1>2. ~Now(w, d, b) /\ ~Opening(w, d, b)
  <2>1. Len(w) \in b + 1 .. (Len(w) + 1) - 1
    BY <1>1
  <2>2. Low(w, Len(w)).do \in Unsteady /\ Low(w, Len(w)).do # "deepen"
    BY DEF Unsteady
  <2> QED
    BY <1>1, <2>1, <2>2 DEF Now, SteadyBetween, Opening
<1>3. ASSUME NEW m \in b + 1 .. Len(w), Later(w, b, m)
      PROVE  GivenBack(w2, d2, b)
  <2>1. m # Len(w)
    BY <1>3 DEF Later
  <2>2. m \in b + 1 .. Len(w2) /\ \A c \in 1 .. m : Low(w2, c) = Low(w, c)
    BY <1>1, <2>1
  <2> QED
    BY <1>1, <1>3, <2>2, LaterStays
<1> QED
  BY <1>2, <1>3 DEF GivenBack

LEMMA BelowDeepening ==
  ASSUME NEW w, NEW w2, Replaced(w, <<>>, w2), NEW b \in 1 .. Len(w) - 1,
         NEW d \in Nat, GivenBack(w, d, b), Low(w, Len(w)).do = "deepen"
  PROVE  GivenBack(w2, d + 1, b)
<1>1. /\ Len(w) \in Nat /\ Len(w2) \in Nat /\ Len(w2) = Len(w) - 1 /\ Len(w) - 1 <= Len(w2)
      /\ \A c \in 1 .. Len(w) - 1 : Low(w2, c) = Low(w, c)
  BY DEF Replaced
<1>2. ~Now(w, d, b)
  <2>1. Len(w) \in b + 1 .. (Len(w) + 1) - 1
    BY <1>1
  <2> QED
    BY <2>1 DEF Now, SteadyBetween, Unsteady
<1>3. ASSUME NEW m \in b + 1 .. Len(w), Later(w, b, m)
      PROVE  GivenBack(w2, d + 1, b)
  <2>1. m # Len(w)
    BY <1>3 DEF Later
  <2>2. m \in b + 1 .. Len(w2)
    <3>1. Len(w) \in Nat /\ Len(w2) \in Nat /\ Len(w) - 1 <= Len(w2)
      BY <1>1
    <3> QED
      BY <2>1, <3>1
  <2>3. \A c \in 1 .. m : Low(w2, c) = Low(w, c)
    BY <1>1, <2>2
  <2> QED
    BY <1>1, <1>3, <2>2, <2>3, LaterStays
<1>4. CASE Opening(w, d, b)
  <2>1. Level(w2, b) = Level(w, b)
    BY <1>1, LevelReads
  <2>2. SteadyBetween(w2, b, Len(w2) + 1)
    BY <1>1, <1>4 DEF Opening, SteadyBetween
  <2> QED
    BY <1>4, <2>1, <2>2 DEF Opening, Now, GivenBack
<1> QED
  BY <1>2, <1>3, <1>4 DEF GivenBack

LEMMA BelowRestored ==
  ASSUME NEW w, NEW w2, Replaced(w, <<>>, w2), NEW b \in 1 .. Len(w) - 1,
         NEW d, GivenBack(w, d, b), Low(w, Len(w)).do = "restore"
  PROVE  GivenBack(w2, Low(w, Len(w)).n, b)
<1>1. /\ Len(w) \in Nat /\ Len(w2) \in Nat /\ Len(w2) = Len(w) - 1 /\ Len(w) - 1 <= Len(w2)
      /\ \A c \in 1 .. Len(w) - 1 : Low(w2, c) = Low(w, c)
  BY DEF Replaced
<1>2. ~Now(w, d, b) /\ ~Opening(w, d, b)
  <2>1. Len(w) \in b + 1 .. (Len(w) + 1) - 1
    BY <1>1
  <2> QED
    BY <1>1, <2>1 DEF Now, SteadyBetween, Unsteady, Opening
<1>3. ASSUME NEW m \in b + 1 .. Len(w), Later(w, b, m)
      PROVE  GivenBack(w2, Low(w, Len(w)).n, b)
  <2>1. CASE m # Len(w)
    <3>1. m \in b + 1 .. Len(w2)
      <4>1. Len(w) \in Nat /\ Len(w2) \in Nat /\ Len(w) - 1 <= Len(w2)
        BY <1>1
      <4> QED
        BY <2>1, <4>1
    <3>2. \A c \in 1 .. m : Low(w2, c) = Low(w, c)
      BY <1>1, <3>1
    <3> QED
      BY <1>1, <1>3, <3>1, <3>2, LaterStays
  <2>2. CASE m = Len(w)
    <3>1. Level(w2, b) = Level(w, b)
      BY <1>1, LevelReads
    <3>2. SteadyBetween(w2, b, Len(w2) + 1)
      BY <1>1, <1>3, <2>2 DEF Later, SteadyBetween
    <3> QED
      BY <1>3, <2>2, <3>1, <3>2 DEF Later, Now, GivenBack
  <2> QED
    BY <2>1, <2>2
<1> QED
  BY <1>2, <1>3 DEF GivenBack
-----------------------------------------------------------------------------
(* What a step does to the calls and to the depth. *)
Pushes(calls) ==
  /\ work # <<>> /\ calls \in Seq(Item) /\ work' = calls \o Tail(work)
  /\ tokens' = tokens /\ position' \in 0 .. Len(tokens)

KeepsAnchor(calls) ==
  /\ Head(work).do = "catch" => calls = <<>>
  /\ Head(work).do = "program" =>
       calls = <<>> \/ (Len(calls) = 3 /\ calls[2].do = "catch" /\ calls[3].do = "program")

Steadily ==
  \E calls \in Seq(Steady) :
    /\ Pushes(calls) /\ depth' = depth /\ KeepsAnchor(calls)
    /\ Head(work).do \notin {"restore", "deepen"}
    /\ calls \in Seq(Plain) \/ Head(work).do \in Levelled

Leakily ==
  \E calls \in Seq(Leaky) :
    /\ Pushes(calls) /\ depth' = depth
    /\ Head(work).do \in {"unary_inner", "binary_chain", "postfix"}

Restoringly ==
  \E inner \in Seq(Leaky) :
    /\ Pushes(inner \o <<Restore(depth)>>) /\ depth' = depth
    /\ Head(work).do \notin Unsteady \cup {"catch", "program"}

OpensLevel ==
  /\ Pushes(<<Deepen, Parse("statement_inner"), Restore(depth)>>) /\ depth' = depth
  /\ Head(work).do = "statement"

Deepens  == Pushes(<<>>) /\ Head(work).do = "deepen" /\ depth < MaxDepth /\ depth' = depth + 1
Restores == Pushes(<<>>) /\ Head(work).do = "restore" /\ depth' = Head(work).n

Bailing ==
  \E caught \in 1 .. Len(work) :
    /\ work[caught].do = "catch"
    /\ work' = SubSeq(work, caught + 1, Len(work))
    /\ depth' = DepthRestored(SubSeq(work, 1, caught))
    /\ tokens' = tokens /\ position' \in 0 .. Len(tokens)

Rests == UNCHANGED <<tokens, position, depth, work>>

WorkStep == \/ Steadily \/ Leakily \/ Restoringly \/ OpensLevel
            \/ Deepens \/ Restores \/ Bailing \/ Rests

LEMMA PushesReplaces ==
  ASSUME Types, NEW calls, Pushes(calls)
  PROVE  /\ Replaced(work, calls, work') /\ Low(work, Len(work)) = Head(work)
         /\ work' \in Seq(Item) /\ Head(work) \in Item
<1>1. work \in Seq(Item) /\ work # <<>> /\ calls \in Seq(Item)
  BY DEF Types, Pushes
<1>2. PICK w2 : w2 = work' /\ w2 = calls \o Tail(work)
  BY DEF Pushes
<1>3. /\ Replaced(work, calls, w2) /\ Low(work, Len(work)) = Head(work)
      /\ w2 \in Seq(Item) /\ Head(work) \in Item
  BY <1>1, <1>2, Pushed
<1> QED
  BY <1>2, <1>3

LEMMA PushingKeepsTypes ==
  ASSUME Types, NEW calls, Pushes(calls), depth' \in 0 .. MaxDepth,
         \A k \in 1 .. Len(calls) : calls[k].do = "restore" => calls[k].n \in 0 .. MaxDepth
  PROVE  Types'
<1>1. Replaced(work, calls, work') /\ work' \in Seq(Item)
  BY PushesReplaces
<1>2. Len(work) \in Nat \ {0} /\ Len(work') \in Nat
  BY <1>1 DEF Replaced
<1>3. ASSUME NEW b \in 1 .. Len(work'), Low(work', b).do = "restore"
      PROVE  Low(work', b).n \in 0 .. MaxDepth
  <2>1. CASE b \in 1 .. Len(work) - 1
    <3>1. Low(work', b) = Low(work, b) /\ b \in 1 .. Len(work)
      BY <1>1, <1>2, <2>1 DEF Replaced
    <3> QED
      BY <1>3, <3>1 DEF Types
  <2>2. CASE b \notin 1 .. Len(work) - 1
    <3>1. b \in Len(work) .. Len(work')
      BY <1>2, <2>2
    <3>2. PICK k \in 1 .. Len(calls) : Low(work', b) = calls[k]
      BY <1>1, <3>1, Added
    <3> QED
      BY <1>3, <3>2
  <2> QED
    BY <2>1, <2>2
<1> QED
  BY <1>1, <1>3 DEF Types, Pushes

LEMMA PushingKeepsAnchor ==
  ASSUME Types, Anchored, NEW calls, Pushes(calls), KeepsAnchor(calls)
  PROVE  Anchored'
<1>1. /\ Replaced(work, calls, work') /\ Low(work, Len(work)) = Head(work)
      /\ Len(work) \in Nat \ {0} /\ Len(calls) \in Nat
  BY PushesReplaces DEF Replaced
<1>2. CASE Len(work) = 1
  <2>1. calls = <<>> \/ (Len(calls) = 3 /\ calls[2].do = "catch" /\ calls[3].do = "program")
    BY <1>1, <1>2 DEF Anchored, KeepsAnchor
  <2>2. CASE calls = <<>>
    BY <1>1, <1>2, <2>2 DEF Anchored, Replaced
  <2>3. CASE Len(calls) = 3 /\ calls[2].do = "catch" /\ calls[3].do = "program"
    <3>1. Len(work') = 3
      BY <1>1, <1>2, <2>3 DEF Replaced
    <3>2. 2 \in 1 .. Len(calls) /\ 3 \in 1 .. Len(calls) /\ Len(work') + 1 - 3 = 1 /\ Len(work') + 1 - 2 = 2
      BY <2>3, <3>1
    <3>3. Low(work', Len(work') + 1 - 3) = calls[3] /\ Low(work', Len(work') + 1 - 2) = calls[2]
      BY <1>1, <3>2 DEF Replaced
    <3> QED
      BY <2>3, <3>2, <3>3 DEF Anchored
  <2> QED
    BY <2>1, <2>2, <2>3
<1>3. CASE Len(work) = 2
  <2>1. calls = <<>>
    BY <1>1, <1>3 DEF Anchored, KeepsAnchor
  <2> QED
    BY <1>1, <1>3, <2>1 DEF Anchored, Replaced
<1>4. CASE Len(work) >= 3
  <2>1. 1 \in 1 .. Len(work) - 1 /\ 2 \in 1 .. Len(work) - 1
    BY <1>1, <1>4
  <2>2. Low(work', 1) = Low(work, 1) /\ Low(work', 2) = Low(work, 2)
    BY <1>1, <2>1 DEF Replaced
  <2> QED
    BY <1>4, <2>2 DEF Anchored
<1>5. Len(work) = 1 \/ Len(work) = 2 \/ Len(work) >= 3
  <2>1. \A L \in Nat \ {0} : L = 1 \/ L = 2 \/ L >= 3
    OBVIOUS
  <2> QED
    BY <1>1, <2>1
<1> QED
  BY <1>2, <1>3, <1>4, <1>5

LEMMA SteadilyKeeps ==
  ASSUME IInv, Steadily
  PROVE  IInv'
<1>1. PICK calls \in Seq(Steady) :
        /\ Pushes(calls) /\ depth' = depth /\ KeepsAnchor(calls)
        /\ Head(work).do \notin {"restore", "deepen"}
        /\ calls \in Seq(Plain) \/ Head(work).do \in Levelled
  BY DEF Steadily
<1>2. \A k \in 1 .. Len(calls) : calls[k].do \notin Unsteady
  BY <1>1, ElementOfSeq DEF Steady
<1>3. Types'
  BY <1>1, <1>2, PushingKeepsTypes DEF IInv, Types, Unsteady
<1>4. Anchored'
  BY <1>1, PushingKeepsAnchor DEF IInv
<1>5. /\ Replaced(work, calls, work') /\ Low(work, Len(work)) = Head(work)
      /\ Len(work) \in Nat \ {0} /\ Len(calls) \in Nat /\ Len(work') = Len(work) - 1 + Len(calls)
  BY <1>1, PushesReplaces DEF IInv, Replaced
<1>6. ASSUME NEW b \in 1 .. Len(work'), Low(work', b).do \in Levelled
      PROVE  GivenBack(work', depth, b)
  <2>1. CASE b \in 1 .. Len(work) - 1
    <3>1. Low(work', b) = Low(work, b) /\ b \in 1 .. Len(work)
      BY <1>5, <2>1 DEF Replaced
    <3>2. GivenBack(work, depth, b)
      BY <1>6, <3>1 DEF IInv, Levels
    <3> QED
      BY <1>1, <1>2, <1>5, <2>1, <3>2, BelowSteady
  <2>2. CASE b \notin 1 .. Len(work) - 1
    <3>1. b \in Len(work) .. Len(work')
      BY <1>5, <2>2
    <3>2. PICK k \in 1 .. Len(calls) : Low(work', b) = calls[k]
      BY <1>5, <3>1, Added
    <3>3. Head(work).do \in Levelled
      BY <1>1, <1>6, <3>2, ElementOfSeq DEF Plain
    <3>4. depth = Level(work, Len(work))
      <4>1. GivenBack(work, depth, Len(work))
        BY <1>5, <3>3 DEF IInv, Levels
      <4> QED
        BY <1>5, <4>1 DEF GivenBack, Now, Opening
    <3>5. ASSUME NEW c \in Len(work) .. Len(work')
          PROVE  Low(work', c).do \notin Unsteady
      <4>1. PICK j \in 1 .. Len(calls) : Low(work', c) = calls[j]
        BY <1>5, Added
      <4> QED
        BY <1>2, <4>1
    <3>6. Level(work', b) = Level(work, Len(work))
      <4> DEFINE e == Len(work) - 1
      <4>1. e \in Nat /\ e <= Len(work) /\ e <= b /\ b \in Nat /\ b <= Len(work')
            /\ Len(work) \in Nat /\ Len(work') \in Nat
        BY <1>5, <3>1
      <4>2. \A c \in e + 1 .. b : Low(work', c).do # "restore"
        BY <3>5, <4>1 DEF Unsteady
      <4>3. \A c \in e + 1 .. Len(work) : Low(work, c).do # "restore"
        BY <1>1, <1>5, <4>1
      <4>4. \A c \in 1 .. e : Low(work', c) = Low(work, c)
        BY <1>5 DEF Replaced
      <4> HIDE DEF e
      <4>5. Level(work', b) = Level(work', e)
        BY <4>1, <4>2, LevelPasses
      <4>6. Level(work, Len(work)) = Level(work, e)
        BY <4>1, <4>3, LevelPasses
      <4>7. Level(work', e) = Level(work, e)
        BY <4>4, LevelReads
      <4> QED
        BY <4>5, <4>6, <4>7
    <3>7. SteadyBetween(work', b, Len(work') + 1)
      BY <1>5, <3>1, <3>5 DEF SteadyBetween
    <3> QED
      BY <3>4, <3>6, <3>7 DEF GivenBack, Now
  <2> QED
    BY <2>1, <2>2
<1>7. Levels'
  BY <1>1, <1>6 DEF Levels
<1> QED
  BY <1>3, <1>4, <1>7 DEF IInv

LEMMA LeakilyKeeps ==
  ASSUME IInv, Leakily
  PROVE  IInv'
<1>1. PICK calls \in Seq(Leaky) :
        /\ Pushes(calls) /\ depth' = depth
        /\ Head(work).do \in {"unary_inner", "binary_chain", "postfix"}
  BY DEF Leakily
<1>2. \A k \in 1 .. Len(calls) : calls[k].do \notin Levelled \cup {"restore"}
  BY <1>1, ElementOfSeq DEF Leaky
<1>3. Types'
  BY <1>1, <1>2, PushingKeepsTypes DEF IInv, Types
<1>4. Anchored'
  BY <1>1, PushingKeepsAnchor DEF IInv, KeepsAnchor
<1>5. /\ Replaced(work, calls, work') /\ Low(work, Len(work)) = Head(work)
      /\ Len(work) \in Nat \ {0} /\ Len(work') \in Nat
  BY <1>1, PushesReplaces DEF IInv, Replaced
<1>6. ASSUME NEW b \in 1 .. Len(work'), Low(work', b).do \in Levelled
      PROVE  GivenBack(work', depth, b)
  <2>1. CASE b \in 1 .. Len(work) - 1
    <3>1. Low(work', b) = Low(work, b) /\ b \in 1 .. Len(work)
      BY <1>5, <2>1 DEF Replaced
    <3>2. GivenBack(work, depth, b)
      BY <1>6, <3>1 DEF IInv, Levels
    <3> QED
      BY <1>1, <1>5, <2>1, <3>2, BelowLeaking
  <2>2. CASE b \notin 1 .. Len(work) - 1
    <3>1. b \in Len(work) .. Len(work')
      BY <1>5, <2>2
    <3>2. PICK k \in 1 .. Len(calls) : Low(work', b) = calls[k]
      BY <1>5, <3>1, Added
    <3> QED
      BY <1>2, <1>6, <3>2
  <2> QED
    BY <2>1, <2>2
<1>7. Levels'
  BY <1>1, <1>6 DEF Levels
<1> QED
  BY <1>3, <1>4, <1>7 DEF IInv

LEMMA RestoringlyKeeps ==
  ASSUME IInv, Restoringly
  PROVE  IInv'
<1>1. PICK inner \in Seq(Leaky) :
        /\ Pushes(inner \o <<Restore(depth)>>) /\ depth' = depth
        /\ Head(work).do \notin Unsteady \cup {"catch", "program"}
  BY DEF Restoringly
<1> DEFINE calls == inner \o <<Restore(depth)>>
<1>2. depth \in 0 .. MaxDepth /\ depth \in Nat
  BY ParserAssumption DEF IInv, Types
<1>3. /\ Len(calls) \in Nat /\ Len(calls) >= 1
      /\ calls[Len(calls)].do = "restore" /\ calls[Len(calls)].n = depth
      /\ \A k \in 1 .. Len(calls) - 1 : calls[k].do \notin Levelled \cup {"restore"}
  <2> DEFINE last == <<Restore(depth)>>
  <2>1. inner \in Seq(Item) /\ Len(inner) \in Nat
    <3>1. Leaky \subseteq Item
      BY DEF Leaky
    <3> QED
      BY <3>1, SeqMonotonic, LenProperties
  <2>2. Restore(depth) \in Item /\ Restore(depth).do = "restore" /\ Restore(depth).n = depth
    <3>1. \A n \in Nat : Restore(n) \in Item
      BY DEF Restore, Item, Call, Label
    <3>2. Restore(depth).do = "restore" /\ Restore(depth).n = depth
      BY DEF Restore
    <3> QED
      BY <1>2, <3>1, <3>2
  <2>3. last \in Seq(Item) /\ Len(last) = 1 /\ last[1] = Restore(depth)
    BY <2>2
  <2> HIDE DEF last
  <2>4. /\ Len(inner \o last) = Len(inner) + 1
        /\ \A i \in 1 .. Len(inner) + 1 :
             (inner \o last)[i] = IF i <= Len(inner) THEN inner[i] ELSE last[i - Len(inner)]
    <3>1. /\ Len(inner \o last) = Len(inner) + Len(last)
          /\ \A i \in 1 .. Len(inner) + Len(last) :
               (inner \o last)[i] = IF i <= Len(inner) THEN inner[i] ELSE last[i - Len(inner)]
      BY <2>1, <2>3, ConcatProperties, Zenon
    <3> QED
      BY <2>3, <3>1, Zenon
  <2>5. (inner \o last)[Len(inner) + 1] = last[1]
    <3>1. Len(inner) + 1 \in 1 .. Len(inner) + 1 /\ ~(Len(inner) + 1 <= Len(inner))
          /\ Len(inner) + 1 - Len(inner) = 1
      BY <2>1
    <3> QED
      BY <2>4, <3>1
  <2>6. \A k \in 1 .. Len(inner) : (inner \o last)[k] = inner[k] /\ inner[k] \in Leaky
    <3>1. \A k \in 1 .. Len(inner) : k \in 1 .. Len(inner) + 1 /\ k <= Len(inner)
      BY <2>1
    <3> QED
      BY <2>4, <3>1, ElementOfSeq
  <2>7. Len(inner) + 1 - 1 = Len(inner)
    BY <2>1
  <2> QED
    BY <2>1, <2>2, <2>3, <2>4, <2>5, <2>6, <2>7 DEF last, Leaky
<1>4. Pushes(calls)
  BY <1>1
<1> HIDE DEF calls
<1>5. ASSUME NEW k \in 1 .. Len(calls)
      PROVE  /\ calls[k].do \notin Levelled
             /\ calls[k].do = "restore" => calls[k].n = depth
  <2>1. CASE k = Len(calls)
    BY <1>3, <2>1 DEF Levelled
  <2>2. CASE k # Len(calls)
    <3>1. k \in 1 .. Len(calls) - 1
      BY <1>3, <2>2
    <3> QED
      BY <1>3, <3>1
  <2> QED
    BY <2>1, <2>2
<1>6. Types'
  BY <1>1, <1>2, <1>4, <1>5, PushingKeepsTypes DEF IInv
<1>7. Anchored'
  BY <1>1, <1>4, PushingKeepsAnchor DEF IInv, KeepsAnchor
<1>8. /\ Replaced(work, calls, work') /\ Low(work, Len(work)) = Head(work)
      /\ Len(work) \in Nat \ {0} /\ Len(work') \in Nat
  BY <1>4, PushesReplaces DEF IInv, Replaced
<1>9. ASSUME NEW b \in 1 .. Len(work'), Low(work', b).do \in Levelled
      PROVE  GivenBack(work', depth, b)
  <2>1. CASE b \in 1 .. Len(work) - 1
    <3>1. Low(work', b) = Low(work, b) /\ b \in 1 .. Len(work)
      BY <1>8, <2>1 DEF Replaced
    <3>2. GivenBack(work, depth, b)
      BY <1>9, <3>1 DEF IInv, Levels
    <3>3. Low(work, Len(work)).do # "restore" /\ Low(work, Len(work)).do # "deepen"
      BY <1>1, <1>8 DEF Unsteady
    <3> QED
      BY <1>3, <1>8, <2>1, <3>2, <3>3, BelowRestoring
  <2>2. CASE b \notin 1 .. Len(work) - 1
    <3>1. b \in Len(work) .. Len(work')
      BY <1>8, <2>2
    <3>2. PICK k \in 1 .. Len(calls) : Low(work', b) = calls[k]
      BY <1>8, <3>1, Added
    <3> QED
      BY <1>5, <1>9, <3>2
  <2> QED
    BY <2>1, <2>2
<1>10. Levels'
  BY <1>1, <1>9 DEF Levels
<1> QED
  BY <1>6, <1>7, <1>10 DEF IInv

LEMMA OpeningLevelKeeps ==
  ASSUME IInv, OpensLevel
  PROVE  IInv'
<1> DEFINE calls == <<Deepen, Parse("statement_inner"), Restore(depth)>>
           L == Len(work)
<1>1. Pushes(calls) /\ depth' = depth /\ Head(work).do = "statement"
  BY DEF OpensLevel
<1>2. depth \in 0 .. MaxDepth /\ depth \in Nat
  BY ParserAssumption DEF IInv, Types
<1>3. /\ Len(calls) = 3 /\ calls[1].do = "deepen" /\ calls[2].do = "statement_inner"
      /\ calls[3].do = "restore" /\ calls[3].n = depth
  BY <1>2 DEF Deepen, Parse, Restore
<1> HIDE DEF calls
<1>4. \A k \in 1 .. Len(calls) : k = 1 \/ k = 2 \/ k = 3
  BY <1>3
<1>5. Types'
  BY <1>1, <1>2, <1>3, <1>4, PushingKeepsTypes DEF IInv
<1>6. Anchored'
  BY <1>1, PushingKeepsAnchor DEF IInv, KeepsAnchor
<1>7. /\ Replaced(work, calls, work') /\ Low(work, L) = Head(work)
      /\ L \in Nat \ {0} /\ Len(work') = L + 2
  <2>1. Replaced(work, calls, work') /\ Low(work, Len(work)) = Head(work)
    BY <1>1, PushesReplaces DEF IInv
  <2>2. Len(work) \in Nat \ {0} /\ Len(work') = Len(work) - 1 + Len(calls)
    BY <2>1 DEF Replaced
  <2> QED
    BY <1>3, <2>1, <2>2
<1>8. Low(work', L) = calls[3] /\ Low(work', L + 1) = calls[2] /\ Low(work', L + 2) = calls[1]
  <2>1. /\ 1 \in 1 .. Len(calls) /\ 2 \in 1 .. Len(calls) /\ 3 \in 1 .. Len(calls)
        /\ Len(work') + 1 - 1 = L + 2 /\ Len(work') + 1 - 2 = L + 1 /\ Len(work') + 1 - 3 = L
    BY <1>3, <1>7
  <2>2. \A k \in 1 .. Len(calls) : Low(work', Len(work') + 1 - k) = calls[k]
    BY <1>7 DEF Replaced
  <2> QED
    BY <2>1, <2>2
<1>9. depth = Level(work, L)
  <2>1. L \in 1 .. L /\ GivenBack(work, depth, L)
    BY <1>1, <1>7 DEF IInv, Levels, Levelled
  <2> QED
    BY <1>7, <2>1 DEF GivenBack, Now, Opening
<1>10. Level(work', L + 1) = depth + 1
  <2> DEFINE e == L - 1
  <2>1. e \in Nat /\ e + 1 = L /\ Low(work, e + 1).do # "restore" /\ Low(work', e + 1).do = "restore"
    BY <1>1, <1>3, <1>7, <1>8
  <2>2. \A c \in 1 .. e : Low(work', c) = Low(work, c)
    BY <1>7 DEF Replaced
  <2> HIDE DEF e
  <2>3. Level(work', e) = Level(work, e)
    BY <2>2, LevelReads
  <2>4. Level(work, L) = Level(work, e)
    <3>1. L \in Nat /\ e <= L /\ \A c \in e + 1 .. L : c = e + 1
      BY <1>7, <2>1
    <3> QED
      BY <2>1, <3>1, LevelPasses
  <2>5. Level(work', L) = Level(work', e) + 1
    BY <2>1, LevelRises
  <2>6. Level(work', L + 1) = Level(work', L)
    <3>1. L \in Nat /\ L + 1 \in Nat /\ L <= L + 1 /\ \A c \in L + 1 .. L + 1 : c = L + 1
      BY <1>7
    <3>2. Low(work', L + 1).do # "restore"
      BY <1>3, <1>8
    <3> QED
      BY <3>1, <3>2, LevelPasses
  <2> QED
    BY <1>9, <2>3, <2>4, <2>5, <2>6
<1>11. ASSUME NEW b \in 1 .. Len(work'), Low(work', b).do \in Levelled
       PROVE  GivenBack(work', depth, b)
  <2>1. CASE b \in 1 .. L - 1
    <3>1. Low(work', b) = Low(work, b) /\ b \in 1 .. L
      BY <1>7, <2>1 DEF Replaced
    <3>2. GivenBack(work, depth, b)
      BY <1>11, <3>1 DEF IInv, Levels
    <3>3. /\ Low(work, Len(work)).do # "restore" /\ Low(work, Len(work)).do # "deepen"
          /\ Len(calls) >= 1 /\ calls[Len(calls)].do = "restore" /\ calls[Len(calls)].n = depth
      BY <1>1, <1>3, <1>7
    <3>4. GivenBack(work', depth, b)
      BY <1>7, <2>1, <3>2, <3>3, BelowRestoring
    <3> QED
      BY <3>4
  <2>2. CASE b = L
    BY <1>3, <1>8, <1>11, <2>2 DEF Levelled
  <2>3. CASE b = L + 1
    <3>1. Opening(work', depth, L + 1)
      BY <1>3, <1>7, <1>8, <1>10 DEF Opening
    <3> QED
      BY <2>3, <3>1 DEF GivenBack
  <2>4. CASE b = L + 2
    BY <1>3, <1>8, <1>11, <2>4 DEF Levelled
  <2>5. b \in 1 .. L - 1 \/ b = L \/ b = L + 1 \/ b = L + 2
    BY <1>7
  <2> QED
    BY <2>1, <2>2, <2>3, <2>4, <2>5
<1>12. Levels'
  BY <1>1, <1>11 DEF Levels
<1> QED
  BY <1>5, <1>6, <1>12 DEF IInv

LEMMA DeepensKeeps ==
  ASSUME IInv, Deepens
  PROVE  IInv'
<1>1. Pushes(<<>>) /\ Head(work).do = "deepen" /\ depth' = depth + 1
  BY DEF Deepens
<1>2. depth \in 0 .. MaxDepth /\ depth \in Nat /\ depth' \in 0 .. MaxDepth
  BY ParserAssumption DEF IInv, Types, Deepens
<1>3. Len(<<>>) = 0 /\ \A k \in 1 .. 0 : FALSE
  BY EmptySeq
<1>4. Types'
  BY <1>1, <1>2, <1>3, PushingKeepsTypes DEF IInv
<1>5. Anchored'
  BY <1>1, PushingKeepsAnchor DEF IInv, KeepsAnchor
<1>6. /\ Replaced(work, <<>>, work') /\ Low(work, Len(work)) = Head(work)
      /\ Len(work) \in Nat \ {0} /\ Len(work') = Len(work) - 1
  <2>1. Replaced(work, <<>>, work') /\ Low(work, Len(work)) = Head(work)
    BY <1>1, PushesReplaces DEF IInv
  <2> QED
    BY <1>3, <2>1 DEF Replaced
<1>7. ASSUME NEW b \in 1 .. Len(work'), Low(work', b).do \in Levelled
      PROVE  GivenBack(work', depth', b)
  <2>1. b \in 1 .. Len(work) - 1 /\ b \in 1 .. Len(work)
    BY <1>6
  <2>2. GivenBack(work, depth, b)
    BY <1>6, <1>7, <2>1 DEF IInv, Levels, Replaced
  <2>3. GivenBack(work', depth + 1, b)
    BY <1>1, <1>2, <1>6, <2>1, <2>2, BelowDeepening
  <2> QED
    BY <1>1, <2>3
<1>8. Levels'
  BY <1>7 DEF Levels
<1> QED
  BY <1>4, <1>5, <1>8 DEF IInv

LEMMA RestoresKeeps ==
  ASSUME IInv, Restores
  PROVE  IInv'
<1>1. Pushes(<<>>) /\ Head(work).do = "restore" /\ depth' = Head(work).n
  BY DEF Restores
<1>2. Len(<<>>) = 0 /\ \A k \in 1 .. 0 : FALSE
  BY EmptySeq
<1>3. /\ Replaced(work, <<>>, work') /\ Low(work, Len(work)) = Head(work)
      /\ Len(work) \in Nat \ {0} /\ Len(work') = Len(work) - 1
  <2>1. Replaced(work, <<>>, work') /\ Low(work, Len(work)) = Head(work)
    BY <1>1, PushesReplaces DEF IInv
  <2> QED
    BY <1>2, <2>1 DEF Replaced
<1>4. depth' \in 0 .. MaxDepth
  <2>1. Len(work) \in 1 .. Len(work)
    BY <1>3
  <2> QED
    BY <1>1, <1>3, <2>1 DEF IInv, Types
<1>5. Types'
  BY <1>1, <1>2, <1>4, PushingKeepsTypes DEF IInv
<1>6. Anchored'
  BY <1>1, PushingKeepsAnchor DEF IInv, KeepsAnchor
<1>7. ASSUME NEW b \in 1 .. Len(work'), Low(work', b).do \in Levelled
      PROVE  GivenBack(work', depth', b)
  <2>1. b \in 1 .. Len(work) - 1 /\ b \in 1 .. Len(work)
    BY <1>3
  <2>2. GivenBack(work, depth, b)
    BY <1>3, <1>7, <2>1 DEF IInv, Levels, Replaced
  <2>3. GivenBack(work', Low(work, Len(work)).n, b)
    BY <1>1, <1>3, <2>1, <2>2, BelowRestored
  <2> QED
    BY <1>1, <1>3, <2>3
<1>8. Levels'
  BY <1>7 DEF Levels
<1> QED
  BY <1>5, <1>6, <1>8 DEF IInv

(* The depth that the restorings of the abandoned calls leave: that of the *)
(* one nearest to the loop.                                                *)
LEMMA RestoredDepth ==
  ASSUME Types, NEW caught \in 1 .. Len(work)
  PROVE  LET restored == DepthRestored(SubSeq(work, 1, caught))
             restores == {i \in 1 .. caught : work[i].do = "restore"}
         IN  /\ restores = {} => restored = depth
             /\ restores # {} => \E i \in restores : /\ \A j \in restores : j <= i
                                                     /\ restored = work[i].n
<1> DEFINE bailed == SubSeq(work, 1, caught)
           restores == {i \in 1 .. caught : work[i].do = "restore"}
<1>1. Len(bailed) = caught /\ \A i \in 1 .. caught : bailed[i] = work[i]
  <2>1. caught \in 0 .. Len(work) /\ work \in Seq(Item)
    BY DEF Types
  <2> QED
    BY <2>1, PrefixOfSeq
<1> HIDE DEF bailed
<1>2. {i \in 1 .. Len(bailed) : bailed[i].do = "restore"} = restores
  <2>1. 1 .. Len(bailed) = 1 .. caught
    BY <1>1
  <2>2. \A i \in 1 .. caught : (bailed[i].do = "restore") <=> (work[i].do = "restore")
    BY <1>1
  <2>3. ASSUME NEW i \in 1 .. Len(bailed)
        PROVE  bailed[i].do = "restore" <=> i \in restores
    BY <2>1, <2>2
  <2> QED
    BY <2>1, <2>3
<1>3. DepthRestored(bailed) = IF restores = {} THEN depth
                              ELSE bailed[CHOOSE i \in restores : \A j \in restores : j <= i].n
  <2> DEFINE all == {i \in 1 .. Len(bailed) : bailed[i].do = "restore"}
             Last(S) == CHOOSE i \in S : \A j \in S : j <= i
  <2>1. DepthRestored(bailed) = IF all = {} THEN depth ELSE bailed[Last(all)].n
    BY DEF DepthRestored
  <2>2. all = restores
    BY <1>2
  <2> HIDE DEF all, restores, Last
  <2>3. DepthRestored(bailed) = IF restores = {} THEN depth ELSE bailed[Last(restores)].n
    BY <2>1, <2>2
  <2> QED
    BY <2>3 DEF Last
<1>4. ASSUME restores # {}
      PROVE  \E i \in restores : /\ \A j \in restores : j <= i
                                 /\ DepthRestored(bailed) = work[i].n
  <2> HIDE DEF restores
  <2>1. restores \subseteq 1 .. caught /\ caught \in Nat
    BY DEF restores, Types
  <2>2. \E i \in restores : \A j \in restores : j <= i
    BY <1>4, <2>1, HasGreatest
  <2>3. PICK i \in restores : /\ i = CHOOSE k \in restores : \A j \in restores : j <= k
                              /\ \A j \in restores : j <= i
    BY <2>2
  <2> QED
    BY <1>1, <1>3, <1>4, <2>1, <2>3
<1> QED
  BY <1>3, <1>4 DEF bailed

LEMMA BailingKeeps ==
  ASSUME IInv, Bailing
  PROVE  IInv'
<1>1. PICK caught \in 1 .. Len(work) :
        /\ work[caught].do = "catch"
        /\ work' = SubSeq(work, caught + 1, Len(work))
        /\ depth' = DepthRestored(SubSeq(work, 1, caught))
        /\ tokens' = tokens /\ position' \in 0 .. Len(tokens)
  BY DEF Bailing
<1>2. /\ work' \in Seq(Item) /\ Len(work) \in Nat /\ Len(work') = Len(work) - caught
      /\ \A b \in 1 .. Len(work') : Low(work', b) = Low(work, b)
  <2>1. PICK w2 : w2 = work' /\ w2 = SubSeq(work, caught + 1, Len(work))
    BY <1>1
  <2>2. work \in Seq(Item)
    BY DEF IInv, Types
  <2>3. Abandoned(work, caught, w2)
    BY <2>1, <2>2, Cut
  <2> QED
    BY <2>1, <2>3 DEF Abandoned
<1> DEFINE restores == {i \in 1 .. caught : work[i].do = "restore"}
<1>3. /\ restores = {} => depth' = depth
      /\ restores # {} => \E i \in restores : (\A j \in restores : j <= i) /\ depth' = work[i].n
  BY <1>1, RestoredDepth DEF IInv
<1>4. \A i \in 1 .. Len(work) : Len(work) + 1 - i \in 1 .. Len(work) /\ work[i] = Low(work, Len(work) + 1 - i)
  <2>1. \A i \in 1 .. Len(work) : /\ Len(work) + 1 - i \in 1 .. Len(work)
                                  /\ Len(work) + 1 - (Len(work) + 1 - i) = i
    BY <1>2
  <2> QED
    BY <2>1 DEF Low
<1>5. Types'
  <2>1. depth' \in 0 .. MaxDepth
    <3>1. CASE restores = {}
      BY <1>3, <3>1 DEF IInv, Types
    <3>2. CASE restores # {}
      <4>1. PICK i \in restores : depth' = work[i].n
        BY <1>3, <3>2
      <4>2. i \in 1 .. Len(work) /\ work[i].do = "restore"
        BY <1>2
      <4> QED
        BY <1>4, <4>1, <4>2 DEF IInv, Types
    <3> QED
      BY <3>1, <3>2
  <2>2. \A b \in 1 .. Len(work') : b \in 1 .. Len(work)
    BY <1>2
  <2> QED
    BY <1>1, <1>2, <2>1, <2>2 DEF IInv, Types
<1>6. Anchored'
  BY <1>2 DEF IInv, Anchored
<1>7. ASSUME NEW b \in 1 .. Len(work'), Low(work', b).do \in Levelled
      PROVE  GivenBack(work', depth', b)
  <2>1. /\ b \in 1 .. Len(work) /\ b <= Len(work) - caught /\ b \in Nat
        /\ \A c \in 1 .. b : c \in 1 .. Len(work')
    BY <1>2
  <2>2. GivenBack(work, depth, b)
    BY <1>2, <1>7, <2>1 DEF IInv, Levels
  <2>3. Level(work', b) = Level(work, b)
    BY <1>2, <2>1, LevelReads
  <2>4. ASSUME NEW m \in b + 1 .. Len(work) + 1, SteadyBetween(work, b, m), m > Len(work) - caught
        PROVE  SteadyBetween(work', b, Len(work') + 1)
    <3>1. ASSUME NEW c \in b + 1 .. (Len(work') + 1) - 1
          PROVE  Low(work', c).do \notin Unsteady
      <4>1. c \in 1 .. Len(work') /\ c \in b + 1 .. m - 1
        BY <1>2, <2>1, <2>4
      <4> QED
        BY <1>2, <2>4, <4>1 DEF SteadyBetween
    <3> QED
      BY <3>1 DEF SteadyBetween
  <2>5. CASE Now(work, depth, b)
    <3>1. restores = {}
      <4> SUFFICES ASSUME NEW i \in 1 .. caught, work[i].do = "restore"
                   PROVE  FALSE
        OBVIOUS
      <4>1. i \in 1 .. Len(work) /\ Len(work) + 1 - i \in b + 1 .. (Len(work) + 1) - 1
        BY <1>2, <2>1
      <4> QED
        BY <1>4, <2>5, <4>1 DEF Now, SteadyBetween, Unsteady
    <3>2. SteadyBetween(work', b, Len(work') + 1)
      <4>1. Len(work) + 1 \in b + 1 .. Len(work) + 1 /\ Len(work) + 1 > Len(work) - caught
        BY <1>2, <2>1
      <4> QED
        BY <2>4, <2>5, <4>1 DEF Now
    <3> QED
      BY <1>3, <2>3, <2>5, <3>1, <3>2 DEF Now, GivenBack
  <2>6. ASSUME NEW m \in b + 1 .. Len(work), Later(work, b, m)
        PROVE  GivenBack(work', depth', b)
    <3>1. CASE m <= Len(work) - caught
      <4>1. m \in b + 1 .. Len(work') /\ Len(work') \in Nat /\ \A c \in 1 .. m : c \in 1 .. Len(work')
        BY <1>2, <2>1, <3>1
      <4>2. \A c \in 1 .. m : Low(work', c) = Low(work, c)
        BY <1>2, <4>1
      <4> QED
        BY <2>1, <2>6, <4>1, <4>2, LaterStays
    <3>2. CASE m > Len(work) - caught
      <4> DEFINE i == Len(work) + 1 - m
      <4>1. i \in 1 .. caught /\ i \in 1 .. Len(work) /\ Len(work) + 1 - i = m
        BY <1>2, <2>1, <3>2
      <4>2. work[i] = Low(work, m)
        BY <1>4, <4>1
      <4>3. i \in restores
        BY <2>6, <4>1, <4>2 DEF Later
      <4>4. ASSUME NEW j \in restores, j > i
            PROVE  FALSE
        <5>1. j \in 1 .. Len(work) /\ Len(work) + 1 - j \in b + 1 .. m - 1
          BY <1>2, <2>1, <4>4
        <5> QED
          BY <1>4, <2>6, <4>4, <5>1 DEF Later, SteadyBetween, Unsteady
      <4>5. depth' = work[i].n
        <5>1. PICK g \in restores : (\A j \in restores : j <= g) /\ depth' = work[g].n
          BY <1>3, <4>3
        <5>2. g \in 1 .. caught /\ i <= g /\ ~(g > i)
          BY <4>3, <4>4, <5>1
        <5>3. g = i
          BY <4>1, <5>2
        <5> QED
          BY <5>1, <5>3
      <4>6. SteadyBetween(work', b, Len(work') + 1)
        <5>1. m \in b + 1 .. Len(work) + 1
          BY <1>2
        <5> QED
          BY <2>4, <2>6, <3>2, <5>1 DEF Later
      <4> QED
        BY <2>3, <2>6, <4>2, <4>5, <4>6 DEF Later, Now, GivenBack
    <3>3. m <= Len(work) - caught \/ m > Len(work) - caught
      BY <1>2
    <3> QED
      BY <3>1, <3>2, <3>3
  <2>7. ~Opening(work, depth, b)
    <3>1. caught = 1 => Low(work, Len(work)) = work[1]
      BY <1>2 DEF Low
    <3> QED
      BY <1>1, <1>2, <2>1, <3>1 DEF Opening
  <2> QED
    BY <2>2, <2>5, <2>6, <2>7 DEF GivenBack
<1>8. Levels'
  BY <1>7 DEF Levels
<1> QED
  BY <1>5, <1>6, <1>8 DEF IInv

(* Whatever a step does, what is true of the calls stays true. *)
LEMMA WorkStepsKeep ==
  ASSUME IInv, WorkStep
  PROVE  IInv'
<1>1. CASE Rests
  BY <1>1 DEF Rests, IInv, Types, Anchored, Levels
<1> QED
  BY <1>1, SteadilyKeeps, LeakilyKeeps, RestoringlyKeeps, OpeningLevelKeeps, DeepensKeeps,
     RestoresKeeps, BailingKeeps DEF WorkStep
-----------------------------------------------------------------------------
(* Where reading goes on is in the stream. *)
LEMMA AdvancedStays ==
  ASSUME Types, NEW p \in 0 .. Len(tokens)
  PROVE  Advanced(p) \in 0 .. Len(tokens)
<1>1. Len(tokens) \in Nat
  BY LenProperties DEF Types
<1> QED
  BY <1>1 DEF Advanced

(* A skip ends at the first place where it may, or one `;` further.        *)
LEMMA SkipFinds ==
  ASSUME Types, NEW p \in 0 .. Len(tokens)
  PROVE  \E q \in p .. Len(tokens) :
           /\ SkipEnds(p, q) /\ \A earlier \in p .. q - 1 : ~SkipEnds(p, earlier)
           /\ \/ skip_to_boundary(p) = q
              \/ q < Len(tokens) /\ tokens[q + 1] = ";" /\ skip_to_boundary(p) = q + 1
<1>1. Len(tokens) \in Nat
  BY LenProperties DEF Types
<1> DEFINE S == {q \in p .. Len(tokens) : SkipEnds(p, q)}
           Ends(q) == SkipEnds(p, q) /\ \A earlier \in p .. q - 1 : ~SkipEnds(p, earlier)
<1>2. S \subseteq Nat /\ S # {}
  <2>1. Len(tokens) \in p .. Len(tokens) /\ SkipEnds(p, Len(tokens))
    BY <1>1 DEF SkipEnds
  <2> QED
    BY <1>1, <2>1
<1>3. PICK least \in S : \A q \in S : least <= q
  BY <1>2, HasLeast
<1>4. least \in p .. Len(tokens) /\ Ends(least)
  <2>1. \A earlier \in p .. least - 1 : earlier \in p .. Len(tokens) /\ ~(least <= earlier)
    BY <1>1, <1>3
  <2> QED
    BY <1>3, <2>1
<1> HIDE DEF S, Ends
<1>5. PICK q \in p .. Len(tokens) : q = (CHOOSE r \in p .. Len(tokens) : Ends(r)) /\ Ends(q)
  BY <1>4
<1> DEFINE Past(r) == IF (r > p /\ tokens[r] = "}") /\ r < Len(tokens) /\ tokens[r + 1] = ";"
                     THEN r + 1 ELSE r
<1>6. skip_to_boundary(p) = Past(q)
  <2>1. skip_to_boundary(p) = Past(CHOOSE r \in p .. Len(tokens) : Ends(r))
    BY DEF skip_to_boundary, Ends
  <2> HIDE DEF Past
  <2> QED
    BY <1>5, <2>1
<1>7. Past(q) = q \/ (q < Len(tokens) /\ tokens[q + 1] = ";" /\ Past(q) = q + 1)
  OBVIOUS
<1> HIDE DEF Past
<1> QED
  BY <1>5, <1>6, <1>7 DEF Ends

LEMMA SkipStays ==
  ASSUME Types, NEW p \in 0 .. Len(tokens)
  PROVE  skip_to_boundary(p) \in 0 .. Len(tokens)
<1>1. Len(tokens) \in Nat
  BY LenProperties DEF Types
<1>2. PICK q \in p .. Len(tokens) :
        skip_to_boundary(p) = q \/ (q < Len(tokens) /\ skip_to_boundary(p) = q + 1)
  BY SkipFinds
<1> QED
  BY <1>1, <1>2

LEMMA RecoveryStays ==
  ASSUME Types, NEW p \in 0 .. Len(tokens), NEW started_at
  PROVE  recover_from(started_at, p) \in 0 .. Len(tokens)
<1> DEFINE q == skip_to_boundary(p)
<1>1. q \in 0 .. Len(tokens)
  BY SkipStays
<1>2. recover_from(started_at, p) = IF q = started_at THEN Advanced(q) ELSE q
  BY DEF recover_from
<1> HIDE DEF q
<1>3. Advanced(q) \in 0 .. Len(tokens)
  BY <1>1, AdvancedStays
<1> QED
  BY <1>1, <1>2, <1>3

(* An error is always caught: only the loops themselves are outside one.   *)
LEMMA ErrorsAreCaught ==
  ASSUME IInv, work # <<>>, Head(work).do \notin {"program", "catch"}
  PROVE  \E i \in 1 .. Len(work) : work[i].do = "catch"
<1>1. work \in Seq(Item) /\ Len(work) \in Nat \ {0} /\ Head(work) = work[1]
  <2>1. work \in Seq(Item)
    BY DEF IInv, Types
  <2> QED
    BY <2>1, EmptySeq, LenProperties
<1>2. Low(work, Len(work)) = work[1]
  BY <1>1 DEF Low
<1>3. Len(work) # 1 /\ Len(work) # 2
  <2>1. Anchored /\ 1 >= 1 /\ 2 >= 2
    BY DEF IInv
  <2>2. ASSUME Len(work) = 1
        PROVE  FALSE
    <3>1. Low(work, 1).do = "program"
      BY <2>1, <2>2 DEF Anchored
    <3> QED
      BY <1>1, <1>2, <2>2, <3>1
  <2>3. ASSUME Len(work) = 2
        PROVE  FALSE
    <3>1. Low(work, 2).do = "catch"
      BY <2>1, <2>3 DEF Anchored
    <3> QED
      BY <1>1, <1>2, <2>3, <3>1
  <2> QED
    BY <2>2, <2>3
<1>4. Len(work) >= 2 /\ Len(work) - 1 \in 1 .. Len(work)
  <2>1. \A L \in Nat \ {0} : L # 1 /\ L # 2 => L >= 2 /\ L - 1 \in 1 .. L
    OBVIOUS
  <2> QED
    BY <1>1, <1>3, <2>1
<1>5. Low(work, 2) = work[Len(work) - 1]
  <2>1. \A L \in Nat : L + 1 - 2 = L - 1
    OBVIOUS
  <2>2. Len(work) + 1 - 2 = Len(work) - 1
    BY <1>1, <2>1
  <2> QED
    BY <2>2, Zenon DEF Low
<1> QED
  BY <1>4, <1>5 DEF IInv, Anchored

(* Where an error is caught, and what is abandoned on the way there.       *)
LEMMA BailsToNearest ==
  ASSUME IInv, work # <<>>, Head(work).do \notin {"program", "catch"}, Bails
  PROVE  \E caught \in 1 .. Len(work) :
           /\ work[caught].do = "catch" /\ \A j \in 1 .. caught - 1 : work[j].do # "catch"
           /\ position' = recover_from(work[caught].n, position)
           /\ work' = SubSeq(work, caught + 1, Len(work))
           /\ depth' = DepthRestored(SubSeq(work, 1, caught))
           /\ lostList' = (lostList \/ \E i \in 1 .. caught : work[i].do = "end_of_list")
           /\ tokens' = tokens /\ closed' = closed
<1> DEFINE S == {i \in 1 .. Len(work) : work[i].do = "catch"}
           Nearest(i) == work[i].do = "catch" /\ \A j \in 1 .. i - 1 : work[j].do # "catch"
<1>1. Len(work) \in Nat
  BY LenProperties DEF IInv, Types
<1>2. S \subseteq Nat /\ S # {}
  BY ErrorsAreCaught
<1>3. PICK least \in S : \A i \in S : least <= i
  BY <1>2, HasLeast
<1>4. least \in 1 .. Len(work) /\ Nearest(least)
  <2>1. \A j \in 1 .. least - 1 : j \in 1 .. Len(work) /\ ~(least <= j)
    BY <1>1, <1>3
  <2> QED
    BY <1>3, <2>1
<1> HIDE DEF S, Nearest
<1>5. PICK caught \in 1 .. Len(work) : /\ caught = CHOOSE i \in 1 .. Len(work) : Nearest(i)
                                       /\ Nearest(caught)
  BY <1>4
<1>6. /\ position' = recover_from(work[caught].n, position)
      /\ work' = SubSeq(work, caught + 1, Len(work))
      /\ depth' = DepthRestored(SubSeq(work, 1, caught))
      /\ lostList' = (lostList \/ \E i \in 1 .. caught : work[i].do = "end_of_list")
      /\ tokens' = tokens /\ closed' = closed
  BY <1>5 DEF Bails, Nearest
<1> QED
  BY <1>5, <1>6 DEF Nearest

LEMMA BailsIsBailing ==
  ASSUME IInv, work # <<>>, Head(work).do \notin {"program", "catch"}, Bails
  PROVE  WorkStep
<1>1. PICK caught \in 1 .. Len(work) :
        /\ work[caught].do = "catch"
        /\ position' = recover_from(work[caught].n, position)
        /\ work' = SubSeq(work, caught + 1, Len(work))
        /\ depth' = DepthRestored(SubSeq(work, 1, caught))
        /\ tokens' = tokens
  BY BailsToNearest
<1>2. position' \in 0 .. Len(tokens)
  BY <1>1, RecoveryStays DEF IInv, Types
<1> QED
  BY <1>1, <1>2 DEF Bailing, WorkStep
-----------------------------------------------------------------------------
(* The calls that functions make, by what they may do to the depth. *)
LEMMA Kinds ==
  Plain \subseteq Steady /\ Plain \subseteq Leaky /\ Steady \subseteq Item /\ Leaky \subseteq Item
<1>1. Plain \subseteq Steady /\ Steady \subseteq Item
  BY DEF Plain, Steady
<1>2. Plain \subseteq Leaky
  BY DEF Plain, Leaky, Unsteady
<1>3. Leaky \subseteq Item
  BY DEF Leaky
<1> QED
  BY <1>1, <1>2, <1>3

LEMMA ParseIsItem ==
  ASSUME NEW f \in Call
  PROVE  Parse(f) \in Item /\ Parse(f).do = f
BY DEF Parse, Item, Label

LEMMA PlainCalls ==
  ASSUME NEW f \in Call, f \notin Unsteady \cup Levelled
  PROVE  Parse(f) \in Plain
BY ParseIsItem DEF Plain

LEMMA SteadyCalls ==
  ASSUME NEW f \in Call, f \notin Unsteady
  PROVE  Parse(f) \in Steady
BY ParseIsItem DEF Steady

LEMMA LeakyCalls ==
  ASSUME NEW f \in Call, f \notin Levelled \cup {"restore"}
  PROVE  Parse(f) \in Leaky
BY ParseIsItem DEF Leaky

LEMMA OtherCalls ==
  ASSUME NEW n \in Nat
  PROVE  /\ \A t \in TokenKind : Expect(t) \in Plain
         /\ Advance \in Plain /\ Deepen \in Leaky
         /\ Operand(n) \in Plain /\ Operators(n) \in Leaky
         /\ Catch(n) \in Plain /\ Take(n) \in Plain /\ EndOfBlock(n) \in Plain
         /\ \A op \in Label : Build(op, n) \in Plain
<1>1. \A t \in TokenKind : Expect(t) \in Item /\ Expect(t).do = "expect"
  BY DEF Expect, Item, Call, Label
<1>2. Advance \in Plain /\ Deepen \in Leaky
  BY PlainCalls, LeakyCalls DEF Advance, Deepen, Call, Unsteady, Levelled
<1>3. Operand(n) \in Item /\ Operand(n).do = "binary"
  BY DEF Operand, Item, Call, Label
<1>4. Operators(n) \in Item /\ Operators(n).do = "binary_chain"
  BY DEF Operators, Item, Call, Label
<1>5. Catch(n) \in Item /\ Catch(n).do = "catch"
  BY DEF Catch, Item, Call, Label
<1>6. Take(n) \in Item /\ Take(n).do = "take"
  BY DEF Take, Item, Call, Label
<1>7. EndOfBlock(n) \in Item /\ EndOfBlock(n).do = "end_of_block"
  BY DEF EndOfBlock, Item, Call, Label
<1>8. \A op \in Label : Build(op, n) \in Item /\ Build(op, n).do = "build"
  BY DEF Build, Item, Call
<1> USE DEF Unsteady, Levelled
<1>9. \A t \in TokenKind : Expect(t) \in Plain
  BY <1>1 DEF Plain
<1>10. Operand(n) \in Plain /\ Operators(n) \in Leaky
  BY <1>3, <1>4 DEF Plain, Leaky
<1>11. Catch(n) \in Plain /\ Take(n) \in Plain /\ EndOfBlock(n) \in Plain
  BY <1>5, <1>6, <1>7 DEF Plain
<1>12. \A op \in Label : Build(op, n) \in Plain
  BY <1>8 DEF Plain
<1> QED
  BY <1>2, <1>9, <1>10, <1>11, <1>12
-----------------------------------------------------------------------------
(* Running a call, by the calls its body makes. *)
LEMMA Looking ==
  ASSUME IInv
  PROVE  /\ position \in 0 .. Len(tokens) /\ position \in Nat /\ position + 1 \in Nat
         /\ depth \in 0 .. MaxDepth /\ depth \in Nat
         /\ peek_at(0) \in TokenKind \cup {"eof"}
         /\ work # <<>> => Head(work) \in Item /\ Head(work).n \in Nat
<1>1. Len(tokens) \in Nat /\ position \in 0 .. Len(tokens) /\ depth \in 0 .. MaxDepth /\ MaxDepth \in Nat
  BY LenProperties, ParserAssumption DEF IInv, Types
<1>2. peek_at(0) \in TokenKind \cup {"eof"}
  <2>1. CASE position + 0 < Len(tokens)
    <3>1. position + 0 + 1 \in 1 .. Len(tokens)
      BY <1>1, <2>1
    <3>2. tokens[position + 0 + 1] \in TokenKind
      BY <3>1, ElementOfSeq DEF IInv, Types
    <3> QED
      BY <2>1, <3>2 DEF peek_at
  <2>2. CASE ~(position + 0 < Len(tokens))
    BY <2>2 DEF peek_at
  <2> QED
    BY <2>1, <2>2
<1>3. work # <<>> => Head(work) \in Item
  BY HeadTailProperties DEF IInv, Types
<1>4. \A call \in Item : call.n \in Nat
  BY DEF Item
<1> QED
  BY <1>1, <1>2, <1>3, <1>4

LEMMA Goes ==
  ASSUME IInv, work # <<>>, NEW calls \in Seq(Steady), Calling(calls), tokens' = tokens, depth' = depth,
         position' \in 0 .. Len(tokens), KeepsAnchor(calls), Head(work).do \notin {"restore", "deepen"},
         calls \in Seq(Plain) \/ Head(work).do \in Levelled
  PROVE  WorkStep
<1>1. calls \in Seq(Item)
  BY Kinds, SeqMonotonic
<1>2. Pushes(calls)
  BY <1>1 DEF Pushes, Calling
<1> QED
  BY <1>2 DEF Steadily, WorkStep

LEMMA PlainRuns ==
  ASSUME IInv, work # <<>>, Head(work).do \notin {"restore", "deepen", "program", "catch"},
         NEW calls \in Seq(Plain), Calls(calls)
  PROVE  WorkStep
<1>1. calls \in Seq(Steady)
  BY Kinds, SeqMonotonic
<1>2. KeepsAnchor(calls)
  BY DEF KeepsAnchor
<1>3. Calling(calls) /\ tokens' = tokens /\ depth' = depth /\ position' \in 0 .. Len(tokens)
  BY Looking DEF Calls
<1> QED
  BY <1>1, <1>2, <1>3, Goes

LEMMA LevelRuns ==
  ASSUME IInv, work # <<>>, Head(work).do \in Levelled,
         NEW calls \in Seq(Steady), KeepsAnchor(calls), Calls(calls)
  PROVE  WorkStep
<1>1. Calling(calls) /\ tokens' = tokens /\ depth' = depth /\ position' \in 0 .. Len(tokens)
  BY Looking DEF Calls
<1>2. Head(work).do \notin {"restore", "deepen"}
  BY DEF Levelled
<1> QED
  BY <1>1, <1>2, Goes

LEMMA LeakyRuns ==
  ASSUME IInv, work # <<>>, Head(work).do \in {"unary_inner", "binary_chain", "postfix"},
         NEW calls \in Seq(Leaky), Calls(calls)
  PROVE  WorkStep
<1>1. calls \in Seq(Item)
  BY Kinds, SeqMonotonic
<1>2. Pushes(calls) /\ depth' = depth
  BY <1>1, Looking DEF Pushes, Calls, Calling
<1> QED
  BY <1>2 DEF Leakily, WorkStep

LEMMA RestoringRuns ==
  ASSUME IInv, work # <<>>, Head(work).do \notin Unsteady \cup {"program", "catch"},
         NEW inner \in Seq(Leaky), Calls(inner \o <<Restore(depth)>>)
  PROVE  WorkStep
<1>1. Restore(depth) \in Item
  <2>1. \A n \in Nat : Restore(n) \in Item
    BY DEF Restore, Item, Call, Label
  <2> QED
    BY <2>1, Looking
<1> DEFINE last == <<Restore(depth)>>
<1>2. last \in Seq(Item)
  BY <1>1
<1>3. inner \in Seq(Item)
  BY Kinds, SeqMonotonic
<1> HIDE DEF last
<1>4. inner \o last \in Seq(Item)
  BY <1>2, <1>3, ConcatProperties
<1>5. Pushes(inner \o last) /\ depth' = depth
  BY <1>4, Looking DEF Pushes, Calls, Calling, last
<1> QED
  BY <1>5 DEF Restoringly, WorkStep, last

LEMMA NestedRuns ==
  ASSUME IInv, work # <<>>, Head(work).do \notin Unsteady \cup {"program", "catch"},
         NEW calls \in Seq(Leaky), Nested(calls)
  PROVE  WorkStep
<1>1. <<Deepen>> \o calls \in Seq(Leaky)
  <2>1. <<Deepen>> \in Seq(Leaky)
    BY OtherCalls
  <2> QED
    BY <2>1, ConcatProperties
<1> QED
  BY <1>1, RestoringRuns DEF Nested

(* The helpers. *)
LEMMA HelperSteps ==
  ASSUME IInv, Helpers
  PROVE  WorkStep
<1>1. <<>> \in Seq(Plain) /\ <<>> \in Seq(Steady) /\ <<>> \in Seq(Item) /\ <<Advance>> \in Seq(Plain)
  BY OtherCalls
<1>2. position \in 0 .. Len(tokens) /\ Advanced(position) \in 0 .. Len(tokens) /\ depth \in 0 .. MaxDepth
  BY Looking, AdvancedStays DEF IInv
<1>3. KeepsAnchor(<<>>)
  BY DEF KeepsAnchor
<1>4. CASE advance
  BY <1>1, <1>2, <1>3, <1>4, Goes DEF advance, Doing
<1>5. CASE expect
  <2>1. CASE Calls(<<Advance>>)
    BY <1>1, <1>5, <2>1, PlainRuns DEF expect, Doing
  <2>2. CASE Rejects
    BY <1>5, <2>2, BailsIsBailing DEF expect, Doing, Rejects
  <2> QED
    BY <1>5, <2>1, <2>2 DEF expect
<1>6. CASE deepen
  <2>1. CASE Bails
    BY <1>6, <2>1, BailsIsBailing DEF deepen, Doing
  <2>2. CASE ~Bails
    <3>1. Deepens
      BY <1>1, <1>2, <1>6, <2>2 DEF deepen, Doing, Deepens, Pushes, Calling
    <3> QED
      BY <3>1 DEF WorkStep
  <2> QED
    BY <2>1, <2>2
<1>7. CASE restoring_depth
  <2>1. Restores
    BY <1>1, <1>2, <1>7 DEF restoring_depth, Doing, Restores, Pushes, Calling
  <2> QED
    BY <2>1 DEF WorkStep
<1>8. CASE Caught
  BY <1>1, <1>2, <1>3, <1>8, Goes DEF Caught, Doing, Calls
<1>9. CASE build
  BY <1>1, <1>2, <1>3, <1>9, Goes DEF build, Doing
<1>10. CASE push_argument
  BY <1>1, <1>2, <1>3, <1>10, Goes DEF push_argument, Doing
<1>11. CASE take
  BY <1>1, <1>2, <1>3, <1>11, Goes DEF take, Doing
<1> QED
  BY <1>4, <1>5, <1>6, <1>7, <1>8, <1>9, <1>10, <1>11 DEF Helpers

(* A body of so many calls. *)
LEMMA Bodies1 ==
  ASSUME NEW S, NEW a \in S
  PROVE  <<a>> \in Seq(S)
OBVIOUS

LEMMA Bodies2 ==
  ASSUME NEW S, NEW a \in S, NEW b \in S
  PROVE  <<a, b>> \in Seq(S)
OBVIOUS

LEMMA Bodies3 ==
  ASSUME NEW S, NEW a \in S, NEW b \in S, NEW c \in S
  PROVE  <<a, b, c>> \in Seq(S)
OBVIOUS

LEMMA Bodies4 ==
  ASSUME NEW S, NEW a \in S, NEW b \in S, NEW c \in S, NEW d \in S
  PROVE  <<a, b, c, d>> \in Seq(S)
OBVIOUS

LEMMA Bodies5 ==
  ASSUME NEW S, NEW a \in S, NEW b \in S, NEW c \in S, NEW d \in S, NEW e \in S
  PROVE  <<a, b, c, d, e>> \in Seq(S)
OBVIOUS

LEMMA Bodies6 ==
  ASSUME NEW S, NEW a \in S, NEW b \in S, NEW c \in S, NEW d \in S, 
         NEW e \in S, NEW f \in S
  PROVE  <<a, b, c, d, e, f>> \in Seq(S)
OBVIOUS

LEMMA Bodies8 ==
  ASSUME NEW S, NEW a \in S, NEW b \in S, NEW c \in S, NEW d \in S, 
         NEW e \in S, NEW f \in S, NEW g \in S, NEW h \in S
  PROVE  <<a, b, c, d, e, f, g, h>> \in Seq(S)
OBVIOUS

(* The two joins of calls in the model. *)
LEMMA Joined2 ==
  ASSUME NEW a, NEW b
  PROVE  <<a>> \o <<b>> = <<a, b>>
<1> DEFINE S == {a, b}
           s == <<a>>
           t == <<b>>
           u == <<a, b>>
<1>1. /\ s \in Seq(S) /\ t \in Seq(S) /\ u \in Seq(S) /\ Len(s) = 1 /\ Len(t) = 1 /\ Len(u) = 2
      /\ s[1] = a /\ t[1] = b /\ u[1] = a /\ u[2] = b
  OBVIOUS
<1> HIDE DEF S, s, t, u
<1>2. s \o t \in Seq(S) /\ Len(s \o t) = 2 /\ (s \o t)[1] = a /\ (s \o t)[2] = b
  BY <1>1, ConcatProperties
<1>3. \A i \in 1 .. 2 : i = 1 \/ i = 2
  OBVIOUS
<1>4. s \o t = u
  BY <1>1, <1>2, <1>3, SeqEqual
<1> QED
  BY <1>4 DEF s, t, u

LEMMA Joined3 ==
  ASSUME NEW a, NEW b, NEW c
  PROVE  <<a, b>> \o <<c>> = <<a, b, c>>
<1> DEFINE S == {a, b, c}
           s == <<a, b>>
           t == <<c>>
           u == <<a, b, c>>
<1>1. /\ s \in Seq(S) /\ t \in Seq(S) /\ u \in Seq(S) /\ Len(s) = 2 /\ Len(t) = 1 /\ Len(u) = 3
      /\ s[1] = a /\ s[2] = b /\ t[1] = c /\ u[1] = a /\ u[2] = b /\ u[3] = c
  OBVIOUS
<1> HIDE DEF S, s, t, u
<1>2. s \o t \in Seq(S) /\ Len(s \o t) = 3 /\ (s \o t)[1] = a /\ (s \o t)[2] = b /\ (s \o t)[3] = c
  <2>1. /\ s \o t \in Seq(S) /\ Len(s \o t) = Len(s) + Len(t)
        /\ \A i \in 1 .. Len(s) + Len(t) : (s \o t)[i] = IF i <= Len(s) THEN s[i] ELSE t[i - Len(s)]
    BY <1>1, ConcatProperties, Zenon
  <2>2. Len(s \o t) = 3 /\ \A i \in 1 .. 3 : (s \o t)[i] = IF i <= 2 THEN s[i] ELSE t[i - 2]
    BY <1>1, <2>1
  <2>3. 3 - 2 = 1 /\ 1 \in 1 .. 3 /\ 2 \in 1 .. 3 /\ 3 \in 1 .. 3 /\ 1 <= 2 /\ 2 <= 2 /\ ~(3 <= 2)
    OBVIOUS
  <2> QED
    BY <1>1, <2>1, <2>2, <2>3
<1>3. \A i \in 1 .. 3 : i = 1 \/ i = 2 \/ i = 3
  OBVIOUS
<1>4. s \o t = u
  BY <1>1, <1>2, <1>3, SeqEqual
<1> QED
  BY <1>4 DEF s, t, u

LEMMA Precedences ==
  ASSUME NEW t \in DOMAIN binary_operator
  PROVE  t \in TokenKind /\ binary_operator[t] + 1 \in Nat
<1>1. t \in {"||", "&&", "==", "!=", "<", ">", "<=", ">=", "+", "-", "*", "/", "%"}
  BY DEF binary_operator
<1>2. t \in TokenKind
  BY <1>1 DEF TokenKind
<1>3. binary_operator[t] \in {1, 2, 3, 4, 5, 6}
  BY <1>1 DEF binary_operator
<1> QED
  BY <1>2, <1>3

(* Declarations. *)
LEMMA DeclarationSteps ==
  ASSUME IInv, Declarations
  PROVE  WorkStep
<1> USE DEF Doing
<1>1. <<>> \in Seq(Plain) /\ <<>> \in Seq(Steady) /\ <<Advance>> \in Seq(Plain) /\ Advance \in Plain
  BY OtherCalls
<1>2. /\ Expect("(") \in Plain /\ Expect(")") \in Plain /\ Expect("]") \in Plain
      /\ Expect(";") \in Plain /\ Expect("ident") \in Plain /\ Expect("int_lit") \in Plain
  <2>1. \A t \in TokenKind : Expect(t) \in Plain
    BY OtherCalls
  <2> QED
    BY <2>1 DEF TokenKind, Literals
<1>3. position \in Nat
  BY Looking
<1>4. CASE program
  <2>1. CASE Calls(<<>>)
    BY <1>1, <1>4, <2>1, LevelRuns DEF program, KeepsAnchor, Levelled
  <2>2. CASE Calls(<<Parse("item"), Catch(position), Parse("program")>>)
    <3> DEFINE calls == <<Parse("item"), Catch(position), Parse("program")>>
    <3>1. Parse("item") \in Steady /\ Catch(position) \in Steady /\ Parse("program") \in Steady
      BY <1>3, SteadyCalls, OtherCalls, Kinds DEF Call, Unsteady
    <3>2. calls \in Seq(Steady) /\ Len(calls) = 3 /\ calls[2] = Catch(position) /\ calls[3] = Parse("program")
      BY <3>1
    <3> HIDE DEF calls
    <3>3. KeepsAnchor(calls)
      <4>1. Head(work).do = "program"
        BY <1>4 DEF program
      <4>2. Catch(position).do = "catch" /\ Parse("program").do = "program"
        BY DEF Catch, Parse
      <4> QED
        BY <3>2, <4>1, <4>2 DEF KeepsAnchor
    <3>4. Calls(calls)
      BY <2>2 DEF calls
    <3> QED
      BY <1>4, <3>2, <3>3, <3>4, LevelRuns DEF program, Levelled
  <2> QED
    BY <1>4, <2>1, <2>2 DEF program
<1>5. CASE item
  <2> DEFINE calls == <<Parse("type_spec"), Parse("name"), Parse("rest_of_item")>>
  <2>1. calls \in Seq(Steady)
    BY SteadyCalls DEF Call, Unsteady
  <2>2. Calls(calls) /\ KeepsAnchor(calls)
    BY <1>5 DEF item, KeepsAnchor
  <2> HIDE DEF calls
  <2> QED
    BY <1>5, <2>1, <2>2, LevelRuns DEF item, Levelled
<1>6. CASE rest_of_item
  <2> DEFINE function == <<Expect("("), Parse("params"), Expect(")"), Parse("rest_of_function")>>
             variable == <<Parse("finish_var_decl"), Expect(";")>>
  <2>1. function \in Seq(Steady)
    <3>1. Expect("(") \in Steady /\ Expect(")") \in Steady
      BY <1>2, Kinds
    <3>2. Parse("params") \in Steady /\ Parse("rest_of_function") \in Steady
      BY SteadyCalls DEF Call, Unsteady
    <3> QED
      BY <3>1, <3>2, Bodies4, Zenon
  <2>2. variable \in Seq(Steady)
    <3>1. Expect(";") \in Steady
      BY <1>2, Kinds
    <3>2. Parse("finish_var_decl") \in Steady
      BY SteadyCalls DEF Call, Unsteady
    <3> QED
      BY <3>1, <3>2, Bodies2, Zenon
  <2>3. KeepsAnchor(function) /\ KeepsAnchor(variable) /\ Head(work).do \in Levelled
    BY <1>6 DEF rest_of_item, KeepsAnchor, Levelled
  <2>4. Calls(function) \/ Calls(variable)
    BY <1>6 DEF rest_of_item
  <2> HIDE DEF function, variable
  <2> QED
    BY <1>6, <2>1, <2>2, <2>3, <2>4, LevelRuns DEF rest_of_item
<1>7. CASE rest_of_function
  <2> DEFINE body == <<Parse("block")>>
             none == <<Expect(";")>>
  <2>1. body \in Seq(Steady)
    BY SteadyCalls DEF Call, Unsteady
  <2>2. none \in Seq(Steady)
    <3>1. Expect(";") \in Steady
      BY <1>2, Kinds
    <3> QED
      BY <3>1, Bodies1, Zenon
  <2>3. KeepsAnchor(body) /\ KeepsAnchor(none) /\ Head(work).do \in Levelled
    BY <1>7 DEF rest_of_function, KeepsAnchor, Levelled
  <2>4. Calls(body) \/ Calls(none)
    BY <1>7 DEF rest_of_function
  <2> HIDE DEF body, none
  <2> QED
    BY <1>7, <2>1, <2>2, <2>3, <2>4, LevelRuns DEF rest_of_function
<1>8. ASSUME NEW f \in Call \ (Unsteady \cup Levelled)
      PROVE  Parse(f) \in Plain
  BY PlainCalls
<1>9. CASE params \/ more_params
  <2>1. Parse("param") \in Plain /\ Parse("more_params") \in Plain
    BY <1>8 DEF Call, Unsteady, Levelled
  <2>2. /\ <<Parse("param"), Parse("more_params")>> \in Seq(Plain)
        /\ <<Advance, Parse("param"), Parse("more_params")>> \in Seq(Plain)
    BY <1>1, <2>1
  <2> QED
    BY <1>1, <1>9, <2>2, PlainRuns DEF params, more_params
<1>10. CASE param \/ name
  <2>1. Parse("type_spec") \in Plain /\ Parse("name") \in Plain /\ Parse("unsized") \in Plain
    BY <1>8 DEF Call, Unsteady, Levelled
  <2>2. <<Parse("type_spec"), Parse("name"), Parse("unsized")>> \in Seq(Plain)
    BY <2>1
  <2>3. <<Expect("ident")>> \in Seq(Plain)
    BY <1>2, Bodies1, Zenon
  <2> QED
    BY <1>10, <2>2, <2>3, PlainRuns DEF param, name
<1>11. CASE unsized
  <2>1. <<Advance, Expect("]")>> \in Seq(Plain)
    BY <1>1, <1>2, Bodies2, Zenon
  <2> QED
    BY <1>1, <1>11, <2>1, PlainRuns DEF unsized
<1>12. CASE type_spec \/ end_of_list
  <2>1. CASE Rejects
    BY <1>12, <2>1, BailsIsBailing DEF type_spec, end_of_list, Rejects
  <2>2. CASE ~Rejects
    BY <1>1, <1>12, <2>2, PlainRuns DEF type_spec, end_of_list
  <2> QED
    BY <2>1, <2>2
<1>13. CASE finish_var_decl
  <2>1. Parse("optional_initializer") \in Plain
    BY <1>8 DEF Call, Unsteady, Levelled
  <2>2. /\ <<Advance, Expect("int_lit"), Expect("]"), Parse("optional_initializer")>> \in Seq(Plain)
        /\ <<Parse("optional_initializer")>> \in Seq(Plain)
    BY <1>1, <1>2, <2>1, Bodies1, Bodies4, Zenon
  <2> QED
    BY <1>13, <2>2, PlainRuns DEF finish_var_decl
<1>14. CASE optional_initializer
  <2>1. Parse("initializer") \in Plain
    BY <1>8 DEF Call, Unsteady, Levelled
  <2>2. <<Advance, Parse("initializer")>> \in Seq(Plain)
    BY <1>1, <2>1
  <2> QED
    BY <1>1, <1>14, <2>2, PlainRuns DEF optional_initializer
<1>15. Parse("full_expression") \in Plain /\ Parse("more_elements") \in Plain /\ Parse("elements") \in Plain
  BY <1>8 DEF Call, Unsteady, Levelled
<1>16. CASE initializer
  <2>1. Parse("end_of_list") \in Plain
    BY <1>8 DEF Call, Unsteady, Levelled
  <2>2. /\ <<Advance, Parse("elements"), Parse("end_of_list")>> \in Seq(Plain)
        /\ <<Parse("full_expression")>> \in Seq(Plain)
    BY <1>1, <1>15, <2>1
  <2> QED
    BY <1>16, <2>2, PlainRuns DEF initializer
<1>17. CASE elements \/ more_elements
  <2>1. /\ <<Parse("full_expression"), Parse("more_elements")>> \in Seq(Plain)
        /\ <<Advance, Parse("elements")>> \in Seq(Plain)
    BY <1>1, <1>15
  <2> QED
    BY <1>1, <1>17, <2>1, PlainRuns DEF elements, more_elements
<1> QED
  BY <1>4, <1>5, <1>6, <1>7, <1>9, <1>10, <1>11, <1>12, <1>13, <1>14, <1>16, <1>17 DEF Declarations

(* Blocks and statements. *)
LEMMA StatementSteps ==
  ASSUME IInv, Statements
  PROVE  WorkStep
<1> USE DEF Doing
<1>1. <<>> \in Seq(Plain) /\ <<>> \in Seq(Steady) /\ Advance \in Plain /\ Advance \in Steady
  BY OtherCalls, Kinds
<1>2. /\ Expect("(") \in Steady /\ Expect(")") \in Steady /\ Expect(";") \in Steady
  <2>1. \A t \in TokenKind : Expect(t) \in Steady
    BY OtherCalls, Kinds
  <2> QED
    BY <2>1 DEF TokenKind
<1>3. position \in Nat /\ position + 1 \in Nat
  BY Looking
<1>4. <<Advance>> \in Seq(Plain) /\ <<Advance>> \in Seq(Steady)
  BY <1>1, Bodies1, Zenon
<1>5. CASE block
  <2> DEFINE body == <<Advance, Parse("block_items"), EndOfBlock(position + 1)>>
  <2>1. EndOfBlock(position + 1) \in Steady
    BY <1>3, OtherCalls, Kinds
  <2>2. Parse("block_items") \in Steady
    BY SteadyCalls DEF Call, Unsteady
  <2>3. body \in Seq(Steady)
    BY <1>1, <2>1, <2>2, Bodies3, Zenon
  <2>4. KeepsAnchor(body) /\ Head(work).do \in Levelled /\ Head(work).do \notin {"program", "catch"}
        /\ work # <<>>
    BY <1>5 DEF block, KeepsAnchor, Levelled
  <2>5. Calls(body) \/ Rejects
    BY <1>5 DEF block
  <2> HIDE DEF body
  <2> QED
    BY <2>3, <2>4, <2>5, LevelRuns, BailsIsBailing DEF Rejects
<1>6. CASE block_items
  <2> DEFINE pass == <<Parse("block_item"), Catch(position), Parse("block_items")>>
  <2>1. Parse("block_items") \in Steady /\ Parse("block_item") \in Steady
    BY SteadyCalls DEF Call, Unsteady
  <2>2. Catch(position) \in Steady
    BY <1>3, OtherCalls, Kinds
  <2>3. pass \in Seq(Steady)
    BY <2>1, <2>2, Bodies3, Zenon
  <2>4. KeepsAnchor(pass) /\ KeepsAnchor(<<>>) /\ Head(work).do \in Levelled /\ work # <<>>
    BY <1>6 DEF block_items, KeepsAnchor, Levelled
  <2>5. Calls(pass) \/ Calls(<<>>)
    BY <1>6 DEF block_items
  <2> HIDE DEF pass
  <2> QED
    BY <1>1, <2>3, <2>4, <2>5, LevelRuns
<1>7. CASE end_of_block
  <2>1. work # <<>> /\ Head(work).do = "end_of_block"
    BY <1>7 DEF end_of_block
  <2>2. CASE Rejects
    BY <2>1, <2>2, BailsIsBailing DEF Rejects
  <2>3. CASE ~Rejects
    <3>1. Calling(<<Advance>>) /\ tokens' = tokens /\ depth' = depth /\ position' = position
      BY <1>7, <2>3 DEF end_of_block
    <3>2. position' \in 0 .. Len(tokens) /\ KeepsAnchor(<<Advance>>)
      BY <2>1, <3>1, Looking DEF KeepsAnchor
    <3> QED
      BY <1>4, <2>1, <3>1, <3>2, Goes
  <2> QED
    BY <2>2, <2>3
<1>8. CASE block_item
  <2> DEFINE variable == <<Parse("type_spec"), Parse("name"), Parse("finish_var_decl"), Expect(";")>>
             other == <<Parse("statement")>>
  <2>1. /\ Parse("type_spec") \in Steady /\ Parse("name") \in Steady
        /\ Parse("finish_var_decl") \in Steady /\ Parse("statement") \in Steady
    BY SteadyCalls DEF Call, Unsteady
  <2>2. variable \in Seq(Steady) /\ other \in Seq(Steady)
    BY <1>2, <2>1, Bodies1, Bodies4, Zenon
  <2>3. KeepsAnchor(variable) /\ KeepsAnchor(other) /\ Head(work).do \in Levelled /\ work # <<>>
    BY <1>8 DEF block_item, KeepsAnchor, Levelled
  <2>4. Calls(variable) \/ Calls(other)
    BY <1>8 DEF block_item
  <2> HIDE DEF variable, other
  <2> QED
    BY <2>2, <2>3, <2>4, LevelRuns
<1>9. CASE statement
  <2>1. Calls(<<Deepen, Parse("statement_inner"), Restore(depth)>>)
    <3>1. Calls((<<Deepen>> \o <<Parse("statement_inner")>>) \o <<Restore(depth)>>)
      BY <1>9 DEF statement, Nested
    <3>2. <<Deepen>> \o <<Parse("statement_inner")>> = <<Deepen, Parse("statement_inner")>>
      BY Joined2
    <3> QED
      BY <3>1, <3>2, Joined3, Zenon
  <2>2. Deepen \in Item /\ Parse("statement_inner") \in Item
    BY OtherCalls, Kinds, ParseIsItem DEF Call
  <2>3. Restore(depth) \in Item
    <3>1. \A n \in Nat : Restore(n) \in Item
      BY DEF Restore, Item, Call, Label
    <3> QED
      BY <3>1, Looking
  <2>4. <<Deepen, Parse("statement_inner"), Restore(depth)>> \in Seq(Item)
    BY <2>2, <2>3, Bodies3, Zenon
  <2>5. work # <<>> /\ Head(work).do = "statement"
    BY <1>9 DEF statement
  <2>6. position' \in 0 .. Len(tokens)
    BY <2>1, Looking DEF Calls
  <2> QED
    BY <2>1, <2>4, <2>5, <2>6 DEF Pushes, Calls, Calling, OpensLevel, WorkStep
<1>10. CASE statement_inner
  <2>1. /\ Parse("block") \in Steady /\ Parse("statement") \in Steady /\ Parse("else_branch") \in Steady
        /\ Parse("full_expression") \in Steady /\ Parse("condition_clause") \in Steady
        /\ Parse("for_init") \in Steady /\ Parse("step_clause") \in Steady
    BY SteadyCalls DEF Call, Unsteady
  <2>2. /\ <<Parse("block")>> \in Seq(Steady)
        /\ <<Advance, Parse("condition_clause"), Expect(";")>> \in Seq(Steady)
        /\ <<Advance, Expect(";")>> \in Seq(Steady)
        /\ <<Parse("full_expression"), Expect(";")>> \in Seq(Steady)
    BY <1>1, <1>2, <2>1, Bodies1, Bodies2, Bodies3, Zenon
  <2>3. /\ <<Parse("statement"), Parse("else_branch")>> \in Seq(Steady)
        /\ <<Parse("statement")>> \in Seq(Steady)
    BY <2>1, Bodies1, Bodies2, Zenon
  <2>4. Condition \in Seq(Steady)
    BY <1>1, <1>2, <2>1, Bodies4, Zenon DEF Condition
  <2>5. Clauses \in Seq(Steady)
    BY <1>1, <1>2, <2>1, Bodies8, Zenon DEF Clauses
  <2>6. /\ Condition \o <<Parse("statement"), Parse("else_branch")>> \in Seq(Steady)
        /\ Condition \o <<Parse("statement")>> \in Seq(Steady)
        /\ Clauses \o <<Parse("statement")>> \in Seq(Steady)
    BY <2>3, <2>4, <2>5, ConcatProperties, Zenon
  <2>7. work # <<>> /\ Head(work).do = "statement_inner"
    BY <1>10 DEF statement_inner
  <2>8. /\ Head(work).do \in Levelled /\ Head(work).do \notin {"program", "catch"}
        /\ \A calls : KeepsAnchor(calls)
    BY <2>7 DEF Levelled, KeepsAnchor
  <2>9. ASSUME NEW calls \in Seq(Steady), Calls(calls)
        PROVE  WorkStep
    BY <2>7, <2>8, <2>9, LevelRuns
  <2>10. CASE Rejects
    BY <2>7, <2>8, <2>10, BailsIsBailing DEF Rejects
  <2>11. CASE ~Rejects
    <3>1. \/ Calls(<<Parse("block")>>)
          \/ Calls(<<Advance>>)
          \/ Calls(Condition \o <<Parse("statement"), Parse("else_branch")>>)
          \/ Calls(Condition \o <<Parse("statement")>>)
          \/ Calls(Clauses \o <<Parse("statement")>>)
          \/ Calls(<<Advance, Parse("condition_clause"), Expect(";")>>)
          \/ Calls(<<Advance, Expect(";")>>)
          \/ Calls(<<Parse("full_expression"), Expect(";")>>)
      BY <1>10, <2>11, Zenon DEF statement_inner
    <3> QED
      BY <1>4, <2>2, <2>6, <2>9, <3>1, Zenon
  <2> QED
    BY <2>10, <2>11
<1>11. CASE else_branch
  <2> DEFINE branch == <<Advance, Parse("statement")>>
  <2>1. Parse("statement") \in Steady
    BY SteadyCalls DEF Call, Unsteady
  <2>2. branch \in Seq(Steady)
    BY <1>1, <2>1, Bodies2, Zenon
  <2>3. KeepsAnchor(branch) /\ KeepsAnchor(<<>>) /\ Head(work).do \in Levelled /\ work # <<>>
    BY <1>11 DEF else_branch, KeepsAnchor, Levelled
  <2>4. Calls(branch) \/ Calls(<<>>)
    BY <1>11 DEF else_branch
  <2> HIDE DEF branch
  <2> QED
    BY <1>1, <2>2, <2>3, <2>4, LevelRuns
<1>12. <<Parse("full_expression")>> \in Seq(Plain)
  <2>1. Parse("full_expression") \in Plain
    BY PlainCalls DEF Call, Unsteady, Levelled
  <2> QED
    BY <2>1, Bodies1, Zenon
<1>13. CASE for_init
  <2>1. Parse("type_spec") \in Plain /\ Parse("name") \in Plain /\ Parse("finish_var_decl") \in Plain
    BY PlainCalls DEF Call, Unsteady, Levelled
  <2>2. <<Parse("type_spec"), Parse("name"), Parse("finish_var_decl")>> \in Seq(Plain)
    BY <2>1, Bodies3, Zenon
  <2> QED
    BY <1>1, <1>12, <1>13, <2>2, PlainRuns DEF for_init
<1>14. CASE condition_clause \/ step_clause
  BY <1>1, <1>12, <1>14, PlainRuns DEF condition_clause, step_clause, OmittedBefore
<1> QED
  BY <1>5, <1>6, <1>7, <1>8, <1>9, <1>10, <1>11, <1>13, <1>14 DEF Statements

(* Expressions. *)
LEMMA ExpressionSteps ==
  ASSUME IInv, Expressions
  PROVE  WorkStep
<1> USE DEF Doing
<1>1. <<>> \in Seq(Plain) /\ <<>> \in Seq(Leaky) /\ Advance \in Plain /\ <<Advance>> \in Seq(Plain)
  BY OtherCalls
<1>2. \A a : a \in Plain => a \in Leaky
  BY Kinds
<1>3. Expect(")") \in Plain /\ Expect("]") \in Plain
  <2>1. \A t \in TokenKind : Expect(t) \in Plain
    BY OtherCalls
  <2> QED
    BY <2>1 DEF TokenKind
<1>4. /\ Parse("expression") \in Plain /\ Parse("assignment") \in Plain /\ Parse("assigned") \in Plain
      /\ Parse("unary") \in Plain /\ Parse("primary") \in Plain /\ Parse("call_args") \in Plain
      /\ Parse("push_argument") \in Plain /\ Parse("more_args") \in Plain
  BY PlainCalls DEF Call, Unsteady, Levelled
<1>5. Parse("postfix") \in Leaky /\ Parse("unary_inner") \in Leaky /\ Deepen \in Leaky
  BY LeakyCalls, OtherCalls DEF Call, Levelled
<1>6. \A n \in Nat, op \in Label : Build(op, n) \in Plain
  BY OtherCalls
<1>7. CASE full_expression
  <2>1. Take(position) \in Plain
    BY Looking, OtherCalls
  <2>2. <<Parse("expression"), Take(position)>> \in Seq(Plain)
    BY <1>4, <2>1, Bodies2, Zenon
  <2> QED
    BY <1>7, <2>2, PlainRuns DEF full_expression
<1>8. CASE expression
  <2>1. <<Parse("assignment")>> \in Seq(Leaky)
    BY <1>2, <1>4, Bodies1, Zenon
  <2>2. work # <<>> /\ Head(work).do \notin Unsteady \cup {"program", "catch"}
    BY <1>8 DEF expression, Unsteady
  <2> QED
    BY <1>8, <2>1, <2>2, NestedRuns DEF expression
<1>9. CASE assignment
  <2>1. Operand(1) \in Plain
    BY OtherCalls
  <2>2. <<Operand(1), Parse("assigned")>> \in Seq(Plain)
    BY <1>4, <2>1, Bodies2, Zenon
  <2> QED
    BY <1>9, <2>2, PlainRuns DEF assignment
<1>10. CASE assigned
  <2>1. Build("=", 2) \in Plain
    BY <1>6 DEF Label, TokenKind
  <2>2. <<Advance, Parse("expression"), Build("=", 2)>> \in Seq(Plain)
    BY <1>1, <1>4, <2>1, Bodies3, Zenon
  <2>3. work # <<>> /\ Head(work).do = "assigned"
    BY <1>10 DEF assigned
  <2>4. Rejects \/ Calls(<<>>) \/ Calls(<<Advance, Parse("expression"), Build("=", 2)>>)
    BY <1>10, Zenon DEF assigned
  <2> QED
    BY <1>1, <2>2, <2>3, <2>4, PlainRuns, BailsIsBailing DEF Rejects
<1>11. CASE binary
  <2> DEFINE inner == <<Parse("unary"), Operators(Head(work).n)>>
  <2>1. work # <<>> /\ Head(work).do \notin Unsteady \cup {"program", "catch"}
    BY <1>11 DEF binary, Unsteady
  <2>2. Operators(Head(work).n) \in Leaky
    BY <2>1, Looking, OtherCalls
  <2>3. inner \in Seq(Leaky)
    BY <1>2, <1>4, <2>2, Bodies2, Zenon
  <2>4. Calls(inner \o <<Restore(depth)>>)
    <3>1. Calls(<<Parse("unary"), Operators(Head(work).n), Restore(depth)>>)
      BY <1>11 DEF binary
    <3> QED
      BY <3>1, Joined3, Zenon
  <2> HIDE DEF inner
  <2> QED
    BY <2>1, <2>3, <2>4, RestoringRuns
<1>12. CASE binary_chain
  <2> DEFINE least == Head(work).n
             op    == peek_at(0)
             operation == <<Deepen, Advance, RightOperand(op), Build(op, 2), Operators(least)>>
  <2>1. work # <<>> /\ Head(work).do = "binary_chain"
    BY <1>12 DEF binary_chain
  <2>2. Operators(least) \in Leaky
    BY <2>1, Looking, OtherCalls
  <2>3. ASSUME op \in DOMAIN binary_operator
        PROVE  operation \in Seq(Leaky)
    <3>1. op \in TokenKind /\ binary_operator[op] + 1 \in Nat
      BY <2>3, Precedences
    <3>2. RightOperand(op) \in Leaky
      BY <1>2, <3>1, OtherCalls DEF RightOperand
    <3>3. Build(op, 2) \in Leaky
      BY <1>2, <1>6, <3>1 DEF Label
    <3> QED
      BY <1>1, <1>2, <1>5, <2>2, <3>2, <3>3, Bodies5, Zenon
  <2>4. \/ Rejects \/ Calls(<<>>)
        \/ op \in DOMAIN binary_operator /\ Calls(operation)
    BY <1>12, Zenon DEF binary_chain
  <2> HIDE DEF operation, op
  <2> QED
    BY <1>1, <2>1, <2>3, <2>4, LeakyRuns, BailsIsBailing DEF Rejects
<1>13. CASE unary
  <2>1. <<Parse("unary_inner")>> \in Seq(Leaky)
    BY <1>5, Bodies1, Zenon
  <2>2. work # <<>> /\ Head(work).do \notin Unsteady \cup {"program", "catch"}
    BY <1>13 DEF unary, Unsteady
  <2> QED
    BY <1>13, <2>1, <2>2, NestedRuns DEF unary
<1>14. CASE unary_inner
  <2> DEFINE prefix == <<Advance, Parse("unary"), Build(peek_at(0), 1)>>
             other  == <<Parse("primary"), Parse("postfix")>>
  <2>1. work # <<>> /\ Head(work).do = "unary_inner"
    BY <1>14 DEF unary_inner
  <2>2. other \in Seq(Leaky)
    BY <1>2, <1>4, <1>5, Bodies2, Zenon
  <2>3. ASSUME At(PrefixOperators)
        PROVE  prefix \in Seq(Leaky)
    <3>1. peek_at(0) \in Label
      BY <2>3 DEF At, PrefixOperators, Label, TokenKind
    <3>2. Build(peek_at(0), 1) \in Leaky
      BY <1>2, <1>6, <3>1
    <3> QED
      BY <1>1, <1>2, <1>4, <3>2, Bodies3, Zenon
  <2>4. (At(PrefixOperators) /\ Calls(prefix)) \/ Calls(other)
    BY <1>14 DEF unary_inner
  <2> HIDE DEF prefix, other
  <2> QED
    BY <2>1, <2>2, <2>3, <2>4, LeakyRuns
<1>15. CASE postfix
  <2>1. work # <<>> /\ Head(work).do = "postfix"
    BY <1>15 DEF postfix
  <2>2. /\ Build("index", 2) \in Leaky /\ Build("call", 1) \in Leaky
        /\ Build("increment", 1) \in Leaky /\ Build("decrement", 1) \in Leaky
    BY <1>2, <1>6 DEF Label
  <2> DEFINE index == <<Deepen, Advance, Parse("expression"), Expect("]"), Build("index", 2),
                        Parse("postfix")>>
             call  == <<Deepen, Build("call", 1), Advance, Parse("call_args"), Expect(")"),
                        Parse("postfix")>>
             step  == Build(IF At({"++"}) THEN "increment" ELSE "decrement", 1)
             crement == <<Deepen, Advance, step, Parse("postfix")>>
  <2>3. step \in Leaky
    BY <2>2
  <2> HIDE DEF step
  <2>4. index \in Seq(Leaky) /\ call \in Seq(Leaky) /\ crement \in Seq(Leaky)
    <3>1. /\ Advance \in Leaky /\ Parse("expression") \in Leaky /\ Expect("]") \in Leaky
          /\ Expect(")") \in Leaky /\ Parse("call_args") \in Leaky
      BY <1>1, <1>2, <1>3, <1>4
    <3> QED
      BY <1>5, <2>2, <2>3, <3>1, Bodies4, Bodies6, Zenon
  <2>5. Calls(index) \/ Calls(call) \/ Calls(crement) \/ Calls(<<>>)
    BY <1>15, Zenon DEF postfix, step
  <2> HIDE DEF index, call, crement
  <2> QED
    BY <1>1, <2>1, <2>4, <2>5, LeakyRuns
<1>16. Argument \in Seq(Plain)
  BY <1>4, Bodies3, Zenon DEF Argument
<1>17. <<Advance>> \o Argument \in Seq(Plain)
  BY <1>1, <1>16, ConcatProperties
<1>18. CASE call_args \/ more_args
  BY <1>1, <1>16, <1>17, <1>18, PlainRuns DEF call_args, more_args
<1>19. CASE primary
  <2> DEFINE leaf == <<Advance, Build(peek_at(0), 0)>>
             inParentheses == <<Advance, Parse("expression"), Expect(")")>>
  <2>1. work # <<>> /\ Head(work).do = "primary"
    BY <1>19 DEF primary
  <2>2. inParentheses \in Seq(Plain)
    BY <1>1, <1>3, <1>4, Bodies3, Zenon
  <2>3. ASSUME At(Literals \cup {"ident"})
        PROVE  leaf \in Seq(Plain)
    <3>1. peek_at(0) \in Label
      BY <2>3 DEF At, Literals, Label, TokenKind
    <3>2. Build(peek_at(0), 0) \in Plain
      BY <1>6, <3>1
    <3> QED
      BY <1>1, <3>2, Bodies2, Zenon
  <2>4. Rejects \/ (At(Literals \cup {"ident"}) /\ Calls(leaf)) \/ Calls(inParentheses)
    BY <1>19, Zenon DEF primary
  <2> HIDE DEF leaf, inParentheses
  <2> QED
    BY <2>1, <2>2, <2>3, <2>4, PlainRuns, BailsIsBailing DEF Rejects
<1> QED
  BY <1>7, <1>8, <1>9, <1>10, <1>11, <1>12, <1>13, <1>14, <1>15, <1>18, <1>19 DEF Expressions

(* Every step. *)
LEMMA StepsAreWorkSteps ==
  ASSUME IInv, [Next]_vars
  PROVE  WorkStep
<1>1. CASE Done \/ UNCHANGED vars
  BY <1>1 DEF Done, vars, Rests, WorkStep
<1> QED
  BY <1>1, HelperSteps, DeclarationSteps, StatementSteps, ExpressionSteps DEF Next

LEMMA StartsSo == Init => IInv
<1> SUFFICES ASSUME Init
             PROVE  IInv
  OBVIOUS
<1>1. tokens \in Seq(TokenKind) /\ Len(tokens) \in Nat
  BY ParserAssumption, LenProperties DEF Init
<1>2. Parse("program") \in Item /\ Parse("program").do = "program"
  BY ParseIsItem DEF Call
<1>3. /\ work \in Seq(Item) /\ Len(work) = 1 /\ work[1] = Parse("program")
  BY <1>2 DEF Init
<1>4. Low(work, 1) = Parse("program")
  BY <1>3 DEF Low
<1>5. Types
  <2>1. position \in 0 .. Len(tokens) /\ depth \in 0 .. MaxDepth
    BY <1>1, ParserAssumption DEF Init
  <2> QED
    BY <1>1, <1>2, <1>3, <1>4, <2>1 DEF Types
<1>6. Anchored
  BY <1>2, <1>3, <1>4 DEF Anchored
<1>7. Levels
  <2>1. SteadyBetween(work, 1, Len(work) + 1)
    BY <1>3 DEF SteadyBetween
  <2>2. Below(work, 1) = {}
    <3>1. \A c \in 1 .. 1 : Low(work, c).do # "restore"
      BY <1>2, <1>4
    <3> QED
      BY <3>1 DEF Below
  <2>3. depth = Level(work, 1)
    BY <2>2, FS_EmptySet DEF Level, Init
  <2> QED
    BY <1>3, <2>1, <2>3 DEF Levels, GivenBack, Now
<1> QED
  BY <1>5, <1>6, <1>7 DEF IInv

(* The parser never reads past its tokens and never parses deeper than     *)
(* MAX_NESTING_DEPTH, there is a loop to catch every error, and every call *)
(* still to make will be made at the depth it belongs to.                  *)
THEOREM CallsKeepTheirLevel == Spec => []IInv
<1>1. IInv /\ [Next]_vars => IInv'
  BY StepsAreWorkSteps, WorkStepsKeep
<1> QED
  BY <1>1, StartsSo, PTL DEF Spec
-----------------------------------------------------------------------------
(* The level of the next call, counted from the first call as              *)
(* LevelsAreGivenBack counts it.                                           *)
LEMMA LevelCounts ==
  ASSUME Types
  PROVE  Level(work, Len(work)) = Cardinality({i \in DOMAIN work : work[i].do = "restore"})
<1> DEFINE S == Below(work, Len(work))
           T == {i \in DOMAIN work : work[i].do = "restore"}
           f == [c \in S |-> Len(work) + 1 - c]
<1>1. work \in Seq(Item) /\ Len(work) \in Nat /\ DOMAIN work = 1 .. Len(work)
  BY LenProperties DEF Types
<1>2. IsFiniteSet(S)
  <2>1. IsFiniteSet(1 .. Len(work)) /\ S \subseteq 1 .. Len(work)
    BY <1>1, FS_Interval DEF Below
  <2> QED
    BY <2>1, FS_Subset
<1>3. \A c \in S : c \in 1 .. Len(work) /\ Len(work) + 1 - c \in T
  <2> SUFFICES ASSUME NEW c \in S
               PROVE  c \in 1 .. Len(work) /\ Len(work) + 1 - c \in T
    OBVIOUS
  <2>1. c \in 1 .. Len(work) /\ Low(work, c).do = "restore"
    BY DEF Below
  <2>2. Len(work) + 1 - c \in 1 .. Len(work)
    BY <1>1, <2>1
  <2> QED
    BY <1>1, <2>1, <2>2 DEF Low
<1>4. \A i \in T : i \in 1 .. Len(work) /\ Len(work) + 1 - i \in S
  <2> SUFFICES ASSUME NEW i \in T
               PROVE  i \in 1 .. Len(work) /\ Len(work) + 1 - i \in S
    OBVIOUS
  <2>1. i \in 1 .. Len(work) /\ work[i].do = "restore"
    BY <1>1
  <2>2. Len(work) + 1 - i \in 1 .. Len(work) /\ Len(work) + 1 - (Len(work) + 1 - i) = i
    BY <1>1, <2>1
  <2> QED
    BY <1>1, <2>1, <2>2 DEF Low, Below
<1> HIDE DEF S, T
<1>5. f \in [S -> T] /\ \A c \in S : f[c] = Len(work) + 1 - c
  BY <1>3
<1> HIDE DEF f
<1>6. \A a, c \in S : f[a] = f[c] => a = c
  BY <1>1, <1>3, <1>5
<1>7. \A i \in T : \E c \in S : f[c] = i
  <2> SUFFICES ASSUME NEW i \in T
               PROVE  \E c \in S : f[c] = i
    OBVIOUS
  <2>1. PICK c \in S : c = Len(work) + 1 - i
    BY <1>4
  <2>2. f[c] = i
    BY <1>1, <1>4, <1>5, <2>1
  <2> QED
    BY <2>2
<1>8. f \in Bijection(S, T)
  BY <1>5, <1>6, <1>7 DEF Bijection, Injection, Surjection, IsInjective
<1>9. Cardinality(S) = Cardinality(T)
  BY <1>2, <1>8, FS_Bijection DEF ExistsBijection
<1> QED
  BY <1>9 DEF S, T, Level

(* "No way out of a construct can leave its levels charged to whatever the *)
(* parser reads next", for every stream of tokens and every limit.         *)
THEOREM LevelsAreAlwaysGivenBack == Spec => []LevelsAreGivenBack
<1>1. IInv => LevelsAreGivenBack
  <2> SUFFICES ASSUME IInv
               PROVE  LevelsAreGivenBack
    OBVIOUS
  <2>1. depth \in 0 .. MaxDepth /\ MaxDepth \in Nat
    BY ParserAssumption DEF IInv, Types
  <2>2. ASSUME work # <<>>, Head(work).do \in {"program", "block_items"}
        PROVE  depth = Cardinality({i \in DOMAIN work : work[i].do = "restore"})
    <3>1. work \in Seq(Item) /\ Len(work) \in Nat \ {0} /\ Head(work) = work[1]
      <4>1. work \in Seq(Item)
        BY DEF IInv, Types
      <4> QED
        BY <2>2, <4>1, EmptySeq, LenProperties
    <3>2. Low(work, Len(work)) = Head(work) /\ Len(work) \in 1 .. Len(work)
      BY <3>1 DEF Low
    <3>3. GivenBack(work, depth, Len(work))
      BY <2>2, <3>2 DEF IInv, Levels, Levelled
    <3>4. depth = Level(work, Len(work))
      BY <3>1, <3>3 DEF GivenBack, Now, Opening
    <3> QED
      BY <3>4, LevelCounts DEF IInv
  <2> QED
    BY <2>1, <2>2 DEF LevelsAreGivenBack
<1> QED
  BY <1>1, CallsKeepTheirLevel, PTL

(***************************************************************************)
(* A block ends at the `}` that matches its `{`, whatever errors recovery  *)
(* skipped inside it, for every stream of tokens and every limit - unless  *)
(* one of the errors was inside a brace list.                              *)
(*                                                                         *)
(* The argument.  Count the braces read since a block began and not yet    *)
(* closed: they are the blocks and the lists still to be closed before it  *)
(* (Counted), so that none is left when its own `}` is read.  A brace is   *)
(* read in two ways only.  A function advances over it: that is the first  *)
(* or the last thing that a block or a list does, and nothing else reads a *)
(* brace.  Or recovery skips it: the skip stops where the braces it passed *)
(* are closed, or at a `}` of the enclosing block, which it leaves there   *)
(* (SkipKeepsBalance), and progress is never forced over that `}`, since   *)
(* the loop over a block ends at it instead of trying a statement there    *)
(* (RecoveryKeepsBalance).  What an error abandons holds no end of a block *)
(* (NoBlockAbandoned), because the loop over a block catches the errors    *)
(* inside of it; but it may hold the end of a list, and then a brace is    *)
(* open that nothing is left to close: the exception.                      *)
(***************************************************************************)

(* Three tokens, by name: the provers are kept from reading the strings.   *)
Left   == "{"
Right  == "}"
End    == ";"
Braces == {Left, Right}
Ends   == {"end_of_block", "end_of_list"}

LEMMA TwoBraces == Left # Right
  BY Zenon DEF Left, Right

(* The tokens of one kind after p and up to q. *)
Tally(kind, p, q) == {i \in p + 1 .. q : tokens[i] = kind}

LEMMA TallyFinite ==
  ASSUME NEW p \in Nat, NEW q \in Nat, NEW t
  PROVE  IsFiniteSet(Tally(t, p, q)) /\ Cardinality(Tally(t, p, q)) \in Nat
<1>1. IsFiniteSet(p + 1 .. q) /\ Tally(t, p, q) \subseteq p + 1 .. q
  BY FS_Interval DEF Tally
<1> QED
  BY <1>1, FS_Subset, FS_CardinalityType

LEMMA NestingIs ==
  ASSUME NEW p \in Nat, NEW q \in Nat
  PROVE  /\ Nesting(p, q) = Cardinality(Tally(Left, p, q)) - Cardinality(Tally(Right, p, q))
         /\ Nesting(p, q) \in Int
<1>1. Nesting(p, q) = Cardinality(Tally(Left, p, q)) - Cardinality(Tally(Right, p, q))
  BY Zenon DEF Nesting, Tally, Left, Right
<1> QED
  BY <1>1, TallyFinite

LEMMA NestingStarts ==
  ASSUME NEW p \in Nat
  PROVE  Nesting(p, p) = 0
<1>1. \A t : Tally(t, p, p) = {}
  <2>1. p + 1 .. p = {}
    OBVIOUS
  <2> QED
    BY <2>1 DEF Tally
<1>2. Cardinality(Tally(Left, p, p)) = 0 /\ Cardinality(Tally(Right, p, p)) = 0
  BY <1>1, FS_EmptySet
<1> QED
  BY <1>2, NestingIs

(* Stretches of the stream one after the other. *)
LEMMA NestingAdds ==
  ASSUME NEW p \in Nat, NEW q \in Nat, NEW r \in Nat, p <= q, q <= r
  PROVE  Nesting(p, r) = Nesting(p, q) + Nesting(q, r)
<1>1. ASSUME NEW t
      PROVE  Cardinality(Tally(t, p, r)) = Cardinality(Tally(t, p, q)) + Cardinality(Tally(t, q, r))
  <2>1. Tally(t, p, r) = Tally(t, p, q) \cup Tally(t, q, r)
    BY DEF Tally
  <2>2. Tally(t, p, q) \cap Tally(t, q, r) = {}
    BY DEF Tally
  <2>3. /\ IsFiniteSet(Tally(t, p, q)) /\ IsFiniteSet(Tally(t, q, r))
        /\ Cardinality(Tally(t, p, q)) \in Nat /\ Cardinality(Tally(t, q, r)) \in Nat
    BY TallyFinite
  <2>4. Cardinality(Tally(t, p, q) \cap Tally(t, q, r)) = 0
    BY <2>2, FS_EmptySet
  <2>5. Cardinality(Tally(t, p, r)) = Cardinality(Tally(t, p, q)) + Cardinality(Tally(t, q, r))
                                    - Cardinality(Tally(t, p, q) \cap Tally(t, q, r))
    BY <2>1, <2>3, FS_Union
  <2> QED
    BY <2>3, <2>4, <2>5
<1>2. /\ Cardinality(Tally(Left, p, r)) = Cardinality(Tally(Left, p, q)) + Cardinality(Tally(Left, q, r))
      /\ Cardinality(Tally(Right, p, r)) = Cardinality(Tally(Right, p, q)) + Cardinality(Tally(Right, q, r))
  BY <1>1
<1>3. /\ Cardinality(Tally(Left, p, q)) \in Nat /\ Cardinality(Tally(Left, q, r)) \in Nat
      /\ Cardinality(Tally(Right, p, q)) \in Nat /\ Cardinality(Tally(Right, q, r)) \in Nat
  BY TallyFinite
<1>4. /\ Nesting(p, r) = Cardinality(Tally(Left, p, r)) - Cardinality(Tally(Right, p, r))
      /\ Nesting(p, q) = Cardinality(Tally(Left, p, q)) - Cardinality(Tally(Right, p, q))
      /\ Nesting(q, r) = Cardinality(Tally(Left, q, r)) - Cardinality(Tally(Right, q, r))
  BY NestingIs
<1> QED
  BY <1>2, <1>3, <1>4

LEMMA NestingPasses ==
  ASSUME NEW q \in Nat
  PROVE  Nesting(q, q + 1) = IF tokens[q + 1] = Left THEN 1
                             ELSE IF tokens[q + 1] = Right THEN -1 ELSE 0
<1>1. ASSUME NEW t
      PROVE  Cardinality(Tally(t, q, q + 1)) = IF tokens[q + 1] = t THEN 1 ELSE 0
  <2>1. \A i \in q + 1 .. q + 1 : i = q + 1
    OBVIOUS
  <2>2. CASE tokens[q + 1] = t
    <3>1. Tally(t, q, q + 1) = {q + 1}
      BY <2>1, <2>2 DEF Tally
    <3> QED
      BY <2>2, <3>1, FS_Singleton
  <2>3. CASE tokens[q + 1] # t
    <3>1. Tally(t, q, q + 1) = {}
      BY <2>1, <2>3 DEF Tally
    <3> QED
      BY <2>3, <3>1, FS_EmptySet
  <2> QED
    BY <2>2, <2>3
<1>2. Nesting(q, q + 1) = Cardinality(Tally(Left, q, q + 1)) - Cardinality(Tally(Right, q, q + 1))
  BY NestingIs
<1> QED
  BY <1>1, <1>2, TwoBraces

(* Between p and q the stream has left `k` braces open, and never closed   *)
(* one that was open at p.                                                 *)
Balanced(p, q, k) ==
  p <= q /\ Nesting(p, q) = k /\ \A r \in p .. q : Nesting(p, r) >= 0

LEMMA BalancedStarts ==
  ASSUME NEW p \in Nat
  PROVE  Balanced(p, p, 0)
<1>1. \A r \in p .. p : r = p
  OBVIOUS
<1> QED
  BY <1>1, NestingStarts DEF Balanced

LEMMA BalancedAdds ==
  ASSUME NEW p \in Nat, NEW q \in Nat, NEW r \in Nat, NEW k \in Nat,
         Balanced(p, q, k), Balanced(q, r, 0)
  PROVE  Balanced(p, r, k)
<1>1. Nesting(p, r) = k
  BY NestingAdds DEF Balanced
<1>2. ASSUME NEW s \in p .. r
      PROVE  Nesting(p, s) >= 0
  <2>1. CASE s <= q
    BY <2>1 DEF Balanced
  <2>2. CASE q <= s
    <3>1. s \in Nat /\ Nesting(p, s) = Nesting(p, q) + Nesting(q, s)
      BY <2>2, NestingAdds DEF Balanced
    <3>2. Nesting(q, s) >= 0 /\ Nesting(q, s) \in Int
      BY <2>2, <3>1, NestingIs DEF Balanced
    <3> QED
      BY <3>1, <3>2 DEF Balanced
  <2> QED
    BY <2>1, <2>2
<1> QED
  BY <1>1, <1>2 DEF Balanced

LEMMA BalancedPasses ==
  ASSUME NEW p \in Nat, NEW q \in Nat, NEW k \in Nat, Balanced(p, q, k),
         NEW m \in Nat, Nesting(q, q + 1) = m - k
  PROVE  Balanced(p, q + 1, m)
<1>1. Nesting(p, q + 1) = m
  BY NestingAdds DEF Balanced
<1>2. ASSUME NEW s \in p .. q + 1
      PROVE  Nesting(p, s) >= 0
  <2>1. s <= q \/ s = q + 1
    OBVIOUS
  <2> QED
    BY <1>1, <2>1 DEF Balanced
<1> QED
  BY <1>1, <1>2 DEF Balanced
-----------------------------------------------------------------------------
(* Recovery keeps the balance, unless it runs out of tokens: it looks no   *)
(* further than the first place where every brace it passed is closed and  *)
(* the enclosing block may end.                                            *)
MayEnd(p, q) ==
  \/ q = Len(tokens)
  \/ tokens[q + 1] = Right /\ Nesting(p, q) = 0
  \/ q > p /\ tokens[q] \in {End, Right} /\ Nesting(p, q) = 0

LEMMA SkipEndsThere ==
  ASSUME NEW p, NEW q
  PROVE  SkipEnds(p, q) <=> MayEnd(p, q)
  BY Zenon DEF SkipEnds, MayEnd, Right, End

LEMMA EndIsNoBrace == End # Left /\ End # Right
  BY Zenon DEF Left, Right, End

LEMMA SkipKeepsBalance ==
  ASSUME Types, NEW p \in 0 .. Len(tokens), skip_to_boundary(p) < Len(tokens)
  PROVE  skip_to_boundary(p) \in Nat /\ Balanced(p, skip_to_boundary(p), 0)
<1> DEFINE s == skip_to_boundary(p)
           N == Len(tokens)
<1>1. N \in Nat /\ p \in Nat
  BY LenProperties DEF Types
<1>2. PICK q \in p .. N : /\ SkipEnds(p, q)
                          /\ \A earlier \in p .. q - 1 : ~SkipEnds(p, earlier)
                          /\ \/ s = q
                             \/ q < N /\ tokens[q + 1] = End /\ s = q + 1
  BY SkipFinds, Zenon DEF End
<1>3. s < N
  OBVIOUS
<1> HIDE DEF s, N
<1>4. q \in Nat /\ p <= q /\ q < N
  BY <1>1, <1>2, <1>3
<1>5. Nesting(p, q) = 0
  <2>1. MayEnd(p, q) /\ q # Len(tokens)
    BY <1>1, <1>2, <1>4, SkipEndsThere DEF N
  <2> QED
    BY <2>1 DEF MayEnd
<1>6. ASSUME NEW r \in p .. q, Nesting(p, r) < 0
      PROVE  FALSE
  <2> DEFINE S == {m \in p .. q : Nesting(p, m) < 0}
  <2>1. S \subseteq Nat /\ S # {}
    BY <1>1, <1>4, <1>6
  <2>2. PICK m \in S : \A n \in S : m <= n
    BY <2>1, HasLeast
  <2>3. m \in p .. q /\ m \in Nat /\ Nesting(p, m) < 0 /\ m # p
    BY <1>1, <1>4, <2>2, NestingStarts
  <2>4. PICK k \in Nat : m = k + 1
    <3>1. m - 1 \in Nat /\ m = (m - 1) + 1
      BY <1>1, <2>3
    <3> QED
      BY <3>1
  <2>5. k \in p .. q - 1 /\ k \in p .. q /\ ~(m <= k)
    BY <1>1, <1>4, <2>3, <2>4
  <2>6. Nesting(p, k) >= 0 /\ Nesting(p, k) \in Int
    BY <1>1, <2>2, <2>5, NestingIs
  <2>7. Nesting(p, k + 1) = Nesting(p, k) + Nesting(k, k + 1)
    <3>1. p <= k /\ k <= k + 1 /\ k + 1 \in Nat
      BY <1>1, <2>5
    <3> QED
      BY <1>1, <3>1, NestingAdds
  <2>8. Nesting(k, k + 1) = IF tokens[k + 1] = Left THEN 1 ELSE IF tokens[k + 1] = Right THEN -1 ELSE 0
    BY NestingPasses
  <2>9. tokens[k + 1] = Right /\ Nesting(p, k) = 0
    <3>1. Nesting(p, k + 1) < 0
      BY <2>3, <2>4
    <3> QED
      BY <2>6, <2>7, <2>8, <3>1
  <2>10. SkipEnds(p, k)
    BY <2>9, SkipEndsThere DEF MayEnd
  <2> QED
    BY <1>2, <2>5, <2>10
<1>7. Balanced(p, q, 0)
  <2>1. \A r \in p .. q : Nesting(p, r) >= 0
    <3>1. \A r \in p .. q : r \in Nat /\ Nesting(p, r) \in Int
      BY <1>1, <1>4, NestingIs
    <3> QED
      BY <1>6, <3>1
  <2> QED
    BY <1>4, <1>5, <2>1 DEF Balanced
<1>8. CASE s = q
  BY <1>4, <1>7, <1>8 DEF s
<1>9. CASE tokens[q + 1] = End /\ s = q + 1
  <2>1. Nesting(q, q + 1) = 0
    BY <1>4, <1>9, NestingPasses, EndIsNoBrace
  <2>2. Balanced(p, q + 1, 0)
    BY <1>1, <1>4, <1>7, <2>1, BalancedPasses
  <2> QED
    BY <1>4, <1>9, <2>2 DEF s
<1> QED
  BY <1>2, <1>8, <1>9

(* Progress is forced only where the error is the token that the loop was  *)
(* at, which is no `}` for the loop over a block.                          *)
LEMMA RecoveryKeepsBalance ==
  ASSUME Types, NEW p \in 0 .. Len(tokens), NEW started_at \in 0 .. p,
         started_at < Len(tokens), tokens[started_at + 1] # Right,
         recover_from(started_at, p) < Len(tokens)
  PROVE  recover_from(started_at, p) \in Nat /\ Balanced(p, recover_from(started_at, p), 0)
<1> DEFINE s == skip_to_boundary(p)
<1>1. s \in 0 .. Len(tokens) /\ Len(tokens) \in Nat
  BY SkipStays, LenProperties DEF Types
<1>2. recover_from(started_at, p) = IF s = started_at THEN Advanced(s) ELSE s
  BY DEF recover_from
<1>3. s < Len(tokens)
  BY <1>1, <1>2 DEF Advanced
<1>4. s \in Nat /\ Balanced(p, s, 0)
  BY <1>3, SkipKeepsBalance
<1>5. s # started_at
  <2> SUFFICES ASSUME s = started_at
               PROVE  FALSE
    OBVIOUS
  <2>1. s = p
    BY <1>4 DEF Balanced
  <2>2. PICK q \in p .. Len(tokens) :
          /\ SkipEnds(p, q)
          /\ s = q \/ (q < Len(tokens) /\ s = q + 1)
    BY SkipFinds, Zenon
  <2>3. q = p
    BY <1>1, <2>1, <2>2
  <2>4. MayEnd(p, p)
    BY <2>2, <2>3, SkipEndsThere
  <2>5. tokens[p + 1] = Right
    BY <1>1, <1>3, <2>1, <2>4 DEF MayEnd
  <2> QED
    BY <2>1, <2>5
<1> QED
  BY <1>2, <1>4, <1>5
-----------------------------------------------------------------------------
(* The next token from p. *)
Token(p) == IF p < Len(tokens) THEN tokens[p + 1] ELSE "eof"

(* How far the stream has been read once an advance that is next is made,  *)
(* and the blocks and lists to be closed before the b-th call from last.   *)
Reached(w, p)   == IF w # <<>> /\ Low(w, Len(w)).do = "advance" THEN Advanced(p) ELSE p
EndsIn(w, b, e) == {c \in b + 1 .. e : Low(w, c).do \in Ends}
Inner(w, b)     == Cardinality(EndsIn(w, b, Len(w)))

ProgramIsLast(w)  == \A b \in 1 .. Len(w) : Low(w, b).do = "program" => b = 1
ExpectsNoBrace(w) == \A b \in 1 .. Len(w) : Low(w, b).do = "expect" => Low(w, b).token \notin Braces

(* A loop over a block began this pass at a token that is no `}`. *)
CatchesStarts(w, p) ==
  \A b \in 1 .. Len(w) :
    Low(w, b).do = "catch" =>
      /\ Low(w, b).n \in 0 .. p
      /\ b = 2 \/ (Low(w, b).n < Len(tokens) /\ tokens[Low(w, b).n + 1] # Right)

(* An advance is made at once, or after it is known to pass no brace. *)
AdvancesNext(w, p) ==
  \A b \in 1 .. Len(w) :
    Low(w, b).do = "advance" =>
      /\ \A c \in b + 1 .. Len(w) : Low(w, c).do \in {"deepen", "build"}
      /\ b < Len(w) => Token(p) \notin Braces

(* The end of a block is reached when its loop has ended. *)
EndsAfterLoop(w, p) ==
  \A b \in 1 .. Len(w) :
    Low(w, b).do = "end_of_block" =>
      /\ b = Len(w) => Token(p) \in {Right, "eof"}
      /\ b < Len(w) => Low(w, b + 1).do = "block_items"
      /\ b + 1 < Len(w) => \/ Low(w, b + 2).do = "catch"
                           \/ Low(w, b + 2).do = "advance" /\ b + 2 = Len(w)

(* The braces open inside of a block are those to be closed before it. *)
Counted(w, p) ==
  p < Len(tokens) =>
    \A b \in 1 .. Len(w) :
      Low(w, b).do = "end_of_block" => Balanced(Low(w, b).n, Reached(w, p), Inner(w, b))

Shape(w, p) == /\ ProgramIsLast(w) /\ ExpectsNoBrace(w) /\ CatchesStarts(w, p)
               /\ AdvancesNext(w, p) /\ EndsAfterLoop(w, p)
-----------------------------------------------------------------------------
(* The calls that a body makes, by what they ask of the invariant. *)
Fits(calls, call, p) ==
  \A k \in 1 .. Len(calls) :
    /\ calls[k].do = "expect" => calls[k].token \notin Braces
    /\ calls[k].do = "program" => k = Len(calls) /\ call.do = "program"
    /\ calls[k].do = "catch" =>
         /\ calls[k].n = p /\ k = Len(calls) - 1
         /\ call.do = "program" \/ (p < Len(tokens) /\ tokens[p + 1] # Right)

LEMMA OldOrNew ==
  ASSUME NEW w, NEW calls, NEW w2, Replaced(w, calls, w2), NEW b \in 1 .. Len(w2)
  PROVE  \/ b \in 1 .. Len(w) - 1 /\ Low(w2, b) = Low(w, b)
         \/ /\ b \in Len(w) .. Len(w2)
            /\ \E k \in 1 .. Len(calls) : k = Len(w2) + 1 - b /\ Low(w2, b) = calls[k]
<1>1. /\ Len(w) \in Nat \ {0} /\ Len(calls) \in Nat /\ Len(w2) = Len(w) - 1 + Len(calls)
      /\ \A c \in 1 .. Len(w) - 1 : Low(w2, c) = Low(w, c)
  BY DEF Replaced
<1>2. CASE b \in 1 .. Len(w) - 1
  BY <1>1, <1>2
<1>3. CASE b \notin 1 .. Len(w) - 1
  <2>1. b \in Len(w) .. Len(w2)
    BY <1>1, <1>3
  <2> QED
    BY <2>1, Added
<1> QED
  BY <1>2, <1>3

LEMMA FitsKeep ==
  ASSUME NEW w, NEW calls, NEW w2, Replaced(w, calls, w2), NEW p \in Nat, NEW p2 \in Nat, p <= p2,
         Fits(calls, Low(w, Len(w)), p),
         ProgramIsLast(w), ExpectsNoBrace(w), CatchesStarts(w, p)
  PROVE  ProgramIsLast(w2) /\ ExpectsNoBrace(w2) /\ CatchesStarts(w2, p2)
<1>1. /\ Len(w) \in Nat \ {0} /\ Len(calls) \in Nat /\ Len(w2) = Len(w) - 1 + Len(calls)
      /\ \A b \in 1 .. Len(w) - 1 : Low(w2, b) = Low(w, b)
  BY DEF Replaced
<1>2. ASSUME NEW b \in 1 .. Len(w2)
      PROVE  \/ b \in 1 .. Len(w) /\ Low(w2, b) = Low(w, b)
             \/ \E k \in 1 .. Len(calls) : k = Len(w2) + 1 - b /\ Low(w2, b) = calls[k]
  <2>1. b \in 1 .. Len(w) - 1 => b \in 1 .. Len(w)
    BY <1>1
  <2> QED
    BY <2>1, OldOrNew
<1>3. Low(w, Len(w)).do = "program" => Len(w) = 1
  <2>1. Len(w) \in 1 .. Len(w)
    BY <1>1
  <2> QED
    BY <2>1 DEF ProgramIsLast
<1>4. ASSUME NEW b \in 1 .. Len(w2), Low(w2, b).do = "program"
      PROVE  b = 1
  <2>1. CASE b \in 1 .. Len(w) /\ Low(w2, b) = Low(w, b)
    BY <1>4, <2>1 DEF ProgramIsLast
  <2>2. ASSUME NEW k \in 1 .. Len(calls), k = Len(w2) + 1 - b, Low(w2, b) = calls[k]
        PROVE  b = 1
    <3>1. k = Len(calls) /\ Len(w) = 1
      BY <1>3, <1>4, <2>2 DEF Fits
    <3> QED
      BY <1>1, <2>2, <3>1
  <2> QED
    BY <1>2, <2>1, <2>2
<1>5. ASSUME NEW b \in 1 .. Len(w2), Low(w2, b).do = "expect"
      PROVE  Low(w2, b).token \notin Braces
  <2>1. CASE b \in 1 .. Len(w) /\ Low(w2, b) = Low(w, b)
    BY <1>5, <2>1 DEF ExpectsNoBrace
  <2>2. ASSUME NEW k \in 1 .. Len(calls), Low(w2, b) = calls[k]
        PROVE  Low(w2, b).token \notin Braces
    BY <1>5, <2>2 DEF Fits
  <2> QED
    BY <1>2, <2>1, <2>2
<1>6. ASSUME NEW b \in 1 .. Len(w2), Low(w2, b).do = "catch"
      PROVE  /\ Low(w2, b).n \in 0 .. p2
             /\ b = 2 \/ (Low(w2, b).n < Len(tokens) /\ tokens[Low(w2, b).n + 1] # Right)
  <2>1. CASE b \in 1 .. Len(w) /\ Low(w2, b) = Low(w, b)
    <3>1. /\ Low(w, b).n \in 0 .. p
          /\ b = 2 \/ (Low(w, b).n < Len(tokens) /\ tokens[Low(w, b).n + 1] # Right)
      BY <1>6, <2>1 DEF CatchesStarts
    <3>2. Low(w, b).n \in 0 .. p2
      BY <3>1
    <3> QED
      BY <2>1, <3>1, <3>2
  <2>2. ASSUME NEW k \in 1 .. Len(calls), k = Len(w2) + 1 - b, Low(w2, b) = calls[k]
        PROVE  /\ Low(w2, b).n \in 0 .. p2
               /\ b = 2 \/ (Low(w2, b).n < Len(tokens) /\ tokens[Low(w2, b).n + 1] # Right)
    <3>1. /\ calls[k].n = p /\ k = Len(calls) - 1
          /\ Low(w, Len(w)).do = "program" \/ (p < Len(tokens) /\ tokens[p + 1] # Right)
      BY <1>6, <2>2 DEF Fits
    <3>2. Len(w) = 1 => b = 2
      <4>1. Len(w) \in Nat /\ Len(calls) \in Nat /\ Len(w2) = Len(w) - 1 + Len(calls)
        BY <1>1
      <4> QED
        BY <2>2, <3>1, <4>1
    <3> QED
      BY <1>3, <2>2, <3>1, <3>2
  <2> QED
    BY <1>2, <2>1, <2>2
<1> QED
  BY <1>4, <1>5, <1>6 DEF ProgramIsLast, ExpectsNoBrace, CatchesStarts

(* Advances. *)
NoneBelow(w) == \A b \in 1 .. Len(w) - 1 : Low(w, b).do # "advance"

Leads(calls, p) ==
  \A k \in 1 .. Len(calls) :
    calls[k].do = "advance" =>
      /\ \A j \in 1 .. k - 1 : calls[j].do \in {"deepen", "build"}
      /\ k > 1 => Token(p) \notin Braces

LEMMA NoAdvanceBelow ==
  ASSUME NEW w, NEW p, Len(w) \in Nat \ {0}, AdvancesNext(w, p),
         Low(w, Len(w)).do \notin {"deepen", "build"}
  PROVE  NoneBelow(w)
<1> SUFFICES ASSUME NEW b \in 1 .. Len(w) - 1, Low(w, b).do = "advance"
             PROVE  FALSE
  BY DEF NoneBelow
<1>1. b \in 1 .. Len(w) /\ Len(w) \in b + 1 .. Len(w)
  OBVIOUS
<1> QED
  BY <1>1 DEF AdvancesNext

LEMMA AdvancesKeep ==
  ASSUME NEW w, NEW calls, NEW w2, Replaced(w, calls, w2), NEW p,
         NoneBelow(w), Leads(calls, p)
  PROVE  AdvancesNext(w2, p)
<1>1. /\ Len(w) \in Nat \ {0} /\ Len(calls) \in Nat /\ Len(w2) = Len(w) - 1 + Len(calls)
  BY DEF Replaced
<1> SUFFICES ASSUME NEW b \in 1 .. Len(w2), Low(w2, b).do = "advance"
             PROVE  /\ \A c \in b + 1 .. Len(w2) : Low(w2, c).do \in {"deepen", "build"}
                    /\ b < Len(w2) => Token(p) \notin Braces
  BY DEF AdvancesNext
<1>2. PICK k \in 1 .. Len(calls) : k = Len(w2) + 1 - b /\ Low(w2, b) = calls[k]
  BY OldOrNew DEF NoneBelow
<1>3. ASSUME NEW c \in b + 1 .. Len(w2)
      PROVE  Low(w2, c).do \in {"deepen", "build"}
  <2>1. c \in 1 .. Len(w2) /\ c \notin 1 .. Len(w) - 1
    BY <1>1, <1>2
  <2>2. PICK j \in 1 .. Len(calls) : j = Len(w2) + 1 - c /\ Low(w2, c) = calls[j]
    BY <2>1, OldOrNew
  <2>3. j \in 1 .. k - 1
    BY <1>1, <1>2, <2>2
  <2> QED
    BY <1>2, <2>2, <2>3 DEF Leads
<1>4. b < Len(w2) => k > 1
  BY <1>1, <1>2
<1> QED
  BY <1>2, <1>3, <1>4 DEF Leads

LEMMA AdvancesUncover ==
  ASSUME NEW w, NEW w2, Replaced(w, <<>>, w2), NEW p, AdvancesNext(w, p)
  PROVE  AdvancesNext(w2, p)
<1>1. /\ Len(w) \in Nat \ {0} /\ Len(w2) = Len(w) - 1
      /\ \A b \in 1 .. Len(w) - 1 : Low(w2, b) = Low(w, b)
  BY EmptySeq DEF Replaced
<1> SUFFICES ASSUME NEW b \in 1 .. Len(w2), Low(w2, b).do = "advance"
             PROVE  /\ \A c \in b + 1 .. Len(w2) : Low(w2, c).do \in {"deepen", "build"}
                    /\ b < Len(w2) => Token(p) \notin Braces
  BY DEF AdvancesNext
<1>2. b \in 1 .. Len(w) /\ b < Len(w) /\ Low(w, b).do = "advance"
  BY <1>1
<1>3. ASSUME NEW c \in b + 1 .. Len(w2)
      PROVE  Low(w2, c) = Low(w, c) /\ c \in b + 1 .. Len(w)
  BY <1>1
<1> QED
  BY <1>2, <1>3 DEF AdvancesNext

(* Ends of blocks. *)
OpensLoop(calls) ==
  \A k \in 1 .. Len(calls) :
    calls[k].do = "end_of_block" =>
      k = 3 /\ Len(calls) = 3 /\ calls[1].do = "advance" /\ calls[2].do = "block_items"

LEMMA EndsStay ==
  ASSUME NEW w, NEW calls, NEW w2, Replaced(w, calls, w2), NEW p, NEW p2,
         EndsAfterLoop(w, p), OpensLoop(calls),
         Low(w, Len(w)).do \notin {"catch", "block_items", "advance"}
  PROVE  EndsAfterLoop(w2, p2)
<1>1. /\ Len(w) \in Nat \ {0} /\ Len(calls) \in Nat /\ Len(w2) = Len(w) - 1 + Len(calls)
      /\ \A b \in 1 .. Len(w) - 1 : Low(w2, b) = Low(w, b)
  BY DEF Replaced
<1>2. ASSUME NEW b \in 1 .. Len(w) - 1, Low(w, b).do = "end_of_block"
      PROVE  b + 2 < Len(w) /\ Low(w, b + 1).do = "block_items" /\ Low(w, b + 2).do = "catch"
  <2>1. b \in 1 .. Len(w) /\ b < Len(w)
    BY <1>1
  <2>2. Low(w, b + 1).do = "block_items" /\ b + 1 # Len(w)
    BY <1>2, <2>1 DEF EndsAfterLoop
  <2>3. b + 1 < Len(w)
    BY <1>1, <2>1, <2>2
  <2>4. b + 2 # Len(w) /\ Low(w, b + 2).do = "catch"
    BY <1>2, <2>1, <2>3 DEF EndsAfterLoop
  <2> QED
    BY <1>1, <2>2, <2>3, <2>4
<1> SUFFICES ASSUME NEW b \in 1 .. Len(w2), Low(w2, b).do = "end_of_block"
             PROVE  /\ b = Len(w2) => Token(p2) \in {Right, "eof"}
                    /\ b < Len(w2) => Low(w2, b + 1).do = "block_items"
                    /\ b + 1 < Len(w2) => \/ Low(w2, b + 2).do = "catch"
                                          \/ Low(w2, b + 2).do = "advance" /\ b + 2 = Len(w2)
  BY DEF EndsAfterLoop
<1>3. CASE b \in 1 .. Len(w) - 1 /\ Low(w2, b) = Low(w, b)
  <2>1. b + 2 < Len(w) /\ Low(w, b + 1).do = "block_items" /\ Low(w, b + 2).do = "catch"
    BY <1>2, <1>3
  <2>2. b + 1 \in 1 .. Len(w) - 1 /\ b + 2 \in 1 .. Len(w) - 1 /\ b # Len(w2)
    BY <1>1, <2>1
  <2> QED
    BY <1>1, <2>1, <2>2
<1>4. ASSUME NEW k \in 1 .. Len(calls), k = Len(w2) + 1 - b, Low(w2, b) = calls[k]
      PROVE  b + 2 = Len(w2) /\ Low(w2, b + 1).do = "block_items" /\ Low(w2, b + 2).do = "advance"
  <2>1. k = 3 /\ Len(calls) = 3 /\ calls[1].do = "advance" /\ calls[2].do = "block_items"
    BY <1>4 DEF OpensLoop
  <2>2. b + 2 = Len(w2) /\ Len(w2) + 1 - 1 = b + 2 /\ Len(w2) + 1 - 2 = b + 1
    BY <1>1, <1>4, <2>1
  <2>3. 1 \in 1 .. Len(calls) /\ 2 \in 1 .. Len(calls)
    BY <2>1
  <2>4. Low(w2, Len(w2) + 1 - 1) = calls[1] /\ Low(w2, Len(w2) + 1 - 2) = calls[2]
    BY <2>3 DEF Replaced
  <2> QED
    BY <2>1, <2>2, <2>4
<1>5. ASSUME b + 2 = Len(w2)
      PROVE  b # Len(w2)
  BY <1>5
<1> QED
  BY <1>3, <1>4, <1>5, OldOrNew

LEMMA EndsUncovered ==
  ASSUME NEW w, NEW w2, Replaced(w, <<>>, w2), NEW p, NEW p2, EndsAfterLoop(w, p),
         Low(w, Len(w)).do \in {"catch", "block_items", "advance"},
         Low(w, Len(w)).do = "block_items" => Token(p2) \in {Right, "eof"}
  PROVE  EndsAfterLoop(w2, p2)
<1>1. /\ Len(w) \in Nat \ {0} /\ Len(w2) = Len(w) - 1
      /\ \A b \in 1 .. Len(w) - 1 : Low(w2, b) = Low(w, b)
  BY EmptySeq DEF Replaced
<1> SUFFICES ASSUME NEW b \in 1 .. Len(w2), Low(w2, b).do = "end_of_block"
             PROVE  /\ b = Len(w2) => Token(p2) \in {Right, "eof"}
                    /\ b < Len(w2) => Low(w2, b + 1).do = "block_items"
                    /\ b + 1 < Len(w2) => \/ Low(w2, b + 2).do = "catch"
                                          \/ Low(w2, b + 2).do = "advance" /\ b + 2 = Len(w2)
  BY DEF EndsAfterLoop
<1>2. b \in 1 .. Len(w) /\ b < Len(w) /\ Low(w, b).do = "end_of_block"
  BY <1>1
<1>3. Low(w, b + 1).do = "block_items"
  BY <1>2 DEF EndsAfterLoop
<1>4. b = Len(w2) => b + 1 = Len(w)
  BY <1>1
<1>5. b < Len(w2) => Low(w2, b + 1) = Low(w, b + 1)
  BY <1>1
<1>6. b + 1 < Len(w2) => /\ b + 1 < Len(w) /\ b + 2 # Len(w)
                         /\ Low(w2, b + 2) = Low(w, b + 2)
  BY <1>1
<1> QED
  BY <1>2, <1>3, <1>4, <1>5, <1>6 DEF EndsAfterLoop

LEMMA EndsLooped ==
  ASSUME NEW w, NEW calls, NEW w2, Replaced(w, calls, w2), NEW p, NEW p2, EndsAfterLoop(w, p),
         Low(w, Len(w)).do = "block_items", Len(calls) = 3, calls[1].do # "end_of_block",
         calls[2].do = "catch", calls[3].do = "block_items"
  PROVE  EndsAfterLoop(w2, p2)
<1>1. /\ Len(w) \in Nat \ {0} /\ Len(w2) = Len(w) + 2
      /\ \A b \in 1 .. Len(w) - 1 : Low(w2, b) = Low(w, b)
  BY DEF Replaced
<1>2. Low(w2, Len(w)) = calls[3] /\ Low(w2, Len(w) + 1) = calls[2] /\ Low(w2, Len(w) + 2) = calls[1]
  <2>1. 1 \in 1 .. Len(calls) /\ 2 \in 1 .. Len(calls) /\ 3 \in 1 .. Len(calls)
    OBVIOUS
  <2>2. Len(w2) + 1 - 1 = Len(w) + 2 /\ Len(w2) + 1 - 2 = Len(w) + 1 /\ Len(w2) + 1 - 3 = Len(w)
    BY <1>1
  <2>3. /\ Low(w2, Len(w2) + 1 - 1) = calls[1] /\ Low(w2, Len(w2) + 1 - 2) = calls[2]
        /\ Low(w2, Len(w2) + 1 - 3) = calls[3]
    BY <2>1 DEF Replaced
  <2> QED
    BY <2>2, <2>3
<1> SUFFICES ASSUME NEW b \in 1 .. Len(w2), Low(w2, b).do = "end_of_block"
             PROVE  /\ b = Len(w2) => Token(p2) \in {Right, "eof"}
                    /\ b < Len(w2) => Low(w2, b + 1).do = "block_items"
                    /\ b + 1 < Len(w2) => \/ Low(w2, b + 2).do = "catch"
                                          \/ Low(w2, b + 2).do = "advance" /\ b + 2 = Len(w2)
  BY DEF EndsAfterLoop
<1>3. b \in 1 .. Len(w) /\ b < Len(w) /\ Low(w, b).do = "end_of_block"
  <2>1. b # Len(w) /\ b # Len(w) + 1 /\ b # Len(w) + 2
    BY <1>2
  <2>2. b < Len(w) /\ b \in 1 .. Len(w) - 1
    BY <1>1, <2>1
  <2> QED
    BY <1>1, <2>2
<1>4. Low(w, b + 1).do = "block_items"
  BY <1>3 DEF EndsAfterLoop
<1>5. b # Len(w2) /\ (b + 1 = Len(w) \/ b + 2 = Len(w) \/ b + 2 < Len(w))
  BY <1>1, <1>3
<1>6. CASE b + 1 = Len(w)
  <2>1. b + 2 = Len(w) + 1
    BY <1>1, <1>6
  <2> QED
    BY <1>2, <1>5, <1>6, <2>1
<1>7. b + 2 # Len(w)
  <2>1. b + 2 = Len(w) => b + 1 < Len(w)
    BY <1>1
  <2> QED
    BY <1>3, <2>1 DEF EndsAfterLoop
<1>8. CASE b + 2 < Len(w)
  <2>1. b + 1 < Len(w) /\ b + 1 \in 1 .. Len(w) - 1 /\ b + 2 \in 1 .. Len(w) - 1
    BY <1>1, <1>8
  <2>2. Low(w, b + 2).do = "catch"
    BY <1>3, <1>7, <2>1 DEF EndsAfterLoop
  <2> QED
    BY <1>1, <1>4, <1>5, <2>1, <2>2
<1> QED
  BY <1>5, <1>6, <1>7, <1>8
-----------------------------------------------------------------------------
(* Counting the blocks and lists to be closed. *)
LEMMA EndsType ==
  ASSUME NEW w, NEW b \in Nat, NEW e \in Nat
  PROVE  IsFiniteSet(EndsIn(w, b, e)) /\ Cardinality(EndsIn(w, b, e)) \in Nat
<1>1. IsFiniteSet(b + 1 .. e) /\ EndsIn(w, b, e) \subseteq b + 1 .. e
  BY FS_Interval DEF EndsIn
<1> QED
  BY <1>1, FS_Subset, FS_CardinalityType

LEMMA EndsAdd ==
  ASSUME NEW w, NEW b \in Nat, NEW m \in Nat, NEW e \in Nat, b <= m, m <= e
  PROVE  Cardinality(EndsIn(w, b, e)) = Cardinality(EndsIn(w, b, m)) + Cardinality(EndsIn(w, m, e))
<1>1. EndsIn(w, b, e) = EndsIn(w, b, m) \cup EndsIn(w, m, e)
  BY DEF EndsIn
<1>2. EndsIn(w, b, m) \cap EndsIn(w, m, e) = {}
  BY DEF EndsIn
<1>3. /\ IsFiniteSet(EndsIn(w, b, m)) /\ IsFiniteSet(EndsIn(w, m, e))
      /\ Cardinality(EndsIn(w, b, m)) \in Nat /\ Cardinality(EndsIn(w, m, e)) \in Nat
  BY EndsType
<1>4. Cardinality(EndsIn(w, b, m) \cap EndsIn(w, m, e)) = 0
  BY <1>2, FS_EmptySet
<1>5. Cardinality(EndsIn(w, b, e)) = Cardinality(EndsIn(w, b, m)) + Cardinality(EndsIn(w, m, e))
                                   - Cardinality(EndsIn(w, b, m) \cap EndsIn(w, m, e))
  BY <1>1, <1>3, FS_Union
<1> QED
  BY <1>3, <1>4, <1>5

LEMMA EndsNone ==
  ASSUME NEW w, NEW b, NEW e, \A c \in b + 1 .. e : Low(w, c).do \notin Ends
  PROVE  Cardinality(EndsIn(w, b, e)) = 0
<1>1. EndsIn(w, b, e) = {}
  BY DEF EndsIn
<1> QED
  BY <1>1, FS_EmptySet

LEMMA EndsOne ==
  ASSUME NEW w, NEW b \in Nat, NEW e, e = b + 1, Low(w, e).do \in Ends
  PROVE  Cardinality(EndsIn(w, b, e)) = 1
<1>1. \A c \in b + 1 .. e : c = e
  OBVIOUS
<1>2. EndsIn(w, b, e) = {e}
  BY <1>1 DEF EndsIn
<1> QED
  BY <1>2, FS_Singleton

(* Those before a call below the one that was replaced. *)
LEMMA InnerSplits ==
  ASSUME NEW w, NEW calls, NEW w2, Replaced(w, calls, w2), NEW b \in 1 .. Len(w) - 1
  PROVE  /\ Cardinality(EndsIn(w, b, Len(w) - 1)) \in Nat
         /\ Inner(w, b)  = Cardinality(EndsIn(w, b, Len(w) - 1))
                             + (IF Low(w, Len(w)).do \in Ends THEN 1 ELSE 0)
         /\ Inner(w2, b) = Cardinality(EndsIn(w, b, Len(w) - 1))
                             + Cardinality(EndsIn(w2, Len(w) - 1, Len(w2)))
<1> DEFINE m == Len(w) - 1
           kept == Cardinality(EndsIn(w, b, m))
<1>1. /\ Len(w) \in Nat \ {0} /\ Len(w2) \in Nat /\ Len(w2) >= m /\ m \in Nat /\ b \in Nat
      /\ b <= m /\ m <= Len(w) /\ m + 1 = Len(w)
      /\ \A c \in 1 .. m : Low(w2, c) = Low(w, c)
  BY DEF Replaced
<1> HIDE DEF m
<1>2. EndsIn(w2, b, m) = EndsIn(w, b, m)
  <2>1. \A c \in b + 1 .. m : Low(w2, c) = Low(w, c)
    BY <1>1
  <2> QED
    BY <2>1 DEF EndsIn
<1>3. Inner(w2, b) = kept + Cardinality(EndsIn(w2, m, Len(w2)))
  <2>1. Cardinality(EndsIn(w2, b, Len(w2))) = Cardinality(EndsIn(w2, b, m))
                                            + Cardinality(EndsIn(w2, m, Len(w2)))
    BY <1>1, EndsAdd
  <2> QED
    BY <1>2, <2>1 DEF Inner
<1>4. Inner(w, b) = kept + Cardinality(EndsIn(w, m, Len(w)))
  <2>1. Cardinality(EndsIn(w, b, Len(w))) = kept + Cardinality(EndsIn(w, m, Len(w)))
    BY <1>1, EndsAdd
  <2> QED
    BY <2>1 DEF Inner
<1>5. Cardinality(EndsIn(w, m, Len(w))) = IF Low(w, Len(w)).do \in Ends THEN 1 ELSE 0
  <2>1. CASE Low(w, Len(w)).do \in Ends
    BY <1>1, <2>1, EndsOne
  <2>2. CASE Low(w, Len(w)).do \notin Ends
    <3>1. \A c \in m + 1 .. Len(w) : c = Len(w)
      BY <1>1
    <3>2. Cardinality(EndsIn(w, m, Len(w))) = 0
      BY <2>2, <3>1, EndsNone
    <3> QED
      BY <2>2, <3>2
  <2> QED
    BY <2>1, <2>2
<1>6. kept \in Nat
  BY <1>1, EndsType
<1> HIDE DEF kept
<1>7. /\ kept \in Nat
      /\ Inner(w, b) = kept + (IF Low(w, Len(w)).do \in Ends THEN 1 ELSE 0)
      /\ Inner(w2, b) = kept + Cardinality(EndsIn(w2, m, Len(w2)))
  BY <1>3, <1>4, <1>5, <1>6
<1> QED
  BY <1>7 DEF kept, m

(* The calls of a body that end blocks and lists. *)
LEMMA NoEndsAdded ==
  ASSUME NEW w, NEW calls, NEW w2, Replaced(w, calls, w2),
         \A k \in 1 .. Len(calls) : calls[k].do \notin Ends
  PROVE  Cardinality(EndsIn(w2, Len(w) - 1, Len(w2))) = 0
<1>1. Len(w) \in Nat \ {0} /\ Len(w2) \in Nat
  BY DEF Replaced
<1>2. \A c \in (Len(w) - 1) + 1 .. Len(w2) : c \in Len(w) .. Len(w2)
  BY <1>1
<1>3. \A c \in Len(w) .. Len(w2) : Low(w2, c).do \notin Ends
  BY Added
<1> QED
  BY <1>2, <1>3, EndsNone

LEMMA LastEndAdded ==
  ASSUME NEW w, NEW calls, NEW w2, Replaced(w, calls, w2), Len(calls) = 3,
         calls[1].do \notin Ends, calls[2].do \notin Ends, calls[3].do \in Ends
  PROVE  /\ Cardinality(EndsIn(w2, Len(w) - 1, Len(w2))) = 1
         /\ Inner(w2, Len(w)) = 0
<1>1. Len(w) \in Nat \ {0} /\ Len(w2) = Len(w) + 2
  BY DEF Replaced
<1>2. Low(w2, Len(w)) = calls[3] /\ Low(w2, Len(w) + 1) = calls[2] /\ Low(w2, Len(w) + 2) = calls[1]
  <2>1. 1 \in 1 .. Len(calls) /\ 2 \in 1 .. Len(calls) /\ 3 \in 1 .. Len(calls)
    OBVIOUS
  <2>2. Len(w2) + 1 - 1 = Len(w) + 2 /\ Len(w2) + 1 - 2 = Len(w) + 1 /\ Len(w2) + 1 - 3 = Len(w)
    BY <1>1
  <2>3. /\ Low(w2, Len(w2) + 1 - 1) = calls[1] /\ Low(w2, Len(w2) + 1 - 2) = calls[2]
        /\ Low(w2, Len(w2) + 1 - 3) = calls[3]
    BY <2>1 DEF Replaced
  <2> QED
    BY <2>2, <2>3
<1>3. \A c \in Len(w) + 1 .. Len(w2) : c = Len(w) + 1 \/ c = Len(w) + 2
  BY <1>1
<1>4. Cardinality(EndsIn(w2, Len(w), Len(w2))) = 0
  BY <1>2, <1>3, EndsNone
<1>5. Cardinality(EndsIn(w2, Len(w) - 1, Len(w))) = 1
  <2>1. Len(w) - 1 \in Nat /\ Len(w) = (Len(w) - 1) + 1
    BY <1>1
  <2> QED
    BY <1>2, <2>1, EndsOne
<1>6. Cardinality(EndsIn(w2, Len(w) - 1, Len(w2))) = Cardinality(EndsIn(w2, Len(w) - 1, Len(w)))
                                                   + Cardinality(EndsIn(w2, Len(w), Len(w2)))
  <2>1. /\ Len(w) - 1 \in Nat /\ Len(w) \in Nat /\ Len(w2) \in Nat
        /\ Len(w) - 1 <= Len(w) /\ Len(w) <= Len(w2)
    BY <1>1
  <2> QED
    BY <2>1, EndsAdd
<1> QED
  BY <1>4, <1>5, <1>6 DEF Inner

LEMMA LowIsItem ==
  ASSUME NEW w \in Seq(Item), NEW b \in 1 .. Len(w)
  PROVE  Low(w, b) \in Item /\ Low(w, b).n \in Nat
<1>1. Len(w) \in Nat
  BY LenProperties
<1>2. Len(w) + 1 - b \in 1 .. Len(w)
  BY <1>1
<1>3. Low(w, b) \in Item
  BY <1>2, ElementOfSeq DEF Low
<1> QED
  BY <1>3 DEF Item

LEMMA PassesToken ==
  ASSUME NEW p \in Nat, p < Len(tokens), Len(tokens) \in Nat
  PROVE  /\ Advanced(p) = p + 1 /\ Token(p) = tokens[p + 1]
         /\ Nesting(p, p + 1) = IF Token(p) = Left THEN 1 ELSE IF Token(p) = Right THEN -1 ELSE 0
<1>1. Advanced(p) = p + 1 /\ Token(p) = tokens[p + 1]
  BY DEF Advanced, Token
<1> QED
  BY <1>1, NestingPasses

(* A call that is no advance and no end is replaced by calls that are no   *)
(* ends, and at most an advance over a token that is no brace is next.     *)
LEMMA CountedStays ==
  ASSUME NEW w \in Seq(Item), NEW calls, NEW w2 \in Seq(Item), Replaced(w, calls, w2),
         NEW p \in Nat, Len(tokens) \in Nat, Counted(w, p),
         Low(w, Len(w)).do \notin Ends, Low(w, Len(w)).do # "advance",
         \A k \in 1 .. Len(calls) : calls[k].do \notin Ends,
         Len(w2) > 0 /\ Low(w2, Len(w2)).do = "advance" => Token(p) \notin Braces
  PROVE  Counted(w2, p)
<1> SUFFICES ASSUME p < Len(tokens), NEW b \in 1 .. Len(w2), Low(w2, b).do = "end_of_block"
             PROVE  Balanced(Low(w2, b).n, Reached(w2, p), Inner(w2, b))
  BY DEF Counted
<1>1. b \in 1 .. Len(w) - 1 /\ Low(w2, b) = Low(w, b)
  <2>1. Low(w2, b).do \in Ends
    BY DEF Ends
  <2> QED
    BY <2>1, OldOrNew
<1>2. Len(w) \in Nat \ {0} /\ Len(w2) \in Nat /\ b \in 1 .. Len(w)
  BY <1>1 DEF Replaced
<1>3. Reached(w, p) = p
  BY DEF Reached
<1> DEFINE open == Low(w, b).n
           k == Inner(w, b)
<1>4. open \in Nat /\ Balanced(open, p, k)
  BY <1>1, <1>2, <1>3, LowIsItem DEF Counted
<1>5. k \in Nat /\ Inner(w2, b) = k
  BY <1>1, InnerSplits, NoEndsAdded
<1> HIDE DEF open, k
<1>6. CASE Low(w2, Len(w2)).do = "advance"
  <2>1. Reached(w2, p) = p + 1 /\ Nesting(p, p + 1) = 0
    <3>1. w2 # <<>> /\ Len(w2) > 0
      BY <1>1, <1>2, EmptySeq
    <3>2. Token(p) # Left /\ Token(p) # Right
      BY <1>6, <3>1 DEF Braces
    <3> QED
      BY <1>6, <3>1, <3>2, PassesToken DEF Reached
  <2>2. Balanced(open, p + 1, k)
    BY <1>4, <1>5, <2>1, BalancedPasses
  <2> QED
    BY <1>1, <1>5, <2>1, <2>2 DEF open
<1>7. CASE Low(w2, Len(w2)).do # "advance"
  <2>1. Reached(w2, p) = p
    BY <1>7 DEF Reached
  <2> QED
    BY <1>1, <1>4, <1>5, <2>1 DEF open
<1> QED
  BY <1>6, <1>7

(* A block or a brace list begins. *)
LEMMA CountedOpens ==
  ASSUME NEW w \in Seq(Item), NEW calls, NEW w2 \in Seq(Item), Replaced(w, calls, w2),
         NEW p \in Nat, Len(tokens) \in Nat, Counted(w, p),
         Low(w, Len(w)).do \notin Ends, Low(w, Len(w)).do # "advance",
         Len(calls) = 3, calls[1].do = "advance", calls[2].do \notin Ends, calls[3].do \in Ends,
         calls[3].do = "end_of_block" => calls[3].n = p + 1,
         Token(p) = Left
  PROVE  Counted(w2, p)
<1> SUFFICES ASSUME p < Len(tokens), NEW b \in 1 .. Len(w2), Low(w2, b).do = "end_of_block"
             PROVE  Balanced(Low(w2, b).n, Reached(w2, p), Inner(w2, b))
  BY DEF Counted
<1>1. /\ Len(w) \in Nat \ {0} /\ Len(w2) = Len(w) + 2
      /\ Low(w2, Len(w)) = calls[3] /\ Low(w2, Len(w) + 1) = calls[2] /\ Low(w2, Len(w) + 2) = calls[1]
  <2>1. Len(w) \in Nat \ {0} /\ Len(w2) = Len(w) + 2
    BY DEF Replaced
  <2>2. 1 \in 1 .. Len(calls) /\ 2 \in 1 .. Len(calls) /\ 3 \in 1 .. Len(calls)
    OBVIOUS
  <2>3. Len(w2) + 1 - 1 = Len(w) + 2 /\ Len(w2) + 1 - 2 = Len(w) + 1 /\ Len(w2) + 1 - 3 = Len(w)
    BY <2>1
  <2>4. /\ Low(w2, Len(w2) + 1 - 1) = calls[1] /\ Low(w2, Len(w2) + 1 - 2) = calls[2]
        /\ Low(w2, Len(w2) + 1 - 3) = calls[3]
    BY <2>2 DEF Replaced
  <2> QED
    BY <2>1, <2>3, <2>4
<1>2. calls[1].do \notin Ends
  BY DEF Ends
<1>3. Reached(w, p) = p
  BY DEF Reached
<1>4. Reached(w2, p) = p + 1 /\ Nesting(p, p + 1) = 1
  <2>1. w2 # <<>>
    BY <1>1, EmptySeq
  <2>2. Low(w2, Len(w2)).do = "advance"
    BY <1>1
  <2> QED
    BY <2>1, <2>2, PassesToken DEF Reached
<1>5. CASE b \in 1 .. Len(w) - 1 /\ Low(w2, b) = Low(w, b)
  <2> DEFINE open == Low(w, b).n
             k == Inner(w, b)
  <2>1. b \in 1 .. Len(w)
    BY <1>1, <1>5
  <2>2. open \in Nat /\ Balanced(open, p, k)
    BY <1>3, <1>5, <2>1, LowIsItem DEF Counted
  <2>3. k \in Nat /\ Inner(w2, b) = k + 1
    <3> DEFINE kept == Cardinality(EndsIn(w, b, Len(w) - 1))
    <3>1. kept \in Nat /\ k = kept + 0
      BY <1>5, InnerSplits
    <3>2. Inner(w2, b) = kept + Cardinality(EndsIn(w2, Len(w) - 1, Len(w2)))
      BY <1>5, InnerSplits
    <3>3. Cardinality(EndsIn(w2, Len(w) - 1, Len(w2))) = 1
      BY <1>2, LastEndAdded
    <3> HIDE DEF kept, k
    <3> QED
      BY <3>1, <3>2, <3>3
  <2> HIDE DEF open, k
  <2>4. Balanced(open, p + 1, k + 1)
    BY <1>4, <2>2, <2>3, BalancedPasses
  <2> QED
    BY <1>4, <1>5, <2>3, <2>4 DEF open
<1>6. CASE b \in Len(w) .. Len(w2)
  <2>1. b = Len(w) \/ b = Len(w) + 1 \/ b = Len(w) + 2
    BY <1>1, <1>6
  <2>2. b = Len(w)
    <3>1. Low(w2, b).do \in Ends
      BY DEF Ends
    <3> QED
      BY <1>1, <1>2, <2>1, <3>1
  <2>3. Low(w2, b).n = p + 1 /\ Inner(w2, b) = 0
    BY <1>1, <1>2, <2>2, LastEndAdded
  <2>4. Balanced(p + 1, p + 1, 0)
    BY BalancedStarts
  <2> QED
    BY <1>4, <2>3, <2>4
<1> QED
  BY <1>5, <1>6, OldOrNew

(* A block or a brace list ends. *)
LEMMA CountedCloses ==
  ASSUME NEW w \in Seq(Item), NEW calls, NEW w2 \in Seq(Item), Replaced(w, calls, w2),
         NEW p \in Nat, Len(tokens) \in Nat, Counted(w, p),
         Low(w, Len(w)).do \in Ends, Len(calls) = 1, calls[1].do = "advance", Token(p) = Right
  PROVE  Counted(w2, p)
<1> SUFFICES ASSUME p < Len(tokens), NEW b \in 1 .. Len(w2), Low(w2, b).do = "end_of_block"
             PROVE  Balanced(Low(w2, b).n, Reached(w2, p), Inner(w2, b))
  BY DEF Counted
<1>1. calls[1].do \notin Ends /\ Low(w, Len(w)).do # "advance"
  BY DEF Ends
<1>2. \A k \in 1 .. Len(calls) : k = 1
  OBVIOUS
<1>3. b \in 1 .. Len(w) - 1 /\ Low(w2, b) = Low(w, b)
  <2>1. Low(w2, b).do \in Ends
    BY DEF Ends
  <2> QED
    BY <1>1, <1>2, <2>1, OldOrNew
<1>4. Len(w) \in Nat \ {0} /\ Len(w2) = Len(w) /\ b \in 1 .. Len(w) /\ Low(w2, Len(w2)) = calls[1]
  <2>1. Len(w) \in Nat \ {0} /\ Len(w2) = Len(w)
    BY DEF Replaced
  <2>2. 1 \in 1 .. Len(calls) /\ Len(w2) + 1 - 1 = Len(w2)
    BY <2>1
  <2>3. Low(w2, Len(w2) + 1 - 1) = calls[1]
    BY <2>2 DEF Replaced
  <2> QED
    BY <1>3, <2>1, <2>2, <2>3
<1>5. Reached(w, p) = p /\ Reached(w2, p) = p + 1 /\ Nesting(p, p + 1) = -1
  <2>1. w2 # <<>> /\ Low(w2, Len(w2)).do = "advance"
    BY <1>4, EmptySeq
  <2> QED
    BY <1>1, <2>1, PassesToken, TwoBraces DEF Reached
<1> DEFINE open == Low(w, b).n
           k == Inner(w, b)
           rest == Inner(w2, b)
<1>6. open \in Nat /\ Balanced(open, p, k)
  BY <1>3, <1>4, <1>5, LowIsItem DEF Counted
<1>7. rest \in Nat /\ k = rest + 1
  <2>1. Cardinality(EndsIn(w2, Len(w) - 1, Len(w2))) = 0
    BY <1>1, <1>2, NoEndsAdded
  <2> QED
    BY <1>3, <2>1, InnerSplits
<1> HIDE DEF open, k, rest
<1>8. Balanced(open, p + 1, rest)
  BY <1>5, <1>6, <1>7, BalancedPasses
<1> QED
  BY <1>3, <1>5, <1>8 DEF open, rest

(* The advance is made. *)
LEMMA CountedAdvances ==
  ASSUME NEW w \in Seq(Item), NEW w2 \in Seq(Item), Replaced(w, <<>>, w2),
         NEW p \in Nat, Len(tokens) \in Nat, Counted(w, p),
         Low(w, Len(w)).do = "advance", NoneBelow(w)
  PROVE  Counted(w2, Advanced(p))
<1> SUFFICES ASSUME Advanced(p) < Len(tokens),
                    NEW b \in 1 .. Len(w2), Low(w2, b).do = "end_of_block"
             PROVE  Balanced(Low(w2, b).n, Reached(w2, Advanced(p)), Inner(w2, b))
  BY DEF Counted
<1>1. Len(w) \in Nat \ {0} /\ Len(w2) = Len(w) - 1 /\ Len(<<>>) = 0
  BY EmptySeq DEF Replaced
<1>2. b \in 1 .. Len(w) - 1 /\ b \in 1 .. Len(w) /\ Low(w2, b) = Low(w, b)
  BY <1>1 DEF Replaced
<1>3. p < Len(tokens)
  BY DEF Advanced
<1>4. Reached(w, p) = Advanced(p)
  <2>1. w # <<>>
    BY <1>1, EmptySeq
  <2> QED
    BY <2>1 DEF Reached
<1>5. Reached(w2, Advanced(p)) = Advanced(p)
  <2>1. Len(w2) \in 1 .. Len(w) - 1
    BY <1>1, <1>2
  <2>2. Low(w2, Len(w2)).do # "advance"
    BY <2>1 DEF NoneBelow, Replaced
  <2> QED
    BY <2>2 DEF Reached
<1>6. Inner(w2, b) = Inner(w, b)
  <2>1. \A k \in 1 .. Len(<<>>) : FALSE
    BY <1>1
  <2>2. Low(w, Len(w)).do \notin Ends
    BY DEF Ends
  <2>3. Cardinality(EndsIn(w2, Len(w) - 1, Len(w2))) = 0
    BY <2>1, NoEndsAdded
  <2> QED
    BY <1>2, <2>2, <2>3, InnerSplits
<1> QED
  BY <1>2, <1>3, <1>4, <1>5, <1>6 DEF Counted
-----------------------------------------------------------------------------
(* An error abandons the calls down to the loop that catches it.           *)
LEMMA RecoveryGoesOn ==
  ASSUME Types, NEW p \in 0 .. Len(tokens), NEW started_at
  PROVE  recover_from(started_at, p) \in Nat /\ p <= recover_from(started_at, p)
<1>1. Len(tokens) \in Nat
  BY LenProperties DEF Types
<1> DEFINE s == skip_to_boundary(p)
<1>2. s \in Nat /\ p <= s
  <2>1. PICK q \in p .. Len(tokens) : s = q \/ s = q + 1
    BY SkipFinds, Zenon
  <2> HIDE DEF s
  <2> QED
    BY <1>1, <2>1
<1>3. recover_from(started_at, p) = IF s = started_at THEN Advanced(s) ELSE s
  BY DEF recover_from
<1> HIDE DEF s
<1> QED
  BY <1>1, <1>2, <1>3 DEF Advanced

LEMMA EofIsNoToken ==
  ASSUME Types, NEW p \in 0 .. Len(tokens), p < Len(tokens)
  PROVE  Token(p) # "eof" /\ Token(p) \in TokenKind
<1>1. Len(tokens) \in Nat
  BY LenProperties DEF Types
<1>2. tokens[p + 1] \in TokenKind
  <2>1. p + 1 \in 1 .. Len(tokens)
    BY <1>1
  <2> QED
    BY <2>1, ElementOfSeq DEF Types
<1>3. "eof" \notin TokenKind
  BY Zenon DEF TokenKind, Literals, TypeKeywords
<1>4. Token(p) = tokens[p + 1]
  BY DEF Token
<1> QED
  BY <1>2, <1>3, <1>4

(* The calls of w above the catch that is nearest: w2 is what is left. *)
Caughts(w, caught) ==
  /\ w \in Seq(Item) /\ caught \in 1 .. Len(w)
  /\ w[caught].do = "catch" /\ \A j \in 1 .. caught - 1 : w[j].do # "catch"
  /\ Low(w, Len(w)).do \notin {"advance", "catch", "block_items", "program"}

LEMMA CatchPlace ==
  ASSUME NEW w, NEW caught, Caughts(w, caught), NEW w2, Abandoned(w, caught, w2)
  PROVE  /\ Len(w) \in Nat /\ Len(w2) \in Nat /\ Len(w2) + 1 <= Len(w)
         /\ Low(w, Len(w2) + 1) = w[caught] /\ Low(w, Len(w2) + 1).do = "catch"
         /\ \A c \in Len(w2) + 2 .. Len(w) : Low(w, c).do # "catch"
         /\ \A c \in Len(w2) + 1 .. Len(w) : \E j \in 1 .. caught : Low(w, c) = w[j]
<1>1. Len(w) \in Nat /\ Len(w2) = Len(w) - caught /\ caught \in 1 .. Len(w)
  BY DEF Caughts, Abandoned
<1>2. Len(w) + 1 - (Len(w2) + 1) = caught
  BY <1>1
<1>3. Low(w, Len(w2) + 1) = w[caught]
  BY <1>2, Zenon DEF Low
<1>4. ASSUME NEW c \in Len(w2) + 2 .. Len(w)
      PROVE  Low(w, c).do # "catch"
  <2>1. Len(w) + 1 - c \in 1 .. caught - 1
    BY <1>1
  <2> QED
    BY <2>1 DEF Low, Caughts
<1>5. ASSUME NEW c \in Len(w2) + 1 .. Len(w)
      PROVE  \E j \in 1 .. caught : Low(w, c) = w[j]
  <2>1. Len(w) + 1 - c \in 1 .. caught
    BY <1>1
  <2> QED
    BY <2>1 DEF Low
<1>6. Len(w2) \in Nat /\ Len(w2) + 1 <= Len(w)
  BY <1>1
<1> QED
  BY <1>1, <1>3, <1>4, <1>5, <1>6 DEF Caughts

LEMMA NoAdvanceLeft ==
  ASSUME NEW w, NEW caught, Caughts(w, caught), NEW w2, Abandoned(w, caught, w2),
         NEW p, AdvancesNext(w, p)
  PROVE  \A b \in 1 .. Len(w2) : Low(w2, b).do # "advance"
<1> SUFFICES ASSUME NEW b \in 1 .. Len(w2), Low(w2, b).do = "advance"
             PROVE  FALSE
  OBVIOUS
<1>1. /\ Len(w) \in Nat /\ Len(w2) \in Nat /\ Len(w2) + 1 <= Len(w)
      /\ Low(w, Len(w2) + 1).do = "catch"
  BY CatchPlace
<1>2. Low(w, b).do = "advance"
  BY DEF Abandoned
<1>3. b \in 1 .. Len(w) /\ Len(w2) + 1 \in b + 1 .. Len(w)
  BY <1>1
<1> QED
  BY <1>1, <1>2, <1>3 DEF AdvancesNext

LEMMA BailKeepsShape ==
  ASSUME NEW w, NEW caught, Caughts(w, caught), NEW w2, Abandoned(w, caught, w2),
         NEW p \in Nat, NEW p2 \in Nat, p <= p2, Shape(w, p)
  PROVE  Shape(w2, p2)
<1>1. /\ Len(w) \in Nat /\ Len(w2) \in Nat /\ Len(w2) + 1 <= Len(w)
      /\ Low(w, Len(w2) + 1).do = "catch"
  BY CatchPlace
<1>2. \A b \in 1 .. Len(w2) : b \in 1 .. Len(w) /\ Low(w2, b) = Low(w, b)
  BY <1>1 DEF Abandoned
<1>3. ProgramIsLast(w2) /\ ExpectsNoBrace(w2)
  BY <1>2 DEF Shape, ProgramIsLast, ExpectsNoBrace
<1>4. CatchesStarts(w2, p2)
  <2> SUFFICES ASSUME NEW b \in 1 .. Len(w2), Low(w2, b).do = "catch"
               PROVE  /\ Low(w2, b).n \in 0 .. p2
                      /\ b = 2 \/ (Low(w2, b).n < Len(tokens) /\ tokens[Low(w2, b).n + 1] # Right)
    BY DEF CatchesStarts
  <2>1. /\ Low(w, b).n \in 0 .. p
        /\ b = 2 \/ (Low(w, b).n < Len(tokens) /\ tokens[Low(w, b).n + 1] # Right)
    BY <1>2 DEF Shape, CatchesStarts
  <2>2. Low(w, b).n \in 0 .. p2
    BY <2>1
  <2> QED
    BY <1>2, <2>1, <2>2
<1>5. AdvancesNext(w2, p2)
  BY NoAdvanceLeft DEF Shape, AdvancesNext
<1>6. EndsAfterLoop(w2, p2)
  <2> SUFFICES ASSUME NEW b \in 1 .. Len(w2), Low(w2, b).do = "end_of_block"
               PROVE  /\ b = Len(w2) => Token(p2) \in {Right, "eof"}
                      /\ b < Len(w2) => Low(w2, b + 1).do = "block_items"
                      /\ b + 1 < Len(w2) => \/ Low(w2, b + 2).do = "catch"
                                            \/ Low(w2, b + 2).do = "advance" /\ b + 2 = Len(w2)
    BY DEF EndsAfterLoop
  <2>1. b \in 1 .. Len(w) /\ b < Len(w) /\ Low(w, b).do = "end_of_block"
    BY <1>1, <1>2
  <2>2. Low(w, b + 1).do = "block_items"
    BY <2>1 DEF Shape, EndsAfterLoop
  <2>3. b # Len(w2)
    BY <1>1, <2>2
  <2>4. b + 1 \in 1 .. Len(w2)
    BY <1>1, <2>3
  <2>5. ASSUME b + 1 < Len(w2)
        PROVE  Low(w2, b + 2).do = "catch"
    <3>1. b + 1 < Len(w) /\ b + 2 # Len(w) /\ b + 2 \in 1 .. Len(w2)
      BY <1>1, <2>5
    <3>2. Low(w, b + 2).do = "catch"
      BY <2>1, <3>1 DEF Shape, EndsAfterLoop
    <3> QED
      BY <1>2, <3>1, <3>2
  <2> QED
    BY <1>2, <2>2, <2>3, <2>4, <2>5
<1> QED
  BY <1>3, <1>4, <1>5, <1>6 DEF Shape

(* No block ends between an error and the loop that catches it: an error   *)
(* at the end of a block is one at the end of the stream.                  *)
LEMMA NoBlockAbandoned ==
  ASSUME NEW w, NEW caught, Caughts(w, caught), NEW w2, Abandoned(w, caught, w2),
         NEW p, Shape(w, p), Token(p) # "eof",
         Low(w, Len(w)).do = "end_of_block" => Token(p) # Right,
         NEW c \in Len(w2) + 1 .. Len(w)
  PROVE  Low(w, c).do # "end_of_block"
<1> SUFFICES ASSUME Low(w, c).do = "end_of_block"
             PROVE  FALSE
  OBVIOUS
<1>1. /\ Len(w) \in Nat /\ Len(w2) \in Nat /\ Len(w2) + 1 <= Len(w)
      /\ Low(w, Len(w2) + 1).do = "catch"
      /\ \A d \in Len(w2) + 2 .. Len(w) : Low(w, d).do # "catch"
  BY CatchPlace
<1>2. c \in 1 .. Len(w)
  BY <1>1
<1>3. c # Len(w)
  BY <1>2 DEF Shape, EndsAfterLoop
<1>4. c < Len(w) /\ Low(w, c + 1).do = "block_items"
  BY <1>1, <1>2, <1>3 DEF Shape, EndsAfterLoop
<1>5. c + 1 # Len(w)
  BY <1>4 DEF Caughts
<1>6. c + 1 < Len(w) /\ c + 2 \in Len(w2) + 2 .. Len(w)
  BY <1>1, <1>4, <1>5
<1>7. Low(w, c + 2).do = "catch" \/ (Low(w, c + 2).do = "advance" /\ c + 2 = Len(w))
  BY <1>2, <1>6 DEF Shape, EndsAfterLoop
<1> QED
  BY <1>1, <1>6, <1>7 DEF Caughts

LEMMA BailKeepsCount ==
  ASSUME Types, NEW w, NEW caught, Caughts(w, caught), NEW w2, Abandoned(w, caught, w2),
         NEW p \in 0 .. Len(tokens), NEW p2, p2 = recover_from(w[caught].n, p),
         Shape(w, p), Counted(w, p), Low(w, 1).do = "program",
         Low(w, Len(w)).do = "end_of_block" => Token(p) # Right,
         \A j \in 1 .. caught : w[j].do # "end_of_list"
  PROVE  Counted(w2, p2)
<1> SUFFICES ASSUME p2 < Len(tokens), NEW b \in 1 .. Len(w2), Low(w2, b).do = "end_of_block"
             PROVE  Balanced(Low(w2, b).n, Reached(w2, p2), Inner(w2, b))
  BY DEF Counted
<1>1. /\ Len(w) \in Nat /\ Len(w2) \in Nat /\ Len(w2) + 1 <= Len(w)
      /\ Low(w, Len(w2) + 1) = w[caught] /\ w[caught].do = "catch"
      /\ \A c \in Len(w2) + 1 .. Len(w) : \E j \in 1 .. caught : Low(w, c) = w[j]
  BY CatchPlace DEF Caughts
<1>2. p \in Nat /\ p2 \in Nat /\ p <= p2 /\ p < Len(tokens) /\ Len(tokens) \in Nat
  <2>1. Len(tokens) \in Nat
    BY LenProperties DEF Types
  <2>2. p2 \in Nat /\ p <= p2
    BY RecoveryGoesOn
  <2> QED
    BY <2>1, <2>2
<1>3. /\ b \in 1 .. Len(w) /\ Low(w2, b) = Low(w, b) /\ b # 1
  BY <1>1 DEF Abandoned
<1>4. Balanced(p, p2, 0)
  <2> DEFINE n == w[caught].n
  <2>1. Len(w2) + 1 \in 1 .. Len(w) /\ Len(w2) + 1 # 2
    BY <1>1, <1>3
  <2>2. n \in 0 .. p /\ n < Len(tokens) /\ tokens[n + 1] # Right
    BY <1>1, <2>1 DEF Shape, CatchesStarts
  <2> HIDE DEF n
  <2>3. p2 = recover_from(n, p)
    BY DEF n
  <2> QED
    BY <2>2, <2>3, RecoveryKeepsBalance
<1>5. Reached(w, p) = p
  BY DEF Reached, Caughts
<1>6. Reached(w2, p2) = p2
  <2>1. Len(w2) \in 1 .. Len(w2)
    BY <1>1, <1>3
  <2> QED
    BY <2>1, NoAdvanceLeft DEF Shape, Reached
<1>7. Inner(w2, b) = Inner(w, b)
  <2>1. \A c \in Len(w2) + 1 .. Len(w) : Low(w, c).do \notin Ends
    <3>1. Token(p) # "eof"
      BY <1>2, EofIsNoToken
    <3> QED
      BY <1>1, <3>1, NoBlockAbandoned DEF Ends
  <2>2. Cardinality(EndsIn(w, Len(w2), Len(w))) = 0
    BY <2>1, EndsNone
  <2>3. Cardinality(EndsIn(w, b, Len(w))) = Cardinality(EndsIn(w, b, Len(w2)))
                                          + Cardinality(EndsIn(w, Len(w2), Len(w)))
    <3>1. b \in Nat /\ b <= Len(w2) /\ Len(w2) <= Len(w)
      BY <1>1
    <3> QED
      BY <1>1, <3>1, EndsAdd
  <2>4. EndsIn(w2, b, Len(w2)) = EndsIn(w, b, Len(w2))
    <3>1. \A c \in b + 1 .. Len(w2) : Low(w2, c) = Low(w, c)
      BY <1>1 DEF Abandoned
    <3> QED
      BY <3>1 DEF EndsIn
  <2>5. Cardinality(EndsIn(w, b, Len(w2))) \in Nat
    BY <1>1, EndsType
  <2> QED
    BY <2>2, <2>3, <2>4, <2>5 DEF Inner
<1> DEFINE open == Low(w, b).n
           k == Inner(w, b)
<1>8. open \in Nat /\ k \in Nat /\ Balanced(open, p, k)
  <2>1. open \in Nat
    BY <1>3, LowIsItem DEF Caughts
  <2>2. k \in Nat
    BY <1>1, EndsType DEF Inner
  <2>3. Balanced(open, p, k)
    BY <1>2, <1>3, <1>5 DEF Counted
  <2> QED
    BY <2>1, <2>2, <2>3
<1> HIDE DEF open, k
<1>9. Balanced(open, p2, k)
  BY <1>2, <1>4, <1>8, BalancedAdds
<1> QED
  BY <1>3, <1>6, <1>7, <1>9 DEF open, k
-----------------------------------------------------------------------------
(* The invariant: beside what CallsKeepTheirLevel says of the calls, their *)
(* shape, the count, and what is to be shown.                              *)
Kept == /\ Shape(work, position)
        /\ ~lostList => Counted(work, position)
        /\ BlocksCloseAtTheirBrace

BlockInv == IInv /\ Kept

LEMMA NestingCarries ==
  ASSUME tokens' = tokens, NEW p, NEW q
  PROVE  Nesting(p, q)' = Nesting(p, q)
<1>1. \A t : {i \in p + 1 .. q : tokens'[i] = t} = {i \in p + 1 .. q : tokens[i] = t}
  OBVIOUS
<1> QED
  BY <1>1, Zenon DEF Nesting

LEMMA BalancedCarries ==
  ASSUME tokens' = tokens, NEW p, NEW q, NEW k
  PROVE  Balanced(p, q, k)' <=> Balanced(p, q, k)
  BY NestingCarries DEF Balanced

LEMMA ShapeCarries ==
  ASSUME tokens' = tokens, NEW w, NEW p
  PROVE  /\ Shape(w, p)' <=> Shape(w, p)
         /\ Reached(w, p)' = Reached(w, p)
<1>1. ProgramIsLast(w)' <=> ProgramIsLast(w)
  BY DEF ProgramIsLast, Low
<1>2. ExpectsNoBrace(w)' <=> ExpectsNoBrace(w)
  BY DEF ExpectsNoBrace, Low
<1>3. CatchesStarts(w, p)' <=> CatchesStarts(w, p)
  BY DEF CatchesStarts, Low
<1>4. Token(p)' = Token(p)
  BY DEF Token
<1>5. AdvancesNext(w, p)' <=> AdvancesNext(w, p)
  BY <1>4 DEF AdvancesNext, Low
<1>6. EndsAfterLoop(w, p)' <=> EndsAfterLoop(w, p)
  BY <1>4 DEF EndsAfterLoop, Low
<1>7. Reached(w, p)' = Reached(w, p)
  BY DEF Reached, Advanced, Low
<1> QED
  BY <1>1, <1>2, <1>3, <1>5, <1>6, <1>7 DEF Shape

LEMMA CountedCarries ==
  ASSUME tokens' = tokens, NEW w, NEW p
  PROVE  Counted(w, p)' <=> Counted(w, p)
<1>1. ASSUME NEW b
      PROVE  Balanced(Low(w, b).n, Reached(w, p), Inner(w, b))'
               <=> Balanced(Low(w, b).n, Reached(w, p), Inner(w, b))
  <2>1. PICK open, r, k : open = Low(w, b).n /\ r = Reached(w, p) /\ k = Inner(w, b)
    OBVIOUS
  <2>2. Low(w, b).n' = open /\ Reached(w, p)' = r /\ Inner(w, b)' = k
    BY <2>1, ShapeCarries DEF Inner, EndsIn, Low
  <2>3. Balanced(Low(w, b).n, Reached(w, p), Inner(w, b))' <=> Balanced(open, r, k)'
    BY <2>2 DEF Balanced
  <2>4. Balanced(open, r, k)' <=> Balanced(open, r, k)
    BY BalancedCarries
  <2> QED
    BY <2>1, <2>3, <2>4
<1> QED
  BY <1>1 DEF Counted, Low

LEMMA Carries ==
  ASSUME tokens' = tokens, NEW w2, NEW p2, work' = w2, position' = p2,
         Shape(w2, p2), ~lostList' => Counted(w2, p2), BlocksCloseAtTheirBrace'
  PROVE  Kept'
<1>1. Shape(work, position)' <=> Shape(w2, p2)'
  <2>1. ProgramIsLast(work)' <=> ProgramIsLast(w2)'
    BY DEF ProgramIsLast, Low
  <2>2. ExpectsNoBrace(work)' <=> ExpectsNoBrace(w2)'
    BY DEF ExpectsNoBrace, Low
  <2>3. CatchesStarts(work, position)' <=> CatchesStarts(w2, p2)'
    BY DEF CatchesStarts, Low
  <2>4. AdvancesNext(work, position)' <=> AdvancesNext(w2, p2)'
    BY DEF AdvancesNext, Low, Token
  <2>5. EndsAfterLoop(work, position)' <=> EndsAfterLoop(w2, p2)'
    BY DEF EndsAfterLoop, Low, Token
  <2> QED
    BY <2>1, <2>2, <2>3, <2>4, <2>5 DEF Shape
<1>2. Counted(work, position)' <=> Counted(w2, p2)'
  <2>1. Reached(work, position)' = Reached(w2, p2)'
    BY DEF Reached, Advanced, Low
  <2>2. ASSUME NEW b
        PROVE  Balanced(Low(work, b).n, Reached(work, position), Inner(work, b))'
                 <=> Balanced(Low(w2, b).n, Reached(w2, p2), Inner(w2, b))'
    BY <2>1 DEF Balanced, Low, Inner, EndsIn
  <2> QED
    BY <2>2 DEF Counted, Low
<1>3. Shape(work, position)'
  BY <1>1, ShapeCarries
<1>4. ~lostList' => Counted(work, position)'
  BY <1>2, CountedCarries
<1> QED
  BY <1>3, <1>4 DEF Kept

LEMMA ClosedStays ==
  ASSUME BlocksCloseAtTheirBrace, tokens' = tokens, closed' = closed, lostList => lostList'
  PROVE  BlocksCloseAtTheirBrace'
<1>1. ASSUME NEW b, b \in closed', ~lostList'
      PROVE  /\ Nesting(b[1], b[2])' = -1
             /\ \A q \in b[1] .. b[2] - 1 : Nesting(b[1], q)' >= 0
  <2>1. /\ Nesting(b[1], b[2]) = -1
        /\ \A q \in b[1] .. b[2] - 1 : Nesting(b[1], q) >= 0
    BY <1>1 DEF BlocksCloseAtTheirBrace
  <2> QED
    BY <2>1, NestingCarries
<1> QED
  BY <1>1 DEF BlocksCloseAtTheirBrace
-----------------------------------------------------------------------------
(* What a step does. *)
Ordinary == {call \in Item : /\ call.do \notin Ends \cup {"catch", "program"}
                             /\ call.do = "expect" => call.token \notin Braces}

(* A body that ends nothing, catches nothing and passes no brace. *)
Tame(calls) ==
  \A k \in 1 .. Len(calls) :
    /\ calls[k] \in Ordinary
    /\ calls[k].do = "advance" => /\ Token(position) \notin Braces
                                  /\ \A j \in 1 .. k - 1 : calls[j].do \in {"deepen", "build"}

Same == position' = position /\ closed' = closed /\ lostList' = lostList

Quietly ==
  \E calls \in Seq(Item) :
    /\ Pushes(calls) /\ Same /\ Tame(calls)
    /\ Head(work).do \notin Ends \cup {"advance", "catch", "block_items", "program"}
    /\ Head(work).do \in {"deepen", "build"} => calls = <<>>

Opens ==
  \E inside, end \in Item :
    /\ Pushes(<<Advance, inside, end>>) /\ Same /\ Token(position) = Left
    /\ Head(work).do \in {"block", "initializer"}
    /\ \/ inside.do = "block_items" /\ end.do = "end_of_block" /\ end.n = position + 1
       \/ inside.do = "elements" /\ end.do = "end_of_list"

Closes ==
  /\ Pushes(<<Advance>>) /\ position' = position /\ lostList' = lostList
  /\ Token(position) = Right
  /\ \/ /\ Head(work).do = "end_of_block"
        /\ closed' = closed \cup {<<Head(work).n, position + 1>>}
     \/ Head(work).do = "end_of_list" /\ closed' = closed

Passes ==
  \E body, over \in Item :
    /\ Pushes(<<body, Catch(position), over>>) /\ Same
    /\ over.do = Head(work).do
    /\ \/ Head(work).do = "program" /\ body.do = "item"
       \/ /\ Head(work).do = "block_items" /\ body.do = "block_item"
          /\ Token(position) \notin {Right, "eof"}

Leaves ==
  /\ Pushes(<<>>) /\ Same
  /\ Head(work).do \in {"program", "catch", "block_items"}
  /\ Head(work).do = "block_items" => Token(position) \in {Right, "eof"}

Advances ==
  /\ Pushes(<<>>) /\ Head(work).do = "advance"
  /\ position' = Advanced(position) /\ closed' = closed /\ lostList' = lostList

Bailed ==
  \E caught \in 1 .. Len(work) :
    /\ Caughts(work, caught) /\ work' = SubSeq(work, caught + 1, Len(work))
    /\ position' = recover_from(work[caught].n, position)
    /\ lostList' = (lostList \/ \E i \in 1 .. caught : work[i].do = "end_of_list")
    /\ tokens' = tokens /\ closed' = closed
    /\ Head(work).do = "end_of_block" => Token(position) # Right

Stays == UNCHANGED <<tokens, position, work, closed, lostList>>

BlockStep == Quietly \/ Opens \/ Closes \/ Passes \/ Leaves \/ Advances \/ Bailed \/ Stays
-----------------------------------------------------------------------------
LEMMA PushesWell ==
  ASSUME IInv, NEW calls, Pushes(calls)
  PROVE  /\ work \in Seq(Item) /\ work' \in Seq(Item) /\ Replaced(work, calls, work')
         /\ Head(work) = Low(work, Len(work)) /\ Head(work) \in Item /\ Head(work).n \in Nat
         /\ Len(work) \in Nat \ {0} /\ Len(calls) \in Nat /\ Len(work') \in Nat
         /\ position \in Nat /\ position <= Len(tokens) /\ Len(tokens) \in Nat
         /\ tokens' = tokens
<1>1. Types /\ work \in Seq(Item) /\ tokens' = tokens
  BY DEF IInv, Types, Pushes
<1>2. /\ Replaced(work, calls, work') /\ Low(work, Len(work)) = Head(work)
      /\ work' \in Seq(Item) /\ Head(work) \in Item
  BY <1>1, PushesReplaces
<1>3. Len(tokens) \in Nat /\ position \in 0 .. Len(tokens)
  BY <1>1, LenProperties DEF Types
<1>4. Head(work).n \in Nat
  BY <1>2 DEF Item
<1>5. Len(work) \in Nat \ {0} /\ Len(calls) \in Nat /\ Len(work') \in Nat
  BY <1>2 DEF Replaced
<1> QED
  BY <1>1, <1>2, <1>3, <1>4, <1>5

LEMMA QuietlyKeeps ==
  ASSUME BlockInv, Quietly
  PROVE  Kept'
<1>1. PICK calls \in Seq(Item) :
        /\ Pushes(calls) /\ Same /\ Tame(calls)
        /\ Head(work).do \notin Ends \cup {"advance", "catch", "block_items", "program"}
        /\ Head(work).do \in {"deepen", "build"} => calls = <<>>
  BY DEF Quietly
<1>2. PICK w2 : w2 = work'
  OBVIOUS
<1>3. /\ work \in Seq(Item) /\ w2 \in Seq(Item) /\ Replaced(work, calls, w2)
      /\ Head(work) = Low(work, Len(work)) /\ Len(work) \in Nat \ {0}
      /\ position \in Nat /\ Len(tokens) \in Nat /\ tokens' = tokens
  BY <1>1, <1>2, PushesWell DEF BlockInv
<1>4. Shape(work, position) /\ BlocksCloseAtTheirBrace
  BY DEF BlockInv, Kept
<1>5. \A k \in 1 .. Len(calls) :
        /\ calls[k].do \notin Ends \cup {"catch", "program"}
        /\ calls[k].do = "expect" => calls[k].token \notin Braces
  BY <1>1 DEF Tame, Ordinary
<1>6. ProgramIsLast(w2) /\ ExpectsNoBrace(w2) /\ CatchesStarts(w2, position)
  <2>1. Fits(calls, Low(work, Len(work)), position)
    BY <1>5 DEF Fits
  <2>2. position <= position
    BY <1>3
  <2> QED
    BY <1>3, <1>4, <2>1, <2>2, FitsKeep DEF Shape
<1>7. AdvancesNext(w2, position)
  <2>1. CASE Head(work).do \in {"deepen", "build"}
    BY <1>1, <1>3, <1>4, <2>1, AdvancesUncover DEF Shape
  <2>2. CASE Head(work).do \notin {"deepen", "build"}
    <3>1. NoneBelow(work)
      BY <1>3, <1>4, <2>2, NoAdvanceBelow DEF Shape
    <3>2. Leads(calls, position)
      BY <1>1 DEF Tame, Leads
    <3> QED
      BY <1>3, <3>1, <3>2, AdvancesKeep
  <2> QED
    BY <2>1, <2>2
<1>8. EndsAfterLoop(w2, position)
  <2>1. OpensLoop(calls)
    BY <1>5 DEF OpensLoop, Ends
  <2> QED
    BY <1>1, <1>3, <1>4, <2>1, EndsStay DEF Shape
<1>9. ~lostList' => Counted(w2, position)
  <2> SUFFICES ASSUME ~lostList'
               PROVE  Counted(w2, position)
    OBVIOUS
  <2>1. Counted(work, position)
    BY <1>1 DEF BlockInv, Kept, Same
  <2>2. ASSUME Len(w2) > 0, Low(w2, Len(w2)).do = "advance"
        PROVE  Token(position) \notin Braces
    <3>1. Len(w2) \in 1 .. Len(w2)
      BY <1>3, <2>2, LenProperties
    <3>2. CASE Len(w2) \in 1 .. Len(work) - 1 /\ Low(w2, Len(w2)) = Low(work, Len(w2))
      <4>1. Len(w2) \in 1 .. Len(work) /\ Len(w2) < Len(work)
        BY <1>3, <3>2
      <4> QED
        BY <1>4, <2>2, <3>2, <4>1 DEF Shape, AdvancesNext
    <3>3. ASSUME NEW k \in 1 .. Len(calls), Low(w2, Len(w2)) = calls[k]
          PROVE  Token(position) \notin Braces
      BY <1>1, <2>2, <3>3 DEF Tame
    <3> QED
      BY <1>3, <3>1, <3>2, <3>3, OldOrNew
  <2> QED
    BY <1>1, <1>3, <1>5, <2>1, <2>2, CountedStays
<1>10. BlocksCloseAtTheirBrace'
  BY <1>1, <1>3, <1>4, ClosedStays DEF Same
<1> QED
  BY <1>1, <1>2, <1>3, <1>6, <1>7, <1>8, <1>9, <1>10, Carries DEF Shape, Same

LEMMA OpensKeeps ==
  ASSUME BlockInv, Opens
  PROVE  Kept'
<1>1. PICK inside \in Item, end \in Item :
        /\ Pushes(<<Advance, inside, end>>) /\ Same /\ Token(position) = Left
        /\ Head(work).do \in {"block", "initializer"}
        /\ \/ inside.do = "block_items" /\ end.do = "end_of_block" /\ end.n = position + 1
           \/ inside.do = "elements" /\ end.do = "end_of_list"
  BY DEF Opens
<1> DEFINE calls == <<Advance, inside, end>>
<1>2. PICK w2 : w2 = work'
  OBVIOUS
<1>3. /\ work \in Seq(Item) /\ w2 \in Seq(Item) /\ Replaced(work, calls, w2)
      /\ Head(work) = Low(work, Len(work)) /\ Len(work) \in Nat \ {0}
      /\ position \in Nat /\ Len(tokens) \in Nat /\ tokens' = tokens
  BY <1>1, <1>2, PushesWell DEF BlockInv
<1>4. Shape(work, position) /\ BlocksCloseAtTheirBrace
  BY DEF BlockInv, Kept
<1>5. /\ Len(calls) = 3 /\ calls[1] = Advance /\ calls[2] = inside /\ calls[3] = end
      /\ Advance.do = "advance"
  BY DEF Advance, Parse
<1> HIDE DEF calls
<1>6. \A k \in 1 .. Len(calls) : k = 1 \/ k = 2 \/ k = 3
  BY <1>5
<1>7. ProgramIsLast(w2) /\ ExpectsNoBrace(w2) /\ CatchesStarts(w2, position)
  <2>1. Fits(calls, Low(work, Len(work)), position)
    BY <1>1, <1>5, <1>6 DEF Fits
  <2>2. position <= position
    BY <1>3
  <2> QED
    BY <1>3, <1>4, <2>1, <2>2, FitsKeep DEF Shape
<1>8. AdvancesNext(w2, position)
  <2>1. NoneBelow(work)
    BY <1>1, <1>3, <1>4, NoAdvanceBelow DEF Shape
  <2>2. Leads(calls, position)
    BY <1>1, <1>5, <1>6 DEF Leads
  <2> QED
    BY <1>3, <2>1, <2>2, AdvancesKeep
<1>9. EndsAfterLoop(w2, position)
  <2>1. OpensLoop(calls)
    BY <1>1, <1>5, <1>6 DEF OpensLoop
  <2> QED
    BY <1>1, <1>3, <1>4, <2>1, EndsStay DEF Shape
<1>10. ~lostList' => Counted(w2, position)
  <2> SUFFICES ASSUME ~lostList'
               PROVE  Counted(w2, position)
    OBVIOUS
  <2>1. Counted(work, position)
    BY <1>1 DEF BlockInv, Kept, Same
  <2>2. /\ Low(work, Len(work)).do \notin Ends /\ Low(work, Len(work)).do # "advance"
        /\ calls[2].do \notin Ends /\ calls[3].do \in Ends
        /\ calls[3].do = "end_of_block" => calls[3].n = position + 1
    BY <1>1, <1>3, <1>5 DEF Ends
  <2> QED
    BY <1>1, <1>3, <1>5, <2>1, <2>2, CountedOpens
<1>11. BlocksCloseAtTheirBrace'
  BY <1>1, <1>3, <1>4, ClosedStays DEF Same
<1> QED
  BY <1>1, <1>2, <1>3, <1>7, <1>8, <1>9, <1>10, <1>11, Carries DEF Shape, Same

LEMMA ClosesKeeps ==
  ASSUME BlockInv, Closes
  PROVE  Kept'
<1> DEFINE calls == <<Advance>>
<1>1. /\ Pushes(calls) /\ position' = position /\ lostList' = lostList /\ Token(position) = Right
      /\ Head(work).do \in Ends
  BY DEF Closes, Ends
<1>2. PICK w2 : w2 = work'
  OBVIOUS
<1>3. /\ work \in Seq(Item) /\ w2 \in Seq(Item) /\ Replaced(work, calls, w2)
      /\ Head(work) = Low(work, Len(work)) /\ Len(work) \in Nat \ {0} /\ Head(work).n \in Nat
      /\ position \in Nat /\ position <= Len(tokens) /\ Len(tokens) \in Nat /\ tokens' = tokens
  BY <1>1, <1>2, PushesWell DEF BlockInv
<1>4. Shape(work, position) /\ BlocksCloseAtTheirBrace
  BY DEF BlockInv, Kept
<1>5. Len(calls) = 1 /\ calls[1] = Advance /\ Advance.do = "advance"
  BY DEF Advance, Parse
<1> HIDE DEF calls
<1>6. \A k \in 1 .. Len(calls) : k = 1
  BY <1>5
<1>7. ProgramIsLast(w2) /\ ExpectsNoBrace(w2) /\ CatchesStarts(w2, position)
  <2>1. Fits(calls, Low(work, Len(work)), position)
    BY <1>5, <1>6 DEF Fits
  <2>2. position <= position
    BY <1>3
  <2> QED
    BY <1>3, <1>4, <2>1, <2>2, FitsKeep DEF Shape
<1>8. AdvancesNext(w2, position)
  <2>1. NoneBelow(work)
    BY <1>1, <1>3, <1>4, NoAdvanceBelow DEF Shape, Ends
  <2>2. Leads(calls, position)
    BY <1>5, <1>6 DEF Leads
  <2> QED
    BY <1>3, <2>1, <2>2, AdvancesKeep
<1>9. EndsAfterLoop(w2, position)
  <2>1. OpensLoop(calls)
    BY <1>5, <1>6 DEF OpensLoop
  <2>2. Low(work, Len(work)).do \notin {"catch", "block_items", "advance"}
    BY <1>1, <1>3 DEF Ends
  <2> QED
    BY <1>3, <1>4, <2>1, <2>2, EndsStay DEF Shape
<1>10. ~lostList' => Counted(w2, position)
  <2> SUFFICES ASSUME ~lostList'
               PROVE  Counted(w2, position)
    OBVIOUS
  <2>1. Counted(work, position)
    BY <1>1 DEF BlockInv, Kept
  <2> QED
    BY <1>1, <1>3, <1>5, <2>1, CountedCloses
<1>11. BlocksCloseAtTheirBrace'
  <2>1. CASE closed' = closed
    BY <1>1, <1>3, <1>4, <2>1, ClosedStays
  <2>2. CASE Head(work).do = "end_of_block" /\ closed' = closed \cup {<<Head(work).n, position + 1>>}
    <3> DEFINE open == Head(work).n
    <3>1. ASSUME ~lostList
          PROVE  /\ Nesting(open, position + 1) = -1
                 /\ \A q \in open .. position : Nesting(open, q) >= 0
      <4>1. position < Len(tokens)
        <5>1. Token(position) # "eof"
          BY <1>1, Zenon DEF Right
        <5> QED
          BY <1>3, <5>1 DEF Token
      <4>2. Len(work) \in 1 .. Len(work) /\ Low(work, Len(work)).do = "end_of_block"
        BY <1>3, <2>2
      <4>3. Balanced(open, Reached(work, position), Inner(work, Len(work)))
        BY <1>3, <3>1, <4>1, <4>2 DEF BlockInv, Kept, Counted
      <4>4. Reached(work, position) = position
        BY <4>2 DEF Reached
      <4>5. Inner(work, Len(work)) = 0
        <5>1. \A c \in Len(work) + 1 .. Len(work) : FALSE
          BY <1>3
        <5> QED
          BY <5>1, EndsNone DEF Inner
      <4>6. Balanced(open, position, 0)
        BY <4>3, <4>4, <4>5
      <4>7. open \in Nat /\ open <= position /\ position <= position + 1 /\ position + 1 \in Nat
        BY <1>3, <4>6 DEF Balanced
      <4>8. Nesting(open, position + 1) = Nesting(open, position) + Nesting(position, position + 1)
        BY <1>3, <4>7, NestingAdds
      <4>9. Nesting(position, position + 1) = -1
        BY <1>1, <1>3, <4>1, PassesToken, TwoBraces
      <4> QED
        BY <4>6, <4>8, <4>9 DEF Balanced
    <3>2. open \in Nat
      BY <1>3
    <3>3. ASSUME NEW b, b \in closed', ~lostList'
          PROVE  /\ Nesting(b[1], b[2])' = -1
                 /\ \A q \in b[1] .. b[2] - 1 : Nesting(b[1], q)' >= 0
      <4>1. CASE b \in closed
        <5>1. /\ Nesting(b[1], b[2]) = -1
              /\ \A q \in b[1] .. b[2] - 1 : Nesting(b[1], q) >= 0
          BY <1>1, <1>4, <3>3, <4>1 DEF BlocksCloseAtTheirBrace
        <5> QED
          BY <1>3, <5>1, NestingCarries
      <4>2. CASE b = <<open, position + 1>>
        <5>1. b[1] = open /\ b[2] = position + 1 /\ b[2] - 1 = position
          BY <1>3, <4>2
        <5>2. /\ Nesting(open, position + 1) = -1
              /\ \A q \in open .. position : Nesting(open, q) >= 0
          BY <1>1, <3>1, <3>3
        <5> HIDE DEF open
        <5>3. Nesting(b[1], b[2]) = -1 /\ \A q \in b[1] .. b[2] - 1 : Nesting(b[1], q) >= 0
          BY <5>1, <5>2
        <5> QED
          BY <1>3, <5>3, NestingCarries
      <4> QED
        BY <2>2, <3>3, <4>1, <4>2
    <3> QED
      BY <3>3 DEF BlocksCloseAtTheirBrace
  <2> QED
    BY <2>1, <2>2 DEF Closes
<1> QED
  BY <1>1, <1>2, <1>3, <1>7, <1>8, <1>9, <1>10, <1>11, Carries DEF Shape

LEMMA PassesKeeps ==
  ASSUME BlockInv, Passes
  PROVE  Kept'
<1>1. PICK body \in Item, over \in Item :
        /\ Pushes(<<body, Catch(position), over>>) /\ Same
        /\ over.do = Head(work).do
        /\ \/ Head(work).do = "program" /\ body.do = "item"
           \/ /\ Head(work).do = "block_items" /\ body.do = "block_item"
              /\ Token(position) \notin {Right, "eof"}
  BY DEF Passes
<1> DEFINE calls == <<body, Catch(position), over>>
<1>2. PICK w2 : w2 = work'
  OBVIOUS
<1>3. /\ work \in Seq(Item) /\ w2 \in Seq(Item) /\ Replaced(work, calls, w2)
      /\ Head(work) = Low(work, Len(work)) /\ Len(work) \in Nat \ {0}
      /\ position \in Nat /\ Len(tokens) \in Nat /\ tokens' = tokens
  BY <1>1, <1>2, PushesWell DEF BlockInv
<1>4. Shape(work, position) /\ BlocksCloseAtTheirBrace
  BY DEF BlockInv, Kept
<1>5. /\ Len(calls) = 3 /\ calls[1] = body /\ calls[2] = Catch(position) /\ calls[3] = over
      /\ Catch(position).do = "catch" /\ Catch(position).n = position
  BY DEF Catch
<1> HIDE DEF calls
<1>6. \A k \in 1 .. Len(calls) : k = 1 \/ k = 2 \/ k = 3
  BY <1>5
<1>7. Head(work).do = "block_items" => position < Len(tokens) /\ tokens[position + 1] # Right
  BY <1>1 DEF Token
<1>8. ProgramIsLast(w2) /\ ExpectsNoBrace(w2) /\ CatchesStarts(w2, position)
  <2>1. Fits(calls, Low(work, Len(work)), position)
    BY <1>1, <1>3, <1>5, <1>6, <1>7 DEF Fits
  <2>2. position <= position
    BY <1>3
  <2> QED
    BY <1>3, <1>4, <2>1, <2>2, FitsKeep DEF Shape
<1>9. \A k \in 1 .. Len(calls) : calls[k].do # "advance" /\ calls[k].do \notin Ends
  BY <1>1, <1>5, <1>6 DEF Ends
<1>10. NoneBelow(work)
  BY <1>1, <1>3, <1>4, NoAdvanceBelow DEF Shape
<1>11. AdvancesNext(w2, position)
  <2>1. Leads(calls, position)
    BY <1>9 DEF Leads
  <2> QED
    BY <1>3, <1>10, <2>1, AdvancesKeep
<1>12. EndsAfterLoop(w2, position)
  <2>1. CASE Head(work).do = "block_items"
    <3>1. /\ Low(work, Len(work)).do = "block_items" /\ calls[1].do # "end_of_block"
          /\ calls[2].do = "catch" /\ calls[3].do = "block_items"
      BY <1>1, <1>3, <1>5, <2>1
    <3> QED
      BY <1>3, <1>4, <1>5, <3>1, EndsLooped DEF Shape
  <2>2. CASE Head(work).do = "program"
    <3>1. OpensLoop(calls)
      BY <1>9 DEF OpensLoop, Ends
    <3> QED
      BY <1>3, <1>4, <2>2, <3>1, EndsStay DEF Shape
  <2> QED
    BY <1>1, <2>1, <2>2
<1>13. ~lostList' => Counted(w2, position)
  <2> SUFFICES ASSUME ~lostList'
               PROVE  Counted(w2, position)
    OBVIOUS
  <2>1. Counted(work, position)
    BY <1>1 DEF BlockInv, Kept, Same
  <2>2. Low(work, Len(work)).do \notin Ends /\ Low(work, Len(work)).do # "advance"
    BY <1>1, <1>3 DEF Ends
  <2>3. Len(w2) > 0 => Low(w2, Len(w2)).do # "advance"
    <3>1. Len(w2) + 1 - 1 = Len(w2) /\ 1 \in 1 .. Len(calls)
      BY <1>3, <1>5, LenProperties
    <3>2. Low(w2, Len(w2) + 1 - 1) = calls[1]
      BY <1>3, <3>1 DEF Replaced
    <3> QED
      BY <1>9, <3>1, <3>2
  <2> QED
    BY <1>3, <1>9, <2>1, <2>2, <2>3, CountedStays
<1>14. BlocksCloseAtTheirBrace'
  BY <1>1, <1>3, <1>4, ClosedStays DEF Same
<1> QED
  BY <1>1, <1>2, <1>3, <1>8, <1>11, <1>12, <1>13, <1>14, Carries DEF Shape, Same

LEMMA NothingPushed ==
  Len(<<>>) = 0 /\ \A k \in 1 .. Len(<<>>) : FALSE
  BY EmptySeq

LEMMA LeavesKeeps ==
  ASSUME BlockInv, Leaves
  PROVE  Kept'
<1>1. /\ Pushes(<<>>) /\ Same
      /\ Head(work).do \in {"program", "catch", "block_items"}
      /\ Head(work).do = "block_items" => Token(position) \in {Right, "eof"}
  BY DEF Leaves
<1>2. PICK w2 : w2 = work'
  OBVIOUS
<1>3. /\ work \in Seq(Item) /\ w2 \in Seq(Item) /\ Replaced(work, <<>>, w2)
      /\ Head(work) = Low(work, Len(work)) /\ Len(work) \in Nat \ {0}
      /\ position \in Nat /\ Len(tokens) \in Nat /\ tokens' = tokens
  BY <1>1, <1>2, PushesWell DEF BlockInv
<1>4. Shape(work, position) /\ BlocksCloseAtTheirBrace
  BY DEF BlockInv, Kept
<1>5. ProgramIsLast(w2) /\ ExpectsNoBrace(w2) /\ CatchesStarts(w2, position)
  <2>1. Fits(<<>>, Low(work, Len(work)), position)
    BY NothingPushed DEF Fits
  <2>2. position <= position
    BY <1>3
  <2> QED
    BY <1>3, <1>4, <2>1, <2>2, FitsKeep DEF Shape
<1>6. NoneBelow(work)
  BY <1>1, <1>3, <1>4, NoAdvanceBelow DEF Shape
<1>7. AdvancesNext(w2, position)
  BY <1>3, <1>4, AdvancesUncover DEF Shape
<1>8. EndsAfterLoop(w2, position)
  <2>1. CASE Head(work).do = "program"
    <3>1. OpensLoop(<<>>)
      BY NothingPushed DEF OpensLoop
    <3> QED
      BY <1>3, <1>4, <2>1, <3>1, EndsStay DEF Shape
  <2>2. CASE Head(work).do # "program"
    BY <1>1, <1>3, <1>4, <2>2, EndsUncovered DEF Shape
  <2> QED
    BY <2>1, <2>2
<1>9. ~lostList' => Counted(w2, position)
  <2> SUFFICES ASSUME ~lostList'
               PROVE  Counted(w2, position)
    OBVIOUS
  <2>1. Counted(work, position)
    BY <1>1 DEF BlockInv, Kept, Same
  <2>2. Low(work, Len(work)).do \notin Ends /\ Low(work, Len(work)).do # "advance"
    BY <1>1, <1>3 DEF Ends
  <2>3. Len(w2) > 0 => Low(w2, Len(w2)).do # "advance"
    <3>1. Len(w2) = Len(work) - 1 /\ \A b \in 1 .. Len(work) - 1 : Low(w2, b) = Low(work, b)
      BY <1>3, NothingPushed DEF Replaced
    <3>2. Len(w2) > 0 => Len(w2) \in 1 .. Len(work) - 1
      BY <1>3, <3>1
    <3> QED
      BY <1>6, <3>1, <3>2 DEF NoneBelow
  <2>4. \A k \in 1 .. Len(<<>>) : <<>>[k].do \notin Ends
    BY NothingPushed
  <2> QED
    BY <1>3, <2>1, <2>2, <2>3, <2>4, CountedStays
<1>10. BlocksCloseAtTheirBrace'
  BY <1>1, <1>3, <1>4, ClosedStays DEF Same
<1> QED
  BY <1>1, <1>2, <1>3, <1>5, <1>7, <1>8, <1>9, <1>10, Carries DEF Shape, Same

LEMMA AdvancesKeeps ==
  ASSUME BlockInv, Advances
  PROVE  Kept'
<1>1. /\ Pushes(<<>>) /\ Head(work).do = "advance"
      /\ position' = Advanced(position) /\ closed' = closed /\ lostList' = lostList
  BY DEF Advances
<1>2. PICK w2 : w2 = work'
  OBVIOUS
<1>3. /\ work \in Seq(Item) /\ w2 \in Seq(Item) /\ Replaced(work, <<>>, w2)
      /\ Head(work) = Low(work, Len(work)) /\ Len(work) \in Nat \ {0}
      /\ position \in Nat /\ Len(tokens) \in Nat /\ tokens' = tokens
  BY <1>1, <1>2, PushesWell DEF BlockInv
<1>4. Shape(work, position) /\ BlocksCloseAtTheirBrace
  BY DEF BlockInv, Kept
<1>5. PICK p2 : p2 = Advanced(position)
  OBVIOUS
<1>6. p2 \in Nat /\ position <= p2
  BY <1>3, <1>5 DEF Advanced
<1>7. ProgramIsLast(w2) /\ ExpectsNoBrace(w2) /\ CatchesStarts(w2, p2)
  <2>1. Fits(<<>>, Low(work, Len(work)), position)
    BY NothingPushed DEF Fits
  <2> QED
    BY <1>3, <1>4, <1>6, <2>1, FitsKeep DEF Shape
<1>8. NoneBelow(work)
  BY <1>1, <1>3, <1>4, NoAdvanceBelow DEF Shape
<1>9. AdvancesNext(w2, p2)
  <2>1. Leads(<<>>, p2)
    BY NothingPushed DEF Leads
  <2> QED
    BY <1>3, <1>8, <2>1, AdvancesKeep
<1>10. EndsAfterLoop(w2, p2)
  BY <1>1, <1>3, <1>4, EndsUncovered DEF Shape
<1>11. ~lostList' => Counted(w2, p2)
  <2>1. ~lostList' => Counted(work, position)
    BY <1>1 DEF BlockInv, Kept
  <2> QED
    BY <1>1, <1>3, <1>5, <1>8, <2>1, CountedAdvances
<1>12. BlocksCloseAtTheirBrace'
  BY <1>1, <1>3, <1>4, ClosedStays
<1> QED
  BY <1>1, <1>2, <1>3, <1>5, <1>7, <1>9, <1>10, <1>11, <1>12, Carries DEF Shape

LEMMA BailedKeeps ==
  ASSUME BlockInv, Bailed
  PROVE  Kept'
<1>1. PICK caught \in 1 .. Len(work) :
        /\ Caughts(work, caught) /\ work' = SubSeq(work, caught + 1, Len(work))
        /\ position' = recover_from(work[caught].n, position)
        /\ lostList' = (lostList \/ \E i \in 1 .. caught : work[i].do = "end_of_list")
        /\ tokens' = tokens /\ closed' = closed
        /\ Head(work).do = "end_of_block" => Token(position) # Right
  BY DEF Bailed
<1>2. PICK w2, p2 : w2 = work' /\ p2 = position'
  OBVIOUS
<1>3. Types /\ work \in Seq(Item) /\ position \in 0 .. Len(tokens) /\ position \in Nat
  BY LenProperties DEF BlockInv, IInv, Types
<1>4. Abandoned(work, caught, w2)
  BY <1>1, <1>2, <1>3, Cut
<1>5. p2 \in Nat /\ position <= p2 /\ p2 = recover_from(work[caught].n, position)
  BY <1>1, <1>2, <1>3, RecoveryGoesOn
<1>6. Shape(w2, p2)
  BY <1>1, <1>3, <1>4, <1>5, BailKeepsShape DEF BlockInv, Kept
<1>7. ~lostList' => Counted(w2, p2)
  <2> SUFFICES ASSUME ~lostList'
               PROVE  Counted(w2, p2)
    OBVIOUS
  <2>1. Counted(work, position) /\ Shape(work, position)
    BY <1>1 DEF BlockInv, Kept
  <2>2. \A j \in 1 .. caught : work[j].do # "end_of_list"
    BY <1>1
  <2>3. work # <<>> /\ Len(work) \in Nat /\ Len(work) >= 1
    <3>1. Len(work) \in Nat
      BY <1>3, LenProperties
    <3> QED
      BY <1>1, <3>1, EmptySeq
  <2>4. Low(work, 1).do = "program"
    BY <2>3 DEF BlockInv, IInv, Anchored
  <2>5. Low(work, Len(work)) = Head(work)
    BY <1>3, <2>3 DEF Low
  <2> QED
    BY <1>1, <1>3, <1>4, <1>5, <2>1, <2>2, <2>4, <2>5, BailKeepsCount
<1>8. BlocksCloseAtTheirBrace'
  BY <1>1, ClosedStays DEF BlockInv, Kept
<1> QED
  BY <1>1, <1>2, <1>6, <1>7, <1>8, Carries

LEMMA StaysKeeps ==
  ASSUME BlockInv, Stays
  PROVE  Kept'
<1>1. PICK w2, p2 : w2 = work /\ p2 = position
  OBVIOUS
<1>2. Shape(w2, p2) /\ (~lostList' => Counted(w2, p2))
  BY <1>1 DEF BlockInv, Kept, Stays
<1>3. BlocksCloseAtTheirBrace'
  BY ClosedStays DEF BlockInv, Kept, Stays
<1> QED
  BY <1>1, <1>2, <1>3, Carries DEF Stays

LEMMA BlockStepsKeep ==
  ASSUME BlockInv, BlockStep
  PROVE  Kept'
BY QuietlyKeeps, OpensKeeps, ClosesKeeps, PassesKeeps, LeavesKeeps, AdvancesKeeps, BailedKeeps,
   StaysKeeps DEF BlockStep
-----------------------------------------------------------------------------
(* The token that a function looks at: none that it advances over is a     *)
(* brace, except where a block or a list begins and ends.                  *)
Clear == Token(position) \notin Braces

LEMMA PeekIsToken ==
  ASSUME IInv
  PROVE  peek_at(0) = Token(position)
<1>1. position + 0 = position
  BY Looking
<1> QED
  BY <1>1, Zenon DEF peek_at, Token

LEMMA KeywordsAreClear ==
  ASSUME IInv
  PROVE  /\ At({"if"}) => Clear
         /\ At({"while"}) => Clear
         /\ At({"for"}) => Clear
         /\ At({"return"}) => Clear
         /\ At({"break", "continue"}) => Clear
         /\ At({"else"}) => Clear
         /\ At({"void"}) => Clear
         /\ At(TypeKeywords) => Clear
<1> USE PeekIsToken DEF At, Clear, Braces, Left, Right
<1>1. At({"if"}) => Clear
  BY Zenon
<1>2. At({"while"}) => Clear
  BY Zenon
<1>3. At({"for"}) => Clear
  BY Zenon
<1>4. At({"return"}) => Clear
  BY Zenon
<1>5. At({"break", "continue"}) => Clear
  BY Zenon
<1>6. At({"else"}) => Clear
  BY Zenon
<1>7. At({"void"}) => Clear
  BY Zenon
<1>8. At(TypeKeywords) => Clear
  BY Zenon DEF TypeKeywords
<1> QED
  BY <1>1, <1>2, <1>3, <1>4, <1>5, <1>6, <1>7, <1>8, Zenon

LEMMA SignsAreClear ==
  ASSUME IInv
  PROVE  /\ At({"("}) => Clear
         /\ At({","}) => Clear
         /\ At({"["}) => Clear
         /\ At({"="}) => Clear
         /\ At({";"}) => Clear
         /\ At(PrefixOperators) => Clear
         /\ At(PostfixOperators) => Clear
         /\ At(Literals \cup {"ident"}) => Clear
         /\ peek_at(0) \in DOMAIN binary_operator => Clear
<1> USE PeekIsToken DEF At, Clear, Braces, Left, Right
<1>1. At({"("}) => Clear
  BY Zenon
<1>2. At({","}) => Clear
  BY Zenon
<1>3. At({"["}) => Clear
  BY Zenon
<1>4. At({"="}) => Clear
  BY Zenon
<1>5. At({";"}) => Clear
  BY Zenon
<1>6. At(PrefixOperators) => Clear
  BY Zenon DEF PrefixOperators
<1>7. At(PostfixOperators) => Clear
  BY Zenon DEF PostfixOperators
<1>8. At(Literals \cup {"ident"}) => Clear
  BY Zenon DEF Literals
<1>9. peek_at(0) \in DOMAIN binary_operator => Clear
  <2>1. DOMAIN binary_operator
          = {"||", "&&", "==", "!=", "<", ">", "<=", ">=", "+", "-", "*", "/", "%"}
    BY DEF binary_operator
  <2> QED
    BY <2>1, Zenon
<1> QED
  BY <1>1, <1>2, <1>3, <1>4, <1>5, <1>6, <1>7, <1>8, <1>9, Zenon

LEMMA AtABrace ==
  ASSUME IInv
  PROVE  /\ At({"{"}) => Token(position) = Left
         /\ At({"}"}) <=> Token(position) = Right
         /\ At({"}", "eof"}) <=> Token(position) \in {Right, "eof"}
  BY PeekIsToken, Zenon DEF At, Left, Right
-----------------------------------------------------------------------------
(* The calls that bodies are made of: an advance, and what is no advance.  *)
Quiet == {call \in Ordinary : call.do # "advance"}

Body(calls) == calls \in Seq(Item) /\ Tame(calls)

LEMMA AdvanceIsOrdinary == Advance \in Ordinary
<1>1. Advance \in Item /\ Advance.do = "advance"
  BY ParseIsItem DEF Advance, Call
<1> QED
  BY <1>1 DEF Ordinary, Ends

Grave == Ends \cup {"catch", "program", "expect", "advance"}

LEMMA QuietParses ==
  ASSUME NEW f \in Call, f \notin Grave
  PROVE  Parse(f) \in Quiet
<1>1. Parse(f) \in Item /\ Parse(f).do = f
  BY ParseIsItem
<1> QED
  BY <1>1 DEF Quiet, Ordinary, Grave

LEMMA QuietCalls ==
  ASSUME NEW n \in Nat
  PROVE  /\ \A t \in TokenKind \ Braces : Expect(t) \in Quiet
         /\ Deepen \in Quiet /\ Operand(n) \in Quiet /\ Operators(n) \in Quiet
         /\ Take(n) \in Quiet /\ Restore(n) \in Quiet
         /\ \A op \in Label : Build(op, n) \in Quiet
<1>1. \A t \in TokenKind : Expect(t) \in Item /\ Expect(t).do = "expect" /\ Expect(t).token = t
  BY DEF Expect, Item, Call, Label
<1>2. Deepen \in Quiet
  BY QuietParses DEF Deepen, Call, Grave, Ends
<1>3. Operand(n) \in Item /\ Operand(n).do = "binary"
  BY DEF Operand, Item, Call, Label
<1>4. Operators(n) \in Item /\ Operators(n).do = "binary_chain"
  BY DEF Operators, Item, Call, Label
<1>5. Take(n) \in Item /\ Take(n).do = "take"
  BY DEF Take, Item, Call, Label
<1>6. Restore(n) \in Item /\ Restore(n).do = "restore"
  BY DEF Restore, Item, Call, Label
<1>7. \A op \in Label : Build(op, n) \in Item /\ Build(op, n).do = "build"
  BY DEF Build, Item, Call
<1>8. \A t \in TokenKind \ Braces : Expect(t) \in Quiet
  BY <1>1 DEF Quiet, Ordinary, Ends
<1>9. Operand(n) \in Quiet /\ Operators(n) \in Quiet
  BY <1>3, <1>4 DEF Quiet, Ordinary, Ends
<1>10. Take(n) \in Quiet /\ Restore(n) \in Quiet
  BY <1>5, <1>6 DEF Quiet, Ordinary, Ends
<1>11. \A op \in Label : Build(op, n) \in Quiet
  BY <1>7 DEF Quiet, Ordinary, Ends
<1> QED
  BY <1>2, <1>8, <1>9, <1>10, <1>11

LEMMA QuietExpects ==
  /\ Expect("(") \in Quiet /\ Expect(")") \in Quiet /\ Expect("]") \in Quiet
  /\ Expect(";") \in Quiet /\ Expect("ident") \in Quiet /\ Expect("int_lit") \in Quiet
<1>1. {"(", ")", "]", ";", "ident", "int_lit"} \subseteq TokenKind \ Braces
  BY Zenon DEF TokenKind, Literals, Braces, Left, Right
<1>2. \A t \in TokenKind \ Braces : Expect(t) \in Quiet
  BY QuietCalls
<1> QED
  BY <1>1, <1>2, Zenon

(* A body is tame when only its first call, or the first after those that  *)
(* deepen and build, may be an advance.                                    *)
LEMMA TameBody ==
  ASSUME NEW calls \in Seq(Ordinary), NEW k \in Nat,
         \A j \in 1 .. k - 1 : j <= Len(calls) => calls[j].do \in {"deepen", "build"},
         \A j \in k + 1 .. Len(calls) : calls[j].do # "advance",
         (k \in 1 .. Len(calls) /\ calls[k].do = "advance") => Clear
  PROVE  Body(calls)
<1>1. Ordinary \subseteq Item
  BY DEF Ordinary
<1>2. calls \in Seq(Item)
  BY <1>1, SeqMonotonic
<1>3. ASSUME NEW j \in 1 .. Len(calls)
      PROVE  /\ calls[j] \in Ordinary
             /\ calls[j].do = "advance" => /\ Token(position) \notin Braces
                                           /\ \A i \in 1 .. j - 1 : calls[i].do \in {"deepen", "build"}
  <2>1. calls[j] \in Ordinary
    BY ElementOfSeq
  <2>2. Len(calls) \in Nat
    BY LenProperties
  <2>3. ASSUME calls[j].do = "advance"
        PROVE  /\ Token(position) \notin Braces
               /\ \A i \in 1 .. j - 1 : calls[i].do \in {"deepen", "build"}
    <3>1. j = k
      <4>1. j \in k + 1 .. Len(calls) => FALSE
        BY <2>3
      <4>2. j \in 1 .. k - 1 => FALSE
        BY <2>2, <2>3
      <4> QED
        BY <2>2, <4>1, <4>2
    <3>2. \A i \in 1 .. j - 1 : i \in 1 .. k - 1 /\ i <= Len(calls)
      BY <2>2, <3>1
    <3> QED
      BY <2>3, <3>1, <3>2 DEF Clear
  <2> QED
    BY <2>1, <2>3
<1> QED
  BY <1>2, <1>3 DEF Body, Tame
(* A call that may come first. *)
First == {call \in Ordinary : call.do = "advance" => Clear}

LEMMA OrdinaryCalls ==
  /\ First \subseteq Ordinary /\ Quiet \subseteq First /\ Quiet \subseteq Ordinary
  /\ Clear => Advance \in First
  BY AdvanceIsOrdinary DEF First, Quiet

(* Bodies of so many calls. *)
LEMMA Body0 == Body(<<>>)
<1>1. <<>> \in Seq(Item) /\ \A k \in 1 .. Len(<<>>) : FALSE
  BY EmptySeq
<1> QED
  BY <1>1 DEF Body, Tame

LEMMA Body1 ==
  ASSUME NEW a \in First
  PROVE  Body(<<a>>)
<1> DEFINE s == <<a>>
<1>1. a \in Ordinary
  BY OrdinaryCalls
<1>2. s \in Seq(Ordinary)
  BY <1>1, Bodies1, Zenon
<1>3. Len(s) = 1 /\ s[1] = a
  OBVIOUS
<1> HIDE DEF s
<1>4. \A j \in 1 + 1 .. Len(s) : FALSE
  BY <1>3
<1>5. \A j \in 1 .. 1 - 1 : FALSE
  OBVIOUS
<1>6. s[1].do = "advance" => Clear
  BY <1>3 DEF First
<1>7. Body(s)
  BY <1>2, <1>4, <1>5, <1>6, TameBody
<1> QED
  BY <1>7 DEF s

LEMMA Body2 ==
  ASSUME NEW a \in First, NEW b \in Quiet
  PROVE  Body(<<a, b>>)
<1> DEFINE s == <<a, b>>
<1>1. a \in Ordinary /\ b \in Ordinary
  BY OrdinaryCalls
<1>2. s \in Seq(Ordinary)
  BY <1>1, Bodies2, Zenon
<1>3. Len(s) = 2 /\ s[1] = a /\ s[2] = b
  OBVIOUS
<1> HIDE DEF s
<1>4. \A j \in 1 + 1 .. Len(s) : s[j].do # "advance"
  <2>1. \A j \in 1 + 1 .. 2 : j = 2
    OBVIOUS
  <2> QED
    BY <1>3, <2>1 DEF Quiet
<1>5. \A j \in 1 .. 1 - 1 : FALSE
  OBVIOUS
<1>6. s[1].do = "advance" => Clear
  BY <1>3 DEF First
<1>7. Body(s)
  BY <1>2, <1>4, <1>5, <1>6, TameBody
<1> QED
  BY <1>7 DEF s

LEMMA Body3 ==
  ASSUME NEW a \in First, NEW b \in Quiet, NEW c \in Quiet
  PROVE  Body(<<a, b, c>>)
<1> DEFINE s == <<a, b, c>>
<1>1. a \in Ordinary /\ b \in Ordinary /\ c \in Ordinary
  BY OrdinaryCalls
<1>2. s \in Seq(Ordinary)
  BY <1>1, Bodies3, Zenon
<1>3. Len(s) = 3 /\ s[1] = a /\ s[2] = b /\ s[3] = c
  OBVIOUS
<1> HIDE DEF s
<1>4. \A j \in 1 + 1 .. Len(s) : s[j].do # "advance"
  <2>1. \A j \in 1 + 1 .. 3 : j = 2 \/ j = 3
    OBVIOUS
  <2> QED
    BY <1>3, <2>1 DEF Quiet
<1>5. \A j \in 1 .. 1 - 1 : FALSE
  OBVIOUS
<1>6. s[1].do = "advance" => Clear
  BY <1>3 DEF First
<1>7. Body(s)
  BY <1>2, <1>4, <1>5, <1>6, TameBody
<1> QED
  BY <1>7 DEF s

LEMMA Body4 ==
  ASSUME NEW a \in First, NEW b \in Quiet, NEW c \in Quiet, NEW d \in Quiet
  PROVE  Body(<<a, b, c, d>>)
<1> DEFINE s == <<a, b, c, d>>
<1>1. a \in Ordinary /\ b \in Ordinary /\ c \in Ordinary /\ d \in Ordinary
  BY OrdinaryCalls
<1>2. s \in Seq(Ordinary)
  BY <1>1, Bodies4, Zenon
<1>3. Len(s) = 4 /\ s[1] = a /\ s[2] = b /\ s[3] = c /\ s[4] = d
  OBVIOUS
<1> HIDE DEF s
<1>4. \A j \in 1 + 1 .. Len(s) : s[j].do # "advance"
  <2>1. \A j \in 1 + 1 .. 4 : j = 2 \/ j = 3 \/ j = 4
    OBVIOUS
  <2> QED
    BY <1>3, <2>1 DEF Quiet
<1>5. \A j \in 1 .. 1 - 1 : FALSE
  OBVIOUS
<1>6. s[1].do = "advance" => Clear
  BY <1>3 DEF First
<1>7. Body(s)
  BY <1>2, <1>4, <1>5, <1>6, TameBody
<1> QED
  BY <1>7 DEF s

LEMMA Body8 ==
  ASSUME NEW a \in First, NEW b \in Quiet, NEW c \in Quiet, NEW d \in Quiet,
         NEW e \in Quiet, NEW f \in Quiet, NEW g \in Quiet, NEW h \in Quiet
  PROVE  Body(<<a, b, c, d, e, f, g, h>>)
<1> DEFINE s == <<a, b, c, d, e, f, g, h>>
<1>1. a \in Ordinary /\ b \in Ordinary /\ c \in Ordinary /\ d \in Ordinary /\ e \in Ordinary /\ f \in Ordinary /\ g \in Ordinary /\ h \in Ordinary
  BY OrdinaryCalls
<1>2. s \in Seq(Ordinary)
  BY <1>1, Bodies8, Zenon
<1>3. Len(s) = 8 /\ s[1] = a /\ s[2] = b /\ s[3] = c /\ s[4] = d /\ s[5] = e /\ s[6] = f /\ s[7] = g /\ s[8] = h
  OBVIOUS
<1> HIDE DEF s
<1>4. \A j \in 1 + 1 .. Len(s) : s[j].do # "advance"
  <2>1. \A j \in 1 + 1 .. 8 : j = 2 \/ j = 3 \/ j = 4 \/ j = 5 \/ j = 6 \/ j = 7 \/ j = 8
    OBVIOUS
  <2> QED
    BY <1>3, <2>1 DEF Quiet
<1>5. \A j \in 1 .. 1 - 1 : FALSE
  OBVIOUS
<1>6. s[1].do = "advance" => Clear
  BY <1>3 DEF First
<1>7. Body(s)
  BY <1>2, <1>4, <1>5, <1>6, TameBody
<1> QED
  BY <1>7 DEF s

(* A body that goes on. *)
LEMMA BodyJoins ==
  ASSUME NEW a, NEW b, Body(a), b \in Seq(Quiet)
  PROVE  Body(a \o b)
<1> DEFINE s == a \o b
<1>1. Quiet \subseteq Item
  BY DEF Quiet, Ordinary
<1>2. a \in Seq(Item) /\ b \in Seq(Item)
  BY <1>1, SeqMonotonic DEF Body
<1>3. Len(a) \in Nat /\ Len(b) \in Nat
  BY <1>2, LenProperties
<1>4. /\ s \in Seq(Item) /\ Len(s) = Len(a) + Len(b)
      /\ \A k \in 1 .. Len(a) + Len(b) : s[k] = IF k <= Len(a) THEN a[k] ELSE b[k - Len(a)]
  BY <1>2, ConcatProperties
<1> HIDE DEF s
<1>5. ASSUME NEW k \in 1 .. Len(s)
      PROVE  /\ s[k] \in Ordinary
             /\ s[k].do = "advance" => /\ Token(position) \notin Braces
                                       /\ \A j \in 1 .. k - 1 : s[j].do \in {"deepen", "build"}
  <2>1. CASE k <= Len(a)
    <3>1. k \in 1 .. Len(a) /\ s[k] = a[k]
      BY <1>3, <1>4, <2>1
    <3>2. \A j \in 1 .. k - 1 : s[j] = a[j]
      BY <1>3, <1>4, <2>1
    <3> QED
      BY <3>1, <3>2 DEF Body, Tame
  <2>2. CASE ~(k <= Len(a))
    <3>1. s[k] = b[k - Len(a)] /\ k - Len(a) \in 1 .. Len(b)
      BY <1>3, <1>4, <2>2
    <3>2. s[k] \in Quiet
      BY <3>1, ElementOfSeq
    <3> QED
      BY <3>2 DEF Quiet
  <2> QED
    BY <2>1, <2>2
<1>6. Body(s)
  BY <1>4, <1>5 DEF Body, Tame
<1> QED
  BY <1>6 DEF s

(* Bodies that deepen first. *)
LEMMA Deep4 ==
  ASSUME Clear, NEW a \in Quiet, NEW b \in Quiet
  PROVE  Body(<<Deepen, Advance, a, b>>)
<1> DEFINE s == <<Deepen, Advance, a, b>>
<1>1. Deepen \in Ordinary /\ Advance \in Ordinary /\ a \in Ordinary /\ b \in Ordinary
  BY OrdinaryCalls, QuietCalls, AdvanceIsOrdinary
<1>2. s \in Seq(Ordinary)
  BY <1>1, Bodies4, Zenon
<1>3. Len(s) = 4 /\ s[1] = Deepen /\ s[2] = Advance /\ s[3] = a /\ s[4] = b
  OBVIOUS
<1> HIDE DEF s
<1>4. \A j \in 2 + 1 .. Len(s) : s[j].do # "advance"
  <2>1. \A j \in 2 + 1 .. 4 : j = 3 \/ j = 4
    OBVIOUS
  <2> QED
    BY <1>3, <2>1 DEF Quiet
<1>5. \A j \in 1 .. 2 - 1 : s[j].do \in {"deepen", "build"}
  <2>1. \A j \in 1 .. 2 - 1 : j = 1
    OBVIOUS
  <2>2. Deepen.do = "deepen"
    BY DEF Deepen, Parse
  <2> QED
    BY <1>3, <2>1, <2>2
<1>6. Body(s)
  BY <1>2, <1>4, <1>5, TameBody
<1> QED
  BY <1>6 DEF s

LEMMA Deep5 ==
  ASSUME Clear, NEW a \in Quiet, NEW b \in Quiet, NEW c \in Quiet
  PROVE  Body(<<Deepen, Advance, a, b, c>>)
<1> DEFINE s == <<Deepen, Advance, a, b, c>>
<1>1. Deepen \in Ordinary /\ Advance \in Ordinary /\ a \in Ordinary /\ b \in Ordinary /\ c \in Ordinary
  BY OrdinaryCalls, QuietCalls, AdvanceIsOrdinary
<1>2. s \in Seq(Ordinary)
  BY <1>1, Bodies5, Zenon
<1>3. Len(s) = 5 /\ s[1] = Deepen /\ s[2] = Advance /\ s[3] = a /\ s[4] = b /\ s[5] = c
  OBVIOUS
<1> HIDE DEF s
<1>4. \A j \in 2 + 1 .. Len(s) : s[j].do # "advance"
  <2>1. \A j \in 2 + 1 .. 5 : j = 3 \/ j = 4 \/ j = 5
    OBVIOUS
  <2> QED
    BY <1>3, <2>1 DEF Quiet
<1>5. \A j \in 1 .. 2 - 1 : s[j].do \in {"deepen", "build"}
  <2>1. \A j \in 1 .. 2 - 1 : j = 1
    OBVIOUS
  <2>2. Deepen.do = "deepen"
    BY DEF Deepen, Parse
  <2> QED
    BY <1>3, <2>1, <2>2
<1>6. Body(s)
  BY <1>2, <1>4, <1>5, TameBody
<1> QED
  BY <1>6 DEF s

LEMMA Deep6 ==
  ASSUME Clear, NEW a \in Quiet, NEW b \in Quiet, NEW c \in Quiet, NEW d \in Quiet
  PROVE  Body(<<Deepen, Advance, a, b, c, d>>)
<1> DEFINE s == <<Deepen, Advance, a, b, c, d>>
<1>1. Deepen \in Ordinary /\ Advance \in Ordinary /\ a \in Ordinary /\ b \in Ordinary /\ c \in Ordinary /\ d \in Ordinary
  BY OrdinaryCalls, QuietCalls, AdvanceIsOrdinary
<1>2. s \in Seq(Ordinary)
  BY <1>1, Bodies6, Zenon
<1>3. Len(s) = 6 /\ s[1] = Deepen /\ s[2] = Advance /\ s[3] = a /\ s[4] = b /\ s[5] = c /\ s[6] = d
  OBVIOUS
<1> HIDE DEF s
<1>4. \A j \in 2 + 1 .. Len(s) : s[j].do # "advance"
  <2>1. \A j \in 2 + 1 .. 6 : j = 3 \/ j = 4 \/ j = 5 \/ j = 6
    OBVIOUS
  <2> QED
    BY <1>3, <2>1 DEF Quiet
<1>5. \A j \in 1 .. 2 - 1 : s[j].do \in {"deepen", "build"}
  <2>1. \A j \in 1 .. 2 - 1 : j = 1
    OBVIOUS
  <2>2. Deepen.do = "deepen"
    BY DEF Deepen, Parse
  <2> QED
    BY <1>3, <2>1, <2>2
<1>6. Body(s)
  BY <1>2, <1>4, <1>5, TameBody
<1> QED
  BY <1>6 DEF s

LEMMA DeepCall ==
  ASSUME Clear, NEW m \in Quiet, m.do = "build", NEW a \in Quiet, NEW b \in Quiet, NEW c \in Quiet
  PROVE  Body(<<Deepen, m, Advance, a, b, c>>)
<1> DEFINE s == <<Deepen, m, Advance, a, b, c>>
<1>1. Deepen \in Ordinary /\ m \in Ordinary /\ Advance \in Ordinary /\ a \in Ordinary /\ b \in Ordinary /\ c \in Ordinary
  BY OrdinaryCalls, QuietCalls, AdvanceIsOrdinary
<1>2. s \in Seq(Ordinary)
  BY <1>1, Bodies6, Zenon
<1>3. Len(s) = 6 /\ s[1] = Deepen /\ s[2] = m /\ s[3] = Advance /\ s[4] = a /\ s[5] = b /\ s[6] = c
  OBVIOUS
<1> HIDE DEF s
<1>4. \A j \in 3 + 1 .. Len(s) : s[j].do # "advance"
  <2>1. \A j \in 3 + 1 .. 6 : j = 4 \/ j = 5 \/ j = 6
    OBVIOUS
  <2> QED
    BY <1>3, <2>1 DEF Quiet
<1>5. \A j \in 1 .. 3 - 1 : s[j].do \in {"deepen", "build"}
  <2>1. \A j \in 1 .. 3 - 1 : j = 1 \/ j = 2
    OBVIOUS
  <2>2. Deepen.do = "deepen"
    BY DEF Deepen, Parse
  <2> QED
    BY <1>3, <2>1, <2>2
<1>6. Body(s)
  BY <1>2, <1>4, <1>5, TameBody
<1> QED
  BY <1>6 DEF s

-----------------------------------------------------------------------------
(* Running a call, by the calls its body makes. *)
LEMMA CallsPush ==
  ASSUME IInv, work # <<>>, NEW calls \in Seq(Item), Calls(calls)
  PROVE  Pushes(calls) /\ Same
<1>1. position \in 0 .. Len(tokens)
  BY Looking
<1> QED
  BY <1>1 DEF Pushes, Same, Calls, Calling

LEMMA TameRuns ==
  ASSUME IInv, work # <<>>, NEW calls, Body(calls), Calls(calls),
         Head(work).do \notin Ends \cup {"advance", "catch", "block_items", "program", "deepen", "build"}
  PROVE  BlockStep
<1>1. calls \in Seq(Item) /\ Tame(calls)
  BY DEF Body
<1>2. Pushes(calls) /\ Same
  BY <1>1, CallsPush
<1> QED
  BY <1>1, <1>2 DEF Quietly, BlockStep

(* A call made without calling others. *)
LEMMA LeafRuns ==
  ASSUME IInv, work # <<>>, Calling(<<>>), Same, tokens' = tokens,
         Head(work).do \notin Ends \cup {"advance", "catch", "block_items", "program"}
  PROVE  BlockStep
<1>1. position \in 0 .. Len(tokens) /\ <<>> \in Seq(Item) /\ Tame(<<>>)
  BY Looking, Body0 DEF Body
<1>2. Pushes(<<>>)
  BY <1>1 DEF Pushes, Calling, Same
<1> QED
  BY <1>1, <1>2 DEF Quietly, BlockStep

LEMMA BailsIsBailed ==
  ASSUME IInv, work # <<>>, Bails,
         Head(work).do \notin {"advance", "catch", "block_items", "program"},
         Head(work).do = "end_of_block" => Token(position) # Right
  PROVE  BlockStep
<1>1. PICK caught \in 1 .. Len(work) :
        /\ work[caught].do = "catch" /\ \A j \in 1 .. caught - 1 : work[j].do # "catch"
        /\ position' = recover_from(work[caught].n, position)
        /\ work' = SubSeq(work, caught + 1, Len(work))
        /\ lostList' = (lostList \/ \E i \in 1 .. caught : work[i].do = "end_of_list")
        /\ tokens' = tokens /\ closed' = closed
  BY BailsToNearest
<1>2. work \in Seq(Item) /\ Low(work, Len(work)) = Head(work)
  <2>1. work \in Seq(Item) /\ Len(work) \in Nat
    BY LenProperties DEF IInv, Types
  <2>2. Len(work) + 1 - Len(work) = 1 /\ Head(work) = work[1]
    BY <2>1
  <2> QED
    BY <2>1, <2>2 DEF Low
<1>3. Caughts(work, caught)
  BY <1>1, <1>2 DEF Caughts
<1> QED
  BY <1>1, <1>3 DEF Bailed, BlockStep

(* The helpers. *)
LEMMA HelperBlockSteps ==
  ASSUME BlockInv, Helpers
  PROVE  BlockStep
<1> USE DEF Doing
<1>1. IInv /\ ExpectsNoBrace(work)
  BY DEF BlockInv, Kept, Shape
<1>2. position \in 0 .. Len(tokens) /\ Advanced(position) \in 0 .. Len(tokens)
  BY <1>1, Looking, AdvancedStays DEF IInv
<1>3. <<>> \in Seq(Item)
  OBVIOUS
<1>4. CASE advance
  <2>1. Advances
    BY <1>2, <1>3, <1>4 DEF advance, Advances, Pushes, Calling
  <2> QED
    BY <2>1 DEF BlockStep
<1>5. CASE expect
  <2>1. work # <<>> /\ Head(work).do = "expect"
    BY <1>5 DEF expect
  <2>2. CASE At({Head(work).token}) /\ Calls(<<Advance>>)
    <3>1. Head(work) = Low(work, Len(work)) /\ Len(work) \in 1 .. Len(work)
      <4>1. work \in Seq(Item)
        BY <1>1 DEF IInv, Types
      <4>2. Len(work) \in Nat \ {0}
        BY <2>1, <4>1, EmptySeq, LenProperties
      <4>3. Len(work) + 1 - Len(work) = 1 /\ Head(work) = work[1]
        BY <2>1, <4>1, <4>2
      <4> QED
        BY <4>2, <4>3 DEF Low
    <3>2. Head(work).token \notin Braces
      BY <1>1, <2>1, <3>1 DEF ExpectsNoBrace
    <3>3. Clear
      BY <1>1, <2>2, <3>2, PeekIsToken, Zenon DEF At, Clear
    <3>4. Body(<<Advance>>)
      BY <3>3, OrdinaryCalls, Body1, Zenon
    <3> QED
      BY <1>1, <2>1, <2>2, <3>4, TameRuns DEF Ends
  <2>3. CASE Rejects
    BY <1>1, <2>1, <2>3, BailsIsBailed DEF Rejects
  <2> QED
    BY <1>5, <2>2, <2>3 DEF expect
<1>6. CASE deepen
  <2>1. work # <<>> /\ Head(work).do = "deepen"
    BY <1>6 DEF deepen
  <2>2. CASE Bails
    BY <1>1, <2>1, <2>2, BailsIsBailed
  <2>3. CASE ~Bails
    <3>1. Calling(<<>>) /\ Same /\ tokens' = tokens
      BY <1>6, <2>3 DEF deepen, Same
    <3> QED
      BY <1>1, <2>1, <3>1, LeafRuns DEF Ends
  <2> QED
    BY <2>2, <2>3
<1>7. CASE restoring_depth
  BY <1>1, <1>7, LeafRuns DEF restoring_depth, Same, Ends
<1>8. CASE Caught
  <2>1. work # <<>> /\ Head(work).do = "catch" /\ Calls(<<>>)
    BY <1>8 DEF Caught
  <2>2. Pushes(<<>>) /\ Same
    BY <1>1, <1>3, <2>1, CallsPush
  <2> QED
    BY <2>1, <2>2 DEF Leaves, BlockStep
<1>9. CASE build
  BY <1>1, <1>9, LeafRuns DEF build, Same, Ends
<1>10. CASE push_argument
  BY <1>1, <1>10, LeafRuns DEF push_argument, Same, Ends
<1>11. CASE take
  BY <1>1, <1>11, LeafRuns DEF take, Same, Ends
<1> QED
  BY <1>4, <1>5, <1>6, <1>7, <1>8, <1>9, <1>10, <1>11 DEF Helpers

(* Declarations. *)
LEMMA DeclarationBlockSteps ==
  ASSUME BlockInv, Declarations
  PROVE  BlockStep
<1> USE DEF Doing
<1>1. IInv
  BY DEF BlockInv
<1>2. /\ Expect("(") \in Quiet /\ Expect(")") \in Quiet /\ Expect("]") \in Quiet
      /\ Expect(";") \in Quiet /\ Expect("ident") \in Quiet /\ Expect("int_lit") \in Quiet
  BY QuietExpects
<1>3. /\ Parse("type_spec") \in Quiet /\ Parse("name") \in Quiet /\ Parse("rest_of_item") \in Quiet
      /\ Parse("params") \in Quiet /\ Parse("rest_of_function") \in Quiet
      /\ Parse("finish_var_decl") \in Quiet /\ Parse("block") \in Quiet
      /\ Parse("param") \in Quiet /\ Parse("more_params") \in Quiet /\ Parse("unsized") \in Quiet
  BY QuietParses DEF Call, Grave, Ends
<1>4. /\ Parse("optional_initializer") \in Quiet /\ Parse("initializer") \in Quiet
      /\ Parse("full_expression") \in Quiet /\ Parse("more_elements") \in Quiet
      /\ Parse("elements") \in Quiet
  BY QuietParses DEF Call, Grave, Ends
<1>5. \A call \in Quiet : call \in First
  BY OrdinaryCalls
<1>6. Clear => Advance \in First
  BY OrdinaryCalls
<1>7. ASSUME work # <<>>, NEW calls, Body(calls), Calls(calls),
             Head(work).do \notin {"end_of_block", "end_of_list", "advance", "catch", "block_items",
                                   "program", "deepen", "build"}
      PROVE  BlockStep
  BY <1>1, <1>7, TameRuns DEF Ends
<1>8. CASE program
  <2>1. work # <<>> /\ Head(work).do = "program"
    BY <1>8 DEF program
  <2>2. CASE Calls(<<>>)
    <3>1. Pushes(<<>>) /\ Same
      BY <1>1, <2>1, <2>2, Body0, CallsPush DEF Body
    <3> QED
      BY <2>1, <3>1 DEF Leaves, BlockStep
  <2>3. CASE Calls(<<Parse("item"), Catch(position), Parse("program")>>)
    <3>1. /\ Parse("item") \in Item /\ Parse("program") \in Item
          /\ Parse("item").do = "item" /\ Parse("program").do = "program"
      BY ParseIsItem DEF Call
    <3>2. Catch(position) \in Item
      BY <1>1, Looking, OtherCalls DEF Plain
    <3>3. <<Parse("item"), Catch(position), Parse("program")>> \in Seq(Item)
      BY <3>1, <3>2, Bodies3, Zenon
    <3>4. Pushes(<<Parse("item"), Catch(position), Parse("program")>>) /\ Same
      BY <1>1, <2>1, <2>3, <3>3, CallsPush
    <3> QED
      BY <2>1, <3>1, <3>4 DEF Passes, BlockStep
  <2> QED
    BY <1>8, <2>2, <2>3 DEF program
<1>9. CASE item
  <2>1. Body(<<Parse("type_spec"), Parse("name"), Parse("rest_of_item")>>)
    BY <1>3, <1>5, Body3, Zenon
  <2> QED
    BY <1>7, <1>9, <2>1 DEF item
<1>10. CASE rest_of_item
  <2>1. Body(<<Expect("("), Parse("params"), Expect(")"), Parse("rest_of_function")>>)
    BY <1>2, <1>3, <1>5, Body4, Zenon
  <2>2. Body(<<Parse("finish_var_decl"), Expect(";")>>)
    BY <1>2, <1>3, <1>5, Body2, Zenon
  <2> QED
    BY <1>7, <1>10, <2>1, <2>2 DEF rest_of_item
<1>11. CASE rest_of_function
  <2>1. Body(<<Parse("block")>>) /\ Body(<<Expect(";")>>)
    BY <1>2, <1>3, <1>5, Body1, Zenon
  <2>2. /\ work # <<>> /\ Head(work).do = "rest_of_function"
        /\ Calls(<<Parse("block")>>) \/ Calls(<<Expect(";")>>)
    BY <1>11, Zenon DEF rest_of_function
  <2> QED
    BY <1>7, <2>1, <2>2
<1>12. CASE params
  <2>1. Body(<<Parse("param"), Parse("more_params")>>)
    BY <1>3, <1>5, Body2, Zenon
  <2>2. At({"void"}) => Body(<<Advance>>)
    BY <1>1, <1>6, KeywordsAreClear, Body1, Zenon
  <2>3. /\ work # <<>> /\ Head(work).do = "params"
        /\ \/ Calls(<<>>)
           \/ At({"void"}) /\ Calls(<<Advance>>)
           \/ Calls(<<Parse("param"), Parse("more_params")>>)
    BY <1>12, Zenon DEF params
  <2> QED
    BY <1>7, <2>1, <2>2, <2>3, Body0
<1>13. CASE more_params
  <2>1. At({","}) => Body(<<Advance, Parse("param"), Parse("more_params")>>)
    BY <1>1, <1>3, <1>6, SignsAreClear, Body3, Zenon
  <2> QED
    BY <1>7, <1>13, <2>1, Body0 DEF more_params
<1>14. CASE param
  <2>1. Body(<<Parse("type_spec"), Parse("name"), Parse("unsized")>>)
    BY <1>3, <1>5, Body3, Zenon
  <2> QED
    BY <1>7, <1>14, <2>1 DEF param
<1>15. CASE unsized
  <2>1. At({"["}) => Body(<<Advance, Expect("]")>>)
    BY <1>1, <1>2, <1>6, SignsAreClear, Body2, Zenon
  <2> QED
    BY <1>7, <1>15, <2>1, Body0 DEF unsized
<1>16. CASE type_spec
  <2>1. At(TypeKeywords) => Body(<<Advance>>)
    BY <1>1, <1>6, KeywordsAreClear, Body1, Zenon
  <2>2. work # <<>> /\ Head(work).do = "type_spec"
    BY <1>16 DEF type_spec
  <2>3. CASE Rejects
    BY <1>1, <2>2, <2>3, BailsIsBailed DEF Rejects
  <2>4. CASE ~Rejects
    BY <1>7, <1>16, <2>1, <2>2, <2>4 DEF type_spec
  <2> QED
    BY <2>3, <2>4
<1>17. CASE name
  <2>1. Body(<<Expect("ident")>>)
    BY <1>2, <1>5, Body1, Zenon
  <2> QED
    BY <1>7, <1>17, <2>1 DEF name
<1>18. CASE finish_var_decl
  <2>1. At({"["}) => Body(<<Advance, Expect("int_lit"), Expect("]"), Parse("optional_initializer")>>)
    BY <1>1, <1>2, <1>4, <1>6, SignsAreClear, Body4, Zenon
  <2>2. Body(<<Parse("optional_initializer")>>)
    BY <1>4, <1>5, Body1, Zenon
  <2> QED
    BY <1>7, <1>18, <2>1, <2>2 DEF finish_var_decl
<1>19. CASE optional_initializer
  <2>1. At({"="}) => Body(<<Advance, Parse("initializer")>>)
    BY <1>1, <1>4, <1>6, SignsAreClear, Body2, Zenon
  <2> QED
    BY <1>7, <1>19, <2>1, Body0 DEF optional_initializer
<1>20. CASE initializer
  <2>1. work # <<>> /\ Head(work).do = "initializer"
    BY <1>20 DEF initializer
  <2>2. CASE Token(position) = Left /\ Calls(<<Advance, Parse("elements"), Parse("end_of_list")>>)
    <3>1. /\ Parse("elements") \in Item /\ Parse("end_of_list") \in Item /\ Advance \in Item
          /\ Parse("elements").do = "elements" /\ Parse("end_of_list").do = "end_of_list"
      BY ParseIsItem DEF Call, Advance
    <3>2. <<Advance, Parse("elements"), Parse("end_of_list")>> \in Seq(Item)
      BY <3>1, Bodies3, Zenon
    <3>3. Pushes(<<Advance, Parse("elements"), Parse("end_of_list")>>) /\ Same
      BY <1>1, <2>1, <2>2, <3>2, CallsPush
    <3> QED
      BY <2>1, <2>2, <3>1, <3>3 DEF Opens, BlockStep
  <2>3. CASE Calls(<<Parse("full_expression")>>)
    <3>1. Body(<<Parse("full_expression")>>)
      BY <1>4, <1>5, Body1, Zenon
    <3> QED
      BY <1>7, <2>1, <2>3, <3>1
  <2> QED
    BY <1>1, <1>20, <2>2, <2>3, AtABrace, Zenon DEF initializer
<1>21. CASE elements
  <2>1. Body(<<Parse("full_expression"), Parse("more_elements")>>)
    BY <1>4, <1>5, Body2, Zenon
  <2>2. /\ work # <<>> /\ Head(work).do = "elements"
        /\ Calls(<<>>) \/ Calls(<<Parse("full_expression"), Parse("more_elements")>>)
    BY <1>21, Zenon DEF elements
  <2> QED
    BY <1>7, <2>1, <2>2, Body0
<1>22. CASE more_elements
  <2>1. At({","}) => Body(<<Advance, Parse("elements")>>)
    BY <1>1, <1>4, <1>6, SignsAreClear, Body2, Zenon
  <2> QED
    BY <1>7, <1>22, <2>1, Body0 DEF more_elements
<1>23. CASE end_of_list
  <2>1. /\ work # <<>> /\ Head(work).do = "end_of_list"
        /\ (Token(position) = Right /\ Calls(<<Advance>>)) \/ Rejects
    BY <1>1, <1>23, AtABrace, Zenon DEF end_of_list
  <2>2. CASE Rejects
    BY <1>1, <2>1, <2>2, BailsIsBailed DEF Rejects
  <2>3. CASE Token(position) = Right /\ Calls(<<Advance>>)
    <3>1. <<Advance>> \in Seq(Item)
      BY ParseIsItem DEF Call, Advance
    <3>2. Pushes(<<Advance>>) /\ Same
      BY <1>1, <2>1, <2>3, <3>1, CallsPush
    <3> QED
      BY <2>1, <2>3, <3>2 DEF Same, Closes, BlockStep
  <2> QED
    BY <2>1, <2>2, <2>3
<1> QED
  BY <1>8, <1>9, <1>10, <1>11, <1>12, <1>13, <1>14, <1>15, <1>16, <1>17, <1>18, <1>19, <1>20,
     <1>21, <1>22, <1>23 DEF Declarations

(* Blocks and statements. *)
LEMMA StatementBlockSteps ==
  ASSUME BlockInv, Statements
  PROVE  BlockStep
<1> USE DEF Doing
<1>1. IInv
  BY DEF BlockInv
<1>2. Expect("(") \in Quiet /\ Expect(")") \in Quiet /\ Expect(";") \in Quiet
  BY QuietExpects
<1>3. /\ Parse("type_spec") \in Quiet /\ Parse("name") \in Quiet
      /\ Parse("finish_var_decl") \in Quiet /\ Parse("block") \in Quiet
      /\ Parse("statement") \in Quiet /\ Parse("statement_inner") \in Quiet
      /\ Parse("else_branch") \in Quiet /\ Parse("for_init") \in Quiet
      /\ Parse("condition_clause") \in Quiet /\ Parse("step_clause") \in Quiet
      /\ Parse("full_expression") \in Quiet
  BY QuietParses DEF Call, Grave, Ends
<1>4. \A call \in Quiet : call \in First
  BY OrdinaryCalls
<1>5. Clear => Advance \in First
  BY OrdinaryCalls
<1>6. Advance \in Item
  BY ParseIsItem DEF Call, Advance
<1>7. ASSUME work # <<>>, NEW calls, Body(calls), Calls(calls),
             Head(work).do \notin {"end_of_block", "end_of_list", "advance", "catch", "block_items",
                                   "program", "deepen", "build"}
      PROVE  BlockStep
  BY <1>1, <1>7, TameRuns DEF Ends
<1>8. CASE block
  <2>1. /\ work # <<>> /\ Head(work).do = "block"
        /\ \/ /\ Token(position) = Left
              /\ Calls(<<Advance, Parse("block_items"), EndOfBlock(position + 1)>>)
           \/ Rejects
    BY <1>1, <1>8, AtABrace, Zenon DEF block
  <2>2. CASE Rejects
    BY <1>1, <2>1, <2>2, BailsIsBailed DEF Rejects
  <2>3. CASE /\ Token(position) = Left
             /\ Calls(<<Advance, Parse("block_items"), EndOfBlock(position + 1)>>)
    <3>1. Parse("block_items") \in Item /\ Parse("block_items").do = "block_items"
      BY ParseIsItem DEF Call
    <3>2. PICK end : end = EndOfBlock(position + 1)
      OBVIOUS
    <3>3. end \in Item /\ end.do = "end_of_block" /\ end.n = position + 1
      BY <1>1, <3>2, Looking, OtherCalls DEF EndOfBlock, Plain
    <3>4. <<Advance, Parse("block_items"), end>> \in Seq(Item)
      BY <1>6, <3>1, <3>3, Bodies3, Zenon
    <3>5. Pushes(<<Advance, Parse("block_items"), end>>) /\ Same
      BY <1>1, <2>1, <2>3, <3>2, <3>4, CallsPush
    <3> QED
      BY <2>1, <2>3, <3>1, <3>3, <3>5 DEF Opens, BlockStep
  <2> QED
    BY <2>1, <2>2, <2>3
<1>9. CASE block_items
  <2>1. /\ work # <<>> /\ Head(work).do = "block_items"
        /\ \/ Token(position) \in {Right, "eof"} /\ Calls(<<>>)
           \/ /\ Token(position) \notin {Right, "eof"}
              /\ Calls(<<Parse("block_item"), Catch(position), Parse("block_items")>>)
    BY <1>1, <1>9, AtABrace, Zenon DEF block_items
  <2>2. CASE Token(position) \in {Right, "eof"} /\ Calls(<<>>)
    <3>1. Pushes(<<>>) /\ Same
      BY <1>1, <2>1, <2>2, Body0, CallsPush DEF Body
    <3> QED
      BY <2>1, <2>2, <3>1 DEF Leaves, BlockStep
  <2>3. CASE /\ Token(position) \notin {Right, "eof"}
             /\ Calls(<<Parse("block_item"), Catch(position), Parse("block_items")>>)
    <3>1. /\ Parse("block_item") \in Item /\ Parse("block_items") \in Item
          /\ Parse("block_item").do = "block_item" /\ Parse("block_items").do = "block_items"
      BY ParseIsItem DEF Call
    <3>2. Catch(position) \in Item
      BY <1>1, Looking, OtherCalls DEF Plain
    <3>3. <<Parse("block_item"), Catch(position), Parse("block_items")>> \in Seq(Item)
      BY <3>1, <3>2, Bodies3, Zenon
    <3>4. Pushes(<<Parse("block_item"), Catch(position), Parse("block_items")>>) /\ Same
      BY <1>1, <2>1, <2>3, <3>3, CallsPush
    <3> QED
      BY <2>1, <2>3, <3>1, <3>4 DEF Passes, BlockStep
  <2> QED
    BY <2>1, <2>2, <2>3
<1>10. CASE end_of_block
  <2>1. /\ work # <<>> /\ Head(work).do = "end_of_block"
        /\ \/ /\ Token(position) = Right
              /\ closed' = closed \cup {<<Head(work).n, position + 1>>}
              /\ Calling(<<Advance>>)
              /\ tokens' = tokens /\ position' = position /\ lostList' = lostList
           \/ Token(position) # Right /\ Rejects
    BY <1>1, <1>10, AtABrace, Zenon DEF end_of_block
  <2>2. CASE Token(position) # Right /\ Rejects
    BY <1>1, <2>1, <2>2, BailsIsBailed DEF Rejects
  <2>3. CASE ~(Token(position) # Right /\ Rejects)
    <3>1. <<Advance>> \in Seq(Item) /\ position \in 0 .. Len(tokens)
      BY <1>1, <1>6, Looking
    <3>2. Pushes(<<Advance>>)
      BY <2>1, <2>3, <3>1 DEF Pushes, Calling
    <3> QED
      BY <2>1, <2>3, <3>2 DEF Closes, BlockStep
  <2> QED
    BY <2>2, <2>3
<1>11. CASE block_item
  <2>1. Body(<<Parse("type_spec"), Parse("name"), Parse("finish_var_decl"), Expect(";")>>)
    BY <1>2, <1>3, <1>4, Body4, Zenon
  <2>2. Body(<<Parse("statement")>>)
    BY <1>3, <1>4, Body1, Zenon
  <2> QED
    BY <1>7, <1>11, <2>1, <2>2 DEF block_item
<1>12. CASE statement
  <2>1. Calls(<<Deepen, Parse("statement_inner"), Restore(depth)>>)
    <3>1. Calls((<<Deepen>> \o <<Parse("statement_inner")>>) \o <<Restore(depth)>>)
      BY <1>12 DEF statement, Nested
    <3>2. <<Deepen>> \o <<Parse("statement_inner")>> = <<Deepen, Parse("statement_inner")>>
      BY Joined2
    <3> QED
      BY <3>1, <3>2, Joined3, Zenon
  <2>2. Deepen \in Quiet /\ Restore(depth) \in Quiet
    BY <1>1, Looking, QuietCalls
  <2>3. Body(<<Deepen, Parse("statement_inner"), Restore(depth)>>)
    BY <1>3, <1>4, <2>2, Body3, Zenon
  <2> QED
    BY <1>7, <1>12, <2>1, <2>3 DEF statement
<1>13. CASE statement_inner
  <2>1. work # <<>> /\ Head(work).do = "statement_inner"
    BY <1>13 DEF statement_inner
  <2>2. Clear => Body(Condition)
    BY <1>2, <1>3, <1>5, Body4, Zenon DEF Condition
  <2>3. Clear => Body(Clauses)
    BY <1>2, <1>3, <1>5, Body8, Zenon DEF Clauses
  <2>4. /\ <<Parse("statement"), Parse("else_branch")>> \in Seq(Quiet)
        /\ <<Parse("statement")>> \in Seq(Quiet)
    BY <1>3, Bodies1, Bodies2, Zenon
  <2>5. /\ Clear => Body(Condition \o <<Parse("statement"), Parse("else_branch")>>)
        /\ Clear => Body(Condition \o <<Parse("statement")>>)
        /\ Clear => Body(Clauses \o <<Parse("statement")>>)
    BY <2>2, <2>3, <2>4, BodyJoins, Zenon
  <2>6. /\ Body(<<Parse("block")>>) /\ Body(<<Parse("full_expression"), Expect(";")>>)
    BY <1>2, <1>3, <1>4, Body1, Body2, Zenon
  <2>7. /\ Clear => Body(<<Advance>>)
        /\ Clear => Body(<<Advance, Parse("condition_clause"), Expect(";")>>)
        /\ Clear => Body(<<Advance, Expect(";")>>)
    BY <1>2, <1>3, <1>5, Body1, Body2, Body3, Zenon
  <2>8. /\ At({";"}) => Clear
        /\ At({"if"}) => Clear
        /\ At({"while"}) => Clear
        /\ At({"for"}) => Clear
        /\ At({"return"}) => Clear
        /\ At({"break", "continue"}) => Clear
    BY <1>1, SignsAreClear, KeywordsAreClear, Zenon
  <2>9. CASE Rejects
    BY <1>1, <2>1, <2>9, BailsIsBailed DEF Rejects
  <2>10. CASE ~Rejects
    <3>1. \/ Calls(<<Parse("block")>>)
          \/ At({";"}) /\ Calls(<<Advance>>)
          \/ At({"if"}) /\ Calls(Condition \o <<Parse("statement"), Parse("else_branch")>>)
          \/ At({"while"}) /\ Calls(Condition \o <<Parse("statement")>>)
          \/ At({"for"}) /\ Calls(Clauses \o <<Parse("statement")>>)
          \/ At({"return"}) /\ Calls(<<Advance, Parse("condition_clause"), Expect(";")>>)
          \/ At({"break", "continue"}) /\ Calls(<<Advance, Expect(";")>>)
          \/ Calls(<<Parse("full_expression"), Expect(";")>>)
      BY <1>13, <2>10, Zenon DEF statement_inner
    <3>2. \E calls : Body(calls) /\ Calls(calls)
      BY <2>5, <2>6, <2>7, <2>8, <3>1, Zenon
    <3> QED
      BY <1>7, <2>1, <3>2
  <2> QED
    BY <2>9, <2>10
<1>14. CASE else_branch
  <2>1. At({"else"}) => Body(<<Advance, Parse("statement")>>)
    BY <1>1, <1>3, <1>5, KeywordsAreClear, Body2, Zenon
  <2> QED
    BY <1>7, <1>14, <2>1, Body0 DEF else_branch
<1>15. Body(<<Parse("full_expression")>>)
  BY <1>3, <1>4, Body1, Zenon
<1>16. CASE for_init
  <2>1. Body(<<Parse("type_spec"), Parse("name"), Parse("finish_var_decl")>>)
    BY <1>3, <1>4, Body3, Zenon
  <2>2. /\ work # <<>> /\ Head(work).do = "for_init"
        /\ \/ Calls(<<>>) \/ Calls(<<Parse("full_expression")>>)
           \/ Calls(<<Parse("type_spec"), Parse("name"), Parse("finish_var_decl")>>)
    BY <1>16, Zenon DEF for_init
  <2> QED
    BY <1>7, <1>15, <2>1, <2>2, Body0
<1>17. CASE condition_clause \/ step_clause
  <2>1. /\ work # <<>> /\ Head(work).do \in {"condition_clause", "step_clause"}
        /\ Calls(<<>>) \/ Calls(<<Parse("full_expression")>>)
    BY <1>17, Zenon DEF condition_clause, step_clause, OmittedBefore
  <2> QED
    BY <1>7, <1>15, <2>1, Body0
<1> QED
  BY <1>8, <1>9, <1>10, <1>11, <1>12, <1>13, <1>14, <1>16, <1>17 DEF Statements

(* Expressions. *)
LEMMA ExpressionBlockSteps ==
  ASSUME BlockInv, Expressions
  PROVE  BlockStep
<1> USE DEF Doing
<1>1. IInv /\ depth \in Nat /\ position \in Nat
  BY Looking DEF BlockInv
<1>2. Expect(")") \in Quiet /\ Expect("]") \in Quiet
  BY QuietExpects
<1>3. /\ Parse("expression") \in Quiet /\ Parse("assignment") \in Quiet
      /\ Parse("assigned") \in Quiet /\ Parse("unary") \in Quiet /\ Parse("unary_inner") \in Quiet
      /\ Parse("primary") \in Quiet /\ Parse("postfix") \in Quiet /\ Parse("call_args") \in Quiet
      /\ Parse("push_argument") \in Quiet /\ Parse("more_args") \in Quiet
  BY QuietParses DEF Call, Grave, Ends
<1>4. Deepen \in Quiet /\ Restore(depth) \in Quiet /\ Take(position) \in Quiet
  BY <1>1, QuietCalls
<1>5. \A n \in Nat : \A op \in Label : Build(op, n) \in Quiet /\ Build(op, n).do = "build"
  BY QuietCalls DEF Build
<1>6. \A call \in Quiet : call \in First
  BY OrdinaryCalls
<1>7. Clear => Advance \in First
  BY OrdinaryCalls
<1>8. ASSUME work # <<>>, NEW calls, Body(calls), Calls(calls),
             Head(work).do \notin {"end_of_block", "end_of_list", "advance", "catch", "block_items",
                                   "program", "deepen", "build"}
      PROVE  BlockStep
  BY <1>1, <1>8, TameRuns DEF Ends
<1>9. ASSUME NEW call \in Quiet, Nested(<<call>>)
      PROVE  \E calls : Body(calls) /\ Calls(calls)
  <2>1. Calls((<<Deepen>> \o <<call>>) \o <<Restore(depth)>>)
    BY <1>9 DEF Nested
  <2>2. <<Deepen>> \o <<call>> = <<Deepen, call>>
    BY Joined2
  <2>3. Calls(<<Deepen, call, Restore(depth)>>)
    BY <2>1, <2>2, Joined3, Zenon
  <2>4. Body(<<Deepen, call, Restore(depth)>>)
    BY <1>4, <1>6, <1>9, Body3, Zenon
  <2> QED
    BY <2>3, <2>4
<1>10. CASE full_expression
  <2>1. Body(<<Parse("expression"), Take(position)>>)
    BY <1>3, <1>4, <1>6, Body2, Zenon
  <2> QED
    BY <1>8, <1>10, <2>1 DEF full_expression
<1>11. CASE expression
  <2>1. \E calls : Body(calls) /\ Calls(calls)
    BY <1>3, <1>9, <1>11 DEF expression
  <2> QED
    BY <1>8, <1>11, <2>1 DEF expression
<1>12. CASE assignment
  <2>1. Operand(1) \in Quiet
    BY QuietCalls
  <2>2. Body(<<Operand(1), Parse("assigned")>>)
    BY <1>3, <1>6, <2>1, Body2, Zenon
  <2> QED
    BY <1>8, <1>12, <2>2 DEF assignment
<1>13. CASE assigned
  <2>1. Build("=", 2) \in Quiet
    BY <1>5 DEF Label, TokenKind
  <2>2. At({"="}) => Body(<<Advance, Parse("expression"), Build("=", 2)>>)
    BY <1>1, <1>3, <1>7, <2>1, SignsAreClear, Body3, Zenon
  <2>3. /\ work # <<>> /\ Head(work).do = "assigned"
        /\ \/ Rejects \/ Calls(<<>>)
           \/ At({"="}) /\ Calls(<<Advance, Parse("expression"), Build("=", 2)>>)
    BY <1>13, Zenon DEF assigned
  <2>4. CASE Rejects
    BY <1>1, <2>3, <2>4, BailsIsBailed DEF Rejects
  <2>5. CASE ~Rejects
    BY <1>8, <2>2, <2>3, <2>5, Body0
  <2> QED
    BY <2>4, <2>5
<1>14. CASE binary
  <2>1. /\ work # <<>> /\ Head(work).do = "binary"
        /\ Calls(<<Parse("unary"), Operators(Head(work).n), Restore(depth)>>)
    BY <1>14 DEF binary
  <2>2. Operators(Head(work).n) \in Quiet
    BY <1>1, <2>1, Looking, QuietCalls
  <2>3. Body(<<Parse("unary"), Operators(Head(work).n), Restore(depth)>>)
    BY <1>3, <1>4, <1>6, <2>2, Body3, Zenon
  <2> QED
    BY <1>8, <2>1, <2>3
<1>15. CASE binary_chain
  <2> DEFINE least == Head(work).n
             op    == peek_at(0)
             operation == <<Deepen, Advance, RightOperand(op), Build(op, 2), Operators(least)>>
  <2>1. work # <<>> /\ Head(work).do = "binary_chain"
    BY <1>15 DEF binary_chain
  <2>2. Operators(least) \in Quiet
    BY <1>1, <2>1, Looking, QuietCalls
  <2>3. ASSUME op \in DOMAIN binary_operator
        PROVE  Body(operation)
    <3>1. op \in TokenKind /\ binary_operator[op] + 1 \in Nat
      BY <2>3, Precedences
    <3>2. RightOperand(op) \in Quiet
      BY <3>1, QuietCalls DEF RightOperand
    <3>3. Build(op, 2) \in Quiet
      BY <1>5, <3>1 DEF Label
    <3>4. Clear
      BY <1>1, <2>3, SignsAreClear
    <3> QED
      BY <2>2, <3>2, <3>3, <3>4, Deep5, Zenon
  <2>4. \/ Rejects \/ Calls(<<>>)
        \/ op \in DOMAIN binary_operator /\ Calls(operation)
    BY <1>15, Zenon DEF binary_chain
  <2> HIDE DEF operation, op
  <2>5. CASE Rejects
    BY <1>1, <2>1, <2>5, BailsIsBailed DEF Rejects
  <2>6. CASE ~Rejects
    BY <1>8, <2>1, <2>3, <2>4, <2>6, Body0
  <2> QED
    BY <2>5, <2>6
<1>16. CASE unary
  <2>1. \E calls : Body(calls) /\ Calls(calls)
    BY <1>3, <1>9, <1>16 DEF unary
  <2> QED
    BY <1>8, <1>16, <2>1 DEF unary
<1>17. CASE unary_inner
  <2> DEFINE prefix == <<Advance, Parse("unary"), Build(peek_at(0), 1)>>
             other  == <<Parse("primary"), Parse("postfix")>>
  <2>1. work # <<>> /\ Head(work).do = "unary_inner"
    BY <1>17 DEF unary_inner
  <2>2. Body(other)
    BY <1>3, <1>6, Body2, Zenon
  <2>3. ASSUME At(PrefixOperators)
        PROVE  Body(prefix)
    <3>1. peek_at(0) \in Label
      BY <2>3 DEF At, PrefixOperators, Label, TokenKind
    <3>2. Build(peek_at(0), 1) \in Quiet
      BY <1>5, <3>1
    <3>3. Clear
      BY <1>1, <2>3, SignsAreClear
    <3> QED
      BY <1>3, <1>7, <3>2, <3>3, Body3, Zenon
  <2>4. (At(PrefixOperators) /\ Calls(prefix)) \/ Calls(other)
    BY <1>17 DEF unary_inner
  <2> HIDE DEF prefix, other
  <2> QED
    BY <1>8, <2>1, <2>2, <2>3, <2>4
<1>18. CASE postfix
  <2>1. work # <<>> /\ Head(work).do = "postfix"
    BY <1>18 DEF postfix
  <2> DEFINE index == <<Deepen, Advance, Parse("expression"), Expect("]"), Build("index", 2),
                        Parse("postfix")>>
             call  == <<Deepen, Build("call", 1), Advance, Parse("call_args"), Expect(")"),
                        Parse("postfix")>>
             step  == Build(IF At({"++"}) THEN "increment" ELSE "decrement", 1)
             crement == <<Deepen, Advance, step, Parse("postfix")>>
  <2>2. /\ Build("index", 2) \in Quiet /\ Build("call", 1) \in Quiet /\ step \in Quiet
        /\ Build("call", 1).do = "build"
    BY <1>5 DEF Label
  <2> HIDE DEF step
  <2>3. Clear => Body(index)
    BY <1>2, <1>3, <2>2, Deep6, Zenon
  <2>4. Clear => Body(call)
    BY <1>2, <1>3, <2>2, DeepCall, Zenon
  <2>5. Clear => Body(crement)
    BY <1>3, <2>2, Deep4, Zenon
  <2>6. \/ At({"["}) /\ Calls(index)
        \/ At({"("}) /\ Calls(call)
        \/ At(PostfixOperators) /\ Calls(crement)
        \/ Calls(<<>>)
    BY <1>18, Zenon DEF postfix, step
  <2>7. /\ At({"["}) => Clear
        /\ At({"("}) => Clear
        /\ At(PostfixOperators) => Clear
    BY <1>1, SignsAreClear, Zenon
  <2> HIDE DEF index, call, crement
  <2>8. \E calls : Body(calls) /\ Calls(calls)
    BY <2>3, <2>4, <2>5, <2>6, <2>7, Body0, Zenon
  <2> QED
    BY <1>8, <2>1, <2>8
<1>19. CASE call_args \/ more_args
  <2>1. Body(Argument)
    BY <1>3, <1>6, Body3, Zenon DEF Argument
  <2>2. Argument \in Seq(Quiet)
    BY <1>3, Bodies3, Zenon DEF Argument
  <2>3. At({","}) => Body(<<Advance>> \o Argument)
    BY <1>1, <1>7, <2>2, SignsAreClear, Body1, BodyJoins, Zenon
  <2>4. /\ work # <<>> /\ Head(work).do \in {"call_args", "more_args"}
        /\ \/ Calls(<<>>) \/ Calls(Argument)
           \/ At({","}) /\ Calls(<<Advance>> \o Argument)
    BY <1>19, Zenon DEF call_args, more_args
  <2>5. \E calls : Body(calls) /\ Calls(calls)
    BY <2>1, <2>3, <2>4, Body0, Zenon
  <2> QED
    BY <1>8, <2>4, <2>5
<1>20. CASE primary
  <2> DEFINE leaf == <<Advance, Build(peek_at(0), 0)>>
             inParentheses == <<Advance, Parse("expression"), Expect(")")>>
  <2>1. work # <<>> /\ Head(work).do = "primary"
    BY <1>20 DEF primary
  <2>2. At({"("}) => Body(inParentheses)
    BY <1>1, <1>2, <1>3, <1>7, SignsAreClear, Body3, Zenon
  <2>3. ASSUME At(Literals \cup {"ident"})
        PROVE  Body(leaf)
    <3>1. peek_at(0) \in Label
      BY <2>3 DEF At, Literals, Label, TokenKind
    <3>2. Build(peek_at(0), 0) \in Quiet
      BY <1>5, <3>1
    <3>3. Clear
      BY <1>1, <2>3, SignsAreClear
    <3> QED
      BY <1>7, <3>2, <3>3, Body2, Zenon
  <2>4. \/ Rejects
        \/ At(Literals \cup {"ident"}) /\ Calls(leaf)
        \/ At({"("}) /\ Calls(inParentheses)
    BY <1>20, Zenon DEF primary
  <2> HIDE DEF leaf, inParentheses
  <2>5. CASE Rejects
    BY <1>1, <2>1, <2>5, BailsIsBailed DEF Rejects
  <2>6. CASE ~Rejects
    BY <1>8, <2>1, <2>2, <2>3, <2>4, <2>6
  <2> QED
    BY <2>5, <2>6
<1> QED
  BY <1>10, <1>11, <1>12, <1>13, <1>14, <1>15, <1>16, <1>17, <1>18, <1>19, <1>20 DEF Expressions

(* Every step. *)
LEMMA StepsAreBlockSteps ==
  ASSUME BlockInv, [Next]_vars
  PROVE  BlockStep
<1>1. CASE Done \/ UNCHANGED vars
  BY <1>1 DEF Done, vars, Stays, BlockStep
<1> QED
  BY <1>1, HelperBlockSteps, DeclarationBlockSteps, StatementBlockSteps, ExpressionBlockSteps DEF Next

LEMMA BlocksStartSo == Init => BlockInv
<1> SUFFICES ASSUME Init
             PROVE  BlockInv
  OBVIOUS
<1>1. IInv
  BY StartsSo
<1>2. Len(work) = 1 /\ Low(work, 1) = Parse("program") /\ Parse("program").do = "program"
  <2>1. Parse("program") \in Item /\ Parse("program").do = "program"
    BY ParseIsItem DEF Call
  <2>2. Len(work) = 1 /\ work[1] = Parse("program")
    BY <2>1 DEF Init
  <2> QED
    BY <2>1, <2>2 DEF Low
<1>3. \A b \in 1 .. Len(work) : b = 1 /\ Low(work, b).do = "program"
  BY <1>2
<1>4. ProgramIsLast(work) /\ ExpectsNoBrace(work) /\ CatchesStarts(work, position)
  BY <1>3 DEF ProgramIsLast, ExpectsNoBrace, CatchesStarts
<1>5. AdvancesNext(work, position) /\ EndsAfterLoop(work, position) /\ Counted(work, position)
  BY <1>3 DEF AdvancesNext, EndsAfterLoop, Counted
<1>6. BlocksCloseAtTheirBrace
  BY DEF Init, BlocksCloseAtTheirBrace
<1> QED
  BY <1>1, <1>4, <1>5, <1>6 DEF BlockInv, Kept, Shape

(* As long as no error was inside a brace list, the braces read since a    *)
(* block began and not yet closed are those of the blocks and lists that   *)
(* are still to be closed before it, and none was closed that was open     *)
(* when it began.                                                          *)
THEOREM OpenBracesAreOpenBlocks == Spec => []BlockInv
<1>1. BlockInv /\ [Next]_vars => BlockInv'
  <2> SUFFICES ASSUME BlockInv, [Next]_vars
               PROVE  BlockInv'
    OBVIOUS
  <2>1. IInv'
    BY StepsAreWorkSteps, WorkStepsKeep DEF BlockInv
  <2>2. Kept'
    BY StepsAreBlockSteps, BlockStepsKeep
  <2> QED
    BY <2>1, <2>2 DEF BlockInv
<1> QED
  BY <1>1, BlocksStartSo, PTL DEF Spec

(* "Skipping over a `{ ... }` inside the failed construct does not mistake *)
(* its closing brace for the enclosing block's": a block ends at the `}`   *)
(* that matches its `{`, whatever errors recovery skipped inside it -      *)
(* unless one of them was inside a brace list.                             *)
THEOREM BlocksAlwaysCloseAtTheirBrace == Spec => []BlocksCloseAtTheirBrace
<1>1. BlockInv => BlocksCloseAtTheirBrace
  BY DEF BlockInv, Kept
<1> QED
  BY <1>1, OpenBracesAreOpenBlocks, PTL
=============================================================================
