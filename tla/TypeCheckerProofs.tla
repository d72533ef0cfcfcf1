------------------------- MODULE TypeCheckerProofs -------------------------
(***************************************************************************)
(* Proofs about type analysis, for every set of declared names, every      *)
(* statement or declaration, and every expression the depth guard lets the *)
(* walk descend, however many levels that is (Levels): what is accepted is *)
(* what C types, what is accepted is converted as it is used, constants    *)
(* fold as in C, and the reports come out in order.                        *)
(*                                                                         *)
(* The argument.  The analyzer finds types and reports on its way up; the  *)
(* judgement (TypeJudgement) finds sorts and says nothing.  They meet in   *)
(* the expressions on the stack.  Each is Accurate: if its sort is not     *)
(* wrong, its type is of that sort.  An expression is Right if it has a    *)
(* sort, and the bag is empty exactly as long as all on the stack are      *)
(* Right (ReportedAsWrong).  So one lemma for each kind of node is about   *)
(* the node and its operands only (Builds): whatever is wrong for the      *)
(* first time is reported, and nothing that is right is.  What an          *)
(* expression above a wrong one says is of no interest, for the bag never  *)
(* empties.  While it is empty, every part of every expression is          *)
(* converted to what its node computes with (Consistent).  An end of a     *)
(* statement or a declaration carries that over to the whole (Judged,      *)
(* ConvertedAsUsed).                                                       *)
(*                                                                         *)
(* The first part is about data: the size of an expression bounds its      *)
(* height, so that sorts are defined by recursion on a height; sizes are   *)
(* added by a fold, reports joined by one and sorted by one.               *)
(***************************************************************************)
EXTENDS TypeJudgement, SequenceTheorems, FiniteSetTheorems, WellFoundedInduction, TLAPS

-----------------------------------------------------------------------------
(* Recursion on numbers.                                                   *)

LEMMA HasLeast ==
  ASSUME NEW S, S \subseteq Nat, S # {}
  PROVE  \E i \in S : \A j \in S : i <= j
<1>1. PICK i \in S : \A j \in S : <<j, i>> \notin OpToRel(<, Nat)
  BY WFMin, NatLessThanWellFounded
<1>2. \A j \in S : ~(j < i)
  BY <1>1 DEF OpToRel
<1>3. \A j \in S : i <= j
  BY <1>2
<1> QED
  BY <1>3

(* A nonempty set of positions has a greatest member. *)
LEMMA HasGreatest ==
  ASSUME NEW n \in Nat, NEW S, S \subseteq 1 .. n, S # {}
  PROVE  \E i \in S : \A j \in S : j <= i
<1> DEFINE T == {n - j : j \in S}
<1>1. T \subseteq Nat /\ T # {}
  <2>1. \A j \in S : j \in 1 .. n /\ n - j \in Nat
    OBVIOUS
  <2> QED
    BY <2>1
<1>2. \E x \in T : \A y \in T : x <= y
  <2> HIDE DEF T
  <2> QED
    BY <1>1, HasLeast
<1>3. PICK i \in S : \A y \in T : n - i <= y
  BY <1>2
<1>4. \A j \in S : n - i <= n - j
  BY <1>3
<1>5. \A j \in S : j <= i
  BY <1>4
<1> QED
  BY <1>5

(* What holds of 0, and of a number whenever it holds of the one before,   *)
(* holds of every number.                                                  *)
LEMMA FromZero ==
  ASSUME NEW Good, 0 \in Good, \A k \in Nat : k \in Good => k + 1 \in Good
  PROVE  \A k \in Nat : k \in Good
<1> DEFINE Bad == {k \in Nat : k \notin Good}
<1> SUFFICES ASSUME Bad # {}
             PROVE  FALSE
  OBVIOUS
<1>1. PICK k \in Bad : \A j \in Bad : k <= j
  BY HasLeast
<1>2. k # 0 /\ k - 1 \in Nat /\ ~(k <= k - 1)
  OBVIOUS
<1>3. k - 1 \in Good
  BY <1>1, <1>2
<1>4. (k - 1) + 1 \in Good
  BY <1>2, <1>3
<1> QED
  BY <1>2, <1>4

(* A function defined by such a recursion. *)
Climbs(g, n, first, step) ==
  /\ g[0] = first
  /\ \A k \in 1 .. n : g[k] = step[k][g[k - 1]]

LEMMA CountsUp ==
  ASSUME NEW V, NEW n \in Nat, NEW first \in V, NEW step \in [1 .. n -> [V -> V]]
  PROVE  \E g \in [0 .. n -> V] : Climbs(g, n, first, step)
<1> DEFINE Upto(g, m) == g[0] = first /\ \A k \in 1 .. n : k <= m => g[k] = step[k][g[k - 1]]
           Good == {m \in Nat : \E g \in [0 .. n -> V] : Upto(g, m)}
<1>1. 0 \in Good
  <2> DEFINE g == [k \in 0 .. n |-> first]
  <2>1. g \in [0 .. n -> V] /\ Upto(g, 0)
    OBVIOUS
  <2> HIDE DEF g, Upto
  <2> QED
    BY <2>1
<1>2. ASSUME NEW m \in Nat, m \in Good
      PROVE  m + 1 \in Good
  <2>1. PICK g \in [0 .. n -> V] : Upto(g, m)
    BY <1>2
  <2> SUFFICES \E h \in [0 .. n -> V] : Upto(h, m + 1)
    OBVIOUS
  <2>2. CASE ~(m + 1 \in 1 .. n)
    <3>1. Upto(g, m + 1)
      BY <2>1, <2>2
    <3> QED
      BY <3>1
  <2>3. CASE m + 1 \in 1 .. n
    <3> DEFINE new == step[m + 1][g[m]]
               h == [k \in 0 .. n |-> IF k = m + 1 THEN new ELSE g[k]]
    <3>1. new \in V
      <4>1. m \in 0 .. n /\ step[m + 1] \in [V -> V]
        BY <2>3
      <4>2. g[m] \in V
        BY <4>1
      <4> QED
        BY <4>1, <4>2
    <3> HIDE DEF new
    <3>2. h \in [0 .. n -> V]
      BY <3>1
    <3>3. h[m + 1] = new /\ h[m] = g[m] /\ h[0] = first
      BY <2>1, <2>3
    <3>4. ASSUME NEW k \in 1 .. n, k <= m + 1
          PROVE  h[k] = step[k][h[k - 1]]
      <4>1. CASE k = m + 1
        <5>1. k - 1 = m
          BY <4>1
        <5> HIDE DEF h
        <5> QED
          BY <3>3, <4>1, <5>1 DEF new
      <4>2. CASE k # m + 1
        <5>1. h[k] = g[k] /\ h[k - 1] = g[k - 1] /\ k <= m
          BY <3>4, <4>2
        <5> HIDE DEF h
        <5> QED
          BY <2>1, <5>1
      <4> QED
        BY <4>1, <4>2
    <3> HIDE DEF h
    <3>5. Upto(h, m + 1)
      BY <3>3, <3>4
    <3> QED
      BY <3>2, <3>5
  <2> QED
    BY <2>2, <2>3
<1> HIDE DEF Good
<1>3. n \in Good
  BY <1>1, <1>2, FromZero
<1>4. PICK g \in [0 .. n -> V] : Upto(g, n)
  BY <1>3 DEF Good
<1>5. Climbs(g, n, first, step)
  BY <1>4 DEF Climbs
<1> QED
  BY <1>5

-----------------------------------------------------------------------------
(* Folds over sequences.                                                   *)

Folding(iter, n, base, step) ==
  \A s \in SUBSET (1 .. n) :
    iter[s] = IF s = {} THEN base ELSE step[Max(s)][iter[s \ {Max(s)}]]

LEMMA MaxOfRange ==
  ASSUME NEW k \in Nat, NEW s \in SUBSET (1 .. k + 1), k + 1 \in s
  PROVE  Max(s) = k + 1 /\ s \ {k + 1} \in SUBSET (1 .. k)
<1>1. \A x \in s : x \in Int /\ x <= k + 1
  OBVIOUS
<1>2. \A x \in s : (\A y \in s : x >= y) <=> x = k + 1
  BY <1>1
<1>3. Max(s) = k + 1
  BY <1>2 DEF Max
<1>4. \A x \in s \ {k + 1} : x \in 1 .. k
  OBVIOUS
<1> QED
  BY <1>3, <1>4

LEMMA FoldingExists ==
  ASSUME NEW V, NEW n \in Nat, NEW base \in V, NEW step \in [1 .. n -> [V -> V]]
  PROVE  \E iter \in [SUBSET (1 .. n) -> V] : Folding(iter, n, base, step)
<1> DEFINE Rule(f, s) == f[s] = IF s = {} THEN base ELSE step[Max(s)][f[s \ {Max(s)}]]
           Upto(f, k) == \A s \in SUBSET (1 .. n) : s \subseteq 1 .. k => Rule(f, s)
           Good == {k \in Nat : \E f \in [SUBSET (1 .. n) -> V] : Upto(f, k)}
<1>1. 0 \in Good
  <2> DEFINE f == [s \in SUBSET (1 .. n) |-> base]
  <2>1. f \in [SUBSET (1 .. n) -> V]
    OBVIOUS
  <2>2. \A s \in SUBSET (1 .. n) : s \subseteq 1 .. 0 => s = {} /\ f[s] = base
    OBVIOUS
  <2> HIDE DEF f
  <2>3. Upto(f, 0)
    BY <2>2
  <2> HIDE DEF Upto
  <2> QED
    BY <2>1, <2>3
<1>2. ASSUME NEW k \in Nat, k \in Good
      PROVE  k + 1 \in Good
  <2>1. PICK f \in [SUBSET (1 .. n) -> V] : Upto(f, k)
    BY <1>2
  <2> SUFFICES \E h \in [SUBSET (1 .. n) -> V] : Upto(h, k + 1)
    <3> HIDE DEF Upto
    <3> QED
      OBVIOUS
  <2>2. CASE ~(k + 1 \in 1 .. n)
    <3>1. \A s \in SUBSET (1 .. n) : s \subseteq 1 .. k + 1 => s \subseteq 1 .. k
      BY <2>2
    <3>2. Upto(f, k + 1)
      <4> HIDE DEF Rule
      <4> QED
        BY <2>1, <3>1
    <3> HIDE DEF Upto
    <3> QED
      BY <3>2
  <2>3. CASE k + 1 \in 1 .. n
    <3> DEFINE h == [s \in SUBSET (1 .. n) |->
                       IF k + 1 \in s THEN step[k + 1][f[s \ {k + 1}]] ELSE f[s]]
    <3>1. h \in [SUBSET (1 .. n) -> V]
      <4>1. \A s \in SUBSET (1 .. n) : f[s \ {k + 1}] \in V /\ f[s] \in V
        OBVIOUS
      <4>2. step[k + 1] \in [V -> V]
        BY <2>3
      <4>3. \A s \in SUBSET (1 .. n) :
              (IF k + 1 \in s THEN step[k + 1][f[s \ {k + 1}]] ELSE f[s]) \in V
        BY <4>1, <4>2
      <4> QED
        BY <4>3
    <3>2. \A s \in SUBSET (1 .. n) :
            h[s] = IF k + 1 \in s THEN step[k + 1][f[s \ {k + 1}]] ELSE f[s]
      OBVIOUS
    <3> HIDE DEF h
    <3>3. ASSUME NEW s \in SUBSET (1 .. n), s \subseteq 1 .. k + 1
          PROVE  Rule(h, s)
      <4>1. CASE k + 1 \in s
        <5>1. Max(s) = k + 1 /\ s \ {k + 1} \in SUBSET (1 .. k)
          <6>1. s \in SUBSET (1 .. k + 1)
            BY <3>3
          <6> QED
            BY <4>1, <6>1, MaxOfRange
        <5>2. s \ {k + 1} \in SUBSET (1 .. n) /\ s # {}
          BY <4>1
        <5>3. h[s \ {k + 1}] = f[s \ {k + 1}]
          BY <3>2, <5>2
        <5> QED
          BY <3>2, <4>1, <5>1, <5>2, <5>3
      <4>2. CASE k + 1 \notin s
        <5>1. s \subseteq 1 .. k
          BY <3>3, <4>2
        <5>2. Rule(f, s)
          BY <2>1, <5>1
        <5>3. h[s] = f[s] /\ s \ {Max(s)} \in SUBSET (1 .. n) /\ k + 1 \notin s \ {Max(s)}
          BY <3>2, <4>2
        <5>4. h[s \ {Max(s)}] = f[s \ {Max(s)}]
          BY <3>2, <5>3
        <5> QED
          BY <5>2, <5>3, <5>4
      <4> QED
        BY <4>1, <4>2
    <3>4. Upto(h, k + 1)
      <4> HIDE DEF Rule
      <4> QED
        BY <3>3
    <3> HIDE DEF Upto
    <3> QED
      BY <3>1, <3>4
  <2> QED
    BY <2>2, <2>3
<1> HIDE DEF Good
<1>3. n \in Good
  BY <1>1, <1>2, FromZero
<1>4. PICK f \in [SUBSET (1 .. n) -> V] : Upto(f, n)
  BY <1>3 DEF Good
<1>5. Folding(f, n, base, step)
  BY <1>4 DEF Folding
<1> QED
  BY <1>5

(* The prefixes of what is folded. *)
LEMMA FoldPrefix ==
  ASSUME NEW k \in Nat
  PROVE  Max(1 .. k + 1) = k + 1 /\ (1 .. k + 1) \ {k + 1} = 1 .. k
<1>1. Max(1 .. k + 1) = k + 1
  <2>1. (1 .. k + 1) \in SUBSET (1 .. k + 1) /\ k + 1 \in 1 .. k + 1
    OBVIOUS
  <2> QED
    BY <2>1, MaxOfRange
<1> QED
  BY <1>1

-----------------------------------------------------------------------------
(* The size of a sequence of nodes.                                        *)

Sized(nodes) == \A i \in 1 .. Len(nodes) : nodes[i].size \in Nat
Adds(iter, nodes) ==
  iter = [s \in SUBSET DOMAIN nodes |->
            IF s = {} THEN 0 ELSE iter[s \ {Max(s)}] + nodes[Max(s)].size]

LEMMA SizeOfIs ==
  ASSUME NEW nodes
  PROVE  SizeOf(nodes) = (CHOOSE iter : Adds(iter, nodes))[DOMAIN nodes]
BY DEF SizeOf, FoldLeft, MapThenFoldSet, Adds

LEMMA AddsExists ==
  ASSUME NEW S, NEW nodes \in Seq(S), Sized(nodes)
  PROVE  \E iter : Adds(iter, nodes)
<1> DEFINE n == Len(nodes)
           step == [k \in 1 .. n |-> [v \in Nat |-> v + nodes[k].size]]
<1>1. step \in [1 .. n -> [Nat -> Nat]]
  BY DEF Sized
<1>2. n \in Nat /\ DOMAIN nodes = 1 .. n
  OBVIOUS
<1>3. PICK iter \in [SUBSET (1 .. n) -> Nat] : Folding(iter, n, 0, step)
  <2> HIDE DEF step, n
  <2> QED
    BY <1>1, <1>2, FoldingExists
<1>4. ASSUME NEW s \in SUBSET (1 .. n), s # {}
      PROVE  step[Max(s)][iter[s \ {Max(s)}]] = iter[s \ {Max(s)}] + nodes[Max(s)].size
  <2>1. Max(s) \in s
    <3>1. \E x \in s : \A y \in s : x >= y
      <4> DEFINE T == {n - x : x \in s}
      <4>1. T \subseteq Nat /\ T # {}
        BY <1>2, <1>4
      <4> HIDE DEF T
      <4>2. PICK t \in T : \A u \in T : t <= u
        BY <4>1, HasLeast
      <4>3. PICK x \in s : t = n - x
        BY DEF T
      <4>4. \A y \in s : n - x <= n - y
        BY <4>2, <4>3 DEF T
      <4>5. \A y \in s : x >= y
        <5>1. \A y \in s : y \in Int /\ x \in Int
          OBVIOUS
        <5> HIDE DEF n
        <5> QED
          BY <1>2, <4>4, <5>1
      <4> QED
        BY <4>5
    <3> QED
      BY <3>1 DEF Max
  <2>2. Max(s) \in 1 .. n /\ iter[s \ {Max(s)}] \in Nat
    BY <2>1
  <2> HIDE DEF n
  <2> QED
    BY <2>2
<1>5. iter = [s \in SUBSET DOMAIN nodes |->
                IF s = {} THEN 0 ELSE iter[s \ {Max(s)}] + nodes[Max(s)].size]
  <2> HIDE DEF step, n
  <2>1. \A s \in SUBSET (1 .. n) :
          iter[s] = IF s = {} THEN 0 ELSE iter[s \ {Max(s)}] + nodes[Max(s)].size
    BY <1>3, <1>4 DEF Folding
  <2> QED
    BY <1>2, <2>1
<1> QED
  BY <1>5 DEF Adds

(* The sizes added one by one. *)
LEMMA SizesAdd ==
  ASSUME NEW S, NEW nodes \in Seq(S), Sized(nodes)
  PROVE  \E g \in [0 .. Len(nodes) -> Nat] :
           /\ g[0] = 0
           /\ \A k \in 1 .. Len(nodes) : g[k] = g[k - 1] + nodes[k].size
           /\ SizeOf(nodes) = g[Len(nodes)]
<1> DEFINE n == Len(nodes)
           iter == CHOOSE iter : Adds(iter, nodes)
           g == [k \in 0 .. n |-> iter[1 .. k]]
<1>1. n \in Nat /\ DOMAIN nodes = 1 .. n
  OBVIOUS
<1>2. Adds(iter, nodes)
  <2>1. \E f : Adds(f, nodes)
    BY AddsExists
  <2> QED
    BY <2>1
<1>3. SizeOf(nodes) = iter[1 .. n]
  BY <1>1, SizeOfIs
<1> HIDE DEF iter
<1>4. iter = [s \in SUBSET (1 .. n) |->
                IF s = {} THEN 0 ELSE iter[s \ {Max(s)}] + nodes[Max(s)].size]
  BY <1>1, <1>2, Zenon DEF Adds
<1>5. \A s \in SUBSET (1 .. n) :
        iter[s] = IF s = {} THEN 0 ELSE iter[s \ {Max(s)}] + nodes[Max(s)].size
  <2> HIDE DEF n
  <2> SUFFICES ASSUME NEW t \in SUBSET (1 .. n)
               PROVE  iter[t] = IF t = {} THEN 0 ELSE iter[t \ {Max(t)}] + nodes[Max(t)].size
    OBVIOUS
  <2>1. iter[t] = [s \in SUBSET (1 .. n) |->
                     IF s = {} THEN 0 ELSE iter[s \ {Max(s)}] + nodes[Max(s)].size][t]
    BY <1>4, Zenon
  <2> QED
    BY <2>1, Zenon
<1>6. \A k \in 0 .. n : g[k] = iter[1 .. k]
  OBVIOUS
<1> HIDE DEF g, n
<1>7. g[0] = 0
  <2>1. 1 .. 0 = {} /\ {} \in SUBSET (1 .. n) /\ 0 \in 0 .. n
    BY <1>1
  <2>2. iter[{}] = 0
    BY <1>5, <2>1, Zenon
  <2> QED
    BY <1>6, <2>1, <2>2
<1>8. ASSUME NEW k \in 1 .. n
      PROVE  g[k] = g[k - 1] + nodes[k].size
  <2>1. (1 .. k) \in SUBSET (1 .. n) /\ (1 .. k) # {} /\ k \in 0 .. n /\ k - 1 \in 0 .. n
    <3>1. n \in Nat /\ k \in Nat /\ 1 <= k /\ k <= n
      BY <1>1
    <3>2. k \in 1 .. k
      BY <3>1
    <3>3. \A i \in 1 .. k : i \in 1 .. n
      BY <3>1
    <3>4. k \in 0 .. n /\ k - 1 \in 0 .. n
      BY <3>1
    <3> QED
      BY <3>2, <3>3, <3>4
  <2>2. Max(1 .. k) = k /\ (1 .. k) \ {k} = 1 .. k - 1
    <3>1. k - 1 \in Nat /\ (k - 1) + 1 = k
      BY <1>1
    <3> QED
      BY <3>1, FoldPrefix
  <2>3. iter[1 .. k] = iter[(1 .. k) \ {Max(1 .. k)}] + nodes[Max(1 .. k)].size
    BY <1>5, <2>1, Zenon
  <2> QED
    BY <1>6, <2>1, <2>2, <2>3
<1>9. g \in [0 .. n -> Nat]
  <2> DEFINE Good == {k \in Nat : k <= n => g[k] \in Nat}
  <2>1. 0 \in Good
    BY <1>7
  <2>2. ASSUME NEW k \in Nat, k \in Good
        PROVE  k + 1 \in Good
    <3> SUFFICES ASSUME k + 1 <= n
                 PROVE  g[k + 1] \in Nat
      OBVIOUS
    <3>1. k + 1 \in 1 .. n /\ (k + 1) - 1 = k /\ g[k] \in Nat
      BY <1>1, <2>2
    <3>2. g[k + 1] = g[k] + nodes[k + 1].size /\ nodes[k + 1].size \in Nat
      BY <1>8, <3>1 DEF Sized, n
    <3> QED
      BY <3>1, <3>2
  <2> HIDE DEF Good
  <2>3. \A k \in Nat : k \in Good
    BY <2>1, <2>2, FromZero
  <2>4. \A k \in 0 .. n : g[k] \in Nat
    BY <1>1, <2>3 DEF Good
  <2>5. g = [k \in 0 .. n |-> g[k]]
    BY DEF g
  <2> QED
    BY <2>4, <2>5
<1>10. SizeOf(nodes) = g[n]
  BY <1>1, <1>3, <1>6
<1> QED
  BY <1>7, <1>8, <1>9, <1>10 DEF n

(* Two ways of adding the same sizes. *)
Gathers(f, m, size) == \A k \in 1 .. m : f[k] = f[k - 1] + size[k]

LEMMA SumsAgree ==
  ASSUME NEW m \in Nat, NEW f, NEW g, NEW c \in Nat, NEW size \in [1 .. m -> Nat],
         f[0] = g[0] + c, g[0] \in Nat, Gathers(f, m, size), Gathers(g, m, size)
  PROVE  f[m] = g[m] + c
<1> DEFINE Good == {k \in Nat : k <= m => g[k] \in Nat /\ f[k] = g[k] + c}
<1>1. 0 \in Good
  OBVIOUS
<1>2. ASSUME NEW k \in Nat, k \in Good
      PROVE  k + 1 \in Good
  <2> SUFFICES ASSUME k + 1 <= m
               PROVE  g[k + 1] \in Nat /\ f[k + 1] = g[k + 1] + c
    OBVIOUS
  <2>1. k + 1 \in 1 .. m /\ (k + 1) - 1 = k /\ g[k] \in Nat /\ f[k] = g[k] + c
    BY <1>2
  <2>2. f[k + 1] = f[k] + size[k + 1] /\ g[k + 1] = g[k] + size[k + 1]
    <3>1. f[k + 1] = f[(k + 1) - 1] + size[k + 1]
      BY <2>1 DEF Gathers
    <3>2. g[k + 1] = g[(k + 1) - 1] + size[k + 1]
      BY <2>1 DEF Gathers
    <3> QED
      BY <2>1, <3>1, <3>2
  <2>3. size[k + 1] \in Nat
    BY <2>1
  <2> QED
    BY <2>1, <2>2, <2>3
<1> HIDE DEF Good
<1>3. m \in Good
  BY <1>1, <1>2, FromZero
<1> QED
  BY <1>3 DEF Good

LEMMA SizeOfSeq ==
  ASSUME NEW S, NEW nodes \in Seq(S), Sized(nodes)
  PROVE  SizeOf(nodes) \in Nat /\ (nodes = <<>> => SizeOf(nodes) = 0)
<1>1. PICK g \in [0 .. Len(nodes) -> Nat] :
        /\ g[0] = 0
        /\ \A k \in 1 .. Len(nodes) : g[k] = g[k - 1] + nodes[k].size
        /\ SizeOf(nodes) = g[Len(nodes)]
  BY SizesAdd
<1>2. Len(nodes) \in 0 .. Len(nodes)
  OBVIOUS
<1> QED
  BY <1>1, <1>2

(* Sequences with the same sizes have the same size. *)
LEMMA SameSizes ==
  ASSUME NEW S, NEW T, NEW s \in Seq(S), NEW t \in Seq(T), Sized(s), Len(s) = Len(t),
         \A i \in 1 .. Len(s) : s[i].size = t[i].size
  PROVE  Sized(t) /\ SizeOf(t) = SizeOf(s)
<1> DEFINE m == Len(s)
           size == [k \in 1 .. m |-> s[k].size]
<1>1. Sized(t) /\ m \in Nat /\ size \in [1 .. m -> Nat]
  BY DEF Sized
<1>2. PICK g \in [0 .. Len(s) -> Nat] :
        /\ g[0] = 0
        /\ \A k \in 1 .. Len(s) : g[k] = g[k - 1] + s[k].size
        /\ SizeOf(s) = g[Len(s)]
  BY SizesAdd
<1>3. PICK f \in [0 .. Len(t) -> Nat] :
        /\ f[0] = 0
        /\ \A k \in 1 .. Len(t) : f[k] = f[k - 1] + t[k].size
        /\ SizeOf(t) = f[Len(t)]
  BY <1>1, SizesAdd
<1>4. Gathers(f, m, size) /\ Gathers(g, m, size)
  BY <1>2, <1>3 DEF Gathers
<1>5. SizeOf(s) = g[m] /\ SizeOf(t) = f[m] /\ f[0] = 0 /\ g[0] = 0 /\ g[m] \in Nat
  BY <1>1, <1>2, <1>3
<1> HIDE DEF m, size
<1>6. f[m] = g[m] + 0
  <2>1. 0 \in Nat /\ f[0] = g[0] + 0 /\ g[0] \in Nat
    BY <1>5
  <2> QED
    BY <1>1, <1>4, <2>1, SumsAgree, Zenon
<1> QED
  BY <1>1, <1>5, <1>6

LEMMA SizeOfBoth ==
  ASSUME NEW S, NEW s \in Seq(S), NEW t \in Seq(S), Sized(s), Sized(t)
  PROVE  Sized(s \o t) /\ SizeOf(s \o t) = SizeOf(s) + SizeOf(t)
<1> DEFINE a == Len(s)
           m == Len(t)
           u == s \o t
           size == [k \in 1 .. m |-> t[k].size]
           sizes == [k \in 1 .. a |-> s[k].size]
<1>0. a \in Nat /\ m \in Nat /\ size \in [1 .. m -> Nat] /\ sizes \in [1 .. a -> Nat]
  BY DEF Sized
<1>1. /\ u \in Seq(S) /\ Len(u) = a + m
      /\ \A i \in 1 .. a : u[i] = s[i]
      /\ \A i \in 1 .. m : u[a + i] = t[i]
  OBVIOUS
<1> HIDE DEF u
<1>2. Sized(u)
  <2> SUFFICES ASSUME NEW i \in 1 .. Len(u)
               PROVE  u[i].size \in Nat
    BY DEF Sized
  <2>1. CASE i <= a
    BY <1>0, <1>1, <2>1 DEF Sized
  <2>2. CASE ~(i <= a)
    <3>1. i - a \in 1 .. m /\ a + (i - a) = i
      BY <1>0, <1>1, <2>2
    <3> QED
      BY <1>1, <3>1 DEF Sized
  <2> QED
    BY <2>1, <2>2
<1>3. PICK f \in [0 .. Len(u) -> Nat] :
        /\ f[0] = 0
        /\ \A k \in 1 .. Len(u) : f[k] = f[k - 1] + u[k].size
        /\ SizeOf(u) = f[Len(u)]
  BY <1>1, <1>2, SizesAdd
<1>4. PICK g \in [0 .. Len(s) -> Nat] :
        /\ g[0] = 0
        /\ \A k \in 1 .. Len(s) : g[k] = g[k - 1] + s[k].size
        /\ SizeOf(s) = g[Len(s)]
  BY SizesAdd
<1>5. PICK h \in [0 .. Len(t) -> Nat] :
        /\ h[0] = 0
        /\ \A k \in 1 .. Len(t) : h[k] = h[k - 1] + t[k].size
        /\ SizeOf(t) = h[Len(t)]
  BY SizesAdd
<1> DEFINE later == [k \in 0 .. m |-> f[a + k]]
<1>6. f[a] = g[a] + 0
  <2>1. Gathers(f, a, sizes)
    <3> SUFFICES ASSUME NEW k \in 1 .. a
                 PROVE  f[k] = f[k - 1] + s[k].size
      BY DEF Gathers
    <3>1. k \in 1 .. Len(u) /\ u[k] = s[k]
      BY <1>0, <1>1
    <3> QED
      BY <1>3, <3>1
  <2>2. Gathers(g, a, sizes)
    BY <1>4 DEF Gathers
  <2>3. 0 \in Nat /\ f[0] = g[0] + 0 /\ g[0] \in Nat
    BY <1>3, <1>4
  <2> HIDE DEF a, sizes
  <2> QED
    BY <1>0, <2>1, <2>2, <2>3, SumsAgree, ZenonT(60)
<1>7. f[a] = g[a] /\ g[a] \in Nat /\ SizeOf(s) = g[a]
  BY <1>0, <1>4, <1>6
<1>8. Gathers(later, m, size)
  <2> SUFFICES ASSUME NEW k \in 1 .. m
               PROVE  f[a + k] = f[a + (k - 1)] + t[k].size
    BY <1>0 DEF Gathers
  <2>1. a + k \in 1 .. Len(u) /\ (a + k) - 1 = a + (k - 1) /\ u[a + k] = t[k]
    BY <1>0, <1>1
  <2>2. f[a + k] = f[(a + k) - 1] + u[a + k].size
    BY <1>3, <2>1
  <2> QED
    BY <2>1, <2>2
<1>9. later[0] = f[a] /\ later[m] = f[Len(u)] /\ later[0] = h[0] + g[a] /\ h[0] = 0
  BY <1>0, <1>1, <1>5, <1>7
<1>10. Gathers(h, m, size)
  BY <1>5 DEF Gathers
<1> HIDE DEF later, m, size, a
<1>11. later[m] = h[m] + g[a]
  <2>1. PICK c \in Nat : c = g[a]
    BY <1>7
  <2>2. m \in Nat /\ size \in [1 .. m -> Nat] /\ h[0] \in Nat /\ later[0] = h[0] + c
    BY <1>0, <1>7, <1>9, <2>1
  <2>3. later[m] = h[m] + c
    BY <1>8, <1>10, <2>2, SumsAgree, ZenonT(60)
  <2> QED
    BY <2>1, <2>3
<1>12. SizeOf(u) = h[m] + g[a] /\ SizeOf(t) = h[m] /\ h[m] \in Nat
  BY <1>0, <1>3, <1>5, <1>9, <1>11 DEF m
<1> QED
  BY <1>2, <1>7, <1>12 DEF u

(* Each node is at most as large as all of them. *)
LEMMA SizeOfPart ==
  ASSUME NEW S, NEW nodes \in Seq(S), Sized(nodes), NEW i \in 1 .. Len(nodes)
  PROVE  nodes[i].size <= SizeOf(nodes)
<1> DEFINE n == Len(nodes)
<1>0. n \in Nat
  OBVIOUS
<1>1. PICK g \in [0 .. Len(nodes) -> Nat] :
        /\ g[0] = 0
        /\ \A k \in 1 .. Len(nodes) : g[k] = g[k - 1] + nodes[k].size
        /\ SizeOf(nodes) = g[Len(nodes)]
  BY SizesAdd
<1> DEFINE Good == {k \in Nat : i <= k /\ k <= n => nodes[i].size <= g[k]}
<1>2. nodes[i].size \in Nat
  BY DEF Sized
<1>3. 0 \in Good
  OBVIOUS
<1>4. ASSUME NEW k \in Nat, k \in Good
      PROVE  k + 1 \in Good
  <2> SUFFICES ASSUME i <= k + 1, k + 1 <= n
               PROVE  nodes[i].size <= g[k + 1]
    OBVIOUS
  <2>1. k + 1 \in 1 .. n /\ k \in 0 .. n /\ (k + 1) - 1 = k
    OBVIOUS
  <2>2. g[k + 1] = g[k] + nodes[k + 1].size /\ g[k] \in Nat /\ nodes[k + 1].size \in Nat
    BY <1>1, <2>1 DEF Sized
  <2>3. CASE i = k + 1
    BY <1>2, <2>2, <2>3
  <2>4. CASE i # k + 1
    <3>1. i <= k /\ k <= n
      BY <2>1, <2>4
    <3>2. nodes[i].size <= g[k]
      BY <1>4, <3>1
    <3> QED
      BY <1>2, <2>2, <3>2
  <2> QED
    BY <2>3, <2>4
<1> HIDE DEF Good
<1>5. n \in Good
  BY <1>0, <1>3, <1>4, FromZero
<1> QED
  BY <1>0, <1>1, <1>5 DEF Good

-----------------------------------------------------------------------------
(* The expressions of a height.                                            *)

TreesBelow(g, m) ==
  g = [h \in 0 .. m |-> IF h = 0 THEN {} ELSE NodesOver(g[h - 1])]

LEMMA TreesBelowExist ==
  ASSUME NEW m \in Nat
  PROVE  \E g : TreesBelow(g, m)
<1> DEFINE Good == {k \in Nat : \E g : TreesBelow(g, k)}
<1>1. 0 \in Good
  <2> DEFINE g == [h \in 0 .. 0 |-> {}]
  <2>1. \A h \in 0 .. 0 : h = 0
    OBVIOUS
  <2>2. g = [h \in 0 .. 0 |-> IF h = 0 THEN {} ELSE NodesOver(g[h - 1])]
    BY <2>1
  <2> HIDE DEF g
  <2>3. TreesBelow(g, 0)
    BY <2>2 DEF TreesBelow
  <2> QED
    BY <2>3
<1>2. ASSUME NEW k \in Nat, k \in Good
      PROVE  k + 1 \in Good
  <2>1. PICK g : TreesBelow(g, k)
    BY <1>2
  <2> DEFINE new == NodesOver(g[k])
             f == [h \in 0 .. k + 1 |-> IF h = k + 1 THEN new ELSE g[h]]
  <2>2. f[k + 1] = new /\ f[k] = g[k]
    <3> HIDE DEF new
    <3> QED
      OBVIOUS
  <2>3. ASSUME NEW h \in 0 .. k + 1
        PROVE  f[h] = IF h = 0 THEN {} ELSE NodesOver(f[h - 1])
    <3>1. CASE h = k + 1
      <4>1. h - 1 = k /\ h # 0
        BY <3>1
      <4> HIDE DEF f
      <4> QED
        BY <2>2, <3>1, <4>1
    <3>2. CASE h # k + 1
      <4>1. h \in 0 .. k /\ f[h] = g[h]
        BY <3>2
      <4>2. g[h] = IF h = 0 THEN {} ELSE NodesOver(g[h - 1])
        BY <2>1, <4>1 DEF TreesBelow
      <4>3. h # 0 => f[h - 1] = g[h - 1]
        BY <3>2
      <4> HIDE DEF f
      <4> QED
        BY <4>1, <4>2, <4>3
    <3> QED
      BY <3>1, <3>2
  <2>4. f = [h \in 0 .. k + 1 |-> IF h = 0 THEN {} ELSE NodesOver(f[h - 1])]
    <3>1. f = [h \in 0 .. k + 1 |-> f[h]]
      OBVIOUS
    <3> HIDE DEF f
    <3> QED
      BY <2>3, <3>1
  <2> HIDE DEF f
  <2>5. TreesBelow(f, k + 1)
    BY <2>4 DEF TreesBelow
  <2> QED
    BY <2>5
<1> HIDE DEF Good
<1>3. m \in Good
  BY <1>1, <1>2, FromZero
<1> QED
  BY <1>3 DEF Good

LEMMA TreesBelowAgree ==
  ASSUME NEW m \in Nat, NEW k \in 0 .. m, NEW f, NEW g, TreesBelow(f, k), TreesBelow(g, m)
  PROVE  f[k] = g[k]
<1> DEFINE Good == {h \in Nat : h <= k => f[h] = g[h]}
<1>0. ASSUME NEW h \in 0 .. k
      PROVE  /\ f[h] = IF h = 0 THEN {} ELSE NodesOver(f[h - 1])
             /\ g[h] = IF h = 0 THEN {} ELSE NodesOver(g[h - 1])
  <2>1. h \in 0 .. m
    OBVIOUS
  <2>2. f[h] = [i \in 0 .. k |-> IF i = 0 THEN {} ELSE NodesOver(f[i - 1])][h]
    BY Zenon DEF TreesBelow
  <2>3. g[h] = [i \in 0 .. m |-> IF i = 0 THEN {} ELSE NodesOver(g[i - 1])][h]
    BY Zenon DEF TreesBelow
  <2> QED
    BY <2>1, <2>2, <2>3
<1>1. 0 \in Good
  <2>1. 0 \in 0 .. k
    OBVIOUS
  <2>2. f[0] = {} /\ g[0] = {}
    BY <1>0, <2>1
  <2> QED
    BY <2>2
<1>2. ASSUME NEW h \in Nat, h \in Good
      PROVE  h + 1 \in Good
  <2> SUFFICES ASSUME h + 1 <= k
               PROVE  f[h + 1] = g[h + 1]
    OBVIOUS
  <2>1. h + 1 \in 0 .. k /\ (h + 1) - 1 = h /\ h + 1 # 0 /\ f[h] = g[h]
    BY <1>2
  <2>2. f[h + 1] = NodesOver(f[(h + 1) - 1]) /\ g[h + 1] = NodesOver(g[(h + 1) - 1])
    BY <1>0, <2>1
  <2> QED
    BY <2>1, <2>2
<1> HIDE DEF Good
<1>3. k \in Nat
  OBVIOUS
<1>4. k \in Good
  BY <1>1, <1>2, <1>3, FromZero
<1> QED
  BY <1>3, <1>4 DEF Good

LEMMA TreesAre ==
  /\ Trees[0] = {}
  /\ \A k \in Nat : Trees[k + 1] = NodesOver(Trees[k])
<1> DEFINE below(m) == CHOOSE g : TreesBelow(g, m)
           all == [m \in Nat |-> below(m)[m]]
<1>1. ASSUME NEW m \in Nat
      PROVE  TreesBelow(below(m), m)
  <2>1. \E g : TreesBelow(g, m)
    BY TreesBelowExist
  <2> QED
    BY <2>1
<1> HIDE DEF below
<1>2. ASSUME NEW m \in Nat
      PROVE  all[m] = IF m = 0 THEN {} ELSE NodesOver(all[m - 1])
  <2>1. all[m] = below(m)[m] /\ m \in 0 .. m
    OBVIOUS
  <2>2. below(m)[m] = IF m = 0 THEN {} ELSE NodesOver(below(m)[m - 1])
    <3>1. below(m) = [h \in 0 .. m |-> IF h = 0 THEN {} ELSE NodesOver(below(m)[h - 1])]
      BY <1>1 DEF TreesBelow
    <3>2. below(m)[m] = [h \in 0 .. m |-> IF h = 0 THEN {} ELSE NodesOver(below(m)[h - 1])][m]
      BY <3>1, Zenon
    <3> QED
      BY <2>1, <3>2, Zenon
  <2>3. CASE m = 0
    BY <2>1, <2>2, <2>3
  <2>4. CASE m # 0
    <3>1. m - 1 \in Nat /\ m - 1 \in 0 .. m
      BY <2>4
    <3>2. below(m - 1)[m - 1] = below(m)[m - 1]
      <4>1. TreesBelow(below(m - 1), m - 1) /\ TreesBelow(below(m), m)
        BY <1>1, <3>1
      <4> QED
        BY <3>1, <4>1, TreesBelowAgree
    <3>3. all[m - 1] = below(m - 1)[m - 1]
      BY <3>1
    <3> HIDE DEF all
    <3> QED
      BY <2>1, <2>2, <2>4, <3>2, <3>3
  <2> QED
    BY <2>3, <2>4
<1>3. all = [m \in Nat |-> IF m = 0 THEN {} ELSE NodesOver(all[m - 1])]
  <2>1. all = [m \in Nat |-> all[m]]
    OBVIOUS
  <2> HIDE DEF all
  <2> QED
    BY <1>2, <2>1
<1> HIDE DEF all
<1>4. Trees = [h \in Nat |-> IF h = 0 THEN {} ELSE NodesOver(Trees[h - 1])]
  BY <1>3, Zenon DEF Trees
<1>5. \A m \in Nat : Trees[m] = IF m = 0 THEN {} ELSE NodesOver(Trees[m - 1])
  <2> SUFFICES ASSUME NEW m \in Nat
               PROVE  Trees[m] = IF m = 0 THEN {} ELSE NodesOver(Trees[m - 1])
    OBVIOUS
  <2>1. Trees[m] = [h \in Nat |-> IF h = 0 THEN {} ELSE NodesOver(Trees[h - 1])][m]
    BY <1>4, Zenon
  <2> QED
    BY <2>1, Zenon
<1>6. \A k \in Nat : k + 1 \in Nat /\ k + 1 # 0 /\ (k + 1) - 1 = k
  OBVIOUS
<1> QED
  BY <1>5, <1>6

LEMMA SeqOfMore ==
  ASSUME NEW S, NEW T, S \subseteq T, NEW s \in Seq(S)
  PROVE  s \in Seq(T)
OBVIOUS

LEMMA NodesOverMore ==
  ASSUME NEW S, NEW T, S \subseteq T
  PROVE  NodesOver(S) \subseteq NodesOver(T)
<1>1. Seq(S) \subseteq Seq(T)
  BY SeqOfMore
<1> QED
  BY <1>1 DEF NodesOver

LEMMA TreesGrow ==
  ASSUME NEW k \in Nat, NEW j \in 0 .. k
  PROVE  Trees[j] \subseteq Trees[k]
<1> DEFINE Next1 == {h \in Nat : Trees[h] \subseteq Trees[h + 1]}
           Good == {h \in Nat : j <= h => Trees[j] \subseteq Trees[h]}
<1>1. \A h \in Nat : h \in Next1
  <2>1. 0 \in Next1
    BY TreesAre
  <2>2. ASSUME NEW h \in Nat, h \in Next1
        PROVE  h + 1 \in Next1
    <3>1. Trees[h + 1] = NodesOver(Trees[h]) /\ Trees[(h + 1) + 1] = NodesOver(Trees[h + 1])
      <4>1. h + 1 \in Nat
        OBVIOUS
      <4> QED
        BY <4>1, TreesAre
    <3>2. Trees[h] \subseteq Trees[h + 1]
      BY <2>2
    <3>3. NodesOver(Trees[h]) \subseteq NodesOver(Trees[h + 1])
      BY <3>2, NodesOverMore
    <3> QED
      BY <3>1, <3>3
  <2> HIDE DEF Next1
  <2> QED
    BY <2>1, <2>2, FromZero
<1>2. 0 \in Good
  OBVIOUS
<1>3. ASSUME NEW h \in Nat, h \in Good
      PROVE  h + 1 \in Good
  <2> SUFFICES ASSUME j <= h + 1
               PROVE  Trees[j] \subseteq Trees[h + 1]
    OBVIOUS
  <2>1. Trees[h] \subseteq Trees[h + 1]
    BY <1>1
  <2>2. CASE j = h + 1
    BY <2>2
  <2>3. CASE j # h + 1
    <3>1. j <= h
      BY <2>3
    <3> QED
      BY <1>3, <2>1, <3>1
  <2> QED
    BY <2>2, <2>3
<1> HIDE DEF Next1, Good
<1>4. k \in Good
  BY <1>2, <1>3, FromZero
<1> QED
  BY <1>4 DEF Good

(* The parts of an expression are expressions. *)
LEMMA PartsAreTrees ==
  ASSUME MaxNodes \in Nat, NEW n \in Tree
  PROVE  /\ MaxNodes # 0 /\ MaxNodes - 1 \in Nat
         /\ n \in NodesOver(Trees[MaxNodes - 1])
         /\ n.parts \in Seq(Trees[MaxNodes - 1])
         /\ n.parts \in Seq(Tree)
<1>1. MaxNodes # 0
  BY TreesAre DEF Tree
<1>2. MaxNodes - 1 \in Nat /\ (MaxNodes - 1) + 1 = MaxNodes /\ MaxNodes - 1 \in 0 .. MaxNodes
  BY <1>1
<1>3. Trees[MaxNodes] = NodesOver(Trees[MaxNodes - 1])
  BY <1>2, TreesAre
<1>4. n \in NodesOver(Trees[MaxNodes - 1])
  BY <1>3 DEF Tree
<1>5. n.parts \in Seq(Trees[MaxNodes - 1])
  BY <1>4 DEF NodesOver
<1>6. Trees[MaxNodes - 1] \subseteq Tree
  BY <1>2, TreesGrow DEF Tree
<1> QED
  BY <1>1, <1>2, <1>4, <1>5, <1>6, SeqOfMore

-----------------------------------------------------------------------------
(* What is defined from an expression's parts.                             *)

SortsOver(f, k) ==
  f = [n \in Trees[k] |-> SortFrom(n, [i \in DOMAIN n.parts |-> f[n.parts[i]]])]

LEMMA SortsOverExist ==
  ASSUME NEW k \in Nat
  PROVE  \E f : SortsOver(f, k)
<1> DEFINE Good == {h \in Nat : \E f : SortsOver(f, h)}
<1>1. 0 \in Good
  <2> DEFINE f == [n \in Trees[0] |-> 0]
  <2>1. f = [n \in Trees[0] |-> SortFrom(n, [i \in DOMAIN n.parts |-> f[n.parts[i]]])]
    BY TreesAre
  <2> HIDE DEF f
  <2>2. SortsOver(f, 0)
    BY <2>1 DEF SortsOver
  <2> QED
    BY <2>2
<1>2. ASSUME NEW h \in Nat, h \in Good
      PROVE  h + 1 \in Good
  <2>1. PICK f : SortsOver(f, h)
    BY <1>2
  <2> DEFINE g == [n \in Trees[h + 1] |-> SortFrom(n, [i \in DOMAIN n.parts |-> f[n.parts[i]]])]
  <2>2. h + 1 \in Nat /\ h \in 0 .. h + 1
    OBVIOUS
  <2>3. Trees[h] \subseteq Trees[h + 1] /\ Trees[h + 1] = NodesOver(Trees[h])
    BY <2>2, TreesGrow, TreesAre
  <2>4. ASSUME NEW n \in Trees[h]
        PROVE  g[n] = f[n]
    <3>1. f[n] = [m \in Trees[h] |-> SortFrom(m, [i \in DOMAIN m.parts |-> f[m.parts[i]]])][n]
      BY <2>1, Zenon DEF SortsOver
    <3>2. g[n] = SortFrom(n, [i \in DOMAIN n.parts |-> f[n.parts[i]]])
      BY <2>3
    <3> HIDE DEF g
    <3> QED
      BY <3>1, <3>2, Zenon
  <2>5. ASSUME NEW n \in Trees[h + 1], NEW i \in DOMAIN n.parts
        PROVE  n.parts[i] \in Trees[h]
    <3>1. n.parts \in Seq(Trees[h])
      BY <2>3 DEF NodesOver
    <3> QED
      BY <3>1
  <2>6. \A n \in Trees[h + 1] : SortFrom(n, [i \in DOMAIN n.parts |-> f[n.parts[i]]]) = SortFrom(n, [i \in DOMAIN n.parts |-> g[n.parts[i]]])
    <3> HIDE DEF g
    <3> SUFFICES ASSUME NEW n \in Trees[h + 1]
                 PROVE  SortFrom(n, [i \in DOMAIN n.parts |-> f[n.parts[i]]]) = SortFrom(n, [i \in DOMAIN n.parts |-> g[n.parts[i]]])
      OBVIOUS
    <3>1. \A i \in DOMAIN n.parts : f[n.parts[i]] = g[n.parts[i]]
      BY <2>4, <2>5
    <3>2. [i \in DOMAIN n.parts |-> f[n.parts[i]]] = [i \in DOMAIN n.parts |-> g[n.parts[i]]]
      BY <3>1, Zenon
    <3> QED
      BY <3>2, Zenon
  <2>7. g = [n \in Trees[h + 1] |-> SortFrom(n, [i \in DOMAIN n.parts |-> g[n.parts[i]]])]
    <3> HIDE DEF g
    <3>1. g = [n \in Trees[h + 1] |-> SortFrom(n, [i \in DOMAIN n.parts |-> f[n.parts[i]]])]
      BY Zenon DEF g
    <3> QED
      BY <2>6, <3>1, Zenon
  <2> HIDE DEF g
  <2>8. SortsOver(g, h + 1)
    BY <2>7 DEF SortsOver
  <2> QED
    BY <2>8
<1> HIDE DEF Good
<1>3. k \in Good
  BY <1>1, <1>2, FromZero
<1> QED
  BY <1>3 DEF Good

LEMMA SortIs ==
  ASSUME MaxNodes \in Nat, NEW n \in Tree
  PROVE  Sort[n] = SortFrom(n, [i \in DOMAIN n.parts |-> Sort[n.parts[i]]])
<1>1. \E f : SortsOver(f, MaxNodes)
  BY SortsOverExist
<1>2. \E f : f = [m \in Tree |-> SortFrom(m, [i \in DOMAIN m.parts |-> f[m.parts[i]]])]
  BY <1>1, Zenon DEF SortsOver, Tree
<1>3. Sort = [m \in Tree |-> SortFrom(m, [i \in DOMAIN m.parts |-> Sort[m.parts[i]]])]
  BY <1>2, Zenon DEF Sort
<1>4. Sort[n] = [m \in Tree |-> SortFrom(m, [i \in DOMAIN m.parts |-> Sort[m.parts[i]]])][n]
  BY <1>3, Zenon
<1> QED
  BY <1>4, Zenon

InsidesOver(f, k) ==
  f = [n \in Trees[k] |-> ({n} \cup UNION {f[n.parts[i]] : i \in DOMAIN n.parts})]

LEMMA InsidesOverExist ==
  ASSUME NEW k \in Nat
  PROVE  \E f : InsidesOver(f, k)
<1> DEFINE Good == {h \in Nat : \E f : InsidesOver(f, h)}
<1>1. 0 \in Good
  <2> DEFINE f == [n \in Trees[0] |-> 0]
  <2>1. f = [n \in Trees[0] |-> ({n} \cup UNION {f[n.parts[i]] : i \in DOMAIN n.parts})]
    BY TreesAre
  <2> HIDE DEF f
  <2>2. InsidesOver(f, 0)
    BY <2>1 DEF InsidesOver
  <2> QED
    BY <2>2
<1>2. ASSUME NEW h \in Nat, h \in Good
      PROVE  h + 1 \in Good
  <2>1. PICK f : InsidesOver(f, h)
    BY <1>2
  <2> DEFINE g == [n \in Trees[h + 1] |-> ({n} \cup UNION {f[n.parts[i]] : i \in DOMAIN n.parts})]
  <2>2. h + 1 \in Nat /\ h \in 0 .. h + 1
    OBVIOUS
  <2>3. Trees[h] \subseteq Trees[h + 1] /\ Trees[h + 1] = NodesOver(Trees[h])
    BY <2>2, TreesGrow, TreesAre
  <2>4. ASSUME NEW n \in Trees[h]
        PROVE  g[n] = f[n]
    <3>1. f[n] = [m \in Trees[h] |-> ({m} \cup UNION {f[m.parts[i]] : i \in DOMAIN m.parts})][n]
      BY <2>1, Zenon DEF InsidesOver
    <3>2. g[n] = ({n} \cup UNION {f[n.parts[i]] : i \in DOMAIN n.parts})
      BY <2>3
    <3> HIDE DEF g
    <3> QED
      BY <3>1, <3>2, Zenon
  <2>5. ASSUME NEW n \in Trees[h + 1], NEW i \in DOMAIN n.parts
        PROVE  n.parts[i] \in Trees[h]
    <3>1. n.parts \in Seq(Trees[h])
      BY <2>3 DEF NodesOver
    <3> QED
      BY <3>1
  <2>6. \A n \in Trees[h + 1] : ({n} \cup UNION {f[n.parts[i]] : i \in DOMAIN n.parts}) = ({n} \cup UNION {g[n.parts[i]] : i \in DOMAIN n.parts})
    <3> HIDE DEF g
    <3> SUFFICES ASSUME NEW n \in Trees[h + 1]
                 PROVE  ({n} \cup UNION {f[n.parts[i]] : i \in DOMAIN n.parts}) = ({n} \cup UNION {g[n.parts[i]] : i \in DOMAIN n.parts})
      OBVIOUS
    <3>1. \A i \in DOMAIN n.parts : f[n.parts[i]] = g[n.parts[i]]
      BY <2>4, <2>5
    <3> QED
      BY <3>1
  <2>7. g = [n \in Trees[h + 1] |-> ({n} \cup UNION {g[n.parts[i]] : i \in DOMAIN n.parts})]
    <3> HIDE DEF g
    <3>1. g = [n \in Trees[h + 1] |-> ({n} \cup UNION {f[n.parts[i]] : i \in DOMAIN n.parts})]
      BY Zenon DEF g
    <3> QED
      BY <2>6, <3>1, Zenon
  <2> HIDE DEF g
  <2>8. InsidesOver(g, h + 1)
    BY <2>7 DEF InsidesOver
  <2> QED
    BY <2>8
<1> HIDE DEF Good
<1>3. k \in Good
  BY <1>1, <1>2, FromZero
<1> QED
  BY <1>3 DEF Good

LEMMA InsideIs ==
  ASSUME MaxNodes \in Nat, NEW n \in Tree
  PROVE  Inside[n] = ({n} \cup UNION {Inside[n.parts[i]] : i \in DOMAIN n.parts})
<1>1. \E f : InsidesOver(f, MaxNodes)
  BY InsidesOverExist
<1>2. \E f : f = [m \in Tree |-> ({m} \cup UNION {f[m.parts[i]] : i \in DOMAIN m.parts})]
  BY <1>1, Zenon DEF InsidesOver, Tree
<1>3. Inside = [m \in Tree |-> ({m} \cup UNION {Inside[m.parts[i]] : i \in DOMAIN m.parts})]
  BY <1>2, Zenon DEF Inside
<1>4. Inside[n] = [m \in Tree |-> ({m} \cup UNION {Inside[m.parts[i]] : i \in DOMAIN m.parts})][n]
  BY <1>3, Zenon
<1> QED
  BY <1>4, Zenon

-----------------------------------------------------------------------------
(* Joining the reports of several parts.                                   *)

Joins(seqs, g) == g = [i \in 1 .. Len(seqs) |-> IF i = 1 THEN seqs[i] ELSE g[i - 1] \o seqs[i]]

LEMMA JoinsExist ==
  ASSUME NEW S, NEW seqs \in Seq(Seq(S))
  PROVE  \E g : Joins(seqs, g)
<1> DEFINE n == Len(seqs)
           step == [k \in 1 .. n |-> [v \in Seq(S) |-> v \o seqs[k]]]
<1>1. n \in Nat /\ <<>> \in Seq(S)
  OBVIOUS
<1>2. step \in [1 .. n -> [Seq(S) -> Seq(S)]]
  OBVIOUS
<1> HIDE DEF step
<1>3. PICK g \in [0 .. n -> Seq(S)] : Climbs(g, n, <<>>, step)
  <2> HIDE DEF n
  <2> QED
    BY <1>1, <1>2, CountsUp
<1> DEFINE h == [i \in 1 .. n |-> g[i]]
<1>4. ASSUME NEW i \in 1 .. n
      PROVE  h[i] = IF i = 1 THEN seqs[i] ELSE h[i - 1] \o seqs[i]
  <2>1. i - 1 \in 0 .. n /\ g[i - 1] \in Seq(S) /\ seqs[i] \in Seq(S)
    OBVIOUS
  <2>2. g[i] = step[i][g[i - 1]]
    BY <1>3 DEF Climbs
  <2>3. g[i] = g[i - 1] \o seqs[i]
    BY <2>1, <2>2 DEF step
  <2>4. CASE i = 1
    <3>1. g[0] = <<>>
      BY <1>3 DEF Climbs
    <3>2. i - 1 = 0
      BY <2>4
    <3>3. g[i] = <<>> \o seqs[i]
      BY <2>3, <3>1, <3>2
    <3> QED
      BY <2>1, <2>4, <3>3
  <2>5. CASE i # 1
    <3>1. h[i - 1] = g[i - 1]
      BY <2>5
    <3> QED
      BY <2>3, <2>5, <3>1
  <2> QED
    BY <2>4, <2>5
<1>5. h = [i \in 1 .. n |-> IF i = 1 THEN seqs[i] ELSE h[i - 1] \o seqs[i]]
  <2>1. h = [i \in 1 .. n |-> h[i]]
    OBVIOUS
  <2> HIDE DEF h, n
  <2> QED
    BY <1>4, <2>1
<1> HIDE DEF h
<1>6. Joins(seqs, h)
  BY <1>5 DEF Joins
<1> QED
  BY <1>6

LEMMA Flattened ==
  ASSUME NEW S, NEW seqs \in Seq(Seq(S))
  PROVE  /\ FlattenSeq(seqs) \in Seq(S)
         /\ FlattenSeq(seqs) = <<>> <=> \A i \in 1 .. Len(seqs) : seqs[i] = <<>>
<1> DEFINE n == Len(seqs)
           g == CHOOSE g : Joins(seqs, g)
<1>1. n \in Nat /\ \A i \in 1 .. n : seqs[i] \in Seq(S)
  OBVIOUS
<1>2. CASE n = 0
  <2>1. FlattenSeq(seqs) = seqs /\ seqs = <<>>
    BY <1>2 DEF FlattenSeq
  <2> QED
    BY <1>2, <2>1
<1>3. CASE n # 0
  <2>1. FlattenSeq(seqs) = g[n]
    BY <1>3 DEF FlattenSeq, Joins
  <2>2. Joins(seqs, g)
    <3>1. \E f : Joins(seqs, f)
      BY JoinsExist
    <3> QED
      BY <3>1
  <2> HIDE DEF g
  <2>3. ASSUME NEW i \in 1 .. n
        PROVE  g[i] = IF i = 1 THEN seqs[i] ELSE g[i - 1] \o seqs[i]
    <3>1. g[i] = [j \in 1 .. Len(seqs) |-> IF j = 1 THEN seqs[j] ELSE g[j - 1] \o seqs[j]][i]
      BY <2>2, Zenon DEF Joins
    <3> QED
      BY <3>1, Zenon
  <2> DEFINE Empty(i) == \A j \in 1 .. i : seqs[j] = <<>>
             Good == {i \in Nat : i + 1 <= n => g[i + 1] \in Seq(S) /\ (g[i + 1] = <<>> <=> Empty(i + 1))}
  <2> HIDE DEF n
  <2>4. 0 \in Good
    <3>1. 1 \in 1 .. n /\ g[1] = seqs[1]
      BY <1>1, <1>3, <2>3
    <3>2. \A j \in 1 .. 1 : j = 1
      OBVIOUS
    <3> QED
      BY <1>1, <3>1, <3>2
  <2>5. ASSUME NEW i \in Nat, i \in Good
        PROVE  i + 1 \in Good
    <3> SUFFICES ASSUME (i + 1) + 1 <= n
                 PROVE  g[(i + 1) + 1] \in Seq(S) /\ (g[(i + 1) + 1] = <<>> <=> Empty((i + 1) + 1))
      OBVIOUS
    <3>1. (i + 1) + 1 \in 1 .. n /\ (i + 1) + 1 # 1 /\ ((i + 1) + 1) - 1 = i + 1 /\ i + 1 <= n
      BY <1>1
    <3>2. g[i + 1] \in Seq(S) /\ (g[i + 1] = <<>> <=> Empty(i + 1))
      BY <2>5, <3>1
    <3>3. g[(i + 1) + 1] = g[i + 1] \o seqs[(i + 1) + 1]
      <4>1. g[(i + 1) + 1] = g[((i + 1) + 1) - 1] \o seqs[(i + 1) + 1]
        BY <2>3, <3>1
      <4> QED
        BY <3>1, <4>1
    <3>4. seqs[(i + 1) + 1] \in Seq(S)
      BY <1>1, <3>1
    <3>5. g[i + 1] \o seqs[(i + 1) + 1] \in Seq(S)
          /\ (g[i + 1] \o seqs[(i + 1) + 1] = <<>> <=> g[i + 1] = <<>> /\ seqs[(i + 1) + 1] = <<>>)
      <4> DEFINE x == g[i + 1]
                 y == seqs[(i + 1) + 1]
      <4>1. x \in Seq(S) /\ y \in Seq(S)
        BY <3>2, <3>4
      <4> HIDE DEF x, y
      <4>2. x \o y \in Seq(S) /\ (x \o y = <<>> <=> x = <<>> /\ y = <<>>)
        BY <4>1
      <4> QED
        BY <4>2 DEF x, y
    <3>6. Empty((i + 1) + 1) <=> Empty(i + 1) /\ seqs[(i + 1) + 1] = <<>>
      <4>1. \A j : j \in 1 .. (i + 1) + 1 <=> j \in 1 .. i + 1 \/ j = (i + 1) + 1
        OBVIOUS
      <4> QED
        BY <4>1
    <3> QED
      BY <3>2, <3>3, <3>5, <3>6
  <2> HIDE DEF Good
  <2>6. n - 1 \in Good /\ n - 1 \in Nat /\ (n - 1) + 1 = n
    <3>1. n - 1 \in Nat /\ (n - 1) + 1 = n
      BY <1>1, <1>3
    <3> QED
      BY <2>4, <2>5, <3>1, FromZero
  <2>7. g[n] \in Seq(S) /\ (g[n] = <<>> <=> Empty(n))
    <3>1. (n - 1) + 1 <= n => g[(n - 1) + 1] \in Seq(S) /\ (g[(n - 1) + 1] = <<>> <=> Empty((n - 1) + 1))
      BY <2>6 DEF Good
    <3> QED
      BY <1>1, <2>6, <3>1
  <2> QED
    BY <2>1, <2>7 DEF n
<1> QED
  BY <1>2, <1>3

-----------------------------------------------------------------------------
(* Reports, spans and types.                                               *)

Subjects ==
  {"undeclared identifier", "can only be called", "operand of unary", "operands of binary",
   "array not assignable", "subscript", "not subscriptable", "operand of postfix", "arity",
   "not a function", "not a condition", "incomplete type", "array size", "redeclaration",
   "value from void", "no value", "initializers", "not a constant",
   "assign", "pass", "return", "initialize"}
Spans   == [start : Int, end : Int]
Reports == [span : Spans, message : [about : Subjects, types : Seq(Ty \cup Written)]]

LEMMA SpanIs ==
  ASSUME NEW start \in Int, NEW end \in Int
  PROVE  Span(start, end) \in Spans
BY DEF Span, Spans

LEMMA ReportIs ==
  ASSUME NEW c \in BOOLEAN, NEW span \in Spans, NEW about \in Subjects, NEW types \in Seq(Ty)
  PROVE  /\ Report(c, span, about, types) \in Seq(Reports)
         /\ Report(c, span, about, types) = <<>> <=> ~c
<1> DEFINE d == Diagnostic(span, [about |-> about, types |-> types])
<1>1. types \in Seq(Ty \cup Written)
  BY SeqOfMore
<1>2. d \in Reports
  BY <1>1 DEF Diagnostic, Reports
<1> HIDE DEF d
<1>3. <<d>> \in Seq(Reports) /\ <<d>> # <<>> /\ <<>> \in Seq(Reports)
  BY <1>2
<1> QED
  BY <1>3 DEF Report, d

LEMMA ReportOfWritten ==
  ASSUME NEW c \in BOOLEAN, NEW span \in Spans, NEW about \in Subjects, NEW ty \in Written
  PROVE  /\ Report(c, span, about, <<ty>>) \in Seq(Reports)
         /\ Report(c, span, about, <<ty>>) = <<>> <=> ~c
<1> DEFINE d == Diagnostic(span, [about |-> about, types |-> <<ty>>])
<1>1. <<ty>> \in Seq(Ty \cup Written)
  OBVIOUS
<1>2. d \in Reports
  BY <1>1 DEF Diagnostic, Reports
<1> HIDE DEF d
<1>3. <<d>> \in Seq(Reports) /\ <<d>> # <<>> /\ <<>> \in Seq(Reports)
  BY <1>2
<1> QED
  BY <1>3 DEF Report, d

(* Two lots of reports. *)
LEMMA BothEmpty ==
  ASSUME NEW S, NEW s \in Seq(S), NEW t \in Seq(S)
  PROVE  s \o t \in Seq(S) /\ (s \o t = <<>> <=> s = <<>> /\ t = <<>>)
OBVIOUS

-----------------------------------------------------------------------------
(* Expressions as high as they are large, at most.                         *)

Grown == {n \in Tree : n \in Trees[n.size]}

LEMMA TreeFields ==
  ASSUME MaxNodes \in Nat, NEW n \in Tree
  PROVE  /\ n.kind \in Kinds /\ n.is \in Marks /\ n.parts \in Seq(Tree) /\ n.ty \in Ty
         /\ n.span \in Spans /\ n.value \in Seq(Int) /\ n.conversion \in Conversions
         /\ n.size \in Nat /\ n \in NodesOver(Tree)
<1>1. n \in NodesOver(Trees[MaxNodes - 1]) /\ n.parts \in Seq(Tree)
  BY PartsAreTrees
<1>2. /\ n.kind \in Kinds /\ n.is \in Marks /\ n.ty \in Ty
      /\ n.span \in Spans /\ n.value \in Seq(Int) /\ n.conversion \in Conversions
      /\ n.size \in Nat
  BY <1>1 DEF NodesOver, Spans
<1>3. Trees[MaxNodes - 1] \subseteq Tree
  <2>1. MaxNodes - 1 \in 0 .. MaxNodes
    <3>1. MaxNodes - 1 \in Nat
      BY PartsAreTrees
    <3> QED
      BY <3>1
  <2> QED
    BY <2>1, TreesGrow DEF Tree
<1>4. n \in NodesOver(Tree)
  BY <1>1, <1>3, NodesOverMore
<1> QED
  BY <1>1, <1>2, <1>4

LEMMA SizedTrees ==
  ASSUME MaxNodes \in Nat, NEW nodes \in Seq(Tree)
  PROVE  Sized(nodes)
BY TreeFields DEF Sized

LEMMA GrownAreTrees ==
  ASSUME NEW nodes \in Seq(Grown)
  PROVE  nodes \in Seq(Tree)
<1>1. Grown \subseteq Tree
  BY DEF Grown
<1> QED
  BY <1>1, SeqOfMore

(* Parts are no higher than they are large together. *)
LEMMA PartsLow ==
  ASSUME MaxNodes \in Nat, NEW parts \in Seq(Grown)
  PROVE  SizeOf(parts) \in Nat /\ parts \in Seq(Trees[SizeOf(parts)])
<1>1. parts \in Seq(Tree) /\ Sized(parts)
  BY GrownAreTrees, SizedTrees
<1>2. SizeOf(parts) \in Nat
  BY <1>1, SizeOfSeq
<1>3. ASSUME NEW i \in 1 .. Len(parts)
      PROVE  parts[i] \in Trees[SizeOf(parts)]
  <2>1. parts[i].size <= SizeOf(parts)
    BY <1>1, SizeOfPart
  <2>2. parts[i].size \in Nat /\ parts[i] \in Trees[parts[i].size]
    BY <1>1 DEF Sized, Grown
  <2>3. parts[i].size \in 0 .. SizeOf(parts)
    BY <1>2, <2>1, <2>2
  <2> QED
    BY <1>2, <2>2, <2>3, TreesGrow
<1> QED
  BY <1>2, <1>3

(* A node over parts that are on the stack. *)
LEMMA NodeGrows ==
  ASSUME MaxNodes \in Nat, NEW parts \in Seq(Grown), 1 + SizeOf(parts) <= MaxNodes,
         NEW kind \in Kinds, NEW is \in Marks, NEW ty \in Ty, NEW span \in Spans
  PROVE  Node(kind, is, parts, ty, span) \in Grown
<1> DEFINE n == Node(kind, is, parts, ty, span)
           size == SizeOf(parts)
<1>1. size \in Nat /\ parts \in Seq(Trees[size])
  BY PartsLow
<1>2. n = [kind |-> kind, is |-> is, parts |-> parts, ty |-> ty, span |-> span,
           value |-> <<>>, conversion |-> "None", size |-> 1 + size]
  BY DEF Node
<1>3. <<>> \in Seq(Int) /\ "None" \in Conversions /\ 1 + size \in Nat
  BY <1>1 DEF Conversions
<1>4. n \in NodesOver(Trees[size])
  <2> HIDE DEF n, size
  <2> QED
    BY <1>1, <1>2, <1>3 DEF NodesOver, Spans
<1>5. n.size = size + 1 /\ size + 1 \in 0 .. MaxNodes
  <2>1. n.size = 1 + size
    BY <1>2
  <2> HIDE DEF n, size
  <2> QED
    BY <1>1, <2>1 DEF size
<1> HIDE DEF n, size
<1>6. n \in Trees[n.size]
  BY <1>1, <1>4, <1>5, TreesAre
<1>7. n \in Tree
  BY <1>5, <1>6, TreesGrow DEF Tree
<1> QED
  BY <1>6, <1>7 DEF Grown, n

LEMMA ConstantIs ==
  ASSUME NEW v, NEW ty, NEW span
  PROVE  Constant(v, ty, span) =
           [kind |-> "Constant", is |-> "", parts |-> <<>>, ty |-> ty, span |-> span,
            value |-> <<v>>, conversion |-> "None", size |-> 1]
<1>1. SizeOf(<<>>) = 0
  <2>1. <<>> \in Seq({}) /\ Sized(<<>>)
    BY DEF Sized
  <2> QED
    BY <2>1, SizeOfSeq
<1>0. 1 + SizeOf(<<>>) = 1
  BY <1>1
<1>2. PICK m : m = Node("Constant", "", <<>>, ty, span)
  OBVIOUS
<1>3. m = [kind |-> "Constant", is |-> "", parts |-> <<>>, ty |-> ty, span |-> span,
           value |-> <<>>, conversion |-> "None", size |-> 1]
  BY <1>0, <1>2, Zenon DEF Node
<1>4. PICK n : n = Constant(v, ty, span)
  OBVIOUS
<1>5. n = [m EXCEPT !.value = <<v>>]
  BY <1>2, <1>4 DEF Constant
<1> QED
  BY <1>3, <1>4, <1>5

LEMMA ConstantGrows ==
  ASSUME MaxNodes \in Nat, 1 <= MaxNodes, NEW v \in Int, NEW ty \in Ty, NEW span \in Spans
  PROVE  Constant(v, ty, span) \in Grown
<1> DEFINE n == Node("Constant", "", <<>>, ty, span)
           m == Constant(v, ty, span)
<1>1. n \in Grown
  <2>1. <<>> \in Seq(Grown) /\ "Constant" \in Kinds /\ "" \in Marks
    BY DEF Kinds, Marks
  <2>2. SizeOf(<<>>) = 0
    <3>1. <<>> \in Seq({}) /\ Sized(<<>>)
      BY DEF Sized
    <3> QED
      BY <3>1, SizeOfSeq
  <2>3. 1 + SizeOf(<<>>) <= MaxNodes
    BY <2>2
  <2> QED
    BY <2>1, <2>3, NodeGrows
<1>2. m = [n EXCEPT !.value = <<v>>] /\ m.size = 1 /\ n.size = 1
  <2>1. m = [n EXCEPT !.value = <<v>>]
    BY Zenon DEF Constant
  <2>2. m.size = 1
    BY ConstantIs
  <2>3. n.size = 1 + SizeOf(<<>>)
    BY DEF Node
  <2>4. SizeOf(<<>>) = 0
    <3>1. <<>> \in Seq({}) /\ Sized(<<>>)
      BY DEF Sized
    <3> QED
      BY <3>1, SizeOfSeq
  <2> HIDE DEF n, m
  <2> QED
    BY <2>1, <2>2, <2>3, <2>4
<1>3. Trees[1] = NodesOver(Trees[0])
  BY TreesAre
<1> HIDE DEF n, m
<1>4. n \in NodesOver(Trees[0])
  <2>1. n \in Trees[n.size]
    BY <1>1 DEF Grown
  <2>2. n.size = 1
    BY <1>2
  <2>3. n \in Trees[1]
    BY <2>1, <2>2, Zenon
  <2> QED
    BY <1>3, <2>3, Zenon
<1>5. m \in NodesOver(Trees[0])
  <2> DEFINE seq == <<v>>
  <2>1. seq \in Seq(Int)
    OBVIOUS
  <2>2. m = [n EXCEPT !.value = seq]
    BY <1>2
  <2> HIDE DEF seq
  <2> QED
    BY <1>4, <2>1, <2>2 DEF NodesOver
<1>6. m \in Trees[m.size]
  BY <1>2, <1>3, <1>5
<1>7. m \in Tree
  <2>1. 1 \in 0 .. MaxNodes
    OBVIOUS
  <2> QED
    BY <1>2, <1>6, <2>1, TreesGrow DEF Tree
<1> QED
  BY <1>6, <1>7 DEF Grown, m

-----------------------------------------------------------------------------
(* The same expression with another conversion.                            *)

Converted(m, n) == \E c \in Conversions : m = [n EXCEPT !.conversion = c]

LEMMA ConvertedIs ==
  ASSUME MaxNodes \in Nat, NEW n \in Tree, NEW m, Converted(m, n)
  PROVE  /\ m.kind = n.kind /\ m.is = n.is /\ m.parts = n.parts /\ m.ty = n.ty /\ m.span = n.span
         /\ m.value = n.value /\ m.size = n.size
         /\ m \in Tree
         /\ \A k \in Nat : n \in Trees[k] => m \in Trees[k]
<1>1. PICK c \in Conversions : m = [n EXCEPT !.conversion = c]
  BY DEF Converted
<1>2. n \in NodesOver(Tree)
  BY TreeFields
<1>3. /\ m.kind = n.kind /\ m.is = n.is /\ m.parts = n.parts /\ m.ty = n.ty /\ m.span = n.span
      /\ m.value = n.value /\ m.size = n.size
  BY <1>1, <1>2 DEF NodesOver
<1>4. ASSUME NEW S, n \in NodesOver(S)
      PROVE  m \in NodesOver(S)
  BY <1>1, <1>4 DEF NodesOver
<1>5. \A k \in Nat : n \in Trees[k] => m \in Trees[k]
  <2> SUFFICES ASSUME NEW k \in Nat, n \in Trees[k]
               PROVE  m \in Trees[k]
    OBVIOUS
  <2>1. k # 0
    BY TreesAre
  <2>2. k - 1 \in Nat /\ (k - 1) + 1 = k
    BY <2>1
  <2>3. Trees[k] = NodesOver(Trees[k - 1])
    BY <2>2, TreesAre
  <2> QED
    BY <1>4, <2>3
<1>6. m \in Tree
  BY <1>5 DEF Tree
<1> QED
  BY <1>3, <1>5, <1>6

LEMMA ConvertedGrows ==
  ASSUME MaxNodes \in Nat, NEW n \in Grown, NEW m, Converted(m, n)
  PROVE  m \in Grown
<1>1. n \in Tree /\ n \in Trees[n.size]
  BY DEF Grown
<1>2. n.size \in Nat
  BY <1>1, TreeFields
<1>3. m \in Tree /\ m.size = n.size /\ m \in Trees[n.size]
  BY <1>1, <1>2, ConvertedIs
<1> QED
  BY <1>3 DEF Grown

LEMMA SortOfConverted ==
  ASSUME MaxNodes \in Nat, NEW n \in Tree, NEW m, Converted(m, n)
  PROVE  Sort[m] = Sort[n]
<1> DEFINE of == [i \in DOMAIN n.parts |-> Sort[n.parts[i]]]
<1>1. m.kind = n.kind /\ m.is = n.is /\ m.parts = n.parts /\ m \in Tree
  BY ConvertedIs
<1>2. Sort[n] = SortFrom(n, of)
  BY SortIs
<1>3. Sort[m] = SortFrom(m, of)
  <2>1. Sort[m] = SortFrom(m, [i \in DOMAIN m.parts |-> Sort[m.parts[i]]])
    BY <1>1, SortIs
  <2> QED
    BY <1>1, <2>1
<1> HIDE DEF of
<1>4. SortFrom(m, of) = SortFrom(n, of)
  BY <1>1, Zenon DEF SortFrom
<1> QED
  BY <1>2, <1>3, <1>4

LEMMA RecordedIs ==
  ASSUME MaxNodes \in Nat, NEW n \in Tree, NEW expected
  PROVE  Converted(record_promotion(n), n) /\ Converted(carry_into(n, expected), n)
<1>1. Converted(n, n)
  <2>1. n.conversion \in Conversions /\ n \in NodesOver(Tree)
    BY TreeFields
  <2>2. n = [n EXCEPT !.conversion = n.conversion]
    BY <2>1 DEF NodesOver
  <2> QED
    BY <2>1, <2>2 DEF Converted
<1>2. Converted(record_promotion(n), n)
  <2>1. "PromoteCharToInt" \in Conversions
    BY DEF Conversions
  <2> QED
    BY <1>1, <2>1 DEF record_promotion, Converted
<1>3. Converted(carry_into(n, expected), n)
  <2> DEFINE c == assignability(expected, n.ty)
  <2>1. c \in Conversions \cup {"Exact", "Incompatible"}
    BY DEF assignability, Conversions
  <2> HIDE DEF c
  <2>2. c \notin {"Exact", "Incompatible"} => Converted([n EXCEPT !.conversion = c], n)
    BY <2>1 DEF Converted
  <2> QED
    BY <1>1, <2>2 DEF carry_into, c
<1> QED
  BY <1>2, <1>3

-----------------------------------------------------------------------------
(* Types and sorts.                                                        *)

ValueTypes == Objects \cup {TyVoid}

LEMMA ScalarsDiffer ==
  /\ TyInt.shape = "scalar" /\ TyChar.shape = "scalar" /\ TyVoid.shape = "scalar"
  /\ TyError.shape = "scalar"
  /\ TyInt.base = "int" /\ TyChar.base = "char" /\ TyVoid.base = "void" /\ TyError.base = "error"
  /\ TyInt # TyChar /\ TyInt # TyVoid /\ TyChar # TyVoid
  /\ TyError # TyInt /\ TyError # TyChar /\ TyError # TyVoid
<1>1. /\ TyInt.shape = "scalar" /\ TyChar.shape = "scalar" /\ TyVoid.shape = "scalar"
      /\ TyError.shape = "scalar"
      /\ TyInt.base = "int" /\ TyChar.base = "char" /\ TyVoid.base = "void" /\ TyError.base = "error"
  BY DEF TyInt, TyChar, TyVoid, TyError, Scalar
<1> QED
  BY <1>1

LEMMA PtrIs ==
  ASSUME NEW b
  PROVE  Ptr(b).shape = "ptr" /\ Ptr(b).base = b
BY DEF Ptr

LEMMA ObjectIs ==
  ASSUME NEW t \in ValueTypes
  PROVE  /\ t.shape \in {"scalar", "ptr", "array"}
         /\ t.shape = "scalar" => t \in {TyInt, TyChar, TyVoid}
         /\ t.shape = "ptr" => t.base \in Bases /\ t = Ptr(t.base)
         /\ t.shape = "array" => t.base \in Bases /\ t.len \in Nat
         /\ t # TyError
<1>1. CASE t \in {TyInt, TyChar, TyVoid}
  BY <1>1, ScalarsDiffer
<1>2. CASE t \in {Ptr(base) : base \in Bases}
  <2>1. PICK b \in Bases : t = Ptr(b)
    BY <1>2
  <2>2. t.shape = "ptr" /\ t.base = b
    BY <2>1, PtrIs
  <2> QED
    BY <2>1, <2>2, ScalarsDiffer
<1>3. CASE t \in [shape : {"array"}, base : Bases, len : Nat]
  <2>1. t.shape = "array" /\ t.base \in Bases /\ t.len \in Nat
    BY <1>3
  <2> QED
    BY <2>1, ScalarsDiffer
<1> QED
  BY <1>1, <1>2, <1>3 DEF ValueTypes, Objects, Passed

LEMMA FunctionIs ==
  ASSUME NEW t \in Functions
  PROVE  /\ t.shape = "func" /\ t.params \in Seq(Passed) /\ t.ret \in {TyInt, TyChar, TyVoid}
         /\ t \notin ValueTypes /\ t # TyError
<1>1. /\ t.shape = "func" /\ t.params \in Seq(Passed) /\ t.ret \in {TyInt, TyChar, TyVoid}
  BY DEF Functions
<1>2. \A u \in ValueTypes : u.shape # "func"
  BY ObjectIs
<1> QED
  BY <1>1, <1>2, ScalarsDiffer

LEMMA SortsDiffer ==
  /\ Number.is = "number" /\ Function.is = "function" /\ Void.is = "void" /\ Wrong.is = "wrong"
  /\ \A b : PointerTo(b).is = "pointer" /\ PointerTo(b).of = b
  /\ \A b : ArrayOf(b).is = "array" /\ ArrayOf(b).of = b
BY DEF Number, Function, Void, Wrong, PointerTo, ArrayOf, ASort

LEMMA TestableIs ==
  /\ Number \in Testable
  /\ \A b \in Bases : PointerTo(b) \in Testable
  /\ \A s \in Testable : s.is \in {"number", "pointer"}
  /\ \A s \in Pointers : s.is = "pointer"
  /\ \A s \in Arrays : s.is = "array"
BY SortsDiffer DEF Testable, Pointers, Arrays

LEMMA SortOfIs ==
  ASSUME NEW t \in ValueTypes
  PROVE  /\ t \in {TyInt, TyChar} => SortOf(t) = Number
         /\ t.shape = "ptr" => SortOf(t) = PointerTo(t.base)
         /\ t.shape = "array" => SortOf(t) = ArrayOf(t.base)
         /\ t = TyVoid => SortOf(t) = Void
<1>1. t \in {TyInt, TyChar} => SortOf(t) = Number
  BY ScalarsDiffer DEF SortOf
<1>2. t.shape = "ptr" => SortOf(t) = PointerTo(t.base)
  BY ScalarsDiffer DEF SortOf
<1>3. t.shape = "array" => SortOf(t) = ArrayOf(t.base)
  BY ScalarsDiffer DEF SortOf
<1>4. t = TyVoid => SortOf(t) = Void
  BY ScalarsDiffer DEF SortOf
<1> QED
  BY <1>1, <1>2, <1>3, <1>4

LEMMA SortOfFunction ==
  ASSUME NEW t \in Functions
  PROVE  SortOf(t) = Function
BY FunctionIs, ScalarsDiffer DEF SortOf

(* The four forms a value's type and its sort may take together. *)
LEMMA ValueForms ==
  ASSUME NEW t \in ValueTypes
  PROVE  \/ t \in {TyInt, TyChar} /\ t.shape = "scalar" /\ SortOf(t) = Number
         \/ t.shape = "ptr" /\ t.base \in Bases /\ t = Ptr(t.base) /\ SortOf(t) = PointerTo(t.base)
         \/ t.shape = "array" /\ t.base \in Bases /\ SortOf(t) = ArrayOf(t.base)
         \/ t = TyVoid /\ t.shape = "scalar" /\ SortOf(t) = Void
BY ObjectIs, SortOfIs, ScalarsDiffer

LEMMA SortTells ==
  ASSUME NEW t \in ValueTypes
  PROVE  /\ is_arithmetic(t) \in BOOLEAN /\ is_scalar(t) \in BOOLEAN
         /\ is_arithmetic(t) <=> SortOf(t) = Number
         /\ is_arithmetic(t) <=> t \in {TyInt, TyChar}
         /\ is_scalar(t) <=> SortOf(t) \in Testable
         /\ SortOf(t) \in Pointers \cup Arrays <=> t.shape \in {"array", "ptr"}
         /\ SortOf(t) # Function /\ SortOf(t) # Wrong
<1>0. is_arithmetic(t) \in BOOLEAN /\ is_scalar(t) \in BOOLEAN
  BY DEF is_arithmetic, is_scalar
<1>1. t # TyError
  BY ObjectIs
<1>2. CASE t \in {TyInt, TyChar} /\ t.shape = "scalar" /\ SortOf(t) = Number
  BY <1>1, <1>2, SortsDiffer, TestableIs DEF is_arithmetic, is_scalar
<1>3. CASE t.shape = "ptr" /\ t.base \in Bases /\ t = Ptr(t.base) /\ SortOf(t) = PointerTo(t.base)
  <2>1. ~is_arithmetic(t) /\ is_scalar(t) /\ t \notin {TyInt, TyChar}
    BY <1>1, <1>3, ScalarsDiffer DEF is_arithmetic, is_scalar
  <2>2. SortOf(t) \in Pointers /\ SortOf(t) \in Testable /\ SortOf(t).is = "pointer"
    BY <1>3, SortsDiffer, TestableIs DEF Pointers
  <2>3. SortOf(t) # Number /\ SortOf(t) # Function /\ SortOf(t) # Wrong
    BY <2>2, SortsDiffer
  <2> QED
    BY <1>0, <1>3, <2>1, <2>2, <2>3
<1>4. CASE t.shape = "array" /\ t.base \in Bases /\ SortOf(t) = ArrayOf(t.base)
  <2>1. ~is_arithmetic(t) /\ ~is_scalar(t) /\ t \notin {TyInt, TyChar}
    BY <1>1, <1>4, ScalarsDiffer DEF is_arithmetic, is_scalar
  <2>2. SortOf(t) \in Arrays /\ SortOf(t).is = "array" /\ SortOf(t) \notin Testable
    BY <1>4, SortsDiffer, TestableIs DEF Arrays
  <2>3. SortOf(t) # Number /\ SortOf(t) # Function /\ SortOf(t) # Wrong
    BY <2>2, SortsDiffer
  <2> QED
    BY <1>0, <1>4, <2>1, <2>2, <2>3
<1>5. CASE t = TyVoid /\ t.shape = "scalar" /\ SortOf(t) = Void
  <2>1. ~is_arithmetic(t) /\ ~is_scalar(t) /\ t \notin {TyInt, TyChar}
    BY <1>5, ScalarsDiffer DEF is_arithmetic, is_scalar
  <2>2. SortOf(t).is = "void" /\ SortOf(t) \notin Testable /\ SortOf(t) \notin Pointers \cup Arrays
    BY <1>5, SortsDiffer, TestableIs
  <2>3. SortOf(t) # Number /\ SortOf(t) # Function /\ SortOf(t) # Wrong
    BY <2>2, SortsDiffer
  <2> QED
    BY <1>0, <1>5, <2>1, <2>2, <2>3
<1> QED
  BY <1>2, <1>3, <1>4, <1>5, ValueForms

(* A value may be stored, passed or returned exactly if its sort fits. *)
LEMMA AssignsAsItFits ==
  ASSUME NEW t \in ValueTypes, NEW expected \in Passed
  PROVE  assignability(expected, t) = "Incompatible" <=> ~Fits(SortOf(t), SortOf(expected))
<1>1. expected \in ValueTypes /\ expected.shape \in {"scalar", "ptr"} /\ expected # TyVoid
      /\ expected # TyError /\ t # TyError
  <2>1. expected \in ValueTypes
    BY DEF ValueTypes, Objects
  <2>2. expected.shape \in {"scalar", "ptr"} /\ expected # TyVoid
    BY ScalarsDiffer, PtrIs DEF Passed
  <2> QED
    BY <2>1, <2>2, ObjectIs
<1>2. assignability(expected, t) = "Incompatible" <=>
        /\ ~(expected = t /\ (expected \in {TyInt, TyChar} \/ expected.shape = "ptr"))
        /\ ~(expected = TyInt /\ t = TyChar)
        /\ ~(expected = TyChar /\ t = TyInt)
        /\ ~(expected.shape = "ptr" /\ t.shape = "array" /\ expected.base = t.base)
  BY <1>1 DEF assignability
<1>3. Fits(SortOf(t), SortOf(expected)) <=>
        \/ SortOf(t) = SortOf(expected) /\ SortOf(t) \in Testable
        \/ \E b \in Bases : SortOf(t) = ArrayOf(b) /\ SortOf(expected) = PointerTo(b)
  BY DEF Fits
<1>4. CASE expected \in {TyInt, TyChar}
  <2>1. SortOf(expected) = Number /\ expected.shape = "scalar"
    BY <1>1, <1>4, SortOfIs, ScalarsDiffer
  <2>2. Fits(SortOf(t), SortOf(expected)) <=> SortOf(t) = Number
    BY <1>3, <2>1, SortsDiffer, TestableIs
  <2>3. assignability(expected, t) = "Incompatible" <=> t \notin {TyInt, TyChar}
    BY <1>2, <1>4, <2>1
  <2> QED
    BY <2>2, <2>3, SortTells
<1>5. CASE expected \notin {TyInt, TyChar}
  <2>1. expected.shape = "ptr" /\ expected.base \in Bases /\ expected = Ptr(expected.base)
        /\ SortOf(expected) = PointerTo(expected.base)
    BY <1>1, <1>5, ValueForms
  <2>2. CASE t \in {TyInt, TyChar} /\ t.shape = "scalar" /\ SortOf(t) = Number
    <3>1. ~Fits(SortOf(t), SortOf(expected))
      BY <1>3, <2>1, <2>2, SortsDiffer
    <3> QED
      BY <1>2, <1>5, <2>1, <2>2, <3>1, ScalarsDiffer
  <2>3. CASE t.shape = "ptr" /\ t.base \in Bases /\ t = Ptr(t.base) /\ SortOf(t) = PointerTo(t.base)
    <3>1. SortOf(t) = SortOf(expected) <=> t.base = expected.base
      BY <2>1, <2>3, SortsDiffer
    <3>2. SortOf(t) \in Testable /\ ~\E b \in Bases : SortOf(t) = ArrayOf(b)
      BY <2>3, SortsDiffer, TestableIs
    <3>3. t = expected <=> t.base = expected.base
      BY <2>1, <2>3
    <3>4. assignability(expected, t) = "Incompatible" <=> t # expected
      BY <1>2, <1>5, <2>1, <2>3, ScalarsDiffer
    <3> QED
      BY <1>3, <3>1, <3>2, <3>3, <3>4
  <2>4. CASE t.shape = "array" /\ t.base \in Bases /\ SortOf(t) = ArrayOf(t.base)
    <3>1. SortOf(t) \notin Testable
      BY <2>4, SortsDiffer, TestableIs
    <3>2. (\E b \in Bases : SortOf(t) = ArrayOf(b) /\ SortOf(expected) = PointerTo(b))
            <=> t.base = expected.base
      BY <2>1, <2>4, SortsDiffer
    <3>3. assignability(expected, t) = "Incompatible" <=> t.base # expected.base
      BY <1>2, <1>5, <2>1, <2>4, ScalarsDiffer
    <3> QED
      BY <1>3, <3>1, <3>2, <3>3
  <2>5. CASE t = TyVoid /\ t.shape = "scalar" /\ SortOf(t) = Void
    <3>1. ~Fits(SortOf(t), SortOf(expected))
      BY <1>3, <2>5, SortsDiffer, TestableIs
    <3> QED
      BY <1>2, <1>5, <2>1, <2>5, <3>1, ScalarsDiffer
  <2> QED
    BY <2>2, <2>3, <2>4, <2>5, ValueForms
<1> QED
  BY <1>4, <1>5

(* A value that may go somewhere arrives with the type of the place. *)
LEMMA ArrivesAsExpected ==
  ASSUME MaxNodes \in Nat, NEW n \in Tree, n.conversion = "None", n.ty # TyError,
         NEW expected \in Passed, assignability(expected, n.ty) # "Incompatible"
  PROVE  LET m == carry_into(n, expected) IN Received(m.ty, m.conversion) = expected
<1> DEFINE m == carry_into(n, expected)
           t == n.ty
           c == assignability(expected, t)
<1>1. expected # TyError /\ (expected \in {TyInt, TyChar} \/ expected.shape = "ptr")
      /\ (expected.shape = "ptr" => expected = Ptr(expected.base))
  BY ScalarsDiffer, PtrIs DEF Passed
<1>2. \/ c = "Exact" /\ expected = t
      \/ c = "PromoteCharToInt" /\ expected = TyInt
      \/ c = "TruncateIntToChar" /\ expected = TyChar
      \/ c = "DecayArrayToPtr" /\ expected = Ptr(t.base)
  <2>1. \/ c = "Exact" /\ expected = t
        \/ c = "PromoteCharToInt" /\ expected = TyInt
        \/ c = "TruncateIntToChar" /\ expected = TyChar
        \/ c = "DecayArrayToPtr" /\ expected.shape = "ptr" /\ expected.base = t.base
    BY <1>1 DEF assignability
  <2> HIDE DEF c, t
  <2> QED
    BY <1>1, <2>1
<1>3. m = IF c = "Exact" THEN n ELSE [n EXCEPT !.conversion = c]
  BY DEF carry_into
<1>4. m.ty = t /\ m.conversion = IF c = "Exact" THEN "None" ELSE c
  <2>1. n \in NodesOver(Tree)
    BY TreeFields
  <2> HIDE DEF m, c
  <2> QED
    BY <1>3, <2>1 DEF NodesOver
<1> HIDE DEF m, c, t
<1>5. Received(m.ty, m.conversion) = expected
  BY <1>2, <1>4 DEF Received
<1> QED
  BY <1>5 DEF m

-----------------------------------------------------------------------------
(* What is known of an expression on the stack.                            *)

(* A callee that is not declared has been reported; one that is not a      *)
(* function is reported when it is called.                                 *)
Right(n) == IF n.kind = "Callee" THEN n.is \in DOMAIN Declared ELSE Sort[n] # Wrong

(* Its type is that of its sort, if it has one, and only a constant folds. *)
Accurate(n) ==
  /\ n.conversion = "None"
  /\ n.kind = "Callee" => n.ty = IF n.is \in DOMAIN Declared THEN Declared[n.is] ELSE TyError
  /\ n.kind # "Callee" /\ Sort[n] # Wrong => n.ty \in ValueTypes /\ SortOf(n.ty) = Sort[n]
  /\ n.kind = "StrLit" => n.ty.shape = "array" /\ n.ty.base = "char"
  /\ n.value = <<>> \/ (n.kind = "Constant" /\ \E v \in Ints : n.value = <<v>>)

Consistent(n) == \A m \in Inside[n] : PartsMeetTheirUse(m)

(* What a step does with the expressions it takes from the stack.          *)
Builds(ops, node, found) ==
  /\ node \in Grown /\ node.size <= 1 + SizeOf(ops)
  /\ Accurate(node)
  /\ found \in Seq(Reports)
  /\ Right(node) <=> found = <<>> /\ \A i \in DOMAIN ops : Right(ops[i])
  /\ Right(node) /\ (\A i \in DOMAIN ops : Consistent(ops[i])) => Consistent(node)

LEMMA ConsistentNode ==
  ASSUME MaxNodes \in Nat, NEW n \in Tree, PartsMeetTheirUse(n),
         \A i \in DOMAIN n.parts : Consistent(n.parts[i])
  PROVE  Consistent(n)
<1>1. Inside[n] = {n} \cup UNION {Inside[n.parts[i]] : i \in DOMAIN n.parts}
  BY InsideIs
<1>2. ASSUME NEW m \in Inside[n]
      PROVE  PartsMeetTheirUse(m)
  <2>1. CASE m = n
    BY <2>1
  <2>2. CASE m # n
    <3>1. PICK i \in DOMAIN n.parts : m \in Inside[n.parts[i]]
      BY <1>1, <2>2
    <3> QED
      BY <3>1 DEF Consistent
  <2> QED
    BY <2>1, <2>2
<1> QED
  BY <1>2 DEF Consistent

LEMMA ConsistentConverted ==
  ASSUME MaxNodes \in Nat, NEW n \in Tree, NEW m, Converted(m, n), Consistent(n)
  PROVE  Consistent(m)
<1>1. m.kind = n.kind /\ m.is = n.is /\ m.parts = n.parts /\ m.ty = n.ty /\ m \in Tree
  BY ConvertedIs
<1>2. Inside[n] = {n} \cup UNION {Inside[n.parts[i]] : i \in DOMAIN n.parts}
  BY InsideIs
<1>3. PartsMeetTheirUse(m)
  <2>1. PartsMeetTheirUse(n)
    BY <1>2 DEF Consistent
  <2>2. PartsMeetTheirUse(n) = PartsMeetTheirUse(m)
    BY <1>1, Zenon DEF PartsMeetTheirUse
  <2> QED
    BY <2>1, <2>2
<1>4. \A i \in DOMAIN m.parts : Consistent(m.parts[i])
  BY <1>1, <1>2 DEF Consistent
<1> QED
  BY <1>1, <1>3, <1>4, ConsistentNode

(* An expression without parts. *)
LEMMA LeafConsistent ==
  ASSUME MaxNodes \in Nat, NEW n \in Tree, n.parts = <<>>,
         n.kind \in {"Constant", "StrLit", "Ident", "Callee"}
  PROVE  Consistent(n)
<1>1. PartsMeetTheirUse(n)
  BY DEF PartsMeetTheirUse
<1>2. \A i \in DOMAIN n.parts : Consistent(n.parts[i])
  OBVIOUS
<1> QED
  BY <1>1, <1>2, ConsistentNode

-----------------------------------------------------------------------------
(* The sort of each kind of expression.                                    *)

LEMMA LeafSort ==
  ASSUME MaxNodes \in Nat, NEW n \in Tree
  PROVE  /\ n.kind = "Constant" => Sort[n] = Number
         /\ n.kind = "StrLit" => Sort[n] = ArrayOf("char")
         /\ n.kind = "Ident" => Sort[n] = IF Means(n.is, Testable \cup Arrays) THEN SortOf(Declared[n.is]) ELSE Wrong
         /\ n.kind = "Callee" => Sort[n] = Provided(Means(n.is, {Function}), Function)
<1> DEFINE of == [i \in DOMAIN n.parts |-> Sort[n.parts[i]]]
<1>1. Sort[n] = SortFrom(n, of)
  BY SortIs
<1> HIDE DEF of
<1> QED
  BY <1>1 DEF SortFrom

LEMMA UnarySort ==
  ASSUME MaxNodes \in Nat, NEW n \in Tree, NEW p, n.parts = <<p>>
  PROVE  /\ n.kind = "Unary" /\ n.is = "Not" => Sort[n] = Provided(Sort[p] \in Testable, Number)
         /\ n.kind = "Unary" /\ n.is # "Not" => Sort[n] = Provided(Sort[p] = Number, Number)
         /\ n.kind = "Postfix" => Sort[n] = Provided(Sort[p] = Number, Number)
<1> DEFINE of == [i \in DOMAIN n.parts |-> Sort[n.parts[i]]]
<1>1. Sort[n] = SortFrom(n, of)
  BY SortIs
<1>2. DOMAIN of = {1} /\ of[1] = Sort[p]
  OBVIOUS
<1> HIDE DEF of
<1>3. (\A i \in DOMAIN of : of[i] = Number) <=> Sort[p] = Number
  BY <1>2
<1> QED
  BY <1>1, <1>2, <1>3 DEF SortFrom, Provided

LEMMA BinarySort ==
  ASSUME MaxNodes \in Nat, NEW n \in Tree, NEW p, NEW q, n.parts = <<p, q>>
  PROVE  /\ n.kind = "Binary" /\ n.is \in Logical =>
              Sort[n] = Provided(Sort[p] \in Testable /\ Sort[q] \in Testable, Number)
         /\ n.kind = "Binary" /\ n.is \notin Logical =>
              Sort[n] = Provided(Sort[p] = Number /\ Sort[q] = Number, Number)
         /\ n.kind = "Assign" => Sort[n] = Provided(Sort[p] \in Testable /\ Fits(Sort[q], Sort[p]), Sort[p])
         /\ n.kind = "Index" =>
              Sort[n] = Provided(Sort[p] \in Pointers \cup Arrays /\ Sort[q] = Number, Number)
<1> DEFINE of == [i \in DOMAIN n.parts |-> Sort[n.parts[i]]]
<1>1. Sort[n] = SortFrom(n, of)
  BY SortIs
<1>2. DOMAIN of = {1, 2} /\ of[1] = Sort[p] /\ of[2] = Sort[q]
  OBVIOUS
<1> HIDE DEF of
<1>3. (\A i \in DOMAIN of : of[i] = Number) <=> Sort[p] = Number /\ Sort[q] = Number
  BY <1>2
<1>4. {of[1], of[2]} \subseteq Testable <=> Sort[p] \in Testable /\ Sort[q] \in Testable
  BY <1>2
<1>5. n.kind = "Binary" /\ n.is \in Logical =>
        Sort[n] = Provided(Sort[p] \in Testable /\ Sort[q] \in Testable, Number)
  BY <1>1, <1>4 DEF SortFrom, Provided
<1>6. n.kind = "Binary" /\ n.is \notin Logical =>
        Sort[n] = Provided(Sort[p] = Number /\ Sort[q] = Number, Number)
  BY <1>1, <1>3 DEF SortFrom, Provided
<1>7. n.kind = "Assign" => Sort[n] = Provided(Sort[p] \in Testable /\ Fits(Sort[q], Sort[p]), Sort[p])
  BY <1>1, <1>2 DEF SortFrom, Provided
<1>8. n.kind = "Index" => Sort[n] = Provided(Sort[p] \in Pointers \cup Arrays /\ Sort[q] = Number, Number)
  BY <1>1, <1>2 DEF SortFrom, Provided
<1> QED
  BY <1>5, <1>6, <1>7, <1>8

(* What Right and Accurate say of a value, which is no callee. *)
LEMMA RightValue ==
  ASSUME NEW n, n.kind # "Callee", Accurate(n), Right(n)
  PROVE  n.ty \in ValueTypes /\ SortOf(n.ty) = Sort[n] /\ Sort[n] # Wrong /\ n.ty # TyError
<1>1. n.ty \in ValueTypes /\ SortOf(n.ty) = Sort[n] /\ Sort[n] # Wrong
  BY DEF Accurate, Right
<1> QED
  BY <1>1, ObjectIs

LEMMA WrongValue ==
  ASSUME NEW n, n.kind # "Callee", ~Right(n)
  PROVE  Sort[n] = Wrong
BY DEF Right

-----------------------------------------------------------------------------
(* Literals and names.                                                     *)

LEMMA EmptySize == SizeOf(<<>>) = 0
<1>1. <<>> \in Seq({}) /\ Sized(<<>>)
  BY DEF Sized
<1> QED
  BY <1>1, SizeOfSeq

LEMMA TyHas ==
  /\ TyInt \in Ty /\ TyChar \in Ty /\ TyVoid \in Ty /\ TyError \in Ty
  /\ ValueTypes \subseteq Ty /\ Functions \subseteq Ty
  /\ TyInt \in ValueTypes /\ TyChar \in ValueTypes /\ TyInt \in Passed /\ TyChar \in Passed
  /\ Passed \subseteq ValueTypes /\ Passed \subseteq Ty
BY DEF Ty, ValueTypes, Objects, Passed

IsConstant(n, v, ty, span)   == n = Constant(v, ty, span)
IsLeaf(n, kind, is, ty, span) == n = Node(kind, is, <<>>, ty, span)
IsLiteral(n, span) ==
  n \in {Constant(v, TyInt, span) : v \in {0, 1, IntMax}}
          \cup {Constant(v, TyChar, span) : v \in Letters}
          \cup {Node("StrLit", "", <<>>, Array("char", k + 1), span) : k \in Texts}

LEMMA ConstantBuilds ==
  ASSUME MaxNodes \in Nat, 1 <= MaxNodes, IntMax \in Nat, NEW v \in Ints, NEW ty \in {TyInt, TyChar},
         NEW span \in Spans, NEW n, IsConstant(n, v, ty, span)
  PROVE  /\ n \in Grown /\ n.size = 1 /\ Accurate(n) /\ Right(n) /\ Consistent(n)
<1>0. v \in Int
  BY DEF Ints, IntMin
<1>1. n = [kind |-> "Constant", is |-> "", parts |-> <<>>, ty |-> ty, span |-> span,
           value |-> <<v>>, conversion |-> "None", size |-> 1]
  BY ConstantIs, Zenon DEF IsConstant
<1>2. n.kind = "Constant" /\ n.parts = <<>> /\ n.ty = ty /\ n.value = <<v>> /\ n.conversion = "None"
      /\ n.size = 1
  <2> DEFINE seq == <<v>>
  <2>1. n = [kind |-> "Constant", is |-> "", parts |-> <<>>, ty |-> ty, span |-> span,
             value |-> seq, conversion |-> "None", size |-> 1]
    BY <1>1
  <2> HIDE DEF seq
  <2>2. n.kind = "Constant" /\ n.conversion = "None"
    BY <2>1
  <2>3. n.parts = <<>> /\ n.ty = ty /\ n.value = seq
    BY <2>1
  <2>4. n.size = 1
    BY <2>1
  <2> QED
    BY <2>2, <2>3, <2>4 DEF seq
<1>3. n \in Grown
  BY <1>0, TyHas, ConstantGrows DEF IsConstant
<1>4. n \in Tree
  BY <1>3 DEF Grown
<1>5. Sort[n] = Number
  BY <1>2, <1>4, LeafSort
<1>6. SortOf(ty) = Number /\ ty \in ValueTypes
  BY SortOfIs, TyHas
<1>7. Accurate(n)
  BY <1>2, <1>5, <1>6 DEF Accurate
<1>8. Number # Wrong
  BY SortsDiffer
<1>9. Right(n)
  BY <1>2, <1>5, <1>8 DEF Right
<1>10. Consistent(n)
  BY <1>2, <1>4, LeafConsistent
<1> QED
  BY <1>2, <1>3, <1>7, <1>9, <1>10

LEMMA TextGrows ==
  ASSUME MaxNodes \in Nat, 1 <= MaxNodes, NEW kind \in {"StrLit", "Ident", "Callee"}, NEW is \in Marks,
         NEW ty \in Ty, NEW span \in Spans, NEW n, IsLeaf(n, kind, is, ty, span)
  PROVE  /\ n \in Grown /\ n \in Tree /\ n.size = 1 /\ n.kind = kind /\ n.is = is /\ n.parts = <<>>
         /\ n.ty = ty /\ n.value = <<>> /\ n.conversion = "None" /\ Consistent(n)
<1>1. n \in Grown
  <2>1. <<>> \in Seq(Grown) /\ kind \in Kinds /\ 1 + SizeOf(<<>>) <= MaxNodes
    BY EmptySize DEF Kinds
  <2> QED
    BY <2>1, NodeGrows DEF IsLeaf
<1>2. n \in Tree
  BY <1>1 DEF Grown
<1>3. n = [kind |-> kind, is |-> is, parts |-> <<>>, ty |-> ty, span |-> span,
           value |-> <<>>, conversion |-> "None", size |-> 1]
  <2>1. 1 + SizeOf(<<>>) = 1
    BY EmptySize
  <2> QED
    BY <2>1, Zenon DEF Node, IsLeaf
<1>4. /\ n.size = 1 /\ n.kind = kind /\ n.is = is /\ n.parts = <<>>
      /\ n.ty = ty /\ n.value = <<>> /\ n.conversion = "None"
  BY <1>3
<1>5. Consistent(n)
  BY <1>2, <1>4, LeafConsistent
<1> QED
  BY <1>1, <1>2, <1>4, <1>5

LEMMA LeafBuilds ==
  ASSUME NEW n \in Grown, n.size = 1, Accurate(n), Consistent(n), NEW found \in Seq(Reports),
         Right(n) <=> found = <<>>
  PROVE  Builds(<<>>, n, found)
<1>1. n.size <= 1 + SizeOf(<<>>)
  BY EmptySize
<1> QED
  BY <1>1 DEF Builds

LEMMA LiteralBuilds ==
  ASSUME 1 <= MaxNodes, NEW span \in Spans, NEW n,
         IsLiteral(n, span)
  PROVE  Builds(<<>>, n, <<>>)
<1>1. MaxNodes \in Nat /\ IntMax \in Nat \ {0} /\ Letters \subseteq 0 .. IntMax /\ Texts \subseteq Nat
  BY TypeCheckerAssumption
<1>2. {0, 1, IntMax} \subseteq Ints /\ 0 .. IntMax \subseteq Ints
  <2>1. -IntMax - 1 <= 0 /\ 1 <= IntMax /\ IntMax \in Int
    BY <1>1
  <2>2. \A i \in 0 .. IntMax : i \in Ints
    BY <1>1, <2>1 DEF Ints, IntMin
  <2>3. 0 \in 0 .. IntMax /\ 1 \in 0 .. IntMax /\ IntMax \in 0 .. IntMax
    BY <1>1, <2>1
  <2> QED
    BY <2>2, <2>3
<1>3. <<>> \in Seq(Reports)
  OBVIOUS
<1>4. ASSUME n \in {Constant(v, TyInt, span) : v \in {0, 1, IntMax}}
      PROVE  Builds(<<>>, n, <<>>)
  <2>1. PICK v \in {0, 1, IntMax} : IsConstant(n, v, TyInt, span)
    BY <1>4, Zenon DEF IsConstant
  <2>2. v \in Ints /\ TyInt \in {TyInt, TyChar}
    BY <1>2
  <2>3. /\ n \in Grown /\ n.size = 1 /\ Accurate(n) /\ Right(n) /\ Consistent(n)
    BY <1>1, <2>1, <2>2, ConstantBuilds
  <2> QED
    BY <1>3, <2>3, LeafBuilds
<1>5. ASSUME n \in {Constant(v, TyChar, span) : v \in Letters}
      PROVE  Builds(<<>>, n, <<>>)
  <2>1. PICK v \in Letters : IsConstant(n, v, TyChar, span)
    BY <1>5, Zenon DEF IsConstant
  <2>2. v \in Ints /\ TyChar \in {TyInt, TyChar}
    BY <1>1, <1>2
  <2>3. /\ n \in Grown /\ n.size = 1 /\ Accurate(n) /\ Right(n) /\ Consistent(n)
    BY <1>1, <2>1, <2>2, ConstantBuilds
  <2> QED
    BY <1>3, <2>3, LeafBuilds
<1>6. ASSUME n \in {Node("StrLit", "", <<>>, Array("char", k + 1), span) : k \in Texts}
      PROVE  Builds(<<>>, n, <<>>)
  <2>1. PICK k \in Texts : IsLeaf(n, "StrLit", "", Array("char", k + 1), span)
    BY <1>6, Zenon DEF IsLeaf
  <2> DEFINE ty == Array("char", k + 1)
  <2>2. ty.shape = "array" /\ ty.base = "char" /\ ty \in ValueTypes /\ ty \in Ty
    <3>1. k + 1 \in Nat
      <4>1. k \in Nat
        BY <1>1
      <4> QED
        BY <4>1
    <3>2. ty \in [shape : {"array"}, base : Bases, len : Nat]
      BY <3>1 DEF Array, Bases
    <3>3. ty.shape = "array" /\ ty.base = "char"
      BY DEF Array
    <3> HIDE DEF ty
    <3> QED
      BY <3>2, <3>3 DEF ValueTypes, Objects, Ty
  <2> HIDE DEF ty
  <2>3. PICK is \in Marks : IsLeaf(n, "StrLit", is, ty, span)
    <3>1. IsLeaf(n, "StrLit", "", ty, span)
      BY <2>1, Zenon DEF ty
    <3>2. "" \in Marks
      BY DEF Marks
    <3> QED
      BY <3>1, <3>2, Zenon
  <2>4. /\ n \in Grown /\ n \in Tree /\ n.size = 1 /\ n.kind = "StrLit" /\ n.ty = ty /\ n.value = <<>>
        /\ n.conversion = "None" /\ Consistent(n)
    <3>1. ty \in Ty
      BY <2>2
    <3>2. MaxNodes \in Nat
      BY <1>1
    <3> QED
      BY <2>3, <3>1, <3>2, TextGrows
  <2>5. Sort[n] = ArrayOf("char") /\ SortOf(ty) = ArrayOf("char") /\ ArrayOf("char") # Wrong
    <3>1. Sort[n] = ArrayOf("char")
      BY <1>1, <2>4, LeafSort
    <3>2. SortOf(ty) = ArrayOf("char")
      BY <2>2, SortOfIs
    <3> QED
      BY <3>1, <3>2, SortsDiffer
  <2>6. Accurate(n)
    BY <2>2, <2>4, <2>5 DEF Accurate
  <2>7. Right(n)
    BY <2>4, <2>5 DEF Right
  <2> QED
    BY <1>3, <2>4, <2>6, <2>7, LeafBuilds
<1> QED
  BY <1>4, <1>5, <1>6, Zenon DEF IsLiteral

LEMMA DeclaredIs ==
  ASSUME NEW name \in DOMAIN Declared
  PROVE  /\ Declared[name] \in Objects \cup Functions /\ Declared[name] \in Ty
         /\ Declared[name].shape = "func" <=> Declared[name] \in Functions
         /\ Declared[name] \in Objects => Declared[name] \in ValueTypes
                                          /\ SortOf(Declared[name]) \in Testable \cup Arrays
         /\ Declared[name] \in Functions => SortOf(Declared[name]) = Function
<1> DEFINE t == Declared[name]
<1>1. t \in Objects \cup Functions
  BY TypeCheckerAssumption
<1> HIDE DEF t
<1>2. CASE t \in Objects
  <2>1. t \in ValueTypes /\ t # TyVoid
    <3>1. t \in ValueTypes
      BY <1>2 DEF ValueTypes
    <3>2. t # TyVoid
      BY <1>2, ScalarsDiffer, PtrIs DEF Objects, Passed
    <3> QED
      BY <3>1, <3>2
  <2>2. t.shape # "func" /\ t \notin Functions
    BY <2>1, ObjectIs, FunctionIs
  <2>3. SortOf(t) \in Testable \cup Arrays
    BY <2>1, ValueForms, TestableIs DEF Arrays
  <2> QED
    BY <1>1, <1>2, <2>1, <2>2, <2>3, TyHas DEF t
<1>3. CASE t \in Functions
  <2>1. t.shape = "func" /\ t \notin Objects /\ SortOf(t) = Function
    BY <1>3, FunctionIs, SortOfFunction DEF ValueTypes
  <2> QED
    BY <1>1, <1>3, <2>1, TyHas DEF t
<1> QED
  BY <1>1, <1>2, <1>3

LEMMA NameBuilds ==
  ASSUME 1 <= MaxNodes, NEW span \in Spans,
         NEW name \in DOMAIN Declared \cup Undeclared, NEW used_as \in {"Ident", "Callee"}
  PROVE  LET found == name \in DOMAIN Declared
             misused == found /\ used_as = "Ident" /\ Declared[name].shape = "func"
         IN  Builds(<<>>,
               Node(used_as, name, <<>>,
                    IF ~found THEN Unresolved ELSE IF misused THEN TyError ELSE Declared[name], span),
               Report(~found, span, "undeclared identifier", <<>>)
                 \o Report(misused, span, "can only be called", <<>>))
<1> DEFINE found == name \in DOMAIN Declared
           misused == found /\ used_as = "Ident" /\ Declared[name].shape = "func"
           ty == IF ~found THEN Unresolved ELSE IF misused THEN TyError ELSE Declared[name]
           one == Report(~found, span, "undeclared identifier", <<>>)
           two == Report(misused, span, "can only be called", <<>>)
<1>0. MaxNodes \in Nat
  BY TypeCheckerAssumption
<1>1. ty \in Ty
  BY DeclaredIs, TyHas DEF Unresolved
<1>2. one \in Seq(Reports) /\ two \in Seq(Reports) /\ (one = <<>> <=> found) /\ (two = <<>> <=> ~misused)
  <2>0. <<>> \in Seq(Ty)
    OBVIOUS
  <2>1. <<>> \in Seq(Ty) /\ (~found) \in BOOLEAN /\ misused \in BOOLEAN
    <3>1. (~found) \in BOOLEAN
      OBVIOUS
    <3>2. misused \in BOOLEAN
      OBVIOUS
    <3> QED
      BY <2>0, <3>1, <3>2
  <2>2. "undeclared identifier" \in Subjects /\ "can only be called" \in Subjects
    BY DEF Subjects
  <2> HIDE DEF found, misused
  <2> QED
    BY <2>1, <2>2, ReportIs, Zenon
<1>3. one \o two \in Seq(Reports) /\ (one \o two = <<>> <=> found /\ ~misused)
  <2> HIDE DEF one, two, found, misused
  <2> QED
    BY <1>2, BothEmpty
<1>4. PICK n : IsLeaf(n, used_as, name, ty, span)
  BY DEF IsLeaf
<1>5. /\ n \in Grown /\ n \in Tree /\ n.size = 1 /\ n.kind = used_as /\ n.is = name /\ n.parts = <<>>
      /\ n.ty = ty /\ n.value = <<>> /\ n.conversion = "None" /\ Consistent(n)
  <2>1. name \in Marks /\ used_as \in {"StrLit", "Ident", "Callee"}
    BY DEF Marks
  <2> HIDE DEF ty
  <2> QED
    BY <1>0, <1>1, <1>4, <2>1, TextGrows
<1>6. Accurate(n) /\ (Right(n) <=> found /\ ~misused)
  <2>1. CASE used_as = "Callee"
    <3>1. ty = IF n.is \in DOMAIN Declared THEN Declared[n.is] ELSE TyError
      BY <1>5, <2>1 DEF Unresolved
    <3> HIDE DEF ty
    <3>2. Accurate(n)
      BY <1>5, <2>1, <3>1 DEF Accurate
    <3> QED
      BY <1>5, <2>1, <3>2 DEF Right
  <2>2. CASE used_as = "Ident"
    <3>1. Sort[n] = IF Means(name, Testable \cup Arrays) THEN SortOf(Declared[name]) ELSE Wrong
      BY <1>0, <1>5, <2>2, LeafSort
    <3>2. CASE found /\ ~misused
      <4>1. Declared[name] \in Objects /\ ty = Declared[name]
        BY <2>2, <3>2, DeclaredIs
      <4>2. ty \in ValueTypes /\ Sort[n] = SortOf(ty)
        BY <3>1, <3>2, <4>1, DeclaredIs DEF Means
      <4>3. SortOf(ty) # Wrong
        BY <4>2, SortTells
      <4> HIDE DEF ty, found, misused
      <4> QED
        BY <1>5, <2>2, <3>2, <4>2, <4>3 DEF Accurate, Right
    <3>3. CASE ~(found /\ ~misused)
      <4>1. ~Means(name, Testable \cup Arrays)
        <5>1. CASE ~found
          BY <5>1 DEF Means
        <5>2. CASE misused
          <6>1. SortOf(Declared[name]) = Function
            BY <5>2, DeclaredIs
          <6>2. Function \notin Testable \cup Arrays
            BY SortsDiffer, TestableIs
          <6> QED
            BY <6>1, <6>2 DEF Means
        <5> QED
          BY <3>3, <5>1, <5>2
      <4>2. Sort[n] = Wrong
        BY <3>1, <4>1
      <4> HIDE DEF ty, found, misused
      <4> QED
        BY <1>5, <2>2, <3>3, <4>2 DEF Accurate, Right
    <3> QED
      BY <3>2, <3>3
  <2> QED
    BY <2>1, <2>2
<1> HIDE DEF ty, found, misused, one, two
<1>7. Builds(<<>>, n, one \o two)
  BY <1>3, <1>5, <1>6, LeafBuilds
<1> QED
  BY <1>4, <1>7 DEF IsLeaf, ty, found, misused, one, two

-----------------------------------------------------------------------------
(* The constants that fold.                                                *)

Option(o) == o = <<>> \/ \E w \in Ints : o = <<w>>

LEMMA IntsAre ==
  /\ IntMax \in Nat /\ 1 <= IntMax
  /\ \A v : v \in Ints <=> v \in Int /\ -IntMax - 1 <= v /\ v <= IntMax
  /\ 0 \in Ints /\ 1 \in Ints
<1>1. IntMax \in Nat \ {0}
  BY TypeCheckerAssumption
<1>2. IntMax \in Nat /\ 1 <= IntMax
  BY <1>1
<1>3. \A v : v \in Ints <=> v \in Int /\ -IntMax - 1 <= v /\ v <= IntMax
  BY <1>2 DEF Ints, IntMin
<1>4. 0 \in Ints /\ 1 \in Ints
  BY <1>2, <1>3
<1> QED
  BY <1>2, <1>3, <1>4

LEMMA CheckedIs ==
  ASSUME NEW v
  PROVE  /\ v \in Ints => checked(v) = <<v>>
         /\ v \notin Ints => checked(v) = <<>>
         /\ Option(checked(v))
BY DEF checked, Option, Ints

LEMMA FromIs ==
  ASSUME NEW p
  PROVE  Option(from(p))
<1>1. from(p) \in {<<1>>, <<0>>}
  BY DEF from
<1> QED
  BY <1>1, IntsAre DEF Option

LEMMA FoldedUnaryIs ==
  ASSUME NEW op, NEW v \in Ints
  PROVE  Option(folded_unary(op, v))
<1>1. Option(<<v>>) /\ Option(<<>>) /\ Option(checked(-v)) /\ Option(from(v = 0))
  BY CheckedIs, FromIs DEF Option
<1> QED
  BY <1>1 DEF folded_unary

(* Truncating division.                                                    *)
LEMMA Quotient ==
  ASSUME NEW m \in Nat, NEW d \in Nat, d # 0
  PROVE  /\ m \div d \in Nat /\ m % d \in Nat /\ m % d < d
         /\ m = d * (m \div d) + (m % d)
         /\ m \div d <= m
<1>1. m \div d \in Int /\ m % d \in 0 .. d - 1 /\ m = d * (m \div d) + (m % d)
  OBVIOUS
<1> DEFINE q == m \div d
           r == m % d
<1> HIDE DEF q, r
<1>2. q \in Int /\ r \in Nat /\ r < d /\ m = d * q + r
  BY <1>1 DEF q, r
<1>3. q >= 0
  <2> SUFFICES ASSUME q <= -1
               PROVE  FALSE
    BY <1>2
  <2>1. d * q <= d * (-1)
    BY <1>2
  <2> QED
    BY <1>2, <2>1
<1>4. q <= d * q
  BY <1>2, <1>3
<1>5. q <= m
  BY <1>2, <1>3, <1>4
<1> QED
  BY <1>2, <1>3, <1>5 DEF q, r

LEMMA MagnitudeIs ==
  ASSUME NEW v \in Int
  PROVE  Magnitude(v) \in Nat /\ (v < 0 => Magnitude(v) = -v) /\ (v >= 0 => Magnitude(v) = v)
BY DEF Magnitude

(* The quotient goes towards zero and the remainder takes the sign of `a`. *)
LEMMA TruncatedIs ==
  ASSUME NEW a \in Int, NEW b \in Int, b # 0
  PROVE  LET q == Truncated(a, b)
             r == a - b * q
         IN  /\ q \in Int /\ r \in Int
             /\ Magnitude(q) = Magnitude(a) \div Magnitude(b)
             /\ Magnitude(r) < Magnitude(b) /\ Magnitude(r) <= Magnitude(a)
             /\ (a >= 0 => r >= 0) /\ (a <= 0 => r <= 0)
<1> DEFINE m == Magnitude(a)
           d == Magnitude(b)
           k == m \div d
           s == m % d
           q == Truncated(a, b)
           r == a - b * q
<1>1. m \in Nat /\ d \in Nat /\ d # 0
  BY MagnitudeIs
<1>2. k \in Nat /\ s \in Nat /\ s < d /\ m = d * k + s
  <2> HIDE DEF m, d
  <2> QED
    BY <1>1, Quotient
<1>3. q = IF (a < 0) # (b < 0) THEN -k ELSE k
  BY DEF Truncated
<1>4. /\ (a < 0 => m = -a) /\ (a >= 0 => m = a)
      /\ (b < 0 => d = -b) /\ (b >= 0 => d = b)
  BY MagnitudeIs
<1>k. k = m \div d
  OBVIOUS
<1>r. r = a - b * q
  OBVIOUS
<1> HIDE DEF m, d, k, s, q, r
<1>s. s <= m
  <2>1. d * k >= 0
    BY <1>1, <1>2
  <2>2. d * k \in Int
    BY <1>1, <1>2
  <2> QED
    BY <1>1, <1>2, <2>1, <2>2
<1>5. CASE a >= 0 /\ b >= 0
  <2>1. q = k /\ b = d /\ a = m
    BY <1>3, <1>4, <1>5
  <2>2. r = s
    BY <1>1, <1>2, <1>r, <2>1
  <2> QED
    BY <1>2, <1>k, <1>s, <1>5, <2>1, <2>2, MagnitudeIs DEF m, d, q, r
<1>6. CASE a >= 0 /\ b < 0
  <2>1. q = -k /\ b = -d /\ a = m
    BY <1>3, <1>4, <1>6
  <2>2. r = s
    <3>1. (-d) * (-k) = d * k
      BY <1>1, <1>2
    <3> QED
      BY <1>1, <1>2, <1>r, <2>1, <3>1
  <2>3. q \in Int /\ q <= 0 /\ r \in Int /\ r >= 0
    BY <1>2, <2>1, <2>2
  <2>4. Magnitude(q) = k /\ Magnitude(r) = s
    <3>1. Magnitude(r) = s
      BY <2>2, <2>3, MagnitudeIs
    <3>2. Magnitude(q) = k
      <4>1. CASE q < 0
        BY <1>2, <2>1, <2>3, <4>1, MagnitudeIs
      <4>2. CASE q = 0
        BY <1>2, <2>1, <2>3, <4>2, MagnitudeIs
      <4> QED
        BY <2>3, <4>1, <4>2
    <3> QED
      BY <3>1, <3>2
  <2> QED
    BY <1>2, <1>k, <1>s, <1>6, <2>3, <2>4 DEF m, d, q, r
<1>7. CASE a < 0 /\ b >= 0
  <2>1. q = -k /\ b = d /\ a = -m
    BY <1>3, <1>4, <1>7
  <2>2. r = -s
    <3>1. d * (-k) = -(d * k)
      BY <1>1, <1>2
    <3> QED
      BY <1>1, <1>2, <1>r, <2>1, <3>1
  <2> QED
    BY <1>2, <1>k, <1>s, <1>7, <2>1, <2>2, MagnitudeIs DEF m, d, q, r
<1>8. CASE a < 0 /\ b < 0
  <2>1. q = k /\ b = -d /\ a = -m
    BY <1>3, <1>4, <1>8
  <2>2. r = -s
    <3>1. (-d) * k = -(d * k)
      BY <1>1, <1>2
    <3> QED
      BY <1>1, <1>2, <1>r, <2>1, <3>1
  <2> QED
    BY <1>2, <1>k, <1>s, <1>8, <2>1, <2>2, MagnitudeIs DEF m, d, q, r
<1> QED
  BY <1>5, <1>6, <1>7, <1>8

LEMMA FoldedBinaryIs ==
  ASSUME NEW op \in BinaryOperators, NEW a \in Ints, NEW b \in Ints
  PROVE  Option(folded_binary(op, a, b))
<1>1. Option(<<>>)
  BY DEF Option
<1>2. Option(checked_rem(a, b))
  <2>1. CASE b = 0 \/ checked(Truncated(a, b)) = <<>>
    BY <1>1, <2>1 DEF checked_rem
  <2>2. CASE ~(b = 0 \/ checked(Truncated(a, b)) = <<>>)
    <3> DEFINE r == a - b * Truncated(a, b)
    <3>1. a \in Int /\ b \in Int /\ b # 0 /\ -IntMax - 1 <= a /\ a <= IntMax /\ IntMax \in Nat
      BY <2>2, IntsAre
    <3>2. r \in Int /\ Magnitude(r) <= Magnitude(a) /\ (a >= 0 => r >= 0) /\ (a <= 0 => r <= 0)
      BY <3>1, TruncatedIs
    <3>3. checked_rem(a, b) = <<r>>
      BY <2>2 DEF checked_rem
    <3> HIDE DEF r
    <3>4. -IntMax - 1 <= r /\ r <= IntMax
      <4>1. CASE a >= 0
        <5>1. r <= a
          BY <3>1, <3>2, <4>1, MagnitudeIs
        <5> QED
          BY <3>1, <3>2, <4>1, <5>1
      <4>2. CASE a < 0
        <5>1. a <= r
          BY <3>1, <3>2, <4>2 DEF Magnitude
        <5> QED
          BY <3>1, <3>2, <4>2, <5>1
      <4> QED
        BY <3>1, <4>1, <4>2
    <3>5. r \in Ints
      BY <3>2, <3>4, IntsAre
    <3> QED
      BY <3>3, <3>5 DEF Option
  <2> QED
    BY <2>1, <2>2
<1>3. /\ Option(checked(a + b)) /\ Option(checked(a - b)) /\ Option(checked(a * b))
      /\ Option(checked(Truncated(a, b)))
  BY CheckedIs
<1>4. /\ Option(from(a = b)) /\ Option(from(a # b)) /\ Option(from(a < b)) /\ Option(from(a > b))
      /\ Option(from(a <= b)) /\ Option(from(a >= b)) /\ Option(from(a # 0 /\ b # 0))
      /\ Option(from(a # 0 \/ b # 0))
  BY FromIs
<1> QED
  BY <1>1, <1>2, <1>3, <1>4 DEF folded_binary, BinaryOperators, Comparisons, Logical

-----------------------------------------------------------------------------
(* A node over the expressions it takes from the stack, with their         *)
(* conversions.                                                            *)

Stands(parts, ops) == Len(parts) = Len(ops) /\ \A i \in 1 .. Len(ops) : Converted(parts[i], ops[i])
IsNode(n, kind, is, parts, ty, span) == n = Node(kind, is, parts, ty, span)

LEMMA PartNode ==
  ASSUME MaxNodes \in Nat, NEW ops \in Seq(Grown), NEW parts \in Seq(Grown), Stands(parts, ops),
         1 + SizeOf(ops) <= MaxNodes, NEW kind \in Kinds, NEW is \in Marks, NEW ty \in Ty,
         NEW span \in Spans, NEW n, IsNode(n, kind, is, parts, ty, span)
  PROVE  /\ n \in Grown /\ n \in Tree /\ n.size = 1 + SizeOf(ops)
         /\ n.kind = kind /\ n.is = is /\ n.parts = parts /\ n.ty = ty
         /\ n.value = <<>> /\ n.conversion = "None"
         /\ \A i \in 1 .. Len(ops) : Sort[parts[i]] = Sort[ops[i]]
         /\ PartsMeetTheirUse(n) /\ (\A i \in DOMAIN ops : Consistent(ops[i])) => Consistent(n)
<1>0. ops \in Seq(Tree) /\ parts \in Seq(Tree) /\ Len(parts) = Len(ops)
      /\ \A i \in 1 .. Len(ops) : ops[i] \in Tree /\ parts[i] \in Tree /\ Converted(parts[i], ops[i])
  BY GrownAreTrees DEF Stands
<1>1. SizeOf(parts) = SizeOf(ops)
  <2>1. Sized(ops)
    BY <1>0, SizedTrees
  <2>2. \A i \in 1 .. Len(ops) : ops[i].size = parts[i].size
    BY <1>0, ConvertedIs
  <2> QED
    BY <1>0, <2>1, <2>2, SameSizes
<1>2. n \in Grown
  BY <1>1, NodeGrows DEF IsNode
<1>3. n \in Tree
  BY <1>2 DEF Grown
<1>4. n = [kind |-> kind, is |-> is, parts |-> parts, ty |-> ty, span |-> span,
           value |-> <<>>, conversion |-> "None", size |-> 1 + SizeOf(parts)]
  BY Zenon DEF Node, IsNode
<1>5. n.size = 1 + SizeOf(ops)
  BY <1>1, <1>4
<1>6. n.kind = kind /\ n.is = is /\ n.parts = parts /\ n.ty = ty
      /\ n.value = <<>> /\ n.conversion = "None"
  BY <1>4
<1>7. \A i \in 1 .. Len(ops) : Sort[parts[i]] = Sort[ops[i]]
  BY <1>0, SortOfConverted
<1>8. ASSUME PartsMeetTheirUse(n), \A i \in DOMAIN ops : Consistent(ops[i])
      PROVE  Consistent(n)
  <2>1. ASSUME NEW i \in DOMAIN n.parts
        PROVE  Consistent(n.parts[i])
    <3>1. i \in 1 .. Len(ops) /\ n.parts[i] = parts[i] /\ i \in DOMAIN ops
      BY <1>0, <1>6
    <3>2. Consistent(ops[i]) /\ ops[i] \in Tree /\ Converted(parts[i], ops[i])
      BY <1>0, <1>8, <3>1
    <3> QED
      BY <3>1, <3>2, ConsistentConverted
  <2> QED
    BY <1>3, <1>8, <2>1, ConsistentNode
<1> QED
  BY <1>2, <1>3, <1>5, <1>6, <1>7, <1>8

(* The last of one and of two. *)
LEMMA StandsOne ==
  ASSUME MaxNodes \in Nat, NEW o \in Grown, NEW p, Converted(p, o)
  PROVE  <<p>> \in Seq(Grown) /\ Stands(<<p>>, <<o>>)
<1>1. p \in Grown
  BY ConvertedGrows
<1>2. <<p>> \in Seq(Grown)
  BY <1>1
<1>3. Stands(<<p>>, <<o>>)
  BY DEF Stands
<1> QED
  BY <1>2, <1>3

LEMMA StandsTwo ==
  ASSUME MaxNodes \in Nat, NEW o \in Grown, NEW u \in Grown, NEW p, NEW q,
         Converted(p, o), Converted(q, u)
  PROVE  <<p, q>> \in Seq(Grown) /\ Stands(<<p, q>>, <<o, u>>)
<1>1. p \in Grown /\ q \in Grown
  BY ConvertedGrows
<1>2. <<p, q>> \in Seq(Grown)
  BY <1>1
<1>3. Stands(<<p, q>>, <<o, u>>)
  <2>1. Len(<<p, q>>) = 2 /\ Len(<<o, u>>) = 2
    OBVIOUS
  <2>2. Converted(<<p, q>>[1], <<o, u>>[1]) /\ Converted(<<p, q>>[2], <<o, u>>[2])
    OBVIOUS
  <2>3. \A i \in 1 .. 2 : i = 1 \/ i = 2
    OBVIOUS
  <2> QED
    BY <2>1, <2>2, <2>3 DEF Stands
<1> QED
  BY <1>2, <1>3

(* An operand of an operator receives an int, unless it is an address.     *)
LEMMA PromotedReceives ==
  ASSUME MaxNodes \in Nat, NEW n \in Tree, n.conversion = "None", n.ty \in ValueTypes
  PROVE  /\ SortOf(n.ty) = Number => Receives(record_promotion(n)) = TyInt
         /\ SortOf(n.ty) \in Testable =>
              Receives(record_promotion(n)) = TyInt \/ Receives(record_promotion(n)).shape = "ptr"
<1> DEFINE m == record_promotion(n)
           t == n.ty
<1>1. m.ty = t /\ m.conversion = IF t = TyChar THEN "PromoteCharToInt" ELSE "None"
  <2>1. n \in NodesOver(Tree)
    BY TreeFields
  <2> QED
    BY <2>1 DEF record_promotion, promotes, NodesOver
<1> HIDE DEF m, t
<1>2. Receives(m) = IF t = TyChar THEN TyInt ELSE t
  BY <1>1 DEF Receives, Received
<1>3. SortOf(t) = Number => t \in {TyInt, TyChar}
  BY SortTells DEF t
<1>4. SortOf(t) \in Testable => t \in {TyInt, TyChar} \/ t.shape = "ptr"
  BY SortTells DEF t, is_scalar, is_arithmetic, ValueTypes
<1> QED
  BY <1>2, <1>3, <1>4 DEF m, t

LEMMA UnaryUse ==
  ASSUME NEW n, NEW p, n.kind = "Unary", n.parts = <<p>>
  PROVE  /\ n.is # "Not" /\ Receives(p) = TyInt => PartsMeetTheirUse(n)
         /\ n.is = "Not" /\ (Receives(p) = TyInt \/ Receives(p).shape = "ptr") => PartsMeetTheirUse(n)
<1> DEFINE gets == [i \in DOMAIN n.parts |-> Receives(n.parts[i])]
<1>1. gets = <<Receives(p)>> /\ gets[1] = Receives(p)
  OBVIOUS
<1> HIDE DEF gets
<1> QED
  BY <1>1 DEF PartsMeetTheirUse, gets

LEMMA BinaryUse ==
  ASSUME NEW n, NEW p, NEW q, n.parts = <<p, q>>
  PROVE  /\ n.kind = "Binary" /\ n.is \notin Logical /\ Receives(p) = TyInt /\ Receives(q) = TyInt
              => PartsMeetTheirUse(n)
         /\ n.kind = "Binary" /\ n.is \in Logical /\ (Receives(p) = TyInt \/ Receives(p).shape = "ptr")
              /\ (Receives(q) = TyInt \/ Receives(q).shape = "ptr") => PartsMeetTheirUse(n)
         /\ n.kind = "Index" /\ Receives(p) = p.ty /\ Receives(q) = TyInt => PartsMeetTheirUse(n)
         /\ n.kind = "Assign" /\ Receives(p) = n.ty /\ Receives(q) = n.ty => PartsMeetTheirUse(n)
<1> DEFINE gets == [i \in DOMAIN n.parts |-> Receives(n.parts[i])]
<1>1. gets = <<Receives(p), Receives(q)>>
  OBVIOUS
<1>2. gets[1] = Receives(p) /\ gets[2] = Receives(q) /\ n.parts[1] = p
  OBVIOUS
<1>3. \A i \in 1 .. 2 : i = 1 \/ i = 2
  OBVIOUS
<1> HIDE DEF gets
<1>4. n.kind = "Binary" /\ n.is \notin Logical /\ Receives(p) = TyInt /\ Receives(q) = TyInt
        => PartsMeetTheirUse(n)
  BY <1>1 DEF PartsMeetTheirUse, gets
<1>5. n.kind = "Binary" /\ n.is \in Logical /\ (Receives(p) = TyInt \/ Receives(p).shape = "ptr")
        /\ (Receives(q) = TyInt \/ Receives(q).shape = "ptr") => PartsMeetTheirUse(n)
  BY <1>2, <1>3 DEF PartsMeetTheirUse, gets
<1>6. n.kind = "Index" /\ Receives(p) = p.ty /\ Receives(q) = TyInt => PartsMeetTheirUse(n)
  BY <1>2 DEF PartsMeetTheirUse, gets
<1>7. n.kind = "Assign" /\ Receives(p) = n.ty /\ Receives(q) = n.ty => PartsMeetTheirUse(n)
  BY <1>2 DEF PartsMeetTheirUse, gets
<1> QED
  BY <1>4, <1>5, <1>6, <1>7

(* An expression that folds is right, and so is its value. *)
LEMMA FoldedBuilds ==
  ASSUME 1 <= MaxNodes, NEW ops \in Seq(Grown), NEW node, NEW found, Builds(ops, node, found),
         NEW first \in Tree, NEW value, Option(value), value # <<>> => Right(node)
  PROVE  Builds(ops, Folded(node, first, value), found)
<1>0. MaxNodes \in Nat /\ IntMax \in Nat
  BY TypeCheckerAssumption
<1>1. CASE value = <<>>
  BY <1>1 DEF Folded
<1>2. CASE value # <<>>
  <2>1. PICK v \in Ints : value = <<v>>
    BY <1>2 DEF Option
  <2>2. PICK n : IsConstant(n, v, TyInt, first.span)
    BY DEF IsConstant
  <2>3. Folded(node, first, value) = n
    <3>1. value[1] = v
      BY <2>1
    <3> QED
      BY <1>2, <2>2, <3>1 DEF Folded, IsConstant
  <2>4. n \in Grown /\ n.size = 1 /\ Accurate(n) /\ Right(n) /\ Consistent(n)
    <3>1. first.span \in Spans
      BY <1>0, TreeFields
    <3> QED
      BY <1>0, <2>2, <3>1, ConstantBuilds
  <2>5. SizeOf(ops) \in Nat
    BY <1>0, PartsLow
  <2>6. n.size <= 1 + SizeOf(ops)
    BY <2>4, <2>5
  <2>7. found \in Seq(Reports) /\ found = <<>> /\ \A i \in DOMAIN ops : Right(ops[i])
    BY <1>2 DEF Builds
  <2> QED
    BY <2>3, <2>4, <2>6, <2>7 DEF Builds
<1> QED
  BY <1>1, <1>2

-----------------------------------------------------------------------------
(* Operators of one operand.                                               *)

LEMMA Conditions ==
  ASSUME NEW n, n.ty \in Ty, NEW span \in Spans
  PROVE  /\ NotACondition(n, span) \in Seq(Reports)
         /\ NotACondition(n, span) = <<>> <=> is_scalar(n.ty)
<1> DEFINE types == <<n.ty>>
<1>1. types \in Seq(Ty) /\ "not a condition" \in Subjects
  BY DEF Subjects
<1>2. (~is_scalar(n.ty)) \in BOOLEAN
  OBVIOUS
<1>3. is_scalar(n.ty) \in BOOLEAN
  BY DEF is_scalar, is_arithmetic
<1>4. NotACondition(n, span) = Report(~is_scalar(n.ty), span, "not a condition", types)
  BY Zenon DEF NotACondition
<1> HIDE DEF types
<1>5. PICK c \in BOOLEAN : c = ~is_scalar(n.ty)
  BY <1>2
<1>6. /\ Report(c, span, "not a condition", types) \in Seq(Reports)
      /\ Report(c, span, "not a condition", types) = <<>> <=> ~c
  BY <1>1, <1>5, ReportIs
<1> QED
  BY <1>3, <1>4, <1>5, <1>6

(* A report about the type of one expression. *)
LEMMA Reported ==
  ASSUME NEW c \in BOOLEAN, NEW span \in Spans, NEW about \in Subjects, NEW ty \in Ty
  PROVE  /\ Report(c, span, about, <<ty>>) \in Seq(Reports)
         /\ Report(c, span, about, <<ty>>) = <<>> <=> ~c
<1> DEFINE types == <<ty>>
<1>1. types \in Seq(Ty)
  OBVIOUS
<1> HIDE DEF types
<1>2. /\ Report(c, span, about, types) \in Seq(Reports)
      /\ Report(c, span, about, types) = <<>> <=> ~c
  BY <1>1, ReportIs
<1> QED
  BY <1>2 DEF types

LEMMA PromotedIs ==
  ASSUME NEW t \in Ty
  PROVE  promoted(t) \in Ty /\ (t \in {TyInt, TyChar} => promoted(t) = TyInt)
BY TyHas DEF promoted, promotes

Room(ops) == 1 + SizeOf(ops) <= MaxNodes

IsUnary(n, op, o, span) ==
  IsNode(n, "Unary", op, <<record_promotion(o)>>, IF op = "Not" THEN TyInt ELSE promoted(o.ty), span)
ReportsOfUnary(op, o, span) ==
  IF op = "Not" THEN NotACondition(o, o.span)
  ELSE Report(~is_arithmetic(o.ty), span, "operand of unary", <<o.ty>>)

LEMMA UnaryBuilds ==
  ASSUME 1 <= MaxNodes, NEW op \in UnaryOperators, NEW operand \in Grown, operand.kind # "Callee",
         Accurate(operand), Room(<<operand>>), NEW span \in Spans, NEW n, IsUnary(n, op, operand, span),
         NEW found, found = ReportsOfUnary(op, operand, span)
  PROVE  /\ Builds(<<operand>>, n, found)
         /\ operand.value # <<>> => Right(n)
<1> DEFINE p == record_promotion(operand)
           ty == IF op = "Not" THEN TyInt ELSE promoted(operand.ty)
           parts == <<p>>
           ops == <<operand>>
<1>0. MaxNodes \in Nat /\ operand \in Tree
  BY TypeCheckerAssumption DEF Grown
<1>1. operand.ty \in Ty /\ operand.span \in Spans /\ operand.conversion = "None"
  BY <1>0, TreeFields DEF Accurate
<1>2. ty \in Ty /\ op \in Marks /\ "Unary" \in Kinds
  BY <1>1, PromotedIs, TyHas DEF Marks, Kinds
<1>3. Converted(p, operand)
  BY <1>0, RecordedIs
<1>4. parts \in Seq(Grown) /\ ops \in Seq(Grown) /\ Stands(parts, ops) /\ Len(ops) = 1
      /\ ops[1] = operand /\ parts[1] = p /\ DOMAIN ops = {1}
  <2>1. parts \in Seq(Grown) /\ Stands(parts, ops)
    BY <1>0, <1>3, StandsOne
  <2>2. ops \in Seq(Grown) /\ Len(ops) = 1 /\ ops[1] = operand /\ parts[1] = p /\ DOMAIN ops = {1}
    OBVIOUS
  <2> QED
    BY <2>1, <2>2
<1>5. IsNode(n, "Unary", op, parts, ty, span) /\ 1 + SizeOf(ops) <= MaxNodes
  BY DEF IsUnary, Room
<1>p. parts = <<p>>
  OBVIOUS
<1>o. ops = <<operand>>
  OBVIOUS
<1> HIDE DEF parts, ops, ty, p
<1>6. /\ n \in Grown /\ n \in Tree /\ n.size = 1 + SizeOf(ops)
      /\ n.kind = "Unary" /\ n.is = op /\ n.parts = parts /\ n.ty = ty
      /\ n.value = <<>> /\ n.conversion = "None"
      /\ \A i \in 1 .. Len(ops) : Sort[parts[i]] = Sort[ops[i]]
      /\ PartsMeetTheirUse(n) /\ (\A i \in DOMAIN ops : Consistent(ops[i])) => Consistent(n)
  BY <1>0, <1>2, <1>4, <1>5, PartNode
<1>7. Sort[p] = Sort[operand]
  <2>1. \A i \in 1 .. Len(ops) : Sort[parts[i]] = Sort[ops[i]]
    BY <1>6
  <2>2. 1 \in 1 .. Len(ops)
    BY <1>4
  <2>3. Sort[parts[1]] = Sort[ops[1]]
    BY <2>1, <2>2
  <2> QED
    BY <1>4, <2>3
<1>8. /\ op = "Not" => Sort[n] = Provided(Sort[operand] \in Testable, Number)
      /\ op # "Not" => Sort[n] = Provided(Sort[operand] = Number, Number)
  BY <1>0, <1>6, <1>7, <1>p, UnarySort
<1>9. Number # Wrong /\ Wrong \notin Testable
  BY SortsDiffer, TestableIs
<1>10. found \in Seq(Reports)
       /\ (op = "Not" => (found = <<>> <=> is_scalar(operand.ty)))
       /\ (op # "Not" => (found = <<>> <=> is_arithmetic(operand.ty)))
  <2>1. "operand of unary" \in Subjects
    BY DEF Subjects
  <2>2. is_arithmetic(operand.ty) \in BOOLEAN
    BY DEF is_arithmetic
  <2>3. (~is_arithmetic(operand.ty)) \in BOOLEAN
    OBVIOUS
  <2>4. CASE op = "Not"
    BY <1>1, <2>4, Conditions DEF ReportsOfUnary
  <2>5. CASE op # "Not"
    <3>1. PICK c \in BOOLEAN : c = ~is_arithmetic(operand.ty)
      BY <2>3
    <3>2. /\ Report(c, span, "operand of unary", <<operand.ty>>) \in Seq(Reports)
          /\ Report(c, span, "operand of unary", <<operand.ty>>) = <<>> <=> ~c
      BY <1>1, <2>1, Reported
    <3> QED
      BY <2>2, <2>5, <3>1, <3>2 DEF ReportsOfUnary
  <2> QED
    BY <2>4, <2>5
<1>11. Right(operand) => operand.ty \in ValueTypes /\ SortOf(operand.ty) = Sort[operand]
  BY RightValue
<1>12. ~Right(operand) => Sort[operand] = Wrong
  BY WrongValue
<1>13. Right(n) <=> Sort[n] # Wrong
  BY <1>6 DEF Right
<1>14. Right(n) <=> found = <<>> /\ Right(operand)
  <2>1. CASE ~Right(operand)
    <3>1. Sort[n] = Wrong
      BY <1>8, <1>9, <1>12, <2>1 DEF Provided
    <3> QED
      BY <1>13, <2>1, <3>1
  <2>2. CASE Right(operand)
    <3>1. /\ is_arithmetic(operand.ty) <=> Sort[operand] = Number
          /\ is_scalar(operand.ty) <=> Sort[operand] \in Testable
      BY <1>11, <2>2, SortTells
    <3>2. CASE op = "Not"
      BY <1>8, <1>9, <1>10, <1>13, <2>2, <3>1, <3>2 DEF Provided
    <3>3. CASE op # "Not"
      BY <1>8, <1>9, <1>10, <1>13, <2>2, <3>1, <3>3 DEF Provided
    <3> QED
      BY <3>2, <3>3
  <2> QED
    BY <2>1, <2>2
<1>15. Right(n) => Sort[n] = Number /\ ty = TyInt /\ PartsMeetTheirUse(n)
  <2> SUFFICES ASSUME Right(n)
               PROVE  Sort[n] = Number /\ ty = TyInt /\ PartsMeetTheirUse(n)
    OBVIOUS
  <2>1. Sort[n] = Number
    BY <1>8, <1>13 DEF Provided
  <2>2. operand.ty \in ValueTypes /\ SortOf(operand.ty) = Sort[operand]
    BY <1>11, <1>14
  <2>3. CASE op = "Not"
    <3>1. Sort[operand] \in Testable
      BY <1>8, <1>13, <2>3 DEF Provided
    <3>2. Receives(p) = TyInt \/ Receives(p).shape = "ptr"
      BY <1>0, <1>1, <2>2, <3>1, PromotedReceives DEF p
    <3>3. PartsMeetTheirUse(n)
      BY <1>6, <1>p, <2>3, <3>2, UnaryUse
    <3> QED
      BY <2>1, <2>3, <3>3 DEF ty
  <2>4. CASE op # "Not"
    <3>1. Sort[operand] = Number
      BY <1>8, <1>13, <2>4 DEF Provided
    <3>2. Receives(p) = TyInt
      BY <1>0, <1>1, <2>2, <3>1, PromotedReceives DEF p
    <3>3. PartsMeetTheirUse(n)
      BY <1>6, <1>p, <2>4, <3>2, UnaryUse
    <3>4. operand.ty \in {TyInt, TyChar}
      BY <2>2, <3>1, SortTells
    <3>5. ty = TyInt
      BY <1>1, <2>4, <3>4, PromotedIs DEF ty
    <3> QED
      BY <2>1, <3>3, <3>5
  <2> QED
    BY <2>3, <2>4
<1>16. Accurate(n)
  <2>1. SortOf(TyInt) = Number /\ TyInt \in ValueTypes
    BY TyHas, SortOfIs
  <2> QED
    BY <1>6, <1>13, <1>15, <2>1 DEF Accurate
<1>17. Builds(ops, n, found)
  <2>1. (\A i \in DOMAIN ops : Right(ops[i])) <=> Right(operand)
    BY <1>4
  <2>2. n.size <= 1 + SizeOf(ops)
    <3>1. SizeOf(ops) \in Nat
      BY <1>0, <1>4, PartsLow
    <3> QED
      BY <1>6, <3>1
  <2> QED
    BY <1>6, <1>10, <1>14, <1>15, <1>16, <2>1, <2>2 DEF Builds
<1>18. ASSUME operand.value # <<>>
       PROVE  Right(n)
  <2>1. operand.kind = "Constant"
    BY <1>18 DEF Accurate
  <2>2. Sort[operand] = Number
    BY <1>0, <2>1, LeafSort
  <2> QED
    BY <1>8, <1>9, <1>13, <2>2, TestableIs DEF Provided
<1> QED
  BY <1>17, <1>18, <1>o

-----------------------------------------------------------------------------
(* Operators of two operands.                                              *)

LEMMA CommonIs ==
  ASSUME NEW l \in Ty, NEW r \in Ty
  PROVE  /\ common_arithmetic(l, r) \in {TyError, TyInt, TyVoid}
         /\ l # TyError /\ r # TyError =>
              (common_arithmetic(l, r) = TyVoid <=> ~(is_arithmetic(l) /\ is_arithmetic(r)))
<1>1. CASE TyError \in {l, r}
  <2>1. common_arithmetic(l, r) = TyError
    BY <1>1 DEF common_arithmetic
  <2> QED
    BY <1>1, <2>1
<1>2. CASE TyError \notin {l, r} /\ is_arithmetic(l) /\ is_arithmetic(r)
  <2>1. common_arithmetic(l, r) = TyInt
    BY <1>2 DEF common_arithmetic
  <2> QED
    BY <1>2, <2>1, ScalarsDiffer
<1>3. CASE TyError \notin {l, r} /\ ~(is_arithmetic(l) /\ is_arithmetic(r))
  <2>1. common_arithmetic(l, r) = TyVoid
    BY <1>3 DEF common_arithmetic
  <2> QED
    BY <1>3, <2>1
<1> QED
  BY <1>1, <1>2, <1>3

LEMMA BinaryTypeIs ==
  ASSUME NEW op, NEW l \in Ty, NEW r \in Ty
  PROVE  /\ binary_type(op, l, r) \in {TyError, TyInt}
         /\ l # TyError /\ r # TyError => binary_type(op, l, r) = TyInt
<1>1. common_arithmetic(l, r) \in {TyError, TyInt, TyVoid}
  BY CommonIs
<1>2. l # TyError /\ r # TyError => common_arithmetic(l, r) # TyError
  BY ScalarsDiffer DEF common_arithmetic
<1> QED
  BY <1>1, <1>2 DEF binary_type

IsBinary(n, op, l, r, span) ==
  IsNode(n, "Binary", op, <<record_promotion(l), record_promotion(r)>>, binary_type(op, l.ty, r.ty), span)

LEMMA CheckedOperands ==
  ASSUME NEW op, NEW l, NEW r, l.ty \in Ty, r.ty \in Ty, l.span \in Spans, r.span \in Spans,
         NEW span \in Spans
  PROVE  /\ check_binary(op, l, r, span) \in Seq(Reports)
         /\ op \in Logical => (check_binary(op, l, r, span) = <<>> <=> is_scalar(l.ty) /\ is_scalar(r.ty))
         /\ op \notin Logical /\ l.ty # TyError /\ r.ty # TyError =>
              (check_binary(op, l, r, span) = <<>> <=> is_arithmetic(l.ty) /\ is_arithmetic(r.ty))
<1>1. CASE op \in Logical
  <2> DEFINE x == NotACondition(l, span)
             y == NotACondition(r, span)
  <2>1. x \in Seq(Reports) /\ y \in Seq(Reports) /\ (x = <<>> <=> is_scalar(l.ty))
        /\ (y = <<>> <=> is_scalar(r.ty))
    BY Conditions
  <2>2. check_binary(op, l, r, span) = x \o y
    BY <1>1 DEF check_binary
  <2> HIDE DEF x, y
  <2>3. x \o y \in Seq(Reports) /\ (x \o y = <<>> <=> x = <<>> /\ y = <<>>)
    BY <2>1, BothEmpty
  <2> QED
    BY <1>1, <2>1, <2>2, <2>3
<1>2. CASE op \notin Logical
  <2> DEFINE types == <<l.ty, r.ty>>
  <2>1. types \in Seq(Ty)
    OBVIOUS
  <2>2. "operands of binary" \in Subjects
    BY DEF Subjects
  <2>3. PICK c \in BOOLEAN : c = (common_arithmetic(l.ty, r.ty) = TyVoid)
    OBVIOUS
  <2>4. check_binary(op, l, r, span) = Report(c, span, "operands of binary", types)
    BY <1>2, <2>3 DEF check_binary
  <2> HIDE DEF types
  <2>5. Report(c, span, "operands of binary", types) \in Seq(Reports)
        /\ (Report(c, span, "operands of binary", types) = <<>> <=> ~c)
    BY <2>1, <2>2, ReportIs
  <2>6. l.ty # TyError /\ r.ty # TyError => (c <=> ~(is_arithmetic(l.ty) /\ is_arithmetic(r.ty)))
    BY <2>3, CommonIs
  <2>7. is_arithmetic(l.ty) \in BOOLEAN /\ is_arithmetic(r.ty) \in BOOLEAN
    BY DEF is_arithmetic
  <2> QED
    BY <1>2, <2>4, <2>5, <2>6, <2>7
<1> QED
  BY <1>1, <1>2

LEMMA BinaryBuilds ==
  ASSUME 1 <= MaxNodes, NEW op \in BinaryOperators, NEW l \in Grown, NEW r \in Grown,
         l.kind # "Callee", r.kind # "Callee", Accurate(l), Accurate(r), Room(<<l, r>>),
         NEW span \in Spans, NEW n, IsBinary(n, op, l, r, span),
         NEW found, found = check_binary(op, l, r, span)
  PROVE  /\ Builds(<<l, r>>, n, found)
         /\ l.value # <<>> /\ r.value # <<>> => Right(n)
<1> DEFINE p == record_promotion(l)
           q == record_promotion(r)
           ty == binary_type(op, l.ty, r.ty)
           parts == <<p, q>>
           ops == <<l, r>>
<1>0. MaxNodes \in Nat /\ l \in Tree /\ r \in Tree
  BY TypeCheckerAssumption DEF Grown
<1>1. /\ l.ty \in Ty /\ l.span \in Spans /\ l.conversion = "None"
      /\ r.ty \in Ty /\ r.span \in Spans /\ r.conversion = "None"
  BY <1>0, TreeFields DEF Accurate
<1>2. ty \in Ty /\ op \in Marks /\ "Binary" \in Kinds
  <2>1. ty \in Ty
    BY <1>1, BinaryTypeIs, TyHas
  <2>2. op \in Marks
    BY Zenon DEF Marks
  <2> QED
    BY <2>1, <2>2 DEF Kinds
<1>3. Converted(p, l) /\ Converted(q, r)
  BY <1>0, RecordedIs
<1>4. parts \in Seq(Grown) /\ ops \in Seq(Grown) /\ Stands(parts, ops) /\ Len(ops) = 2
      /\ ops[1] = l /\ parts[1] = p /\ ops[2] = r /\ parts[2] = q /\ DOMAIN ops = {1, 2}
  <2>1. parts \in Seq(Grown) /\ Stands(parts, ops)
    BY <1>0, <1>3, StandsTwo
  <2>2. ops \in Seq(Grown) /\ Len(ops) = 2
        /\ ops[1] = l /\ parts[1] = p /\ ops[2] = r /\ parts[2] = q /\ DOMAIN ops = {1, 2}
    OBVIOUS
  <2> QED
    BY <2>1, <2>2
<1>5. IsNode(n, "Binary", op, parts, ty, span) /\ 1 + SizeOf(ops) <= MaxNodes
  BY DEF IsBinary, Room
<1>p. parts = <<p, q>>
  OBVIOUS
<1>o. ops = <<l, r>>
  OBVIOUS
<1> HIDE DEF parts, ops, ty, p, q
<1>6. /\ n \in Grown /\ n \in Tree /\ n.size = 1 + SizeOf(ops)
      /\ n.kind = "Binary" /\ n.is = op /\ n.parts = parts /\ n.ty = ty
      /\ n.value = <<>> /\ n.conversion = "None"
      /\ \A i \in 1 .. Len(ops) : Sort[parts[i]] = Sort[ops[i]]
      /\ PartsMeetTheirUse(n) /\ (\A i \in DOMAIN ops : Consistent(ops[i])) => Consistent(n)
  BY <1>0, <1>2, <1>4, <1>5, PartNode
<1>7. Sort[p] = Sort[l] /\ Sort[q] = Sort[r]
  <2>1. \A i \in 1 .. Len(ops) : Sort[parts[i]] = Sort[ops[i]]
    BY <1>6
  <2>2. 1 \in 1 .. Len(ops) /\ 2 \in 1 .. Len(ops)
    BY <1>4
  <2>3. Sort[parts[1]] = Sort[ops[1]] /\ Sort[parts[2]] = Sort[ops[2]]
    BY <2>1, <2>2
  <2> QED
    BY <1>4, <2>3
<1>8. /\ op \in Logical => Sort[n] = Provided(Sort[l] \in Testable /\ Sort[r] \in Testable, Number)
      /\ op \notin Logical => Sort[n] = Provided(Sort[l] = Number /\ Sort[r] = Number, Number)
  BY <1>0, <1>6, <1>7, <1>p, BinarySort
<1>9. Number # Wrong /\ Wrong \notin Testable
  BY SortsDiffer, TestableIs
<1>10. found \in Seq(Reports)
       /\ (op \in Logical => (found = <<>> <=> is_scalar(l.ty) /\ is_scalar(r.ty)))
       /\ (op \notin Logical /\ l.ty # TyError /\ r.ty # TyError =>
             (found = <<>> <=> is_arithmetic(l.ty) /\ is_arithmetic(r.ty)))
  BY <1>1, CheckedOperands
<1>11. /\ Right(l) => l.ty \in ValueTypes /\ SortOf(l.ty) = Sort[l] /\ l.ty # TyError
       /\ Right(r) => r.ty \in ValueTypes /\ SortOf(r.ty) = Sort[r] /\ r.ty # TyError
  BY RightValue
<1>12. (~Right(l) => Sort[l] = Wrong) /\ (~Right(r) => Sort[r] = Wrong)
  BY WrongValue
<1>13. Right(n) <=> Sort[n] # Wrong
  BY <1>6 DEF Right
<1>14. Right(n) <=> found = <<>> /\ Right(l) /\ Right(r)
  <2>1. CASE ~Right(l) \/ ~Right(r)
    <3>1. Sort[n] = Wrong
      BY <1>8, <1>9, <1>12, <2>1 DEF Provided
    <3> QED
      BY <1>13, <2>1, <3>1
  <2>2. CASE Right(l) /\ Right(r)
    <3>1. /\ is_arithmetic(l.ty) <=> Sort[l] = Number
          /\ is_scalar(l.ty) <=> Sort[l] \in Testable
          /\ is_arithmetic(r.ty) <=> Sort[r] = Number
          /\ is_scalar(r.ty) <=> Sort[r] \in Testable
      BY <1>11, <2>2, SortTells
    <3>2. CASE op \in Logical
      BY <1>8, <1>9, <1>10, <1>13, <2>2, <3>1, <3>2 DEF Provided
    <3>3. CASE op \notin Logical
      BY <1>8, <1>9, <1>10, <1>11, <1>13, <2>2, <3>1, <3>3 DEF Provided
    <3> QED
      BY <3>2, <3>3
  <2> QED
    BY <2>1, <2>2
<1>15. Right(n) => Sort[n] = Number /\ ty = TyInt /\ PartsMeetTheirUse(n)
  <2> SUFFICES ASSUME Right(n)
               PROVE  Sort[n] = Number /\ ty = TyInt /\ PartsMeetTheirUse(n)
    OBVIOUS
  <2>1. Sort[n] = Number
    BY <1>8, <1>13 DEF Provided
  <2>2. /\ l.ty \in ValueTypes /\ SortOf(l.ty) = Sort[l] /\ l.ty # TyError
        /\ r.ty \in ValueTypes /\ SortOf(r.ty) = Sort[r] /\ r.ty # TyError
    BY <1>11, <1>14
  <2>5. ty = TyInt
    BY <1>1, <2>2, BinaryTypeIs DEF ty
  <2>3. CASE op \in Logical
    <3>1. Sort[l] \in Testable /\ Sort[r] \in Testable
      BY <1>8, <1>13, <2>3 DEF Provided
    <3>2. /\ Receives(p) = TyInt \/ Receives(p).shape = "ptr"
          /\ Receives(q) = TyInt \/ Receives(q).shape = "ptr"
      BY <1>0, <1>1, <2>2, <3>1, PromotedReceives DEF p, q
    <3>3. PartsMeetTheirUse(n)
      BY <1>6, <1>p, <2>3, <3>2, BinaryUse
    <3> QED
      BY <2>1, <2>5, <3>3
  <2>4. CASE op \notin Logical
    <3>1. Sort[l] = Number /\ Sort[r] = Number
      BY <1>8, <1>13, <2>4 DEF Provided
    <3>2. Receives(p) = TyInt /\ Receives(q) = TyInt
      BY <1>0, <1>1, <2>2, <3>1, PromotedReceives DEF p, q
    <3>3. PartsMeetTheirUse(n)
      BY <1>6, <1>p, <2>4, <3>2, BinaryUse
    <3> QED
      BY <2>1, <2>5, <3>3
  <2> QED
    BY <2>3, <2>4
<1>16. Accurate(n)
  <2>1. SortOf(TyInt) = Number /\ TyInt \in ValueTypes
    BY TyHas, SortOfIs
  <2> QED
    BY <1>6, <1>13, <1>15, <2>1 DEF Accurate
<1>17. Builds(ops, n, found)
  <2>1. (\A i \in DOMAIN ops : Right(ops[i])) <=> Right(l) /\ Right(r)
    BY <1>4
  <2>2. n.size <= 1 + SizeOf(ops)
    <3>1. SizeOf(ops) \in Nat
      BY <1>0, <1>4, PartsLow
    <3> QED
      BY <1>6, <3>1
  <2> QED
    BY <1>6, <1>10, <1>14, <1>15, <1>16, <2>1, <2>2 DEF Builds
<1>18. ASSUME l.value # <<>>, r.value # <<>>
       PROVE  Right(n)
  <2>1. l.kind = "Constant" /\ r.kind = "Constant"
    BY <1>18 DEF Accurate
  <2>2. Sort[l] = Number /\ Sort[r] = Number
    BY <1>0, <2>1, LeafSort
  <2> QED
    BY <1>8, <1>9, <1>13, <2>2, TestableIs DEF Provided
<1> QED
  BY <1>17, <1>18, <1>o

IsPlain(n, kind, parts, ty, span) == IsNode(n, kind, "", parts, ty, span)
IsPostfix(n, o, span) == IsPlain(n, "Postfix", <<o>>, promoted(o.ty), span)
ReportsOfPostfix(o, span) == Report(~is_arithmetic(o.ty), span, "operand of postfix", <<o.ty>>)

LEMMA NoMark == "" \in Marks
BY Zenon DEF Marks

(* A node whose mark is of no interest. *)
LEMMA Unmarked ==
  ASSUME NEW n, NEW kind, NEW parts, NEW ty, NEW span, IsPlain(n, kind, parts, ty, span)
  PROVE  \E is \in Marks : IsNode(n, kind, is, parts, ty, span)
BY NoMark, Zenon DEF IsPlain

LEMMA PostfixBuilds ==
  ASSUME 1 <= MaxNodes, NEW o \in Grown, o.kind # "Callee", Accurate(o), Room(<<o>>),
         NEW span \in Spans, NEW n, IsPostfix(n, o, span), NEW found, found = ReportsOfPostfix(o, span)
  PROVE  Builds(<<o>>, n, found)
<1> DEFINE ty == promoted(o.ty)
           ops == <<o>>
<1>0. MaxNodes \in Nat /\ o \in Tree
  BY TypeCheckerAssumption DEF Grown
<1>1. o.ty \in Ty /\ o.span \in Spans /\ o.conversion = "None"
  BY <1>0, TreeFields DEF Accurate
<1>2. ty \in Ty /\ "Postfix" \in Kinds
  BY <1>1, PromotedIs DEF Kinds
<1>3. Converted(o, o)
  <2>1. o.conversion \in Conversions /\ o \in NodesOver(Tree)
    BY <1>0, TreeFields
  <2>2. o = [o EXCEPT !.conversion = o.conversion]
    BY <2>1 DEF NodesOver
  <2> QED
    BY <2>1, <2>2 DEF Converted
<1>4. ops \in Seq(Grown) /\ Stands(ops, ops) /\ Len(ops) = 1 /\ ops[1] = o /\ DOMAIN ops = {1}
  <2>1. ops \in Seq(Grown) /\ Stands(ops, ops)
    BY <1>0, <1>3, StandsOne
  <2>2. Len(ops) = 1 /\ ops[1] = o /\ DOMAIN ops = {1}
    OBVIOUS
  <2> QED
    BY <2>1, <2>2
<1>5. PICK is \in Marks : IsNode(n, "Postfix", is, ops, ty, span)
  BY Unmarked DEF IsPostfix
<1>m. 1 + SizeOf(ops) <= MaxNodes
  BY DEF Room
<1>o. ops = <<o>>
  OBVIOUS
<1> HIDE DEF ops, ty
<1>6. /\ n \in Grown /\ n \in Tree /\ n.size = 1 + SizeOf(ops)
      /\ n.kind = "Postfix" /\ n.parts = ops /\ n.ty = ty
      /\ n.value = <<>> /\ n.conversion = "None"
      /\ PartsMeetTheirUse(n) /\ (\A i \in DOMAIN ops : Consistent(ops[i])) => Consistent(n)
  BY <1>0, <1>2, <1>4, <1>5, <1>m, PartNode
<1>8. Sort[n] = Provided(Sort[o] = Number, Number)
  BY <1>0, <1>6, <1>o, UnarySort
<1>9. Number # Wrong
  BY SortsDiffer
<1>10. found \in Seq(Reports) /\ (found = <<>> <=> is_arithmetic(o.ty))
  <2>1. "operand of postfix" \in Subjects
    BY DEF Subjects
  <2>2. is_arithmetic(o.ty) \in BOOLEAN
    BY DEF is_arithmetic
  <2>3. PICK c \in BOOLEAN : c = ~is_arithmetic(o.ty)
    OBVIOUS
  <2>4. /\ Report(c, span, "operand of postfix", <<o.ty>>) \in Seq(Reports)
        /\ Report(c, span, "operand of postfix", <<o.ty>>) = <<>> <=> ~c
    BY <1>1, <2>1, Reported
  <2> QED
    BY <2>2, <2>3, <2>4 DEF ReportsOfPostfix
<1>11. Right(o) => o.ty \in ValueTypes /\ SortOf(o.ty) = Sort[o]
  BY RightValue
<1>12. ~Right(o) => Sort[o] = Wrong
  BY WrongValue
<1>13. Right(n) <=> Sort[n] # Wrong
  BY <1>6 DEF Right
<1>14. Right(n) <=> found = <<>> /\ Right(o)
  <2>1. CASE ~Right(o)
    BY <1>8, <1>9, <1>12, <1>13, <2>1 DEF Provided
  <2>2. CASE Right(o)
    <3>1. is_arithmetic(o.ty) <=> Sort[o] = Number
      BY <1>11, <2>2, SortTells
    <3> QED
      BY <1>8, <1>9, <1>10, <1>13, <2>2, <3>1 DEF Provided
  <2> QED
    BY <2>1, <2>2
<1>15. PartsMeetTheirUse(n)
  BY <1>6 DEF PartsMeetTheirUse
<1>16. Accurate(n)
  <2>1. SortOf(TyInt) = Number /\ TyInt \in ValueTypes
    BY TyHas, SortOfIs
  <2>2. Right(n) => Sort[n] = Number /\ ty = TyInt
    <3> SUFFICES ASSUME Right(n)
                 PROVE  Sort[n] = Number /\ ty = TyInt
      OBVIOUS
    <3>1. Sort[n] = Number /\ Sort[o] = Number
      BY <1>8, <1>13 DEF Provided
    <3>2. o.ty \in {TyInt, TyChar}
      BY <1>11, <1>14, <3>1, SortTells
    <3> QED
      BY <1>1, <3>1, <3>2, PromotedIs DEF ty
  <2> QED
    BY <1>6, <1>13, <2>1, <2>2 DEF Accurate
<1>17. Builds(ops, n, found)
  <2>1. (\A i \in DOMAIN ops : Right(ops[i])) <=> Right(o)
    BY <1>4
  <2>2. n.size <= 1 + SizeOf(ops)
    <3>1. SizeOf(ops) \in Nat
      BY <1>0, <1>4, PartsLow
    <3> QED
      BY <1>6, <3>1
  <2> QED
    BY <1>6, <1>10, <1>14, <1>15, <1>16, <2>1, <2>2 DEF Builds
<1> QED
  BY <1>17, <1>o

LEMMA Unconverted ==
  ASSUME MaxNodes \in Nat, NEW n \in Tree
  PROVE  Converted(n, n)
<1>1. n.conversion \in Conversions /\ n \in NodesOver(Tree)
  BY TreeFields
<1>2. n = [n EXCEPT !.conversion = n.conversion]
  BY <1>1 DEF NodesOver
<1> QED
  BY <1>1, <1>2 DEF Converted

LEMMA UnconvertedReceives ==
  ASSUME NEW n, n.conversion = "None"
  PROVE  Receives(n) = n.ty
BY DEF Receives, Received

(* What two parts that follow their sorts make, whatever the node.         *)
LEMMA TwoParts ==
  ASSUME 1 <= MaxNodes, NEW l \in Grown, NEW r \in Grown, Room(<<l, r>>),
         NEW p, NEW q, Converted(p, l), Converted(q, r),
         NEW kind \in Kinds, NEW ty \in Ty, NEW span \in Spans, NEW n,
         IsPlain(n, kind, <<p, q>>, ty, span)
  PROVE  /\ n \in Grown /\ n \in Tree /\ n.size <= 1 + SizeOf(<<l, r>>)
         /\ n.kind = kind /\ n.parts = <<p, q>> /\ n.ty = ty
         /\ n.value = <<>> /\ n.conversion = "None"
         /\ Sort[p] = Sort[l] /\ Sort[q] = Sort[r]
         /\ PartsMeetTheirUse(n) /\ (\A i \in DOMAIN <<l, r>> : Consistent(<<l, r>>[i])) => Consistent(n)
         /\ (\A i \in DOMAIN <<l, r>> : Right(<<l, r>>[i])) <=> Right(l) /\ Right(r)
<1> DEFINE parts == <<p, q>>
           ops == <<l, r>>
<1>0. MaxNodes \in Nat
  BY TypeCheckerAssumption
<1>4. parts \in Seq(Grown) /\ ops \in Seq(Grown) /\ Stands(parts, ops) /\ Len(ops) = 2
      /\ ops[1] = l /\ parts[1] = p /\ ops[2] = r /\ parts[2] = q /\ DOMAIN ops = {1, 2}
  <2>1. parts \in Seq(Grown) /\ Stands(parts, ops)
    BY <1>0, StandsTwo
  <2>2. ops \in Seq(Grown) /\ Len(ops) = 2
        /\ ops[1] = l /\ parts[1] = p /\ ops[2] = r /\ parts[2] = q /\ DOMAIN ops = {1, 2}
    OBVIOUS
  <2> QED
    BY <2>1, <2>2
<1>5. PICK is \in Marks : IsNode(n, kind, is, parts, ty, span)
  BY Unmarked
<1>m. 1 + SizeOf(ops) <= MaxNodes
  BY DEF Room
<1> HIDE DEF ops, parts
<1>6. /\ n \in Grown /\ n \in Tree /\ n.size = 1 + SizeOf(ops)
      /\ n.kind = kind /\ n.is = is /\ n.parts = parts /\ n.ty = ty
      /\ n.value = <<>> /\ n.conversion = "None"
      /\ \A i \in 1 .. Len(ops) : Sort[parts[i]] = Sort[ops[i]]
      /\ PartsMeetTheirUse(n) /\ (\A i \in DOMAIN ops : Consistent(ops[i])) => Consistent(n)
  BY <1>0, <1>4, <1>5, <1>m, PartNode
<1>7. Sort[p] = Sort[l] /\ Sort[q] = Sort[r]
  <2>1. \A i \in 1 .. Len(ops) : Sort[parts[i]] = Sort[ops[i]]
    BY <1>6
  <2>2. 1 \in 1 .. Len(ops) /\ 2 \in 1 .. Len(ops)
    BY <1>4
  <2>3. Sort[parts[1]] = Sort[ops[1]] /\ Sort[parts[2]] = Sort[ops[2]]
    BY <2>1, <2>2
  <2> QED
    BY <1>4, <2>3
<1>8. (\A i \in DOMAIN ops : Right(ops[i])) <=> Right(l) /\ Right(r)
  BY <1>4
<1>9. n.size <= 1 + SizeOf(ops)
  <2>1. SizeOf(ops) \in Nat
    BY <1>0, <1>4, PartsLow
  <2> QED
    BY <1>6, <2>1
<1> QED
  BY <1>6, <1>7, <1>8, <1>9 DEF ops, parts

LEMMA AssignableSort ==
  ASSUME MaxNodes \in Nat, NEW n \in Tree, is_assignable(n), Accurate(n), Right(n)
  PROVE  /\ n.ty \in ValueTypes /\ SortOf(n.ty) = Sort[n] /\ n.ty # TyError
         /\ n.ty.shape # "array" => n.ty \in Passed /\ Sort[n] \in Testable
         /\ n.ty.shape = "array" => Sort[n] \notin Testable
<1>1. n.kind # "Callee" /\ n.kind \in {"Ident", "Index"}
  BY DEF is_assignable
<1>2. n.ty \in ValueTypes /\ SortOf(n.ty) = Sort[n] /\ n.ty # TyError /\ Sort[n] # Wrong
  BY <1>1, RightValue
<1>3. Sort[n] \in Testable \cup Arrays
  <2>1. CASE n.kind = "Ident"
    BY <1>2, <2>1, LeafSort DEF Means
  <2>2. CASE n.kind = "Index"
    <3> DEFINE of == [i \in DOMAIN n.parts |-> Sort[n.parts[i]]]
    <3>1. Sort[n] = SortFrom(n, of)
      BY SortIs
    <3> HIDE DEF of
    <3>2. Sort[n] \in {Number, Wrong}
      BY <2>2, <3>1 DEF SortFrom, Provided
    <3> QED
      BY <1>2, <3>2, TestableIs
  <2> QED
    BY <1>1, <2>1, <2>2
<1>4. CASE n.ty \in {TyInt, TyChar} /\ n.ty.shape = "scalar" /\ SortOf(n.ty) = Number
  BY <1>2, <1>4, TyHas, TestableIs
<1>5. CASE n.ty.shape = "ptr" /\ n.ty.base \in Bases /\ n.ty = Ptr(n.ty.base)
           /\ SortOf(n.ty) = PointerTo(n.ty.base)
  <2>1. n.ty \in Passed
    BY <1>5 DEF Passed
  <2> QED
    BY <1>2, <1>5, <2>1, TestableIs
<1>6. CASE n.ty.shape = "array" /\ n.ty.base \in Bases /\ SortOf(n.ty) = ArrayOf(n.ty.base)
  BY <1>2, <1>6, TestableIs, SortsDiffer
<1>7. CASE n.ty = TyVoid /\ n.ty.shape = "scalar" /\ SortOf(n.ty) = Void
  BY <1>2, <1>3, <1>7, TestableIs, SortsDiffer
<1> QED
  BY <1>2, <1>4, <1>5, <1>6, <1>7, ValueForms

(* A value that cannot go where it is wanted is reported. *)
LEMMA CannotIs ==
  ASSUME NEW carrying \in {"assign", "pass", "return", "initialize"}, NEW n, n.ty \in Ty, n.span \in Spans,
         NEW expected \in Ty
  PROVE  /\ Cannot(carrying, n, expected) \in Seq(Reports)
         /\ Cannot(carrying, n, expected) = <<>> <=> assignability(expected, n.ty) # "Incompatible"
<1> DEFINE types == <<n.ty, expected>>
<1>1. types \in Seq(Ty) /\ carrying \in Subjects
  <2>1. types \in Seq(Ty)
    OBVIOUS
  <2>2. carrying \in Subjects
    BY Zenon DEF Subjects
  <2> QED
    BY <2>1, <2>2
<1>2. PICK c \in BOOLEAN : c = (assignability(expected, n.ty) = "Incompatible")
  OBVIOUS
<1>3. Cannot(carrying, n, expected) = Report(c, n.span, carrying, types)
  BY <1>2, Zenon DEF Cannot
<1> HIDE DEF types
<1>4. /\ Report(c, n.span, carrying, types) \in Seq(Reports)
      /\ Report(c, n.span, carrying, types) = <<>> <=> ~c
  BY <1>1, ReportIs
<1> QED
  BY <1>2, <1>3, <1>4

(* It is reported exactly if its sort does not fit, and gets there as what *)
(* is wanted if it does.                                                   *)
LEMMA Carried ==
  ASSUME NEW carrying \in {"assign", "pass", "return", "initialize"}, NEW n \in Tree,
         n.kind # "Callee", Accurate(n), Right(n), NEW expected \in Passed
  PROVE  /\ Cannot(carrying, n, expected) = <<>> <=> Fits(Sort[n], SortOf(expected))
         /\ Fits(Sort[n], SortOf(expected)) => Receives(carry_into(n, expected)) = expected
<1>1. MaxNodes \in Nat
  BY TypeCheckerAssumption
<1>2. n.ty \in ValueTypes /\ SortOf(n.ty) = Sort[n] /\ n.ty # TyError
  BY RightValue
<1>3. n.ty \in Ty /\ n.span \in Spans /\ n.conversion = "None" /\ expected \in Ty
  BY <1>1, TreeFields, TyHas DEF Accurate
<1>4. Cannot(carrying, n, expected) = <<>> <=> assignability(expected, n.ty) # "Incompatible"
  BY <1>3, CannotIs
<1>5. assignability(expected, n.ty) = "Incompatible" <=> ~Fits(Sort[n], SortOf(expected))
  BY <1>2, AssignsAsItFits
<1>6. ASSUME Fits(Sort[n], SortOf(expected))
      PROVE  Receives(carry_into(n, expected)) = expected
  BY <1>1, <1>2, <1>3, <1>5, <1>6, ArrivesAsExpected DEF Receives
<1>7. Fits(Sort[n], SortOf(expected)) \in BOOLEAN
  BY DEF Fits
<1> QED
  BY <1>4, <1>5, <1>6, <1>7

LEMMA WrongNeverFits ==
  ASSUME NEW sort
  PROVE  ~Fits(Wrong, sort)
BY SortsDiffer, TestableIs DEF Fits

IsAssign(n, t, v, span) ==
  IF t.ty.shape = "array" THEN IsPlain(n, "Assign", <<t, v>>, t.ty, span)
  ELSE IsPlain(n, "Assign", <<t, carry_into(v, t.ty)>>, t.ty, span)
ReportsOfAssign(t, v) ==
  IF t.ty.shape = "array" THEN Report(TRUE, t.span, "array not assignable", <<>>)
  ELSE Cannot("assign", v, t.ty)

LEMMA AssignBuilds ==
  ASSUME 1 <= MaxNodes, NEW t \in Grown, NEW v \in Grown, is_assignable(t),
         v.kind # "Callee", Accurate(t), Accurate(v), Room(<<t, v>>),
         NEW span \in Spans, NEW n, IsAssign(n, t, v, span),
         NEW found, found = ReportsOfAssign(t, v)
  PROVE  Builds(<<t, v>>, n, found)
<1> DEFINE w == IF t.ty.shape = "array" THEN v ELSE carry_into(v, t.ty)
<1>0. MaxNodes \in Nat /\ t \in Tree /\ v \in Tree /\ t.kind # "Callee"
  BY TypeCheckerAssumption DEF Grown, is_assignable
<1>1. /\ t.ty \in Ty /\ t.span \in Spans /\ t.conversion = "None"
      /\ v.ty \in Ty /\ v.span \in Spans /\ v.conversion = "None"
  BY <1>0, TreeFields DEF Accurate
<1>2. Converted(t, t) /\ Converted(w, v) /\ "Assign" \in Kinds
  BY <1>0, Unconverted, RecordedIs DEF Kinds
<1>3. IsPlain(n, "Assign", <<t, w>>, t.ty, span)
  BY DEF IsAssign
<1> HIDE DEF w
<1>4. /\ n \in Grown /\ n \in Tree /\ n.size <= 1 + SizeOf(<<t, v>>)
      /\ n.kind = "Assign" /\ n.parts = <<t, w>> /\ n.ty = t.ty
      /\ n.value = <<>> /\ n.conversion = "None"
      /\ Sort[t] = Sort[t] /\ Sort[w] = Sort[v]
      /\ PartsMeetTheirUse(n) /\ (\A i \in DOMAIN <<t, v>> : Consistent(<<t, v>>[i])) => Consistent(n)
      /\ (\A i \in DOMAIN <<t, v>> : Right(<<t, v>>[i])) <=> Right(t) /\ Right(v)
  BY <1>1, <1>2, <1>3, TwoParts
<1>5. Sort[n] = Provided(Sort[t] \in Testable /\ Fits(Sort[v], Sort[t]), Sort[t])
  BY <1>0, <1>4, BinarySort
<1>6. Wrong \notin Testable
  BY SortsDiffer, TestableIs
<1>7. Right(n) <=> Sort[t] \in Testable /\ Fits(Sort[v], Sort[t])
  <2>1. Right(n) <=> Sort[n] # Wrong
    BY <1>4 DEF Right
  <2> QED
    BY <1>5, <1>6, <2>1 DEF Provided
<1>8. /\ ~Right(t) => Sort[t] = Wrong
      /\ ~Right(v) => Sort[v] = Wrong
  BY <1>0, WrongValue
<1>9. found \in Seq(Reports)
  <2>1. CASE t.ty.shape = "array"
    <3>1. "array not assignable" \in Subjects /\ <<>> \in Seq(Ty) /\ TRUE \in BOOLEAN
      BY DEF Subjects
    <3> QED
      BY <1>1, <2>1, <3>1, ReportIs DEF ReportsOfAssign
  <2>2. CASE t.ty.shape # "array"
    BY <1>1, <2>2, CannotIs DEF ReportsOfAssign
  <2> QED
    BY <2>1, <2>2
<1>10. Right(n) <=> found = <<>> /\ Right(t) /\ Right(v)
  <2>1. CASE ~Right(t)
    BY <1>6, <1>7, <1>8, <2>1
  <2>2. CASE ~Right(v)
    BY <1>7, <1>8, <2>2, WrongNeverFits
  <2>3. CASE Right(t) /\ Right(v)
    <3>1. /\ t.ty \in ValueTypes /\ SortOf(t.ty) = Sort[t]
          /\ t.ty.shape # "array" => t.ty \in Passed /\ Sort[t] \in Testable
          /\ t.ty.shape = "array" => Sort[t] \notin Testable
      BY <1>0, <2>3, AssignableSort
    <3>2. CASE t.ty.shape = "array"
      <4>1. found # <<>>
        <5>1. "array not assignable" \in Subjects /\ <<>> \in Seq(Ty) /\ TRUE \in BOOLEAN
          BY DEF Subjects
        <5>2. Report(TRUE, t.span, "array not assignable", <<>>) = <<>> <=> ~TRUE
          BY <1>1, <5>1, ReportIs
        <5> QED
          BY <3>2, <5>2 DEF ReportsOfAssign
      <4> QED
        BY <1>7, <3>1, <3>2, <4>1
    <3>3. CASE t.ty.shape # "array"
      <4>1. found = <<>> <=> Fits(Sort[v], SortOf(t.ty))
        <5>1. "assign" \in {"assign", "pass", "return", "initialize"} /\ t.ty \in Passed
          BY <3>1, <3>3
        <5>2. Cannot("assign", v, t.ty) = <<>> <=> Fits(Sort[v], SortOf(t.ty))
          BY <1>0, <2>3, <5>1, Carried
        <5> QED
          BY <3>3, <5>2 DEF ReportsOfAssign
      <4> QED
        BY <1>7, <2>3, <3>1, <3>3, <4>1
    <3> QED
      BY <3>2, <3>3
  <2> QED
    BY <2>1, <2>2, <2>3
<1>11. Right(n) => /\ PartsMeetTheirUse(n)
                   /\ n.ty \in ValueTypes /\ SortOf(n.ty) = Sort[n]
  <2> SUFFICES ASSUME Right(n)
               PROVE  /\ PartsMeetTheirUse(n)
                      /\ n.ty \in ValueTypes /\ SortOf(n.ty) = Sort[n]
    OBVIOUS
  <2>1. /\ t.ty \in ValueTypes /\ SortOf(t.ty) = Sort[t]
        /\ t.ty.shape # "array" => t.ty \in Passed /\ Sort[t] \in Testable
        /\ t.ty.shape = "array" => Sort[t] \notin Testable
    BY <1>0, <1>10, AssignableSort
  <2>2. t.ty.shape # "array" /\ t.ty \in Passed
    BY <1>7, <2>1
  <2>3. w = carry_into(v, t.ty)
    BY <2>2 DEF w
  <2>4. Receives(w) = t.ty
    <3>1. "assign" \in {"assign", "pass", "return", "initialize"}
      OBVIOUS
    <3>2. Fits(Sort[v], SortOf(t.ty))
      BY <1>7, <2>1
    <3> QED
      BY <1>0, <1>10, <2>2, <2>3, <3>1, <3>2, Carried
  <2>5. Receives(t) = t.ty
    BY <1>1, UnconvertedReceives
  <2>6. PartsMeetTheirUse(n)
    <3>1. Receives(t) = n.ty /\ Receives(w) = n.ty
      BY <1>4, <2>4, <2>5
    <3> QED
      BY <1>4, <3>1, BinaryUse
  <2>7. Sort[n] = Sort[t]
    BY <1>5, <1>7 DEF Provided
  <2> QED
    BY <1>4, <2>1, <2>6, <2>7
<1>12. Accurate(n)
  BY <1>4, <1>11 DEF Accurate, Right
<1> QED
  BY <1>4, <1>9, <1>10, <1>11, <1>12 DEF Builds

IsIndex(n, b, s, span) ==
  IsPlain(n, "Index", <<b, record_promotion(s)>>,
          IF b.ty.shape \in {"array", "ptr"} THEN Scalar(b.ty.base) ELSE TyError, span)
ReportsOfIndex(b, s, span) ==
  Report(~is_arithmetic(s.ty), s.span, "subscript", <<>>)
    \o Report(~(b.ty.shape \in {"array", "ptr"}) /\ b.ty # TyError, span, "not subscriptable", <<>>)

LEMMA ElementIs ==
  ASSUME NEW t \in Ty, t.shape \in {"array", "ptr"}
  PROVE  Scalar(t.base) \in {TyInt, TyChar}
<1>1. t \in ValueTypes
  <2>1. t \notin Functions
    BY FunctionIs
  <2>2. t # TyError
    BY ScalarsDiffer
  <2> QED
    BY <2>1, <2>2 DEF Ty, ValueTypes
<1>2. t.base \in Bases
  BY <1>1, ObjectIs
<1> QED
  BY <1>2 DEF Bases, TyInt, TyChar

LEMMA IndexBuilds ==
  ASSUME 1 <= MaxNodes, NEW b \in Grown, NEW s \in Grown, b.kind # "Callee",
         s.kind # "Callee", Accurate(b), Accurate(s), Room(<<b, s>>),
         NEW span \in Spans, NEW n, IsIndex(n, b, s, span),
         NEW found, found = ReportsOfIndex(b, s, span)
  PROVE  Builds(<<b, s>>, n, found)
<1> DEFINE q == record_promotion(s)
           holds == b.ty.shape \in {"array", "ptr"}
           ty == IF holds THEN Scalar(b.ty.base) ELSE TyError
<1>0. MaxNodes \in Nat /\ b \in Tree /\ s \in Tree
  BY TypeCheckerAssumption DEF Grown
<1>1. /\ b.ty \in Ty /\ b.span \in Spans /\ b.conversion = "None"
      /\ s.ty \in Ty /\ s.span \in Spans /\ s.conversion = "None"
  BY <1>0, TreeFields DEF Accurate
<1>2. Converted(b, b) /\ Converted(q, s) /\ "Index" \in Kinds
  BY <1>0, Unconverted, RecordedIs DEF Kinds
<1>3. ty \in Ty /\ (holds => ty \in {TyInt, TyChar})
  BY <1>1, ElementIs, TyHas
<1>p. IsPlain(n, "Index", <<b, q>>, ty, span)
  BY DEF IsIndex
<1>d. holds \in BOOLEAN /\ (holds <=> b.ty.shape \in {"array", "ptr"})
  OBVIOUS
<1> HIDE DEF q, ty
<1>4. /\ n \in Grown /\ n \in Tree /\ n.size <= 1 + SizeOf(<<b, s>>)
      /\ n.kind = "Index" /\ n.parts = <<b, q>> /\ n.ty = ty
      /\ n.value = <<>> /\ n.conversion = "None"
      /\ Sort[b] = Sort[b] /\ Sort[q] = Sort[s]
      /\ PartsMeetTheirUse(n) /\ (\A i \in DOMAIN <<b, s>> : Consistent(<<b, s>>[i])) => Consistent(n)
      /\ (\A i \in DOMAIN <<b, s>> : Right(<<b, s>>[i])) <=> Right(b) /\ Right(s)
  BY <1>2, <1>3, <1>p, TwoParts
<1>5. Sort[n] = Provided(Sort[b] \in Pointers \cup Arrays /\ Sort[s] = Number, Number)
  BY <1>0, <1>4, BinarySort
<1>6. Number # Wrong /\ Wrong \notin Pointers \cup Arrays
  BY SortsDiffer, TestableIs
<1>7. Right(n) <=> Sort[b] \in Pointers \cup Arrays /\ Sort[s] = Number
  <2>1. Right(n) <=> Sort[n] # Wrong
    BY <1>4 DEF Right
  <2> QED
    BY <1>5, <1>6, <2>1 DEF Provided
<1>8. /\ ~Right(b) => Sort[b] = Wrong
      /\ ~Right(s) => Sort[s] = Wrong
  BY <1>0, WrongValue
<1>9. found \in Seq(Reports) /\ (found = <<>> <=> is_arithmetic(s.ty) /\ (holds \/ b.ty = TyError))
  <2> DEFINE x == Report(~is_arithmetic(s.ty), s.span, "subscript", <<>>)
             y == Report(~holds /\ b.ty # TyError, span, "not subscriptable", <<>>)
  <2>1. "subscript" \in Subjects /\ "not subscriptable" \in Subjects /\ <<>> \in Seq(Ty)
    BY DEF Subjects
  <2>2. PICK c \in BOOLEAN : c = ~is_arithmetic(s.ty)
    OBVIOUS
  <2>3. PICK e \in BOOLEAN : e = (~holds /\ b.ty # TyError)
    OBVIOUS
  <2>4. x \in Seq(Reports) /\ (x = <<>> <=> ~c)
    BY <1>1, <2>1, <2>2, ReportIs
  <2>5. y \in Seq(Reports) /\ (y = <<>> <=> ~e)
    BY <2>1, <2>3, ReportIs
  <2>6. found = x \o y
    BY Zenon DEF ReportsOfIndex
  <2>7. is_arithmetic(s.ty) \in BOOLEAN
    BY DEF is_arithmetic
  <2> HIDE DEF x, y
  <2>8. x \o y \in Seq(Reports) /\ (x \o y = <<>> <=> x = <<>> /\ y = <<>>)
    BY <2>4, <2>5, BothEmpty
  <2>9. found = <<>> <=> ~c /\ ~e
    BY <2>4, <2>5, <2>6, <2>8
  <2> QED
    BY <1>d, <2>2, <2>3, <2>6, <2>7, <2>8, <2>9
<1> HIDE DEF holds
<1>10. /\ Right(b) => b.ty \in ValueTypes /\ SortOf(b.ty) = Sort[b] /\ b.ty # TyError
       /\ Right(s) => s.ty \in ValueTypes /\ SortOf(s.ty) = Sort[s] /\ s.ty # TyError
  BY RightValue
<1>11. Right(n) <=> found = <<>> /\ Right(b) /\ Right(s)
  <2>1. CASE ~Right(b)
    BY <1>6, <1>7, <1>8, <2>1
  <2>2. CASE ~Right(s)
    BY <1>6, <1>7, <1>8, <2>2
  <2>3. CASE Right(b) /\ Right(s)
    <3>1. is_arithmetic(s.ty) <=> Sort[s] = Number
      BY <1>10, <2>3, SortTells
    <3>2. holds <=> Sort[b] \in Pointers \cup Arrays
      BY <1>10, <1>d, <2>3, SortTells
    <3> QED
      BY <1>7, <1>9, <1>10, <2>3, <3>1, <3>2
  <2> QED
    BY <2>1, <2>2, <2>3
<1>12. Right(n) => /\ PartsMeetTheirUse(n)
                   /\ n.ty \in ValueTypes /\ SortOf(n.ty) = Sort[n]
  <2> SUFFICES ASSUME Right(n)
               PROVE  /\ PartsMeetTheirUse(n)
                      /\ n.ty \in ValueTypes /\ SortOf(n.ty) = Sort[n]
    OBVIOUS
  <2>1. Right(b) /\ Right(s) /\ Sort[n] = Number
    BY <1>5, <1>7, <1>11 DEF Provided
  <2>2. holds
    BY <1>7, <1>10, <1>d, <2>1, SortTells
  <2>3. Receives(q) = TyInt
    BY <1>0, <1>1, <1>7, <1>10, <2>1, PromotedReceives DEF q
  <2>4. Receives(b) = b.ty
    BY <1>1, UnconvertedReceives
  <2>5. PartsMeetTheirUse(n)
    BY <1>4, <2>3, <2>4, BinaryUse
  <2>6. ty \in ValueTypes /\ SortOf(ty) = Number
    BY <1>3, <2>2, TyHas, SortOfIs
  <2> QED
    BY <1>4, <2>1, <2>5, <2>6
<1>13. Accurate(n)
  BY <1>4, <1>12 DEF Accurate, Right
<1> QED
  BY <1>4, <1>9, <1>11, <1>12, <1>13 DEF Builds

-----------------------------------------------------------------------------
(* Calls.                                                                  *)

LEMMA Headed ==
  ASSUME NEW S, NEW head \in S, NEW tail \in Seq(S)
  PROVE  LET s == <<head>> \o tail
         IN  /\ s \in Seq(S) /\ Len(s) = Len(tail) + 1 /\ s[1] = head
             /\ \A i \in 1 .. Len(tail) : s[i + 1] = tail[i]
OBVIOUS

Agree(c, args) == c.ty.shape = "func" /\ Len(c.ty.params) = Len(args)
CarriedArguments(c, args) ==
  [i \in 1 .. Len(args) |-> IF Agree(c, args) THEN carry_into(args[i], c.ty.params[i]) ELSE args[i]]
IsCall(n, c, args, span) ==
  IsPlain(n, "Call", <<c>> \o CarriedArguments(c, args),
          IF c.ty.shape = "func" THEN c.ty.ret ELSE TyError, span)
ReportsOfArguments(c, args) == [i \in 1 .. Len(args) |-> Cannot("pass", args[i], c.ty.params[i])]
ReportsOfCall(c, args, span) ==
  IF Agree(c, args) THEN FlattenSeq(ReportsOfArguments(c, args))
  ELSE IF c.ty.shape = "func" THEN Report(TRUE, span, "arity", <<>>)
  ELSE Report(c.ty # TyError, span, "not a function", <<>>)

LEMMA FunctionTypes ==
  ASSUME NEW t \in Ty, t.shape = "func"
  PROVE  t \in Functions /\ t.params \in Seq(Passed) /\ t.ret \in {TyInt, TyChar, TyVoid} /\ t.ret \in Ty
         /\ t # TyError
<1>1. t \in Functions
  BY ScalarsDiffer, ObjectIs DEF Ty, ValueTypes
<1> QED
  BY <1>1, FunctionIs, TyHas

LEMMA CallReports ==
  ASSUME NEW c \in Tree, NEW args \in Seq(Grown), NEW span \in Spans
  PROVE  /\ ReportsOfCall(c, args, span) \in Seq(Reports)
         /\ Agree(c, args) =>
              (ReportsOfCall(c, args, span) = <<>> <=>
                 \A i \in 1 .. Len(args) : Cannot("pass", args[i], c.ty.params[i]) = <<>>)
         /\ ~Agree(c, args) =>
              (ReportsOfCall(c, args, span) = <<>> <=> c.ty.shape # "func" /\ c.ty = TyError)
<1>0. MaxNodes \in Nat
  BY TypeCheckerAssumption
<1>1. c.ty \in Ty /\ args \in Seq(Tree)
  BY <1>0, TreeFields, GrownAreTrees
<1>2. "arity" \in Subjects /\ "not a function" \in Subjects /\ <<>> \in Seq(Ty) /\ TRUE \in BOOLEAN
  BY DEF Subjects
<1>3. CASE Agree(c, args)
  <2> DEFINE seqs == ReportsOfArguments(c, args)
  <2>1. c.ty.params \in Seq(Passed) /\ Len(c.ty.params) = Len(args)
    BY <1>1, <1>3, FunctionTypes DEF Agree
  <2>2. ASSUME NEW i \in 1 .. Len(args)
        PROVE  Cannot("pass", args[i], c.ty.params[i]) \in Seq(Reports)
    <3>1. args[i] \in Tree /\ c.ty.params[i] \in Passed
      BY <1>1, <2>1
    <3>2. args[i].ty \in Ty /\ args[i].span \in Spans /\ c.ty.params[i] \in Ty
      BY <1>0, <3>1, TreeFields, TyHas
    <3> QED
      BY <3>2, CannotIs
  <2>3. seqs \in Seq(Seq(Reports)) /\ Len(seqs) = Len(args)
        /\ \A i \in 1 .. Len(args) : seqs[i] = Cannot("pass", args[i], c.ty.params[i])
    BY <2>2 DEF ReportsOfArguments
  <2> HIDE DEF seqs
  <2>4. /\ FlattenSeq(seqs) \in Seq(Reports)
        /\ FlattenSeq(seqs) = <<>> <=> \A i \in 1 .. Len(seqs) : seqs[i] = <<>>
    BY <2>3, Flattened
  <2>5. ReportsOfCall(c, args, span) = FlattenSeq(seqs)
    BY <1>3, Zenon DEF ReportsOfCall, seqs
  <2> QED
    BY <1>3, <2>3, <2>4, <2>5
<1>4. CASE ~Agree(c, args) /\ c.ty.shape = "func"
  <2>1. ReportsOfCall(c, args, span) = Report(TRUE, span, "arity", <<>>)
    BY <1>4, Zenon DEF ReportsOfCall
  <2>2. Report(TRUE, span, "arity", <<>>) \in Seq(Reports)
        /\ (Report(TRUE, span, "arity", <<>>) = <<>> <=> ~TRUE)
    BY <1>2, ReportIs
  <2> QED
    BY <1>4, <2>1, <2>2
<1>5. CASE ~Agree(c, args) /\ c.ty.shape # "func"
  <2>1. PICK e \in BOOLEAN : e = (c.ty # TyError)
    OBVIOUS
  <2>2. ReportsOfCall(c, args, span) = Report(e, span, "not a function", <<>>)
    BY <1>5, <2>1, Zenon DEF ReportsOfCall
  <2>3. Report(e, span, "not a function", <<>>) \in Seq(Reports)
        /\ (Report(e, span, "not a function", <<>>) = <<>> <=> ~e)
    BY <1>2, ReportIs
  <2> QED
    BY <1>5, <2>1, <2>2, <2>3
<1> QED
  BY <1>3, <1>4, <1>5

SortsOfParts(n) == [i \in DOMAIN n.parts |-> Sort[n.parts[i]]]
FitsParameters(n, f) ==
  /\ Len(n.parts) = Len(f.params) + 1
  /\ \A i \in DOMAIN f.params : Fits(SortsOfParts(n)[i + 1], SortOf(f.params[i]))

LEMMA CallSort ==
  ASSUME MaxNodes \in Nat, NEW n \in Tree, n.kind = "Call", NEW c, NEW f,
         Len(n.parts) >= 1, n.parts[1] = c, f = Declared[c.is]
  PROVE  /\ Sort[c] # Function => Sort[n] = Wrong
         /\ Sort[c] = Function =>
              Sort[n] = Provided(FitsParameters(n, f), SortOf(f.ret))
<1> DEFINE of == SortsOfParts(n)
<1>1. Sort[n] = SortFrom(n, of)
  BY SortIs DEF SortsOfParts
<1>2. 1 \in DOMAIN n.parts
  <2>1. n.parts \in Seq(Tree)
    BY TreeFields
  <2> QED
    BY <2>1
<1>3. of[1] = Sort[c]
  BY <1>2 DEF SortsOfParts
<1> HIDE DEF of
<1>4. SortFrom(n, of) = IF of[1] # Function THEN Wrong
                        ELSE Provided(/\ Len(n.parts) = Len(f.params) + 1
                                 /\ \A i \in DOMAIN f.params : Fits(of[i + 1], SortOf(f.params[i])),
                                 SortOf(f.ret))
  BY DEF SortFrom
<1> QED
  BY <1>1, <1>3, <1>4 DEF of, FitsParameters

LEMMA ArgumentsStand ==
  ASSUME NEW c \in Grown, NEW args \in Seq(Grown)
  PROVE  /\ <<c>> \o CarriedArguments(c, args) \in Seq(Grown)
         /\ <<c>> \o args \in Seq(Grown)
         /\ Stands(<<c>> \o CarriedArguments(c, args), <<c>> \o args)
<1>0. MaxNodes \in Nat /\ c \in Tree /\ args \in Seq(Tree)
  BY TypeCheckerAssumption, GrownAreTrees DEF Grown
<1> DEFINE carried == CarriedArguments(c, args)
           s == <<c>> \o carried
           t == <<c>> \o args
<1>1. \A i \in 1 .. Len(args) : Converted(carried[i], args[i])
  BY <1>0, Unconverted, RecordedIs DEF CarriedArguments
<1>2. carried \in Seq(Grown) /\ Len(carried) = Len(args)
  <2>1. \A i \in 1 .. Len(args) : carried[i] \in Grown
    BY <1>0, <1>1, ConvertedGrows
  <2>2. carried = [i \in 1 .. Len(args) |-> carried[i]] /\ Len(args) \in Nat
    BY DEF CarriedArguments
  <2> HIDE DEF carried
  <2> QED
    BY <2>1, <2>2
<1>3. Converted(c, c)
  BY <1>0, Unconverted
<1> HIDE DEF carried
<1>4. /\ s \in Seq(Grown) /\ Len(s) = Len(carried) + 1 /\ s[1] = c
      /\ \A i \in 1 .. Len(carried) : s[i + 1] = carried[i]
  BY <1>2, Headed
<1>5. /\ t \in Seq(Grown) /\ Len(t) = Len(args) + 1 /\ t[1] = c
      /\ \A i \in 1 .. Len(args) : t[i + 1] = args[i]
  BY Headed
<1> HIDE DEF s, t
<1>6. ASSUME NEW i \in 1 .. Len(t)
      PROVE  Converted(s[i], t[i])
  <2>1. CASE i = 1
    BY <1>3, <1>4, <1>5, <2>1
  <2>2. CASE i # 1
    <3>1. i - 1 \in 1 .. Len(args) /\ (i - 1) + 1 = i
      BY <1>5, <2>2
    <3>2. PICK k \in 1 .. Len(args) : k + 1 = i
      BY <3>1
    <3>3. s[i] = carried[k] /\ t[i] = args[k]
      BY <1>2, <1>4, <1>5, <3>2
    <3> QED
      BY <1>1, <3>3
  <2> QED
    BY <2>1, <2>2
<1>7. Stands(s, t)
  BY <1>2, <1>4, <1>5, <1>6 DEF Stands
<1> QED
  BY <1>4, <1>5, <1>7 DEF s, t, carried

(* The arguments reach the parameters exactly if each fits its own.        *)
Suited(c, args) ==
  Agree(c, args) /\ \A i \in 1 .. Len(args) : Fits(Sort[args[i]], SortOf(c.ty.params[i]))

(* A callee is a function exactly if its name is one's. *)
LEMMA CalleeIs ==
  ASSUME NEW c \in Tree, c.kind # "Ident", Accurate(c)
  PROVE  /\ Sort[c] = Function => /\ Right(c) /\ c.ty = Declared[c.is] /\ c.ty \in Functions
                                  /\ c.ty.shape = "func"
         /\ Right(c) /\ Sort[c] # Function => c.ty.shape # "func" /\ c.ty # TyError
         /\ Right(c) /\ Sort[c] = Function => c.kind = "Callee"
<1>0. MaxNodes \in Nat
  BY TypeCheckerAssumption
<1>f. Function # Wrong
  BY SortsDiffer
<1>1. CASE c.kind = "Callee" /\ c.is \in DOMAIN Declared
  <2>1. c.ty = Declared[c.is] /\ Right(c)
    BY <1>1 DEF Accurate, Right
  <2>2. Sort[c] = IF SortOf(Declared[c.is]) = Function THEN Function ELSE Wrong
    BY <1>0, <1>1, LeafSort DEF Provided, Means
  <2>3. CASE Declared[c.is] \in Functions
    <3>1. SortOf(Declared[c.is]) = Function /\ c.ty.shape = "func"
      BY <1>1, <2>1, <2>3, DeclaredIs
    <3> QED
      BY <1>1, <2>1, <2>2, <2>3, <3>1
  <2>4. CASE Declared[c.is] \notin Functions
    <3>1. c.ty \in ValueTypes /\ SortOf(c.ty) \in Testable \cup Arrays
      BY <1>1, <2>1, <2>4, DeclaredIs
    <3>2. Function \notin Testable \cup Arrays
      BY SortsDiffer, TestableIs
    <3>3. Sort[c] = Wrong
      BY <2>1, <2>2, <3>1, <3>2
    <3>4. c.ty.shape # "func" /\ c.ty # TyError
      BY <3>1, ObjectIs
    <3> QED
      BY <1>f, <3>3, <3>4
  <2> QED
    BY <2>3, <2>4
<1>2. CASE c.kind = "Callee" /\ c.is \notin DOMAIN Declared
  <2>1. ~Right(c)
    BY <1>2 DEF Right
  <2>2. Sort[c] = Wrong
    BY <1>0, <1>2, LeafSort DEF Provided, Means
  <2> QED
    BY <1>f, <2>1, <2>2
<1>3. CASE c.kind # "Callee"
  <2>1. CASE Right(c)
    <3>1. c.ty \in ValueTypes /\ SortOf(c.ty) = Sort[c] /\ c.ty # TyError
      BY <1>3, <2>1, RightValue
    <3>2. Sort[c] # Function /\ c.ty.shape # "func"
      BY <3>1, SortTells, ObjectIs
    <3> QED
      BY <3>1, <3>2
  <2>2. CASE ~Right(c)
    BY <1>3, <1>f, <2>2, WrongValue
  <2> QED
    BY <2>1, <2>2
<1> QED
  BY <1>1, <1>2, <1>3

(* The arguments are values on the stack, and stand behind the callee.     *)
AreArguments(args) == \A i \in 1 .. Len(args) : args[i].kind # "Callee" /\ Accurate(args[i])
Behind(ops, c, args) == ops = <<c>> \o args

LEMMA CallBuilds ==
  ASSUME 1 <= MaxNodes, NEW c \in Grown, NEW args \in Seq(Grown), c.kind # "Ident", Accurate(c),
         AreArguments(args), NEW ops, Behind(ops, c, args), Room(ops),
         NEW span \in Spans, NEW n, IsCall(n, c, args, span),
         NEW found, found = ReportsOfCall(c, args, span)
  PROVE  Builds(ops, n, found)
<1> DEFINE carried == CarriedArguments(c, args)
           parts == <<c>> \o carried
           called == c.ty.shape = "func"
           ty == IF called THEN c.ty.ret ELSE TyError
<1>0. MaxNodes \in Nat /\ c \in Tree /\ args \in Seq(Tree) /\ \A i \in 1 .. Len(args) : args[i] \in Tree
  BY TypeCheckerAssumption, GrownAreTrees DEF Grown
<1>n. MaxNodes \in Nat
  BY <1>0
<1>1. c.ty \in Ty /\ c.span \in Spans /\ c.conversion = "None"
  BY <1>0, TreeFields DEF Accurate
<1>2. ty \in Ty /\ "Call" \in Kinds
  BY <1>1, FunctionTypes, TyHas DEF Kinds
<1>3. parts \in Seq(Grown) /\ ops \in Seq(Grown) /\ Stands(parts, ops)
  BY ArgumentsStand DEF Behind
<1>4. /\ Len(ops) = Len(args) + 1 /\ ops[1] = c /\ \A i \in 1 .. Len(args) : ops[i + 1] = args[i]
  BY Headed DEF Behind
<1>5. /\ Len(parts) = Len(args) + 1 /\ parts[1] = c
      /\ \A i \in 1 .. Len(args) : parts[i + 1] = carried[i]
  <2>1. carried \in Seq(Tree) /\ Len(carried) = Len(args)
    <3>1. \A i \in 1 .. Len(args) : carried[i] \in Tree
      BY <1>0, RecordedIs, ConvertedIs DEF CarriedArguments
    <3>2. carried = [i \in 1 .. Len(args) |-> carried[i]] /\ Len(args) \in Nat
      BY DEF CarriedArguments
    <3> HIDE DEF carried
    <3> QED
      BY <3>1, <3>2
  <2> HIDE DEF carried
  <2> QED
    BY <1>0, <2>1, Headed
<1>6. PICK is \in Marks : IsNode(n, "Call", is, parts, ty, span)
  BY Unmarked DEF IsCall
<1>m. 1 + SizeOf(ops) <= MaxNodes
  BY DEF Room
<1>c. \A i \in 1 .. Len(args) : Agree(c, args) => carried[i] = carry_into(args[i], c.ty.params[i])
  BY DEF CarriedArguments
<1>t. called => ty = c.ty.ret
  OBVIOUS
<1>d. called <=> c.ty.shape = "func"
  OBVIOUS
<1> HIDE DEF ty, parts, carried, called
<1>7. /\ n \in Grown /\ n \in Tree /\ n.size = 1 + SizeOf(ops)
      /\ n.kind = "Call" /\ n.is = is /\ n.parts = parts /\ n.ty = ty
      /\ n.value = <<>> /\ n.conversion = "None"
      /\ \A i \in 1 .. Len(ops) : Sort[parts[i]] = Sort[ops[i]]
      /\ PartsMeetTheirUse(n) /\ (\A i \in DOMAIN ops : Consistent(ops[i])) => Consistent(n)
  BY <1>n, <1>2, <1>3, <1>6, <1>m, PartNode
<1>8. PICK f : f = Declared[c.is]
  OBVIOUS
<1>9. /\ Sort[c] # Function => Sort[n] = Wrong
      /\ Sort[c] = Function =>
           Sort[n] = Provided(FitsParameters(n, f), SortOf(f.ret))
  <2>1. Len(n.parts) >= 1 /\ n.parts[1] = c
    BY <1>0, <1>5, <1>7
  <2>2. n \in Tree /\ n.kind = "Call"
    BY <1>7
  <2> QED
    BY <1>n, <1>8, <2>1, <2>2, CallSort
<1>10. /\ Sort[c] = Function => /\ Right(c) /\ c.ty = Declared[c.is] /\ c.ty \in Functions
                                /\ c.ty.shape = "func"
       /\ Right(c) /\ Sort[c] # Function => c.ty.shape # "func" /\ c.ty # TyError
       /\ Right(c) /\ Sort[c] = Function => c.kind = "Callee"
  BY <1>0, CalleeIs
<1>11. ASSUME Sort[c] = Function
       PROVE  /\ Sort[n] = Provided(Suited(c, args), SortOf(c.ty.ret))
              /\ SortOf(c.ty.ret) # Wrong /\ c.ty.ret \in ValueTypes
  <2>1. f = c.ty /\ f \in Functions /\ f.params \in Seq(Passed) /\ f.ret \in {TyInt, TyChar, TyVoid}
    BY <1>8, <1>10, <1>11, FunctionIs
  <2>2. ASSUME Len(f.params) = Len(args), NEW i \in DOMAIN f.params
        PROVE  SortsOfParts(n)[i + 1] = Sort[args[i]]
    <3>1. i \in 1 .. Len(args)
      BY <2>1, <2>2
    <3>2. i + 1 \in DOMAIN n.parts /\ i + 1 \in 1 .. Len(ops)
      BY <1>3, <1>4, <1>5, <1>7, <3>1
    <3>3. Sort[parts[i + 1]] = Sort[ops[i + 1]] /\ ops[i + 1] = args[i]
      BY <1>4, <1>7, <3>1, <3>2
    <3> QED
      BY <1>7, <3>2, <3>3 DEF SortsOfParts
  <2>3. Len(n.parts) = Len(f.params) + 1 <=> Agree(c, args)
    BY <1>5, <1>7, <1>10, <1>11, <2>1 DEF Agree
  <2>4. FitsParameters(n, f) <=> Suited(c, args)
    <3>1. CASE Agree(c, args)
      <4>1. Len(f.params) = Len(args) /\ DOMAIN f.params = 1 .. Len(args)
        BY <2>1, <3>1 DEF Agree
      <4> QED
        BY <2>1, <2>2, <2>3, <3>1, <4>1 DEF Suited, FitsParameters
    <3>2. CASE ~Agree(c, args)
      BY <2>3, <3>2 DEF Suited, FitsParameters
    <3> QED
      BY <3>1, <3>2
  <2>5. c.ty.ret \in ValueTypes
    BY <2>1 DEF ValueTypes, Objects, Passed
  <2>6. SortOf(c.ty.ret) # Wrong
    BY <2>5, SortTells
  <2>7. Sort[n] = Provided(Suited(c, args), SortOf(c.ty.ret))
    BY <1>9, <1>11, <2>1, <2>4 DEF Provided
  <2> QED
    BY <2>5, <2>6, <2>7
<1>12. Right(n) <=> Sort[c] = Function /\ Suited(c, args)
  <2>1. Right(n) <=> Sort[n] # Wrong
    BY <1>7 DEF Right
  <2> QED
    BY <1>9, <1>11, <2>1 DEF Provided
<1>13. /\ found \in Seq(Reports)
       /\ Agree(c, args) => (found = <<>> <=>
              \A i \in 1 .. Len(args) : Cannot("pass", args[i], c.ty.params[i]) = <<>>)
       /\ ~Agree(c, args) => (found = <<>> <=> c.ty.shape # "func" /\ c.ty = TyError)
  BY <1>0, CallReports
<1>14. Sort[c] = Function /\ Suited(c, args) => \A i \in 1 .. Len(args) : Right(args[i])
  BY WrongValue, WrongNeverFits DEF Suited, AreArguments
<1>p. ASSUME Agree(c, args), NEW i \in 1 .. Len(args)
      PROVE  c.ty.params[i] \in Passed
  <2>1. c.ty.params \in Seq(Passed) /\ Len(c.ty.params) = Len(args)
    BY <1>1, <1>p, FunctionTypes DEF Agree
  <2> QED
    BY <2>1
<1>a. "pass" \in {"assign", "pass", "return", "initialize"}
  OBVIOUS
<1>15. ASSUME \A i \in 1 .. Len(args) : Right(args[i]), Agree(c, args)
       PROVE  found = <<>> <=> Suited(c, args)
  <2>1. ASSUME NEW i \in 1 .. Len(args)
        PROVE  Cannot("pass", args[i], c.ty.params[i]) = <<>> <=> Fits(Sort[args[i]], SortOf(c.ty.params[i]))
    <3>1. args[i] \in Tree /\ args[i].kind # "Callee" /\ Accurate(args[i]) /\ Right(args[i])
          /\ c.ty.params[i] \in Passed
      BY <1>0, <1>15, <1>p DEF AreArguments
    <3> QED
      BY <1>a, <3>1, Carried
  <2> QED
    BY <1>13, <1>15, <2>1 DEF Suited
<1>16. (\A i \in DOMAIN ops : Right(ops[i])) <=> Right(c) /\ \A i \in 1 .. Len(args) : Right(args[i])
  <2>1. DOMAIN ops = 1 .. Len(args) + 1 /\ Len(args) \in Nat
    BY <1>3, <1>4
  <2>2. ASSUME NEW i \in DOMAIN ops, Right(c), \A j \in 1 .. Len(args) : Right(args[j])
        PROVE  Right(ops[i])
    <3>1. CASE i = 1
      BY <1>4, <2>2, <3>1
    <3>2. CASE i # 1
      <4>1. PICK k \in 1 .. Len(args) : k + 1 = i
        <5>1. i - 1 \in 1 .. Len(args) /\ (i - 1) + 1 = i
          BY <2>1, <3>2
        <5> QED
          BY <5>1
      <4> QED
        BY <1>4, <2>2, <4>1
    <3> QED
      BY <3>1, <3>2
  <2>3. ASSUME \A i \in DOMAIN ops : Right(ops[i])
        PROVE  Right(c) /\ \A i \in 1 .. Len(args) : Right(args[i])
    <3>1. 1 \in DOMAIN ops /\ \A i \in 1 .. Len(args) : i + 1 \in DOMAIN ops
      BY <2>1
    <3> QED
      BY <1>4, <2>3, <3>1
  <2> QED
    BY <2>2, <2>3
<1>17. Right(n) <=> found = <<>> /\ \A i \in DOMAIN ops : Right(ops[i])
  <2>1. ASSUME Right(n)
        PROVE  found = <<>> /\ \A i \in DOMAIN ops : Right(ops[i])
    <3>1. Sort[c] = Function /\ Suited(c, args) /\ Right(c) /\ \A i \in 1 .. Len(args) : Right(args[i])
      BY <1>10, <1>12, <1>14, <2>1
    <3>2. Agree(c, args)
      BY <3>1 DEF Suited
    <3> QED
      BY <1>15, <1>16, <3>1, <3>2
  <2>2. ASSUME found = <<>>, \A i \in DOMAIN ops : Right(ops[i])
        PROVE  Right(n)
    <3>1. Right(c) /\ \A i \in 1 .. Len(args) : Right(args[i])
      BY <1>16, <2>2
    <3>2. CASE Agree(c, args)
      <4>1. Suited(c, args) /\ c.ty.shape = "func"
        BY <1>15, <2>2, <3>1, <3>2 DEF Agree
      <4> QED
        BY <1>10, <1>12, <3>1, <4>1
    <3>3. CASE ~Agree(c, args)
      <4>1. c.ty.shape # "func" /\ c.ty = TyError
        BY <1>13, <2>2, <3>3
      <4> QED
        BY <1>10, <3>1, <4>1
    <3> QED
      BY <3>2, <3>3
  <2> QED
    BY <2>1, <2>2
<1>18. Right(n) => /\ PartsMeetTheirUse(n)
                   /\ n.ty \in ValueTypes /\ SortOf(n.ty) = Sort[n]
  <2> SUFFICES ASSUME Right(n)
               PROVE  /\ PartsMeetTheirUse(n)
                      /\ n.ty \in ValueTypes /\ SortOf(n.ty) = Sort[n]
    OBVIOUS
  <2>1. Sort[c] = Function /\ Suited(c, args) /\ Agree(c, args) /\ c.ty.shape = "func"
        /\ \A i \in 1 .. Len(args) : Right(args[i])
    BY <1>10, <1>12, <1>14 DEF Suited
  <2>2. n.ty = c.ty.ret /\ n.ty \in ValueTypes /\ SortOf(n.ty) = Sort[n]
    BY <1>7, <1>11, <1>d, <1>t, <2>1 DEF Provided
  <2>3. DOMAIN c.ty.params = 1 .. Len(args)
    BY <1>1, <2>1, FunctionTypes DEF Agree
  <2>4. ASSUME NEW i \in 1 .. Len(args)
        PROVE  [j \in DOMAIN n.parts |-> Receives(n.parts[j])][i + 1] = c.ty.params[i]
    <3>1. args[i] \in Tree /\ args[i].kind # "Callee" /\ Accurate(args[i]) /\ Right(args[i])
          /\ c.ty.params[i] \in Passed /\ Fits(Sort[args[i]], SortOf(c.ty.params[i]))
      BY <1>0, <1>p, <2>1 DEF Suited, AreArguments
    <3>2. Receives(carry_into(args[i], c.ty.params[i])) = c.ty.params[i]
      BY <1>a, <3>1, Carried
    <3>3. i + 1 \in DOMAIN n.parts /\ n.parts[i + 1] = carried[i]
      BY <1>3, <1>5, <1>7
    <3> QED
      BY <1>c, <2>1, <3>2, <3>3
  <2>5. n.parts[1].ty = c.ty
    BY <1>5, <1>7
  <2>6. PartsMeetTheirUse(n)
    BY <1>7, <2>3, <2>4, <2>5 DEF PartsMeetTheirUse
  <2> QED
    BY <2>2, <2>6
<1>19. Accurate(n)
  BY <1>7, <1>18 DEF Accurate, Right
<1>20. n.size <= 1 + SizeOf(ops)
  <2>1. SizeOf(ops) \in Nat
    BY <1>0, <1>3, PartsLow
  <2> QED
    BY <1>7, <2>1
<1> QED
  BY <1>7, <1>13, <1>17, <1>18, <1>19, <1>20 DEF Builds

-----------------------------------------------------------------------------
(* The expressions on the stack: those that stay below and those taken.    *)

Bottom(s, k) == SubSeq(s, 1, Len(s) - k)
Top(s, k) == SubSeq(s, Len(s) - k + 1, Len(s))
AllIn(s, S) == \A i \in DOMAIN s : s[i] \in S

IsJoined(u, S, s, t) ==
  /\ u \in Seq(S) /\ Len(u) = Len(s) + Len(t)
  /\ \A i \in 1 .. Len(s) : u[i] = s[i]
  /\ \A i \in 1 .. Len(t) : u[Len(s) + i] = t[i]

LEMMA Joined ==
  ASSUME NEW S, NEW s \in Seq(S), NEW t \in Seq(S)
  PROVE  IsJoined(s \o t, S, s, t)
BY DEF IsJoined

LEMMA Split ==
  ASSUME NEW S, NEW s \in Seq(S), NEW k \in 0 .. Len(s)
  PROVE  /\ Bottom(s, k) \in Seq(S) /\ Top(s, k) \in Seq(S)
         /\ Len(Bottom(s, k)) = Len(s) - k /\ Len(Top(s, k)) = k
         /\ \A i \in 1 .. Len(s) - k : Bottom(s, k)[i] = s[i]
         /\ \A i \in 1 .. k : Top(s, k)[i] = s[Len(s) - k + i]
         /\ s = Bottom(s, k) \o Top(s, k)
<1> DEFINE n == Len(s)
           b == Bottom(s, k)
           t == Top(s, k)
<1>0. n \in Nat /\ k \in Nat /\ k <= n /\ n - k \in Nat
  OBVIOUS
<1>1. b = [i \in 1 .. n - k |-> s[i]]
  BY <1>0 DEF Bottom
<1>2. t = [i \in 1 .. k |-> s[n - k + i]]
  BY <1>0 DEF Top
<1>3. b \in Seq(S) /\ Len(b) = n - k /\ \A i \in 1 .. n - k : b[i] = s[i]
  BY <1>0, <1>1
<1>4. t \in Seq(S) /\ Len(t) = k /\ \A i \in 1 .. k : t[i] = s[n - k + i]
  <2>1. \A i \in 1 .. k : s[n - k + i] \in S
    BY <1>0
  <2> HIDE DEF t, n
  <2> QED
    BY <1>0, <1>2, <2>1
<1>n. n = Len(s) /\ DOMAIN s = 1 .. n
  OBVIOUS
<1> HIDE DEF b, t, n
<1>5. s = b \o t
  <2> DEFINE u == b \o t
  <2>0. IsJoined(u, S, b, t)
    <3>1. b \in Seq(S) /\ t \in Seq(S)
      BY <1>3, <1>4
    <3> QED
      BY <3>1, Joined, Zenon
  <2> HIDE DEF u
  <2>1. u \in Seq(S) /\ Len(u) = n
    BY <1>0, <1>3, <1>4, <2>0 DEF IsJoined
  <2>2. ASSUME NEW i \in 1 .. n
        PROVE  s[i] = u[i]
    <3>1. CASE i <= n - k
      BY <1>0, <1>3, <1>4, <2>0, <3>1 DEF IsJoined
    <3>2. CASE i > n - k
      <4>1. PICK j \in 1 .. k : (n - k) + j = i
        <5>1. i - (n - k) \in 1 .. k /\ (n - k) + (i - (n - k)) = i
          BY <1>0, <3>2
        <5> QED
          BY <5>1
      <4>2. u[i] = t[j] /\ t[j] = s[i]
        BY <1>3, <1>4, <2>0, <4>1 DEF IsJoined
      <4> QED
        BY <4>2
    <3> QED
      BY <1>0, <3>1, <3>2
  <2>3. s = u
    BY <1>n, <2>1, <2>2
  <2> QED
    BY <2>3 DEF u
<1> QED
  BY <1>3, <1>4, <1>5 DEF b, t, n

LEMMA AllInBoth ==
  ASSUME NEW T, NEW s \in Seq(T), NEW t \in Seq(T), NEW S
  PROVE  AllIn(s \o t, S) <=> AllIn(s, S) /\ AllIn(t, S)
<1> DEFINE u == s \o t
           m == Len(s)
           n == Len(t)
<1>1. m \in Nat /\ n \in Nat /\ DOMAIN s = 1 .. m /\ DOMAIN t = 1 .. n /\ DOMAIN u = 1 .. m + n
  OBVIOUS
<1>2. (\A i \in 1 .. m : u[i] = s[i]) /\ (\A i \in 1 .. n : u[m + i] = t[i])
  OBVIOUS
<1> HIDE DEF u, m, n
<1>3. ASSUME AllIn(u, S)
      PROVE  AllIn(s, S) /\ AllIn(t, S)
  <2>1. \A i \in 1 .. m : i \in 1 .. m + n
    BY <1>1
  <2>2. \A i \in 1 .. n : m + i \in 1 .. m + n
    BY <1>1
  <2> QED
    BY <1>1, <1>2, <1>3, <2>1, <2>2 DEF AllIn
<1>4. ASSUME AllIn(s, S), AllIn(t, S), NEW i \in 1 .. m + n
      PROVE  u[i] \in S
  <2>1. CASE i <= m
    BY <1>1, <1>2, <1>4, <2>1 DEF AllIn
  <2>2. CASE i > m
    <3>1. PICK j \in 1 .. n : m + j = i
      <4>1. i - m \in 1 .. n /\ m + (i - m) = i
        BY <1>1, <2>2
      <4> QED
        BY <4>1
    <3> QED
      BY <1>1, <1>2, <1>4, <3>1 DEF AllIn
  <2> QED
    BY <1>1, <2>1, <2>2
<1> QED
  BY <1>1, <1>3, <1>4 DEF AllIn, u

IsTop(t, S, s, k) ==
  t \in Seq(S) /\ Len(t) = k /\ \A i \in 1 .. k : t[i] = s[Len(s) - k + i]

LEMMA TopIs ==
  ASSUME NEW S, NEW s \in Seq(S), NEW k \in 0 .. Len(s)
  PROVE  IsTop(Top(s, k), S, s, k)
BY Split DEF IsTop

LEMMA TopOne ==
  ASSUME NEW S, NEW s \in Seq(S), 1 <= Len(s)
  PROVE  Top(s, 1) = <<s[Len(s)]>> /\ s[Len(s)] \in S
<1> DEFINE t == Top(s, 1)
<1>1. Len(s) \in Nat /\ s[Len(s)] \in S /\ 1 \in 0 .. Len(s) /\ (Len(s) - 1) + 1 = Len(s)
  OBVIOUS
<1>2. t \in Seq(S) /\ Len(t) = 1 /\ \A i \in 1 .. 1 : t[i] = s[Len(s) - 1 + i]
  <2>1. IsTop(t, S, s, 1)
    BY <1>1, TopIs, Zenon
  <2> QED
    BY <2>1 DEF IsTop
<1> HIDE DEF t
<1>3. t = <<s[Len(s)]>>
  <2>1. t[1] = s[Len(s)]
    BY <1>1, <1>2
  <2> QED
    BY <1>1, <1>2, <2>1
<1> QED
  BY <1>1, <1>3 DEF t

LEMMA TopTwo ==
  ASSUME NEW S, NEW s \in Seq(S), 2 <= Len(s)
  PROVE  Top(s, 2) = <<s[Len(s) - 1], s[Len(s)]>> /\ s[Len(s)] \in S /\ s[Len(s) - 1] \in S
<1> DEFINE t == Top(s, 2)
<1>1. /\ Len(s) \in Nat /\ s[Len(s)] \in S /\ s[Len(s) - 1] \in S /\ 2 \in 0 .. Len(s)
      /\ (Len(s) - 2) + 1 = Len(s) - 1 /\ (Len(s) - 2) + 2 = Len(s)
  OBVIOUS
<1>2. t \in Seq(S) /\ Len(t) = 2 /\ \A i \in 1 .. 2 : t[i] = s[Len(s) - 2 + i]
  <2>1. IsTop(t, S, s, 2)
    BY <1>1, TopIs, Zenon
  <2> QED
    BY <2>1 DEF IsTop
<1> HIDE DEF t
<1>3. t = <<s[Len(s) - 1], s[Len(s)]>>
  <2>1. t[1] = s[Len(s) - 1] /\ t[2] = s[Len(s)]
    BY <1>1, <1>2
  <2> QED
    BY <1>1, <1>2, <2>1
<1> QED
  BY <1>1, <1>3 DEF t

LEMMA TopMore ==
  ASSUME NEW S, NEW s \in Seq(S), NEW k \in Nat, k < Len(s)
  PROVE  Top(s, k + 1) = <<s[Len(s) - k]>> \o Top(s, k) /\ s[Len(s) - k] \in S
<1> DEFINE n == Len(s)
           u == Top(s, k + 1)
           t == Top(s, k)
           h == s[n - k]
<1>0. n \in Nat /\ k \in 0 .. n /\ k + 1 \in 0 .. n /\ n - k \in 1 .. n
  OBVIOUS
<1>1. h \in S
  BY <1>0
<1>2. u \in Seq(S) /\ Len(u) = k + 1 /\ \A i \in 1 .. k + 1 : u[i] = s[n - (k + 1) + i]
  BY <1>0, Split
<1>3. t \in Seq(S) /\ Len(t) = k /\ \A i \in 1 .. k : t[i] = s[n - k + i]
  BY <1>0, Split
<1> HIDE DEF u, t, h
<1>4. /\ <<h>> \o t \in Seq(S) /\ Len(<<h>> \o t) = Len(t) + 1 /\ (<<h>> \o t)[1] = h
      /\ \A i \in 1 .. Len(t) : (<<h>> \o t)[i + 1] = t[i]
  BY <1>1, <1>3, Headed
<1>5. ASSUME NEW i \in 1 .. k + 1
      PROVE  u[i] = (<<h>> \o t)[i]
  <2>1. CASE i = 1
    <3>1. n - (k + 1) + 1 = n - k
      BY <1>0
    <3>2. u[1] = s[n - k]
      BY <1>0, <1>2, <2>1, <3>1
    <3> QED
      BY <1>4, <2>1, <3>2 DEF h
  <2>2. CASE i # 1
    <3>1. PICK j \in 1 .. k : j + 1 = i
      <4>1. i - 1 \in 1 .. k /\ (i - 1) + 1 = i
        BY <1>0, <2>2
      <4> QED
        BY <4>1
    <3>2. n - (k + 1) + i = n - k + j
      BY <1>0, <3>1
    <3>3. u[i] = s[n - k + j]
      BY <1>2, <3>2
    <3>4. (<<h>> \o t)[i] = t[j] /\ t[j] = s[n - k + j]
      BY <1>3, <1>4, <3>1
    <3> QED
      BY <3>3, <3>4
  <2> QED
    BY <2>1, <2>2
<1>6. u = <<h>> \o t
  <2> DEFINE v == <<h>> \o t
  <2>1. v \in Seq(S) /\ Len(v) = k + 1 /\ \A i \in 1 .. k + 1 : u[i] = v[i]
    BY <1>3, <1>4, <1>5
  <2> HIDE DEF v
  <2>2. u = v
    BY <1>2, <2>1
  <2> QED
    BY <2>2 DEF v
<1> QED
  BY <1>1, <1>6 DEF u, t, h

LEMMA SizeOfOne ==
  ASSUME NEW n, n.size \in Nat
  PROVE  Sized(<<n>>) /\ SizeOf(<<n>>) = n.size
<1> DEFINE s == <<n>>
<1>1. s \in Seq({n}) /\ Len(s) = 1 /\ s[1] = n
  OBVIOUS
<1>2. Sized(s)
  BY <1>1 DEF Sized
<1> HIDE DEF s
<1>3. PICK g \in [0 .. Len(s) -> Nat] :
        /\ g[0] = 0
        /\ \A k \in 1 .. Len(s) : g[k] = g[k - 1] + s[k].size
        /\ SizeOf(s) = g[Len(s)]
  BY <1>1, <1>2, SizesAdd
<1>4. g[1] = g[0] + s[1].size
  BY <1>1, <1>3
<1>5. SizeOf(s) = n.size
  BY <1>1, <1>3, <1>4
<1> QED
  BY <1>2, <1>5 DEF s

-----------------------------------------------------------------------------
(* The invariant.                                                          *)

Accurates   == {n \in Grown : Accurate(n)}
Rights      == {n \in Grown : Right(n)}
Consistents == {n \in Grown : Consistent(n)}
Phases == {"declaration", "expression", "walked", "finished"}

TypeInvariant ==
  /\ place \in Places
  /\ typed \in Seq(Grown) /\ SizeOf(typed) <= MaxNodes
  /\ diagnostics \in Seq(Reports) /\ analysis \in Seq(Reports)
  /\ phase \in Phases

(* A declaration has been looked at before its initializer, the name of a  *)
(* global included.                                                        *)
HeadFine ==
  place.form \in Declarations => Storable(place.ty) /\ ~(place.form = "global" /\ place.redeclared)
Untouched == phase = "declaration" => place.form \in Declarations /\ typed = <<>> /\ diagnostics = <<>>

(* Nothing has been reported exactly if all expressions so far are right.  *)
ReportedAsWrong ==
  phase = "expression" =>
    /\ AllIn(typed, Accurates)
    /\ diagnostics = <<>> <=> HeadFine /\ AllIn(typed, Rights)

Judged ==
  /\ phase \in {"walked", "finished"} =>
       ListForAScalar \/ TextForNumbers \/ (diagnostics = <<>> <=> AllowedByC(typed))
  /\ phase = "finished" => (analysis = <<>> <=> diagnostics = <<>>)

ConvertedAsUsed ==
  diagnostics = <<>> =>
    /\ AllIn(typed, Consistents)
    /\ phase \in {"walked", "finished"} => SiteGetsItsType

Inv == TypeInvariant /\ Untouched /\ ReportedAsWrong /\ Judged /\ ConvertedAsUsed

(* A node in the place of the expressions it is made of.                   *)
LEMMA Replaced ==
  ASSUME NEW s \in Seq(Grown), NEW k \in 0 .. Len(s), NEW node, NEW found,
         Builds(Top(s, k), node, found), AllIn(s, Accurates)
  PROVE  LET t == Append(Bottom(s, k), node)
         IN  /\ t \in Seq(Grown) /\ SizeOf(t) <= 1 + SizeOf(s)
             /\ AllIn(t, Accurates)
             /\ AllIn(t, Rights) <=> AllIn(s, Rights) /\ found = <<>>
             /\ AllIn(t, Rights) /\ AllIn(s, Consistents) => AllIn(t, Consistents)
<1> DEFINE b == Bottom(s, k)
           top == Top(s, k)
           one == <<node>>
           t == Append(b, node)
<1>0. MaxNodes \in Nat
  BY TypeCheckerAssumption
<1>1. b \in Seq(Grown) /\ top \in Seq(Grown) /\ s = b \o top
  BY Split
<1> HIDE DEF b, top
<1>2. /\ node \in Grown /\ node.size <= 1 + SizeOf(top)
      /\ Accurate(node)
      /\ Right(node) <=> found = <<>> /\ \A i \in DOMAIN top : Right(top[i])
      /\ Right(node) /\ (\A i \in DOMAIN top : Consistent(top[i])) => Consistent(node)
  BY DEF Builds, top
<1>3. one \in Seq(Grown) /\ t = b \o one /\ t \in Seq(Grown)
  BY <1>1, <1>2
<1>4. \A S : AllIn(one, S) <=> node \in S
  BY DEF AllIn
<1>s. Sized(one) /\ SizeOf(one) = node.size /\ node.size \in Nat
  <2>1. node \in Tree
    BY <1>2 DEF Grown
  <2>2. node.size \in Nat
    BY <1>0, <2>1, TreeFields
  <2> QED
    BY <2>2, SizeOfOne
<1> HIDE DEF one, t
<1>5. SizeOf(t) <= 1 + SizeOf(s)
  <2>1. Sized(b) /\ Sized(top)
    BY <1>0, <1>1, GrownAreTrees, SizedTrees
  <2>2. SizeOf(s) = SizeOf(b) + SizeOf(top)
    BY <1>1, <2>1, SizeOfBoth
  <2>3. SizeOf(t) = SizeOf(b) + SizeOf(one)
    BY <1>1, <1>3, <1>s, <2>1, SizeOfBoth
  <2>4. SizeOf(b) \in Nat /\ SizeOf(top) \in Nat
    BY <1>0, <1>1, PartsLow
  <2> QED
    BY <1>2, <1>s, <2>2, <2>3, <2>4
<1>6. \A S : AllIn(s, S) <=> AllIn(b, S) /\ AllIn(top, S)
  BY <1>1, AllInBoth
<1>7. \A S : AllIn(t, S) <=> AllIn(b, S) /\ node \in S
  BY <1>1, <1>3, <1>4, AllInBoth
<1>8. AllIn(top, Rights) <=> \A i \in DOMAIN top : Right(top[i])
  <2>1. \A i \in DOMAIN top : top[i] \in Grown
    BY <1>1
  <2> QED
    BY <2>1 DEF AllIn, Rights
<1>9. AllIn(top, Consistents) <=> \A i \in DOMAIN top : Consistent(top[i])
  <2>1. \A i \in DOMAIN top : top[i] \in Grown
    BY <1>1
  <2> QED
    BY <2>1 DEF AllIn, Consistents
<1>10. (node \in Rights <=> Right(node)) /\ (node \in Consistents <=> Consistent(node)) /\ node \in Accurates
  BY <1>2 DEF Rights, Consistents, Accurates
<1>11. AllIn(t, Accurates)
  BY <1>6, <1>7, <1>10
<1>12. AllIn(t, Rights) <=> AllIn(s, Rights) /\ found = <<>>
  BY <1>2, <1>6, <1>7, <1>8, <1>10
<1>13. AllIn(t, Rights) /\ AllIn(s, Consistents) => AllIn(t, Consistents)
  BY <1>2, <1>6, <1>7, <1>9, <1>10
<1> QED
  BY <1>3, <1>5, <1>11, <1>12, <1>13 DEF t, b

LEMMA Building ==
  ASSUME Inv, phase = "expression", Nodes < MaxNodes, NEW k \in 0 .. Len(typed), NEW node, NEW found,
         Builds(Top(typed, k), node, found), Make(k, node), reports(found)
  PROVE  Inv'
<1>1. /\ typed' \in Seq(Grown) /\ SizeOf(typed') <= 1 + SizeOf(typed)
      /\ AllIn(typed', Accurates)
      /\ AllIn(typed', Rights) <=> AllIn(typed, Rights) /\ found = <<>>
      /\ AllIn(typed', Rights) /\ AllIn(typed, Consistents) => AllIn(typed', Consistents)
  <2>1. typed' = Append(Bottom(typed, k), node)
    BY DEF Make, Below, Bottom
  <2>2. typed \in Seq(Grown) /\ AllIn(typed, Accurates)
    BY DEF Inv, TypeInvariant, ReportedAsWrong
  <2> QED
    BY <2>1, <2>2, Replaced
<1>2. place' = place /\ analysis' = analysis /\ phase' = phase /\ diagnostics' = diagnostics \o found
  BY DEF Make, reports
<1>3. found \in Seq(Reports) /\ diagnostics \in Seq(Reports)
  BY DEF Builds, Inv, TypeInvariant
<1>4. diagnostics' \in Seq(Reports) /\ (diagnostics' = <<>> <=> diagnostics = <<>> /\ found = <<>>)
  BY <1>2, <1>3, BothEmpty
<1>5. SizeOf(typed') <= MaxNodes
  <2>1. MaxNodes \in Nat /\ SizeOf(typed) \in Nat
    BY TypeCheckerAssumption, PartsLow DEF Inv, TypeInvariant
  <2>2. SizeOf(typed) < MaxNodes
    BY <2>1 DEF Nodes
  <2>3. SizeOf(typed') \in Nat
    BY <1>1, <2>1, PartsLow
  <2> QED
    BY <1>1, <2>1, <2>2, <2>3
<1>6. TypeInvariant'
  BY <1>1, <1>2, <1>4, <1>5 DEF Inv, TypeInvariant
<1>7. HeadFine' = HeadFine
  BY <1>2 DEF HeadFine
<1>8. ReportedAsWrong'
  BY <1>1, <1>2, <1>4, <1>7 DEF Inv, ReportedAsWrong
<1>9. Untouched' /\ Judged'
  BY <1>2 DEF Untouched, Judged
<1>10. ConvertedAsUsed'
  BY <1>1, <1>2, <1>4, <1>8 DEF Inv, ConvertedAsUsed, ReportedAsWrong
<1> QED
  BY <1>6, <1>8, <1>9, <1>10 DEF Inv

-----------------------------------------------------------------------------
(* The steps that build expressions.                                       *)

LEMMA StackRoom ==
  ASSUME Inv, Nodes < MaxNodes, NEW k \in 0 .. Len(typed)
  PROVE  Room(Top(typed, k)) /\ 1 <= MaxNodes /\ MaxNodes \in Nat
<1>1. MaxNodes \in Nat /\ typed \in Seq(Grown)
  BY TypeCheckerAssumption DEF Inv, TypeInvariant
<1>2. SizeOf(typed) \in Nat
  BY <1>1, PartsLow
<1>3. SizeOf(typed) < MaxNodes
  BY <1>1, <1>2 DEF Nodes
<1> DEFINE b == Bottom(typed, k)
           t == Top(typed, k)
<1>4. b \in Seq(Grown) /\ t \in Seq(Grown) /\ typed = b \o t
  BY <1>1, Split
<1> HIDE DEF b, t
<1>5. Sized(b) /\ Sized(t) /\ SizeOf(b) \in Nat /\ SizeOf(t) \in Nat
  BY <1>1, <1>4, GrownAreTrees, SizedTrees, PartsLow
<1>6. SizeOf(typed) = SizeOf(b) + SizeOf(t)
  BY <1>4, <1>5, SizeOfBoth
<1>7. 1 + SizeOf(t) <= MaxNodes
  BY <1>1, <1>2, <1>3, <1>5, <1>6
<1> QED
  BY <1>1, <1>2, <1>3, <1>7 DEF Room, t

LEMMA StackItem ==
  ASSUME Inv, phase = "expression", NEW i \in 1 .. Len(typed)
  PROVE  /\ typed[i] \in Grown /\ typed[i] \in Tree /\ Accurate(typed[i])
         /\ typed[i].ty \in Ty /\ typed[i].span \in Spans
         /\ typed[i].span.start \in Int /\ typed[i].span.end \in Int
<1>1. MaxNodes \in Nat /\ typed \in Seq(Grown) /\ AllIn(typed, Accurates)
  BY TypeCheckerAssumption DEF Inv, TypeInvariant, ReportedAsWrong
<1>2. typed[i] \in Grown /\ Accurate(typed[i])
  BY <1>1 DEF AllIn, Accurates
<1>3. typed[i] \in Tree
  BY <1>2 DEF Grown
<1>4. typed[i].ty \in Ty /\ typed[i].span \in Spans
  BY <1>1, <1>3, TreeFields
<1> QED
  BY <1>2, <1>3, <1>4 DEF Spans

LEMMA ValueIs ==
  ASSUME NEW n, Accurate(n), n.value # <<>>
  PROVE  \E v \in Ints : n.value = <<v>> /\ n.value[1] = v
BY DEF Accurate

LEMMA UnaryStep ==
  ASSUME Inv, phase = "expression", Nodes < MaxNodes, NEW op \in UnaryOperators, unary(op)
  PROVE  Inv'
<1> DEFINE o == typed[Len(typed)]
           span == Span(o.span.start - 1, o.span.end)
           value == IF o.value = <<>> THEN <<>> ELSE folded_unary(op, o.value[1])
           found == ReportsOfUnary(op, o, span)
<1>0. typed \in Seq(Grown)
  BY DEF Inv, TypeInvariant
<1>1. Len(typed) \in Nat /\ 1 <= Len(typed) /\ o.kind # "Callee" /\ Operand(1, 1) = o
  <2>1. Len(typed) \in Nat
    BY <1>0
  <2>2. Len(typed) >= 1 /\ \A i \in Len(typed) - 1 + 1 .. Len(typed) : typed[i].kind # "Callee"
    BY DEF unary, Values
  <2>3. Len(typed) \in Len(typed) - 1 + 1 .. Len(typed) /\ Len(typed) - 1 + 1 = Len(typed)
    BY <2>1, <2>2
  <2> QED
    BY <2>1, <2>2, <2>3 DEF Operand
<1>2. o \in Grown /\ o \in Tree /\ Accurate(o) /\ o.span.start \in Int /\ o.span.end \in Int
  BY <1>1, StackItem
<1>3. span \in Spans
  <2>1. o.span.start - 1 \in Int
    BY <1>2
  <2> QED
    BY <1>2, <2>1, SpanIs
<1>4. Top(typed, 1) = <<o>>
  BY <1>0, <1>1, TopOne
<1>5. Room(<<o>>) /\ 1 <= MaxNodes
  BY <1>0, <1>1, <1>4, StackRoom
<1>6. PICK n : IsUnary(n, op, o, span)
  BY DEF IsUnary, IsNode
<1>7. Make(1, Folded(n, o, value)) /\ reports(found)
  BY <1>1, <1>6 DEF unary, IsUnary, IsNode, ReportsOfUnary
<1> HIDE DEF o, span, found
<1>8. Builds(<<o>>, n, found) /\ (o.value # <<>> => Right(n))
  BY <1>1, <1>2, <1>3, <1>5, <1>6, UnaryBuilds DEF found
<1>9. Option(value)
  <2>1. CASE o.value = <<>>
    BY <2>1 DEF Option
  <2>2. CASE o.value # <<>>
    <3>1. PICK v \in Ints : o.value = <<v>> /\ o.value[1] = v
      BY <1>2, <2>2, ValueIs
    <3> QED
      BY <2>2, <3>1, FoldedUnaryIs
  <2> QED
    BY <2>1, <2>2
<1>10. value # <<>> => Right(n)
  BY <1>8
<1> HIDE DEF value
<1>11. Builds(<<o>>, Folded(n, o, value), found)
  <2>1. <<o>> \in Seq(Grown)
    BY <1>2
  <2> QED
    BY <1>2, <1>5, <1>8, <1>9, <1>10, <2>1, FoldedBuilds
<1>12. 1 \in 0 .. Len(typed)
  BY <1>1
<1>13. Builds(Top(typed, 1), Folded(n, o, value), found)
  BY <1>4, <1>11
<1> QED
  BY <1>7, <1>12, <1>13, Building

LEMMA NextSpan ==
  ASSUME Inv, phase = "expression"
  PROVE  NextOperand \in Spans
<1> DEFINE start == Gap + (IF typed = <<>> THEN 1 ELSE Last(typed).span.end)
<1>1. typed \in Seq(Grown) /\ Gap \in Int
  BY TypeCheckerAssumption DEF Inv, TypeInvariant, Gap
<1>2. start \in Int
  <2>1. CASE typed = <<>>
    BY <1>1, <2>1
  <2>2. CASE typed # <<>>
    <3>1. Len(typed) \in 1 .. Len(typed) /\ Last(typed) = typed[Len(typed)]
      BY <1>1, <2>2 DEF Last
    <3>2. Last(typed).span.end \in Int
      BY <3>1, StackItem
    <3> QED
      BY <1>1, <2>2, <3>2
  <2> QED
    BY <2>1, <2>2
<1>3. NextOperand = Span(start, start + 1)
  BY DEF NextOperand
<1> HIDE DEF start
<1>4. start + 1 \in Int
  BY <1>2
<1> QED
  BY <1>2, <1>3, <1>4, SpanIs

LEMMA LeafStep ==
  ASSUME Inv, phase = "expression", Nodes < MaxNodes, NEW node, NEW found,
         Builds(<<>>, node, found), Make(0, node), reports(found)
  PROVE  Inv'
<1>1. typed \in Seq(Grown)
  BY DEF Inv, TypeInvariant
<1>2. 0 \in 0 .. Len(typed)
  BY <1>1
<1>3. Top(typed, 0) = <<>>
  BY <1>1 DEF Top
<1>4. Builds(Top(typed, 0), node, found)
  BY <1>3
<1> QED
  BY <1>2, <1>4, Building

LEMMA LiteralStep ==
  ASSUME Inv, phase = "expression", Nodes < MaxNodes, literal
  PROVE  Inv'
<1>1. PICK node : IsLiteral(node, NextOperand) /\ Leaf(node) /\ UNCHANGED diagnostics
  BY Zenon DEF literal, IsLiteral
<1>2. 1 <= MaxNodes
  <2>1. 0 \in 0 .. Len(typed)
    <3>1. typed \in Seq(Grown)
      BY DEF Inv, TypeInvariant
    <3> QED
      BY <3>1
  <2> QED
    BY <2>1, StackRoom
<1>3. Builds(<<>>, node, <<>>)
  BY <1>1, <1>2, NextSpan, LiteralBuilds
<1>4. Make(0, node)
  BY <1>1 DEF Leaf
<1>5. reports(<<>>)
  <2>1. diagnostics \in Seq(Reports)
    BY DEF Inv, TypeInvariant
  <2>2. diagnostics \o <<>> = diagnostics
    BY <2>1
  <2> QED
    BY <1>1, <2>2 DEF reports
<1> QED
  BY <1>3, <1>4, <1>5, LeafStep

LEMMA NameStep ==
  ASSUME Inv, phase = "expression", Nodes < MaxNodes,
         NEW name \in DOMAIN Declared \cup Undeclared, NEW used_as \in {"Ident", "Callee"},
         resolve(name, used_as)
  PROVE  Inv'
<1> DEFINE found == name \in DOMAIN Declared
           misused == found /\ used_as = "Ident" /\ Declared[name].shape = "func"
           node == Node(used_as, name, <<>>,
                        IF ~found THEN Unresolved ELSE IF misused THEN TyError ELSE Declared[name],
                        NextOperand)
           said == Report(~found, NextOperand, "undeclared identifier", <<>>)
                     \o Report(misused, NextOperand, "can only be called", <<>>)
<1>1. Leaf(node) /\ reports(said)
  BY Zenon DEF resolve
<1>2. 1 <= MaxNodes
  <2>1. 0 \in 0 .. Len(typed)
    <3>1. typed \in Seq(Grown)
      BY DEF Inv, TypeInvariant
    <3> QED
      BY <3>1
  <2> QED
    BY <2>1, StackRoom
<1>3. Builds(<<>>, node, said)
  <2>1. NextOperand \in Spans
    BY NextSpan
  <2> QED
    BY <1>2, <2>1, NameBuilds, Zenon
<1> HIDE DEF node, said
<1>4. Make(0, node)
  BY <1>1 DEF Leaf
<1> QED
  BY <1>1, <1>3, <1>4, LeafStep

(* The last two of the stack. *)
LEMMA TwoOperands ==
  ASSUME Inv, phase = "expression", Nodes < MaxNodes, Values(2)
  PROVE  LET l == typed[Len(typed) - 1]
             r == typed[Len(typed)]
         IN  /\ Operand(2, 1) = l /\ Operand(2, 2) = r
             /\ l \in Grown /\ l \in Tree /\ Accurate(l) /\ l.kind # "Callee"
             /\ r \in Grown /\ r \in Tree /\ Accurate(r) /\ r.kind # "Callee"
             /\ l.span.start \in Int /\ r.span.end \in Int
             /\ Top(typed, 2) = <<l, r>> /\ Room(<<l, r>>) /\ 1 <= MaxNodes
             /\ 2 \in 0 .. Len(typed)
<1> DEFINE n == Len(typed)
<1>0. typed \in Seq(Grown)
  BY DEF Inv, TypeInvariant
<1>1. n \in Nat /\ n >= 2 /\ \A i \in n - 2 + 1 .. n : typed[i].kind # "Callee"
  BY <1>0 DEF Values
<1>2. n - 1 \in n - 2 + 1 .. n /\ n \in n - 2 + 1 .. n /\ n - 2 + 1 = n - 1 /\ n - 2 + 2 = n
      /\ n - 1 \in 1 .. n /\ n \in 1 .. n /\ 2 \in 0 .. n
  BY <1>1
<1>3. Operand(2, 1) = typed[n - 1] /\ Operand(2, 2) = typed[n]
  BY <1>2 DEF Operand
<1>4. typed[n - 1].kind # "Callee" /\ typed[n].kind # "Callee"
  BY <1>1, <1>2
<1>5. /\ typed[n - 1] \in Grown /\ typed[n - 1] \in Tree /\ Accurate(typed[n - 1])
      /\ typed[n - 1].span.start \in Int
      /\ typed[n] \in Grown /\ typed[n] \in Tree /\ Accurate(typed[n]) /\ typed[n].span.end \in Int
  BY <1>2, StackItem
<1>6. Top(typed, 2) = <<typed[n - 1], typed[n]>>
  BY <1>0, <1>1, TopTwo
<1>7. Room(<<typed[n - 1], typed[n]>>) /\ 1 <= MaxNodes
  BY <1>2, <1>6, StackRoom
<1> QED
  BY <1>2, <1>3, <1>4, <1>5, <1>6, <1>7

LEMMA BinaryStep ==
  ASSUME Inv, phase = "expression", Nodes < MaxNodes, NEW op \in BinaryOperators, binary(op)
  PROVE  Inv'
<1> DEFINE l == typed[Len(typed) - 1]
           r == typed[Len(typed)]
           span == Span(l.span.start, r.span.end)
           constant == l.value # <<>> /\ r.value # <<>>
           value == IF constant THEN folded_binary(op, l.value[1], r.value[1]) ELSE <<>>
           found == check_binary(op, l, r, span)
<1>1. Values(2)
  BY DEF binary
<1>2. /\ Operand(2, 1) = l /\ Operand(2, 2) = r
      /\ l \in Grown /\ l \in Tree /\ Accurate(l) /\ l.kind # "Callee"
      /\ r \in Grown /\ r \in Tree /\ Accurate(r) /\ r.kind # "Callee"
      /\ l.span.start \in Int /\ r.span.end \in Int
      /\ Top(typed, 2) = <<l, r>> /\ Room(<<l, r>>) /\ 1 <= MaxNodes
      /\ 2 \in 0 .. Len(typed)
  BY <1>1, TwoOperands
<1>3. span \in Spans
  BY <1>2, SpanIs
<1>4. PICK n : IsBinary(n, op, l, r, span)
  BY DEF IsBinary, IsNode
<1>5. Make(2, Folded(n, l, value)) /\ reports(found)
  BY <1>2, <1>4 DEF binary, IsBinary, IsNode
<1> HIDE DEF l, r, span, found
<1>6. Builds(<<l, r>>, n, found) /\ (l.value # <<>> /\ r.value # <<>> => Right(n))
  BY <1>2, <1>3, <1>4, BinaryBuilds DEF found
<1>7. Option(value)
  <2>1. CASE ~constant
    BY <2>1 DEF Option
  <2>2. CASE constant
    <3>1. PICK v \in Ints : l.value = <<v>> /\ l.value[1] = v
      BY <1>2, <2>2, ValueIs
    <3>2. PICK w \in Ints : r.value = <<w>> /\ r.value[1] = w
      BY <1>2, <2>2, ValueIs
    <3> QED
      BY <2>2, <3>1, <3>2, FoldedBinaryIs
  <2> QED
    BY <2>1, <2>2
<1>8. value # <<>> => Right(n)
  BY <1>6
<1> HIDE DEF value
<1>9. Builds(<<l, r>>, Folded(n, l, value), found)
  <2>1. <<l, r>> \in Seq(Grown)
    BY <1>2
  <2> QED
    BY <1>2, <1>6, <1>7, <1>8, <2>1, FoldedBuilds
<1>10. Builds(Top(typed, 2), Folded(n, l, value), found)
  BY <1>2, <1>9
<1> QED
  BY <1>2, <1>5, <1>10, Building

LEMMA AssignStep ==
  ASSUME Inv, phase = "expression", Nodes < MaxNodes, assign
  PROVE  Inv'
<1> DEFINE t == typed[Len(typed) - 1]
           v == typed[Len(typed)]
           span == Span(t.span.start, v.span.end)
           found == ReportsOfAssign(t, v)
<1>1. Values(2)
  BY DEF assign
<1>2. /\ Operand(2, 1) = t /\ Operand(2, 2) = v
      /\ t \in Grown /\ t \in Tree /\ Accurate(t) /\ t.kind # "Callee"
      /\ v \in Grown /\ v \in Tree /\ Accurate(v) /\ v.kind # "Callee"
      /\ t.span.start \in Int /\ v.span.end \in Int
      /\ Top(typed, 2) = <<t, v>> /\ Room(<<t, v>>) /\ 1 <= MaxNodes
      /\ 2 \in 0 .. Len(typed)
  BY <1>1, TwoOperands
<1>3. span \in Spans
  BY <1>2, SpanIs
<1>4. PICK n : IsAssign(n, t, v, span) /\ Make(2, n)
  BY <1>2, Zenon DEF assign, IsAssign, IsPlain, IsNode
<1>5. is_assignable(t) /\ reports(found)
  BY <1>2, Zenon DEF assign, ReportsOfAssign
<1> HIDE DEF t, v, span, found
<1>6. Builds(<<t, v>>, n, found)
  BY <1>2, <1>3, <1>4, <1>5, AssignBuilds DEF found
<1>7. Builds(Top(typed, 2), n, found)
  BY <1>2, <1>6
<1> QED
  BY <1>2, <1>4, <1>5, <1>7, Building

LEMMA IndexStep ==
  ASSUME Inv, phase = "expression", Nodes < MaxNodes, index
  PROVE  Inv'
<1> DEFINE b == typed[Len(typed) - 1]
           s == typed[Len(typed)]
           span == Span(b.span.start, s.span.end + 1)
           found == ReportsOfIndex(b, s, span)
<1>1. Values(2)
  BY DEF index
<1>2. /\ Operand(2, 1) = b /\ Operand(2, 2) = s
      /\ b \in Grown /\ b \in Tree /\ Accurate(b) /\ b.kind # "Callee"
      /\ s \in Grown /\ s \in Tree /\ Accurate(s) /\ s.kind # "Callee"
      /\ b.span.start \in Int /\ s.span.end \in Int
      /\ Top(typed, 2) = <<b, s>> /\ Room(<<b, s>>) /\ 1 <= MaxNodes
      /\ 2 \in 0 .. Len(typed)
  BY <1>1, TwoOperands
<1>3. span \in Spans
  <2>1. s.span.end + 1 \in Int
    BY <1>2
  <2> QED
    BY <1>2, <2>1, SpanIs
<1>4. PICK n : IsIndex(n, b, s, span)
  BY DEF IsIndex, IsPlain, IsNode
<1>5. Make(2, n) /\ reports(found)
  BY <1>2, <1>4, Zenon DEF index, ReportsOfIndex, IsIndex, IsPlain, IsNode
<1> HIDE DEF b, s, span, found
<1>6. Builds(<<b, s>>, n, found)
  BY <1>2, <1>3, <1>4, IndexBuilds DEF found
<1>7. Builds(Top(typed, 2), n, found)
  BY <1>2, <1>6
<1> QED
  BY <1>2, <1>5, <1>7, Building

LEMMA PostfixStep ==
  ASSUME Inv, phase = "expression", Nodes < MaxNodes, postfix
  PROVE  Inv'
<1> DEFINE o == typed[Len(typed)]
           span == Span(o.span.start, o.span.end + 1)
           found == ReportsOfPostfix(o, span)
<1>0. typed \in Seq(Grown)
  BY DEF Inv, TypeInvariant
<1>1. Len(typed) \in Nat /\ 1 <= Len(typed) /\ o.kind # "Callee" /\ Operand(1, 1) = o
  <2>1. Len(typed) \in Nat
    BY <1>0
  <2>2. Len(typed) >= 1 /\ \A i \in Len(typed) - 1 + 1 .. Len(typed) : typed[i].kind # "Callee"
    BY DEF postfix, Values
  <2>3. Len(typed) \in Len(typed) - 1 + 1 .. Len(typed) /\ Len(typed) - 1 + 1 = Len(typed)
    BY <2>1, <2>2
  <2> QED
    BY <2>1, <2>2, <2>3 DEF Operand
<1>2. o \in Grown /\ o \in Tree /\ Accurate(o) /\ o.span.start \in Int /\ o.span.end \in Int
  BY <1>1, StackItem
<1>3. span \in Spans
  <2>1. o.span.end + 1 \in Int
    BY <1>2
  <2> QED
    BY <1>2, <2>1, SpanIs
<1>4. Top(typed, 1) = <<o>>
  BY <1>0, <1>1, TopOne
<1>5. Room(<<o>>) /\ 1 <= MaxNodes
  BY <1>0, <1>1, <1>4, StackRoom
<1>6. PICK n : IsPostfix(n, o, span)
  BY DEF IsPostfix, IsPlain, IsNode
<1>7. Make(1, n) /\ reports(found)
  BY <1>1, <1>6, Zenon DEF postfix, IsPostfix, IsPlain, IsNode, ReportsOfPostfix
<1> HIDE DEF o, span, found
<1>8. Builds(<<o>>, n, found)
  BY <1>1, <1>2, <1>3, <1>5, <1>6, PostfixBuilds DEF found
<1>9. Builds(Top(typed, 1), n, found)
  BY <1>4, <1>8
<1>10. 1 \in 0 .. Len(typed)
  BY <1>1
<1> QED
  BY <1>7, <1>9, <1>10, Building

(* The callee and the arguments behind it. *)
LEMMA CalleeAndArguments ==
  ASSUME Inv, phase = "expression", Nodes < MaxNodes, NEW n \in 0 .. MaxNodes, Values(n), Len(typed) > n
  PROVE  LET c == typed[Len(typed) - n]
             args == Top(typed, n)
         IN  /\ n \in Nat /\ n + 1 \in 0 .. Len(typed) /\ Len(args) = n /\ args \in Seq(Grown)
             /\ \A i \in 1 .. n : args[i] = typed[Len(typed) - n + i]
             /\ AreArguments(args) /\ c \in Grown /\ Accurate(c)
             /\ c.span.start \in Int /\ Last(typed).span.end \in Int
             /\ Behind(Top(typed, n + 1), c, args) /\ Room(Top(typed, n + 1)) /\ 1 <= MaxNodes
<1> DEFINE m == Len(typed)
           c == typed[m - n]
           args == Top(typed, n)
<1>0. typed \in Seq(Grown) /\ MaxNodes \in Nat
  BY TypeCheckerAssumption DEF Inv, TypeInvariant
<1>1. n \in Nat /\ m \in Nat /\ m > n /\ n \in 0 .. m /\ n + 1 \in 0 .. m /\ m - n \in 1 .. m /\ m \in 1 .. m
  BY <1>0
<1>2. args \in Seq(Grown) /\ Len(args) = n /\ \A i \in 1 .. n : args[i] = typed[m - n + i]
  BY <1>0, <1>1, Split
<1>3. c \in Grown /\ Accurate(c) /\ c.span.start \in Int
  BY <1>1, StackItem
<1>4. Last(typed).span.end \in Int
  <2>1. Last(typed) = typed[m]
    BY DEF Last
  <2> QED
    BY <1>1, <2>1, StackItem
<1>5. AreArguments(args)
  <2>1. ASSUME NEW i \in 1 .. n
        PROVE  args[i].kind # "Callee" /\ Accurate(args[i])
    <3>1. m - n + i \in m - n + 1 .. m /\ m - n + i \in 1 .. m
      BY <1>1
    <3>2. typed[m - n + i].kind # "Callee"
      BY <3>1 DEF Values
    <3>3. Accurate(typed[m - n + i])
      BY <3>1, StackItem
    <3> QED
      BY <1>2, <3>2, <3>3
  <2> QED
    BY <1>2, <2>1 DEF AreArguments
<1>6. Behind(Top(typed, n + 1), c, args)
  BY <1>0, <1>1, TopMore DEF Behind
<1>7. Room(Top(typed, n + 1)) /\ 1 <= MaxNodes
  BY <1>1, StackRoom
<1> QED
  BY <1>1, <1>2, <1>3, <1>4, <1>5, <1>6, <1>7

(* The arguments and the reports of `call`, as it states them.             *)
Carries(carried, n, c, args) ==
  LET called == c.ty.shape = "func"
      fits == called /\ Len(c.ty.params) = n
  IN  carried = [i \in 1 .. n |-> IF fits THEN carry_into(args[i], c.ty.params[i]) ELSE args[i]]
Says(found, n, c, args, span) ==
  LET called == c.ty.shape = "func"
      fits == called /\ Len(c.ty.params) = n
  IN  found = CASE fits -> FlattenSeq([i \in 1 .. n |-> Cannot("pass", args[i], c.ty.params[i])])
                [] called /\ ~fits -> Report(TRUE, span, "arity", <<>>)
                [] OTHER -> Report(c.ty # TyError, span, "not a function", <<>>)

LEMMA CallSays ==
  ASSUME NEW n, NEW c, NEW args, Len(args) = n, NEW span, NEW carried, NEW found
  PROVE  /\ Carries(carried, n, c, args) => carried = CarriedArguments(c, args)
         /\ Says(found, n, c, args, span) => found = ReportsOfCall(c, args, span)
<1>1. c.ty.shape = "func" /\ Len(c.ty.params) = n <=> Agree(c, args)
  BY Zenon DEF Agree
<1>2. Carries(carried, n, c, args) => carried = CarriedArguments(c, args)
  BY <1>1, Zenon DEF CarriedArguments, Carries
<1>3. [i \in 1 .. n |-> Cannot("pass", args[i], c.ty.params[i])] = ReportsOfArguments(c, args)
  BY Zenon DEF ReportsOfArguments
<1>4. ASSUME Says(found, n, c, args, span)
      PROVE  found = ReportsOfCall(c, args, span)
  <2>1. CASE Agree(c, args)
    BY <1>1, <1>3, <1>4, <2>1, Zenon DEF ReportsOfCall, Says
  <2>2. CASE ~Agree(c, args) /\ c.ty.shape = "func"
    BY <1>1, <1>4, <2>2, Zenon DEF ReportsOfCall, Says
  <2>3. CASE c.ty.shape # "func"
    BY <1>1, <1>4, <2>3, Zenon DEF ReportsOfCall, Says
  <2> QED
    BY <2>1, <2>2, <2>3
<1> QED
  BY <1>2, <1>4

LEMMA CallStep ==
  ASSUME Inv, phase = "expression", Nodes < MaxNodes, NEW n \in 0 .. MaxNodes, call(n)
  PROVE  Inv'
<1> DEFINE c == typed[Len(typed) - n]
           args == Top(typed, n)
           span == Span(c.span.start, Last(typed).span.end + 1)
           found == ReportsOfCall(c, args, span)
           carried == CarriedArguments(c, args)
           ty == IF c.ty.shape = "func" THEN c.ty.ret ELSE TyError
<1>1. Values(n) /\ Len(typed) > n
  BY DEF call
<1>2. /\ n \in Nat /\ n + 1 \in 0 .. Len(typed) /\ Len(args) = n /\ args \in Seq(Grown)
      /\ AreArguments(args) /\ c \in Grown /\ Accurate(c)
      /\ c.span.start \in Int /\ Last(typed).span.end \in Int
      /\ Behind(Top(typed, n + 1), c, args) /\ Room(Top(typed, n + 1)) /\ 1 <= MaxNodes
  BY <1>1, CalleeAndArguments
<1>3. span \in Spans
  <2>1. Last(typed).span.end + 1 \in Int
    BY <1>2
  <2> QED
    BY <1>2, <2>1, SpanIs
<1>4. c.kind # "Ident" /\ Make(n + 1, Node("Call", "", <<c>> \o carried, ty, span)) /\ reports(found)
  <2>1. SubSeq(typed, Len(typed) - n + 1, Len(typed)) = args
    BY DEF Top
  <2> HIDE DEF args
  <2>2. \E was, said :
          /\ Carries(was, n, c, args) /\ Says(said, n, c, args, span)
          /\ c.kind # "Ident" /\ Make(n + 1, Node("Call", "", <<c>> \o was, ty, span)) /\ reports(said)
    BY <2>1, Zenon DEF call, Carries, Says
  <2>3. Len(args) = n
    BY <1>2
  <2> QED
    BY <2>2, <2>3, CallSays, Zenon
<1>5. PICK node : IsCall(node, c, args, span) /\ Make(n + 1, node)
  BY <1>4, Zenon DEF IsCall, IsPlain, IsNode
<1> HIDE DEF c, args, span, found
<1>6. Builds(Top(typed, n + 1), node, found)
  BY <1>2, <1>3, <1>4, <1>5, CallBuilds DEF found
<1> QED
  BY <1>2, <1>4, <1>5, <1>6, Building

(* Every step that builds an expression keeps the invariant. *)
LEMMA ExpressionStep ==
  ASSUME Inv, Expression
  PROVE  Inv'
<1>1. phase = "expression" /\ Nodes < MaxNodes
  BY DEF Expression
<1>2. CASE literal
  BY <1>1, <1>2, LiteralStep
<1>3. CASE assign
  BY <1>1, <1>3, AssignStep
<1>4. CASE index
  BY <1>1, <1>4, IndexStep
<1>5. CASE postfix
  BY <1>1, <1>5, PostfixStep
<1>6. ASSUME NEW name \in DOMAIN Declared \cup Undeclared, NEW used_as \in {"Ident", "Callee"},
             resolve(name, used_as)
      PROVE  Inv'
  BY <1>1, <1>6, NameStep
<1>7. ASSUME NEW op \in UnaryOperators, unary(op)
      PROVE  Inv'
  BY <1>1, <1>7, UnaryStep
<1>8. ASSUME NEW op \in BinaryOperators, binary(op)
      PROVE  Inv'
  BY <1>1, <1>8, BinaryStep
<1>9. ASSUME NEW n \in 0 .. MaxNodes, call(n)
      PROVE  Inv'
  BY <1>1, <1>9, CallStep
<1> QED
  BY <1>2, <1>3, <1>4, <1>5, <1>6, <1>7, <1>8, <1>9 DEF Expression

-----------------------------------------------------------------------------
(* What the expression is written in.                                      *)

LEMMA WrittenIs ==
  ASSUME NEW t \in Written
  PROVE  /\ t.base \in Bases \cup {"void"} /\ t.shape \in {"scalar", "array"}
         /\ t.shape = "array" => t.len \in Nat
         /\ t.shape = "scalar" => t \in {TyInt, TyChar, TyVoid}
         /\ t.shape = "scalar" /\ t.base # "void" => t \in {TyInt, TyChar}
         /\ t.shape = "array" => t # TyError /\ t \notin {TyInt, TyChar, TyVoid}
<1>1. CASE t \in {TyInt, TyChar, TyVoid}
  BY <1>1, ScalarsDiffer DEF Bases
<1>2. CASE t \in [shape : {"array"}, base : Bases \cup {"void"}, len : Nat]
  <2>1. t.shape = "array" /\ t.base \in Bases \cup {"void"} /\ t.len \in Nat
    BY <1>2
  <2>2. t # TyError /\ t \notin {TyInt, TyChar, TyVoid}
    BY <2>1, ScalarsDiffer
  <2> QED
    BY <2>1, <2>2
<1> QED
  BY <1>1, <1>2 DEF Written

Inits == {"none", "expression", "list"}

LEMMA PlaceIs ==
  ASSUME NEW site \in Places
  PROVE  /\ site.form \in {"expression", "condition", "return"} \cup Declarations
         /\ site.form = "return" => site.ty \in {TyInt, TyChar, TyVoid}
         /\ site.form \in Declarations =>
              site.init \in Inits /\ site.ty \in Written /\ site.redeclared \in BOOLEAN
<1>1. \/ \E form \in {"expression", "condition"} : site = Statement(form, TyVoid)
      \/ \E ty \in {TyInt, TyChar, TyVoid} : site = Statement("return", ty)
      \/ \E form \in Declarations, init \in Inits :
           /\ site = Declaration(form, site.ty, init, site.redeclared)
           /\ site.ty \in Written /\ site.redeclared \in BOOLEAN
  BY TypeCheckerAssumption, Zenon DEF Inits
<1>2. CASE \E form \in {"expression", "condition"} : site = Statement(form, TyVoid)
  BY <1>2 DEF Statement, Declarations
<1>3. CASE \E ty \in {TyInt, TyChar, TyVoid} : site = Statement("return", ty)
  <2>1. PICK ty \in {TyInt, TyChar, TyVoid} : site = Statement("return", ty)
    BY <1>3
  <2>2. site.form = "return" /\ site.ty = ty
    BY <2>1, Zenon DEF Statement
  <2> QED
    BY <2>2 DEF Declarations
<1>4. CASE \E form \in Declarations, init \in Inits :
             /\ site = Declaration(form, site.ty, init, site.redeclared)
             /\ site.ty \in Written /\ site.redeclared \in BOOLEAN
  <2>1. PICK form \in Declarations, init \in Inits :
             /\ site = Declaration(form, site.ty, init, site.redeclared)
             /\ site.ty \in Written /\ site.redeclared \in BOOLEAN
    BY <1>4
  <2>2. site.form = form /\ site.init = init
    <3>1. PICK ty, again : site = Declaration(form, ty, init, again)
      BY <2>1
    <3> QED
      BY <3>1 DEF Declaration
  <2> QED
    BY <2>1, <2>2 DEF Declarations
<1> QED
  BY <1>1, <1>2, <1>3, <1>4

(* Before anything is typed. *)
LEMMA Beginning ==
  ASSUME Init
  PROVE  Inv
<1>0. MaxNodes \in Nat
  BY TypeCheckerAssumption
<1>1. /\ place \in Places /\ typed = <<>> /\ diagnostics = <<>> /\ analysis = <<>>
      /\ phase = IF place.form \in Declarations THEN "declaration" ELSE "expression"
  BY DEF Init
<1>2. <<>> \in Seq(Grown) /\ <<>> \in Seq(Reports)
  OBVIOUS
<1>3. TypeInvariant
  <2>1. SizeOf(typed) <= MaxNodes
    BY <1>0, <1>1, EmptySize
  <2> QED
    BY <1>1, <1>2, <2>1 DEF TypeInvariant, Phases
<1>4. \A S : AllIn(typed, S)
  BY <1>1 DEF AllIn
<1>5. Untouched
  BY <1>1 DEF Untouched
<1>6. ReportedAsWrong
  <2>1. phase = "expression" => HeadFine
    BY <1>1 DEF HeadFine
  <2> QED
    BY <1>1, <1>4, <2>1 DEF ReportedAsWrong
<1>7. phase \notin {"walked", "finished"}
  BY <1>1
<1>8. Judged /\ ConvertedAsUsed
  BY <1>4, <1>7 DEF Judged, ConvertedAsUsed
<1> QED
  BY <1>3, <1>5, <1>6, <1>8 DEF Inv

(* The judgement of a statement does not look at the phase.                *)
LEMMA JudgedNext ==
  ASSUME place' = place, NEW es, typed' = es
  PROVE  /\ AllowedByC(typed)' <=> AllowedByC(es)
         /\ ListForAScalar' <=> ListForAScalar
         /\ HeadFine' <=> HeadFine
<1>1. Initializes(typed)' <=> Initializes(es)
  BY Zenon DEF Initializes
<1>2. ASSUME NEW i
      PROVE  Folds(typed[i])' <=> Folds(es[i])
  BY Zenon DEF Folds
<1>3. AllowedByC(typed)' <=> AllowedByC(es)
  BY <1>1, <1>2, Zenon DEF AllowedByC
<1> QED
  BY <1>3 DEF ListForAScalar, HeadFine

LEMMA Stuttering ==
  ASSUME Inv, UNCHANGED vars
  PROVE  Inv'
<1>1. place' = place /\ typed' = typed /\ diagnostics' = diagnostics /\ analysis' = analysis /\ phase' = phase
  BY DEF vars
<1>2. AllowedByC(typed)' <=> AllowedByC(typed)
  BY <1>1, JudgedNext
<1>3. (ListForAScalar' <=> ListForAScalar) /\ (TextForNumbers' <=> TextForNumbers) /\ (HeadFine' <=> HeadFine)
  BY <1>1 DEF ListForAScalar, TextForNumbers, HeadFine
<1>4. SiteGetsItsType' <=> SiteGetsItsType
  BY <1>1 DEF SiteGetsItsType, ListForAScalar
<1>5. TypeInvariant' /\ Untouched'
  BY <1>1 DEF Inv, TypeInvariant, Untouched
<1>6. ReportedAsWrong'
  BY <1>1, <1>3 DEF Inv, ReportedAsWrong
<1>7. Judged'
  BY <1>1, <1>2, <1>3 DEF Inv, Judged
<1>8. ConvertedAsUsed'
  BY <1>1, <1>4 DEF Inv, ConvertedAsUsed
<1> QED
  BY <1>5, <1>6, <1>7, <1>8 DEF Inv

-----------------------------------------------------------------------------
(* The sort.                                                               *)

(* The reports a new one goes behind. *)
Behinds(sorted, d) == {i \in DOMAIN sorted : ~Precedes(d.span, sorted[i].span)}

(* `u` is `s` with `d` after its first `n`. *)
IsInserted(u, S, s, d, n) ==
  /\ n = Cardinality(Behinds(s, d)) /\ IsFiniteSet(Behinds(s, d))
  /\ u \in Seq(S) /\ Len(u) = Len(s) + 1
  /\ \A i \in 1 .. n : u[i] = s[i]
  /\ u[n + 1] = d
  /\ \A i \in n + 1 .. Len(s) : u[i + 1] = s[i]

LEMMA InsertedIs ==
  ASSUME NEW S, NEW s \in Seq(S), NEW d \in S
  PROVE  \E n \in 0 .. Len(s) : IsInserted(Inserted(s, d), S, s, d, n)
<1> DEFINE m == Len(s)
           idx == Behinds(s, d)
           n == Cardinality(idx)
           a == SubSeq(s, 1, n)
           b == SubSeq(s, n + 1, m)
           one == <<d>>
           ab == a \o one
           r == ab \o b
<1>0. m \in Nat /\ DOMAIN s = 1 .. m
  OBVIOUS
<1>1. IsFiniteSet(idx) /\ n \in 0 .. m
  <2>1. IsFiniteSet(1 .. m) /\ Cardinality(1 .. m) = m
    <3>1. 1 \in Int /\ m \in Int /\ (IF 1 > m THEN 0 ELSE m - 1 + 1) = m
      BY <1>0
    <3> QED
      BY <3>1, FS_Interval
  <2>2. idx \subseteq 1 .. m
    BY <1>0 DEF Behinds
  <2> HIDE DEF idx, m
  <2>3. IsFiniteSet(idx) /\ n <= m
    BY <2>1, <2>2, FS_Subset
  <2>4. n \in Nat
    BY <2>3, FS_CardinalityType
  <2> HIDE DEF n
  <2> QED
    BY <1>0, <2>3, <2>4
<1>2. Inserted(s, d) = r
  BY DEF Inserted, Behinds
<1> HIDE DEF idx, n
<1>3. a \in Seq(S) /\ Len(a) = n /\ \A i \in 1 .. n : a[i] = s[i]
  BY <1>0, <1>1
<1>4. b \in Seq(S) /\ Len(b) = m - n /\ \A i \in 1 .. m - n : b[i] = s[n + i]
  <2>1. n + 1 \in 1 .. m + 1
    BY <1>0, <1>1
  <2>2. b = [i \in 1 .. m - n |-> s[n + i]]
    BY <1>0, <1>1, <2>1
  <2>3. \A i \in 1 .. m - n : s[n + i] \in S
    BY <1>0, <1>1
  <2> HIDE DEF b, m
  <2> QED
    BY <1>0, <1>1, <2>2, <2>3
<1>5. one \in Seq(S) /\ Len(one) = 1 /\ one[1] = d
  OBVIOUS
<1> HIDE DEF a, b, one, m
<1>6. ab \in Seq(S) /\ Len(ab) = n + 1 /\ (\A i \in 1 .. n : ab[i] = s[i]) /\ ab[n + 1] = d
  <2>1. a \in Seq(S) /\ one \in Seq(S)
    BY <1>3, <1>5
  <2>2. IsJoined(ab, S, a, one)
    BY <2>1, Joined, Zenon
  <2> HIDE DEF ab
  <2> QED
    BY <1>1, <1>3, <1>5, <2>2 DEF IsJoined
<1> HIDE DEF ab
<1>7. /\ r \in Seq(S) /\ Len(r) = m + 1 /\ (\A i \in 1 .. n : r[i] = s[i]) /\ r[n + 1] = d
      /\ \A i \in n + 1 .. m : r[i + 1] = s[i]
  <2>1. ab \in Seq(S) /\ b \in Seq(S)
    BY <1>4, <1>6
  <2>2. IsJoined(r, S, ab, b)
    BY <2>1, Joined, Zenon
  <2> HIDE DEF r
  <2>3. r \in Seq(S) /\ Len(r) = m + 1
    BY <1>0, <1>1, <1>4, <1>6, <2>2 DEF IsJoined
  <2>4. (\A i \in 1 .. n : r[i] = s[i]) /\ r[n + 1] = d
    BY <1>0, <1>1, <1>6, <2>2 DEF IsJoined
  <2>5. ASSUME NEW i \in n + 1 .. m
        PROVE  r[i + 1] = s[i]
    <3>1. PICK j \in 1 .. m - n : n + j = i
      <4>1. i - n \in 1 .. m - n /\ n + (i - n) = i
        BY <1>0, <1>1
      <4> QED
        BY <4>1
    <3>2. i + 1 = Len(ab) + j
      BY <1>1, <1>6, <3>1
    <3>3. r[Len(ab) + j] = b[j]
      BY <1>4, <2>2, <3>1 DEF IsJoined
    <3> QED
      BY <1>4, <3>1, <3>2, <3>3
  <2> QED
    BY <2>3, <2>4, <2>5
<1> QED
  BY <1>1, <1>2, <1>7 DEF m, idx, n, IsInserted

Sorts(iter, bag) ==
  iter = [s \in SUBSET DOMAIN bag |->
            IF s = {} THEN <<>> ELSE Inserted(iter[s \ {Max(s)}], bag[Max(s)])]

LEMMA SortedIs ==
  ASSUME NEW bag
  PROVE  into_sorted(bag) = (CHOOSE iter : Sorts(iter, bag))[DOMAIN bag]
BY DEF into_sorted, FoldLeft, MapThenFoldSet, Sorts

LEMMA InsertedWhole ==
  ASSUME NEW S, NEW s \in Seq(S), NEW d \in S
  PROVE  Inserted(s, d) \in Seq(S) /\ Len(Inserted(s, d)) = Len(s) + 1
BY InsertedIs DEF IsInserted

LEMMA LastOfSome ==
  ASSUME NEW n \in Nat, NEW s \in SUBSET (1 .. n), s # {}
  PROVE  Max(s) \in s
<1>1. \E x \in s : \A y \in s : y <= x
  BY HasGreatest
<1>2. \A x, y \in s : x \in Int /\ y \in Int
  OBVIOUS
<1>3. \E x \in s : \A y \in s : x >= y
  BY <1>1, <1>2
<1> QED
  BY <1>3 DEF Max

LEMMA SortsExist ==
  ASSUME NEW S, NEW bag \in Seq(S)
  PROVE  \E iter \in [SUBSET DOMAIN bag -> Seq(S)] : Sorts(iter, bag)
<1> DEFINE n == Len(bag)
           step == [k \in 1 .. n |-> [v \in Seq(S) |-> Inserted(v, bag[k])]]
<1>1. n \in Nat /\ DOMAIN bag = 1 .. n /\ <<>> \in Seq(S)
  OBVIOUS
<1>2. step \in [1 .. n -> [Seq(S) -> Seq(S)]]
  <2>1. ASSUME NEW k \in 1 .. n, NEW v \in Seq(S)
        PROVE  Inserted(v, bag[k]) \in Seq(S)
    <3>1. bag[k] \in S
      OBVIOUS
    <3> QED
      BY <3>1, InsertedWhole
  <2> QED
    BY <2>1
<1>3. \A k \in 1 .. n, v \in Seq(S) : step[k][v] = Inserted(v, bag[k])
  OBVIOUS
<1> HIDE DEF step
<1>4. PICK iter \in [SUBSET (1 .. n) -> Seq(S)] : Folding(iter, n, <<>>, step)
  <2> HIDE DEF n
  <2> QED
    BY <1>1, <1>2, FoldingExists
<1> HIDE DEF n
<1>5. ASSUME NEW s \in SUBSET (1 .. n), s # {}
      PROVE  step[Max(s)][iter[s \ {Max(s)}]] = Inserted(iter[s \ {Max(s)}], bag[Max(s)])
  <2>1. Max(s) \in 1 .. n /\ iter[s \ {Max(s)}] \in Seq(S)
    BY <1>1, <1>5, LastOfSome
  <2> QED
    BY <1>3, <2>1
<1>6. \A s \in SUBSET (1 .. n) :
        iter[s] = IF s = {} THEN <<>> ELSE Inserted(iter[s \ {Max(s)}], bag[Max(s)])
  BY <1>4, <1>5 DEF Folding
<1>7. Sorts(iter, bag)
  BY <1>1, <1>4, <1>6 DEF Sorts
<1> QED
  BY <1>1, <1>4, <1>7

(* The reports inserted one by one. *)
LEMMA InsertsInTurn ==
  ASSUME NEW S, NEW bag \in Seq(S)
  PROVE  \E g :
           /\ g[0] = <<>>
           /\ \A k \in 1 .. Len(bag) : g[k] = Inserted(g[k - 1], bag[k])
           /\ into_sorted(bag) = g[Len(bag)]
<1> DEFINE n == Len(bag)
           iter == CHOOSE iter : Sorts(iter, bag)
           g == [k \in 0 .. n |-> iter[1 .. k]]
<1>1. n \in Nat /\ DOMAIN bag = 1 .. n
  OBVIOUS
<1>2. Sorts(iter, bag)
  <2>1. \E f : Sorts(f, bag)
    BY SortsExist
  <2> QED
    BY <2>1
<1>3. into_sorted(bag) = iter[1 .. n]
  BY <1>1, SortedIs
<1> HIDE DEF iter
<1>4. iter = [s \in SUBSET (1 .. n) |->
                IF s = {} THEN <<>> ELSE Inserted(iter[s \ {Max(s)}], bag[Max(s)])]
  BY <1>1, <1>2, Zenon DEF Sorts
<1> HIDE DEF n
<1>5. ASSUME NEW t \in SUBSET (1 .. n)
      PROVE  iter[t] = IF t = {} THEN <<>> ELSE Inserted(iter[t \ {Max(t)}], bag[Max(t)])
  <2>1. iter[t] = [s \in SUBSET (1 .. n) |->
                     IF s = {} THEN <<>> ELSE Inserted(iter[s \ {Max(s)}], bag[Max(s)])][t]
    BY <1>4, Zenon
  <2> QED
    BY <2>1, Zenon
<1>6. \A k \in 0 .. n : g[k] = iter[1 .. k]
  OBVIOUS
<1> HIDE DEF g
<1>7. g[0] = <<>>
  <2>1. 1 .. 0 = {} /\ {} \in SUBSET (1 .. n) /\ 0 \in 0 .. n
    BY <1>1
  <2>2. iter[{}] = <<>>
    BY <1>5, <2>1, Zenon
  <2> QED
    BY <1>6, <2>1, <2>2
<1>8. ASSUME NEW k \in 1 .. n
      PROVE  g[k] = Inserted(g[k - 1], bag[k])
  <2>1. (1 .. k) \in SUBSET (1 .. n) /\ (1 .. k) # {} /\ k \in 0 .. n /\ k - 1 \in 0 .. n
    <3>1. n \in Nat /\ k \in Nat /\ 1 <= k /\ k <= n
      BY <1>1
    <3>2. k \in 1 .. k
      BY <3>1
    <3>3. \A i \in 1 .. k : i \in 1 .. n
      BY <3>1
    <3>4. k \in 0 .. n /\ k - 1 \in 0 .. n
      BY <3>1
    <3> QED
      BY <3>2, <3>3, <3>4
  <2>2. Max(1 .. k) = k /\ (1 .. k) \ {k} = 1 .. k - 1
    <3>1. k - 1 \in Nat /\ (k - 1) + 1 = k
      BY <1>1
    <3> QED
      BY <3>1, FoldPrefix
  <2>3. iter[1 .. k] = Inserted(iter[(1 .. k) \ {Max(1 .. k)}], bag[Max(1 .. k)])
    BY <1>5, <2>1, Zenon
  <2> QED
    BY <1>6, <2>1, <2>2, <2>3
<1>9. into_sorted(bag) = g[n]
  BY <1>1, <1>3, <1>6
<1> QED
  BY <1>7, <1>8, <1>9 DEF n

(* No report is lost and none is made up. *)
LEMMA SortedWhole ==
  ASSUME NEW S, NEW bag \in Seq(S)
  PROVE  into_sorted(bag) \in Seq(S) /\ Len(into_sorted(bag)) = Len(bag)
<1>1. PICK g : /\ g[0] = <<>>
               /\ \A k \in 1 .. Len(bag) : g[k] = Inserted(g[k - 1], bag[k])
               /\ into_sorted(bag) = g[Len(bag)]
  BY InsertsInTurn
<1> DEFINE n == Len(bag)
           Good == {k \in Nat : k <= n => g[k] \in Seq(S) /\ Len(g[k]) = k}
<1>2. n \in Nat
  OBVIOUS
<1>3. 0 \in Good
  <2>1. <<>> \in Seq(S) /\ Len(<<>>) = 0
    OBVIOUS
  <2> QED
    BY <1>1, <2>1
<1>4. ASSUME NEW k \in Nat, k \in Good
      PROVE  k + 1 \in Good
  <2> SUFFICES ASSUME k + 1 <= n
               PROVE  g[k + 1] \in Seq(S) /\ Len(g[k + 1]) = k + 1
    OBVIOUS
  <2>1. k + 1 \in 1 .. n /\ (k + 1) - 1 = k /\ bag[k + 1] \in S
    BY <1>2
  <2>2. g[k] \in Seq(S) /\ Len(g[k]) = k
    BY <1>2, <1>4
  <2>3. g[k + 1] = Inserted(g[k], bag[k + 1])
    <3>1. g[k + 1] = Inserted(g[(k + 1) - 1], bag[k + 1])
      BY <1>1, <2>1
    <3> QED
      BY <2>1, <3>1
  <2>4. Inserted(g[k], bag[k + 1]) \in Seq(S) /\ Len(Inserted(g[k], bag[k + 1])) = Len(g[k]) + 1
    BY <2>1, <2>2, InsertedWhole
  <2> QED
    BY <2>2, <2>3, <2>4
<1> HIDE DEF Good, n
<1>5. n \in Good
  BY <1>2, <1>3, <1>4, FromZero
<1> QED
  BY <1>1, <1>2, <1>5 DEF Good, n

-----------------------------------------------------------------------------
(* The steps that end a statement or a declaration.                        *)

LEMMA Ends ==
  ASSUME Inv, phase = "expression", place' = place, phase' = "walked", analysis' = analysis,
         NEW es \in Seq(Grown), SizeOf(es) <= MaxNodes, typed' = es,
         NEW found \in Seq(Reports), reports(found),
         \/ ListForAScalar \/ TextForNumbers'
         \/ HeadFine /\ AllIn(typed, Rights) /\ found = <<>> <=> AllowedByC(es),
         HeadFine /\ AllIn(typed, Rights) /\ found = <<>> /\ AllIn(typed, Consistents)
           => AllIn(es, Consistents) /\ SiteGetsItsType'
  PROVE  Inv'
<1>1. diagnostics \in Seq(Reports) /\ diagnostics' = diagnostics \o found
  BY DEF Inv, TypeInvariant, reports
<1>2. diagnostics' \in Seq(Reports) /\ (diagnostics' = <<>> <=> diagnostics = <<>> /\ found = <<>>)
  BY <1>1, BothEmpty
<1>3. diagnostics = <<>> <=> HeadFine /\ AllIn(typed, Rights)
  BY DEF Inv, ReportedAsWrong
<1>4. TypeInvariant'
  BY <1>2 DEF Inv, TypeInvariant, Phases
<1>5. Untouched' /\ ReportedAsWrong'
  BY DEF Untouched, ReportedAsWrong
<1>6. (AllowedByC(typed)' <=> AllowedByC(es)) /\ (ListForAScalar' <=> ListForAScalar)
  BY JudgedNext
<1>7. Judged'
  BY <1>2, <1>3, <1>6 DEF Judged
<1>8. ConvertedAsUsed'
  BY <1>2, <1>3 DEF Inv, ConvertedAsUsed
<1> QED
  BY <1>4, <1>5, <1>7, <1>8 DEF Inv

(* The one expression of a statement or an initializer.                    *)
LEMMA OneExpression ==
  ASSUME Inv, phase = "expression", Values(1), Len(typed) = 1
  PROVE  LET n == typed[1]
         IN  /\ n \in Grown /\ n \in Tree /\ Accurate(n) /\ n.kind # "Callee"
             /\ n.ty \in Ty /\ n.span \in Spans /\ n.span.start \in Int /\ n.span.end \in Int
             /\ AllIn(typed, Rights) <=> Right(n)
             /\ Right(n) <=> Sort[n] # Wrong
             /\ typed # <<>>
<1> DEFINE n == typed[1]
<1>1. typed \in Seq(Grown) /\ 1 \in 1 .. Len(typed) /\ DOMAIN typed = 1 .. 1
  BY DEF Inv, TypeInvariant
<1>2. /\ n \in Grown /\ n \in Tree /\ Accurate(n)
      /\ n.ty \in Ty /\ n.span \in Spans /\ n.span.start \in Int /\ n.span.end \in Int
  BY <1>1, StackItem
<1>3. n.kind # "Callee"
  <2>1. 1 \in Len(typed) - 1 + 1 .. Len(typed)
    OBVIOUS
  <2> QED
    BY <2>1 DEF Values
<1>4. AllIn(typed, Rights) <=> Right(n)
  <2>1. AllIn(typed, Rights) <=> n \in Rights
    BY <1>1 DEF AllIn
  <2> QED
    BY <1>2, <2>1 DEF Rights
<1>5. typed # <<>>
  OBVIOUS
<1> QED
  BY <1>2, <1>3, <1>4, <1>5 DEF Right

LEMMA OneConverted ==
  ASSUME Inv, phase = "expression", Values(1), Len(typed) = 1, NEW m, Converted(m, typed[1])
  PROVE  /\ <<m>> \in Seq(Grown) /\ SizeOf(<<m>>) <= MaxNodes
         /\ AllIn(typed, Consistents) => AllIn(<<m>>, Consistents)
         /\ Sort[m] = Sort[typed[1]] /\ m.kind = typed[1].kind /\ m.value = typed[1].value
         /\ m.ty = typed[1].ty
<1> DEFINE n == typed[1]
           one == <<m>>
<1>0. MaxNodes \in Nat /\ typed \in Seq(Grown) /\ SizeOf(typed) <= MaxNodes /\ DOMAIN typed = 1 .. 1
  BY TypeCheckerAssumption DEF Inv, TypeInvariant
<1>1. n \in Grown /\ n \in Tree
  BY OneExpression
<1>2. m \in Grown /\ m \in Tree /\ m.size = n.size /\ m.kind = n.kind /\ m.value = n.value /\ m.ty = n.ty
  BY <1>0, <1>1, ConvertedGrows, ConvertedIs
<1>3. Sort[m] = Sort[n]
  BY <1>0, <1>1, SortOfConverted
<1>4. SizeOf(one) <= MaxNodes
  <2>1. typed = <<n>>
    BY <1>0
  <2>2. n.size \in Nat
    BY <1>0, <1>1, TreeFields
  <2>3. SizeOf(<<n>>) = n.size /\ SizeOf(<<m>>) = m.size
    BY <1>2, <2>2, SizeOfOne
  <2> QED
    BY <1>0, <1>2, <2>1, <2>3
<1>5. AllIn(typed, Consistents) => AllIn(one, Consistents)
  <2>1. AllIn(typed, Consistents) <=> n \in Consistents
    BY <1>0 DEF AllIn
  <2>2. AllIn(one, Consistents) <=> m \in Consistents
    BY DEF AllIn
  <2>3. Consistent(n) => Consistent(m)
    BY <1>0, <1>1, ConsistentConverted
  <2> QED
    BY <1>1, <1>2, <2>1, <2>2, <2>3 DEF Consistents
<1>6. one \in Seq(Grown)
  BY <1>2
<1> QED
  BY <1>2, <1>3, <1>4, <1>5, <1>6

LEMMA FullExpressionStep ==
  ASSUME Inv, full_expression
  PROVE  Inv'
<1> DEFINE n == typed[1]
<1>1. /\ phase = "expression" /\ place.form = "expression" /\ phase' = "walked"
      /\ place' = place /\ analysis' = analysis /\ typed' = typed /\ diagnostics' = diagnostics
      /\ Values(1) /\ Len(typed) = 1
  BY DEF full_expression, Finished
<1>2. /\ AllIn(typed, Rights) <=> Right(n)
      /\ Right(n) <=> Sort[n] # Wrong
  BY <1>1, OneExpression
<1>3. typed \in Seq(Grown) /\ SizeOf(typed) <= MaxNodes /\ diagnostics \in Seq(Reports)
  BY DEF Inv, TypeInvariant
<1>4. reports(<<>>) /\ <<>> \in Seq(Reports)
  BY <1>1, <1>3 DEF reports
<1>5. HeadFine
  BY <1>1 DEF HeadFine, Declarations
<1>6. AllowedByC(typed) <=> Sort[n] # Wrong
  BY <1>1 DEF AllowedByC
<1>7. SiteGetsItsType'
  BY <1>1 DEF SiteGetsItsType, Declarations
<1> QED
  BY <1>1, <1>2, <1>3, <1>4, <1>5, <1>6, <1>7, Ends

LEMMA ConditionStep ==
  ASSUME Inv, condition
  PROVE  Inv'
<1> DEFINE n == typed[1]
           m == record_promotion(n)
           found == NotACondition(n, n.span)
<1>1. /\ phase = "expression" /\ place.form = "condition" /\ phase' = "walked"
      /\ place' = place /\ analysis' = analysis /\ typed' = <<m>> /\ reports(found)
      /\ Values(1) /\ Len(typed) = 1
  BY DEF condition, Finished
<1>2. /\ n \in Grown /\ n \in Tree /\ Accurate(n) /\ n.kind # "Callee"
      /\ n.ty \in Ty /\ n.span \in Spans
      /\ AllIn(typed, Rights) <=> Right(n)
      /\ Right(n) <=> Sort[n] # Wrong
  BY <1>1, OneExpression
<1>0. MaxNodes \in Nat
  BY TypeCheckerAssumption
<1>3. Converted(m, n)
  BY <1>0, <1>2, RecordedIs
<1>4. /\ <<m>> \in Seq(Grown) /\ SizeOf(<<m>>) <= MaxNodes
      /\ AllIn(typed, Consistents) => AllIn(<<m>>, Consistents)
      /\ Sort[m] = Sort[n]
  BY <1>1, <1>3, OneConverted
<1>5. found \in Seq(Reports) /\ (found = <<>> <=> is_scalar(n.ty))
  BY <1>2, Conditions
<1>6. HeadFine
  BY <1>1 DEF HeadFine, Declarations
<1>7. Right(n) => n.ty \in ValueTypes /\ SortOf(n.ty) = Sort[n]
  BY <1>2 DEF Accurate
<1>8. Right(n) => (is_scalar(n.ty) <=> Sort[n] \in Testable)
  BY <1>7, SortTells
<1>9. Wrong \notin Testable
  BY SortsDiffer, TestableIs
<1>10. AllowedByC(<<m>>) <=> Sort[n] \in Testable
  BY <1>1, <1>4 DEF AllowedByC
<1>11. HeadFine /\ AllIn(typed, Rights) /\ found = <<>> <=> AllowedByC(<<m>>)
  BY <1>2, <1>5, <1>6, <1>8, <1>9, <1>10
<1>12. Right(n) /\ found = <<>> => SiteGetsItsType'
  <2> SUFFICES ASSUME Right(n), found = <<>>
               PROVE  SiteGetsItsType'
    OBVIOUS
  <2>1. Sort[n] \in Testable /\ n.conversion = "None"
    BY <1>2, <1>5, <1>8 DEF Accurate
  <2>2. Receives(m) = TyInt \/ Receives(m).shape = "ptr"
    BY <1>0, <1>2, <1>7, <2>1, PromotedReceives
  <2> HIDE DEF m
  <2>3. typed'[1] = m
    BY <1>1
  <2>4. Receives(typed'[1]) = TyInt \/ Receives(typed'[1]).shape = "ptr"
    BY <2>2, <2>3
  <2>5. place'.form = "condition"
    BY <1>1
  <2> QED
    BY <2>4, <2>5 DEF SiteGetsItsType, Receives, Declarations
<1> HIDE DEF m, found
<1> QED
  BY <1>1, <1>2, <1>4, <1>5, <1>11, <1>12, Ends

(* A value reaches a variable of a number exactly if it is one.            *)
LEMMA NumberCarried ==
  ASSUME NEW carrying \in {"return", "initialize"}, NEW n \in Tree,
         n.kind # "Callee", Accurate(n), NEW ty \in {TyInt, TyChar}
  PROVE  /\ Cannot(carrying, n, ty) \in Seq(Reports)
         /\ Right(n) /\ Cannot(carrying, n, ty) = <<>> <=> Sort[n] = Number
         /\ Sort[n] = Number => Receives(carry_into(n, ty)) = ty
<1>0. MaxNodes \in Nat
  BY TypeCheckerAssumption
<1>1. ty \in Passed /\ ty \in ValueTypes /\ ty \in Ty /\ SortOf(ty) = Number
  BY TyHas, SortOfIs
<1>2. n.ty \in Ty /\ n.span \in Spans
  BY <1>0, TreeFields
<1>3. carrying \in {"assign", "pass", "return", "initialize"}
  OBVIOUS
<1>4. Cannot(carrying, n, ty) \in Seq(Reports)
  BY <1>1, <1>2, <1>3, CannotIs
<1>5. Fits(Sort[n], Number) <=> Sort[n] = Number
  BY SortsDiffer, TestableIs DEF Fits
<1>6. Right(n) => /\ Cannot(carrying, n, ty) = <<>> <=> Sort[n] = Number
                  /\ Sort[n] = Number => Receives(carry_into(n, ty)) = ty
  BY <1>1, <1>3, <1>5, Carried
<1>7. Right(n) <=> Sort[n] # Wrong
  BY DEF Right
<1>8. Number # Wrong
  BY SortsDiffer
<1> QED
  BY <1>4, <1>6, <1>7, <1>8

LEMMA ReturnValueStep ==
  ASSUME Inv, return_value
  PROVE  Inv'
<1> DEFINE n == typed[1]
           span == Span(Opening, n.span.end)
           m == carry_into(n, place.ty)
<1>1. /\ phase = "expression" /\ place.form = "return" /\ phase' = "walked"
      /\ place' = place /\ analysis' = analysis
      /\ Values(1) /\ Len(typed) = 1
      /\ \/ place.ty = TyVoid /\ reports(Report(TRUE, span, "value from void", <<>>)) /\ typed' = typed
         \/ place.ty # TyVoid /\ typed' = <<m>> /\ reports(Cannot("return", n, place.ty))
  BY DEF return_value, Finished
<1>2. /\ n \in Grown /\ n \in Tree /\ Accurate(n) /\ n.kind # "Callee"
      /\ n.ty \in Ty /\ n.span \in Spans /\ n.span.end \in Int
      /\ AllIn(typed, Rights) <=> Right(n)
      /\ typed # <<>>
  BY <1>1, OneExpression
<1>0. MaxNodes \in Nat
  BY TypeCheckerAssumption
<1>3. place.ty \in {TyInt, TyChar, TyVoid}
  BY <1>1, PlaceIs DEF Inv, TypeInvariant
<1>4. HeadFine
  BY <1>1 DEF HeadFine, Declarations
<1>5. typed \in Seq(Grown) /\ SizeOf(typed) <= MaxNodes
  BY DEF Inv, TypeInvariant
<1>6. CASE place.ty = TyVoid
  <2> DEFINE found == Report(TRUE, span, "value from void", <<>>)
  <2>1. typed' = typed /\ reports(found)
    BY <1>1, <1>6
  <2>2. span \in Spans
    BY <1>2, SpanIs DEF Opening
  <2>3. "value from void" \in Subjects /\ <<>> \in Seq(Ty) /\ TRUE \in BOOLEAN
    BY DEF Subjects
  <2>4. found \in Seq(Reports) /\ found # <<>>
    BY <2>2, <2>3, ReportIs
  <2>5. ~AllowedByC(typed)
    BY <1>1, <1>2, <1>6 DEF AllowedByC
  <2> HIDE DEF found
  <2> QED
    BY <1>1, <1>5, <2>1, <2>4, <2>5, Ends
<1>7. CASE place.ty \in {TyInt, TyChar}
  <2> DEFINE found == Cannot("return", n, place.ty)
  <2>1. typed' = <<m>> /\ reports(found) /\ place.ty # TyVoid
    BY <1>1, <1>7, ScalarsDiffer
  <2>2. Converted(m, n)
    BY <1>0, <1>2, RecordedIs
  <2>3. /\ <<m>> \in Seq(Grown) /\ SizeOf(<<m>>) <= MaxNodes
        /\ AllIn(typed, Consistents) => AllIn(<<m>>, Consistents)
        /\ Sort[m] = Sort[n]
    BY <1>1, <2>2, OneConverted
  <2>4. /\ found \in Seq(Reports)
        /\ Right(n) /\ found = <<>> <=> Sort[n] = Number
        /\ Sort[n] = Number => Receives(m) = place.ty
    BY <1>2, <1>7, NumberCarried
  <2>5. AllowedByC(<<m>>) <=> Sort[n] = Number
    <3>1. <<m>> # <<>> /\ <<m>>[1] = m
      OBVIOUS
    <3> HIDE DEF m
    <3> QED
      BY <1>1, <2>1, <2>3, <3>1 DEF AllowedByC
  <2>6. Right(n) /\ found = <<>> => SiteGetsItsType'
    <3> SUFFICES ASSUME Right(n), found = <<>>
                 PROVE  SiteGetsItsType'
      OBVIOUS
    <3>1. typed'[1] = m
      BY <2>1
    <3> HIDE DEF m
    <3>2. Receives(typed'[1]) = place'.ty
      BY <1>1, <2>4, <3>1
    <3>3. place'.form = "return"
      BY <1>1
    <3> QED
      BY <3>2, <3>3 DEF SiteGetsItsType, Receives, Declarations
  <2>7. HeadFine /\ AllIn(typed, Rights) /\ found = <<>> <=> AllowedByC(<<m>>)
    BY <1>2, <1>4, <2>4, <2>5
  <2> HIDE DEF m, found
  <2> QED
    BY <1>1, <1>2, <2>1, <2>3, <2>4, <2>6, <2>7, Ends
<1> QED
  BY <1>3, <1>6, <1>7

LEMMA ReturnNothingStep ==
  ASSUME Inv, return_nothing
  PROVE  Inv'
<1> DEFINE span == Span(Opening, Opening + 1)
<1>1. PICK c \in BOOLEAN : c = (place.ty # TyVoid)
  OBVIOUS
<1> DEFINE found == Report(c, span, "no value", <<place.ty>>)
<1>2. /\ phase = "expression" /\ place.form = "return" /\ phase' = "walked"
      /\ place' = place /\ analysis' = analysis /\ typed = <<>> /\ typed' = typed
      /\ reports(found)
  BY <1>1 DEF return_nothing, Finished
<1>3. place.ty \in {TyInt, TyChar, TyVoid}
  BY <1>2, PlaceIs DEF Inv, TypeInvariant
<1>4. HeadFine
  BY <1>2 DEF HeadFine, Declarations
<1>5. typed \in Seq(Grown) /\ SizeOf(typed) <= MaxNodes
  BY DEF Inv, TypeInvariant
<1>6. found \in Seq(Reports) /\ (found = <<>> <=> ~c)
  <2>1. place.ty \in Ty
    BY <1>3, TyHas
  <2>2. span \in Spans
    BY SpanIs DEF Opening
  <2>3. "no value" \in Subjects
    BY DEF Subjects
  <2> QED
    BY <2>1, <2>2, <2>3, Reported
<1>7. AllowedByC(typed) <=> place.ty = TyVoid
  BY <1>2 DEF AllowedByC
<1>8. AllIn(typed, Rights)
  <2>1. typed = <<>>
    BY <1>2
  <2> QED
    BY <2>1 DEF AllIn
<1>9. SiteGetsItsType'
  BY <1>2 DEF SiteGetsItsType, Declarations
<1>10. HeadFine /\ AllIn(typed, Rights) /\ found = <<>> <=> AllowedByC(typed)
  BY <1>1, <1>4, <1>6, <1>7, <1>8
<1> HIDE DEF found
<1> QED
  BY <1>2, <1>5, <1>6, <1>9, <1>10, Ends

-----------------------------------------------------------------------------
(* Declarations.                                                           *)

LEMMA WrittenReports ==
  ASSUME NEW ty \in Written
  PROVE  /\ check_written_type(ty) \in Seq(Reports)
         /\ check_written_type(ty) = <<>> <=> Storable(ty)
<1>1. ty.base \in Bases \cup {"void"} /\ (ty.shape = "array" => ty.len \in Nat)
  BY WrittenIs
<1>2. NameSpan \in Spans
  BY SpanIs DEF NameSpan
<1>3. "incomplete type" \in Subjects /\ "array size" \in Subjects
  BY DEF Subjects
<1>4. CASE ty.base = "void"
  <2>1. check_written_type(ty) = Report(TRUE, NameSpan, "incomplete type", <<ty>>)
    BY <1>4 DEF check_written_type
  <2>2. TRUE \in BOOLEAN
    OBVIOUS
  <2>3. /\ Report(TRUE, NameSpan, "incomplete type", <<ty>>) \in Seq(Reports)
        /\ Report(TRUE, NameSpan, "incomplete type", <<ty>>) = <<>> <=> ~TRUE
    BY <1>2, <1>3, <2>2, ReportOfWritten
  <2> QED
    BY <1>4, <2>1, <2>3 DEF Storable
<1>5. CASE ty.base # "void"
  <2>1. PICK c \in BOOLEAN : c = (ty.shape = "array" /\ ty.len = 0)
    OBVIOUS
  <2>2. check_written_type(ty) = Report(c, NameSpan, "array size", <<ty>>)
    BY <1>5, <2>1, Zenon DEF check_written_type
  <2>3. /\ Report(c, NameSpan, "array size", <<ty>>) \in Seq(Reports)
        /\ Report(c, NameSpan, "array size", <<ty>>) = <<>> <=> ~c
    BY <1>2, <1>3, ReportOfWritten
  <2>4. c <=> ~Storable(ty)
    <3>1. CASE ty.shape = "array"
      <4>1. ty.len \in Nat
        BY <1>1, <3>1
      <4>2. c <=> ty.len = 0
        BY <2>1, <3>1
      <4>3. Storable(ty) <=> ty.len > 0
        BY <1>5, <3>1 DEF Storable
      <4> QED
        BY <4>1, <4>2, <4>3
    <3>2. CASE ty.shape # "array"
      BY <1>5, <2>1, <3>2 DEF Storable
    <3> QED
      BY <3>1, <3>2
  <2> QED
    BY <2>2, <2>3, <2>4
<1> QED
  BY <1>4, <1>5

LEMMA SaidNothing ==
  ASSUME NEW c \in BOOLEAN, NEW span \in Spans, NEW about \in Subjects
  PROVE  /\ Report(c, span, about, <<>>) \in Seq(Reports)
         /\ Report(c, span, about, <<>>) = <<>> <=> ~c
<1>1. <<>> \in Seq(Ty)
  OBVIOUS
<1> QED
  BY <1>1, ReportIs

LEMMA DeclarationStep ==
  ASSUME Inv, declaration
  PROVE  Inv'
<1>1. /\ phase = "declaration" /\ phase' = "expression" /\ place' = place /\ typed' = typed
      /\ analysis' = analysis
  BY DEF declaration
<1>2. place \in Places /\ place.form \in Declarations /\ typed = <<>> /\ diagnostics = <<>>
      /\ analysis \in Seq(Reports) /\ SizeOf(typed) <= MaxNodes
  BY <1>1 DEF Inv, TypeInvariant, Untouched
<1>3. place.ty \in Written /\ place.redeclared \in BOOLEAN
  BY <1>2, PlaceIs
<1>4. PICK c \in BOOLEAN : c = (place.form = "global" /\ place.redeclared)
  BY <1>3
<1> DEFINE written == check_written_type(place.ty)
           again == Report(c, NameSpan, "redeclaration", <<>>)
<1>5. diagnostics' = diagnostics \o (written \o again)
  BY <1>4 DEF declaration, reports
<1>6. again \in Seq(Reports) /\ (again = <<>> <=> ~c)
  <2>1. NameSpan \in Spans /\ "redeclaration" \in Subjects
    BY SpanIs DEF NameSpan, Subjects
  <2> QED
    BY <2>1, SaidNothing
<1>7. written \in Seq(Reports) /\ (written = <<>> <=> Storable(place.ty))
  BY <1>3, WrittenReports
<1> HIDE DEF written, again
<1>8. written \o again \in Seq(Reports) /\ (written \o again = <<>> <=> written = <<>> /\ again = <<>>)
  BY <1>6, <1>7, BothEmpty
<1>9. diagnostics' \in Seq(Reports) /\ (diagnostics' = <<>> <=> written \o again = <<>>)
  BY <1>2, <1>5, <1>8
<1>10. HeadFine' <=> Storable(place.ty) /\ ~c
  BY <1>1, <1>2, <1>4 DEF HeadFine
<1>11. typed' = <<>> /\ SizeOf(typed') <= MaxNodes /\ <<>> \in Seq(Grown)
  BY <1>1, <1>2
<1>12. \A S : AllIn(typed', S)
  <2>1. typed' = <<>>
    BY <1>11
  <2> QED
    BY <2>1 DEF AllIn
<1>13. TypeInvariant'
  BY <1>1, <1>2, <1>9, <1>11 DEF TypeInvariant, Phases
<1>14. Untouched' /\ Judged'
  BY <1>1 DEF Untouched, Judged
<1>15. ReportedAsWrong'
  BY <1>1, <1>6, <1>7, <1>8, <1>9, <1>10, <1>12 DEF ReportedAsWrong
<1>16. ConvertedAsUsed'
  BY <1>1, <1>12 DEF ConvertedAsUsed
<1> QED
  BY <1>13, <1>14, <1>15, <1>16 DEF Inv

AllFold(es) == \A i \in DOMAIN es : Folds(es[i])

(* A declaration ends well if its initializer does, its name is new and,   *)
(* if it must be, its initializer is constant.                             *)
LEMMA DeclarationEnds ==
  ASSUME Inv, NEW init, NEW said \in Seq(Reports), NEW constant \in BOOLEAN, NEW span \in Spans,
         Ended(init, said, constant, span),
         NEW es \in Seq(Grown), SizeOf(es) <= MaxNodes, typed' = es,
         constant <=> AllFold(es),
         \/ ListForAScalar \/ TextForNumbers'
         \/ Storable(place.ty) => (AllIn(typed, Rights) /\ said = <<>> <=> Initializes(es)),
         Storable(place.ty) /\ AllIn(typed, Rights) /\ said = <<>> /\ AllIn(typed, Consistents)
           => AllIn(es, Consistents) /\ SiteGetsItsType'
  PROVE  Inv'
<1>1. /\ phase = "expression" /\ place.form \in Declarations /\ place.init = init /\ phase' = "walked"
      /\ place' = place /\ analysis' = analysis
  BY DEF Ended
<1>2. place.redeclared \in BOOLEAN
  BY <1>1, PlaceIs DEF Inv, TypeInvariant
<1>3. PICK c \in BOOLEAN : c = ~constant
  OBVIOUS
<1> DEFINE tail == IF place.form = "local" THEN Report(place.redeclared, NameSpan, "redeclaration", <<>>)
                   ELSE Report(c, span, "not a constant", <<>>)
           found == said \o tail
<1>4. reports(found)
  BY <1>3 DEF Ended
<1>5. /\ tail \in Seq(Reports)
      /\ tail = <<>> <=> (IF place.form = "local" THEN ~place.redeclared ELSE constant)
  <2>1. NameSpan \in Spans /\ "redeclaration" \in Subjects /\ "not a constant" \in Subjects
    BY SpanIs DEF NameSpan, Subjects
  <2>2. CASE place.form = "local"
    <3>1. tail = Report(place.redeclared, NameSpan, "redeclaration", <<>>)
      BY <2>2
    <3> QED
      BY <1>2, <2>1, <2>2, <3>1, SaidNothing
  <2>3. CASE place.form # "local"
    <3>1. tail = Report(c, span, "not a constant", <<>>)
      BY <2>3
    <3> QED
      BY <1>3, <2>1, <2>3, <3>1, SaidNothing
  <2> QED
    BY <2>2, <2>3
<1> HIDE DEF tail
<1>6. found \in Seq(Reports) /\ (found = <<>> <=> said = <<>> /\ tail = <<>>)
  BY <1>5, BothEmpty
<1>7. place.form = "local" \/ place.form = "global"
  BY <1>1 DEF Declarations
<1>8. AllowedByC(es) <=> /\ Storable(place.ty) /\ ~place.redeclared /\ Initializes(es)
                         /\ place.form = "global" => AllFold(es)
  BY <1>1, <1>7 DEF AllowedByC, AllFold
<1>9. HeadFine <=> Storable(place.ty) /\ ~(place.form = "global" /\ place.redeclared)
  BY <1>1 DEF HeadFine
<1>10. \/ ListForAScalar \/ TextForNumbers'
       \/ HeadFine /\ AllIn(typed, Rights) /\ found = <<>> <=> AllowedByC(es)
  BY <1>2, <1>5, <1>6, <1>7, <1>8, <1>9
<1>11. HeadFine /\ AllIn(typed, Rights) /\ found = <<>> /\ AllIn(typed, Consistents)
         => AllIn(es, Consistents) /\ SiteGetsItsType'
  BY <1>6, <1>9
<1> HIDE DEF found
<1> QED
  BY <1>1, <1>4, <1>6, <1>10, <1>11, Ends

LEMMA UninitializedStep ==
  ASSUME Inv, uninitialized
  PROVE  Inv'
<1>1. typed = <<>> /\ typed' = typed /\ Ended("none", <<>>, TRUE, NameSpan)
  BY DEF uninitialized
<1>2. place.init = "none"
  BY <1>1 DEF Ended
<1>3. <<>> \in Seq(Reports) /\ TRUE \in BOOLEAN /\ NameSpan \in Spans
  BY SpanIs DEF NameSpan
<1>4. typed \in Seq(Grown) /\ SizeOf(typed) <= MaxNodes
  BY DEF Inv, TypeInvariant
<1>5. AllIn(typed, Rights) /\ AllFold(typed)
  <2>1. typed = <<>>
    BY <1>1
  <2> QED
    BY <2>1 DEF AllIn, AllFold
<1>6. Initializes(typed)
  BY <1>2 DEF Initializes
<1>7. SiteGetsItsType'
  <2>1. place'.init = "none" /\ place'.form \in Declarations
    BY <1>1, <1>2 DEF Ended
  <2> QED
    BY <2>1 DEF SiteGetsItsType, Declarations
<1> QED
  BY <1>1, <1>3, <1>4, <1>5, <1>6, <1>7, DeclarationEnds

LEMMA OverrunIs ==
  ASSUME NEW count \in Nat, NEW ty \in Written, NEW span \in Spans
  PROVE  /\ Overrun(count, ty, span) \in Seq(Reports)
         /\ Overrun(count, ty, span) = <<>> <=> (ty.shape = "array" => count <= ty.len)
<1>1. PICK c \in BOOLEAN : c = (ty.shape = "array" /\ count > ty.len)
  OBVIOUS
<1>2. Overrun(count, ty, span) = Report(c, span, "initializers", <<ty>>)
  BY <1>1 DEF Overrun
<1>3. "initializers" \in Subjects
  BY DEF Subjects
<1>4. /\ Report(c, span, "initializers", <<ty>>) \in Seq(Reports)
      /\ Report(c, span, "initializers", <<ty>>) = <<>> <=> ~c
  BY <1>3, ReportOfWritten
<1>5. ~c <=> (ty.shape = "array" => count <= ty.len)
  <2>1. CASE ty.shape = "array"
    <3>1. ty.len \in Nat
      BY <2>1, WrittenIs
    <3>2. c <=> count > ty.len
      BY <1>1, <2>1
    <3> QED
      BY <2>1, <3>1, <3>2
  <2>2. CASE ty.shape # "array"
    BY <1>1, <2>2
  <2> QED
    BY <2>1, <2>2
<1> QED
  BY <1>2, <1>4, <1>5

(* What is declared may be an array, of void too, to which nothing can be  *)
(* carried.                                                                *)
LEMMA NotCarried ==
  ASSUME NEW n \in Tree, n.kind # "Callee", Accurate(n), NEW ty \in Written, ty.shape = "array"
  PROVE  /\ Cannot("initialize", n, ty) \in Seq(Reports)
         /\ Right(n) => Cannot("initialize", n, ty) # <<>>
<1>0. MaxNodes \in Nat
  BY TypeCheckerAssumption
<1>1. n.ty \in Ty /\ n.span \in Spans
  BY <1>0, TreeFields
<1> DEFINE types == <<n.ty, ty>>
           d == Diagnostic(n.span, [about |-> "initialize", types |-> types])
<1>2. types \in Seq(Ty \cup Written)
  BY <1>1
<1>3. "initialize" \in Subjects
  BY DEF Subjects
<1>4. d \in Reports
  <2> HIDE DEF types
  <2> QED
    BY <1>1, <1>2, <1>3 DEF Diagnostic, Reports
<1>5. PICK c \in BOOLEAN : c = (assignability(ty, n.ty) = "Incompatible")
  OBVIOUS
<1>6. Cannot("initialize", n, ty) = IF c THEN <<d>> ELSE <<>>
  BY <1>5, Zenon DEF Cannot, Report
<1> HIDE DEF d
<1>7. Cannot("initialize", n, ty) \in Seq(Reports) /\ (c => Cannot("initialize", n, ty) # <<>>)
  <2>1. <<d>> \in Seq(Reports) /\ <<>> \in Seq(Reports) /\ <<d>> # <<>>
    BY <1>4
  <2>2. CASE c
    BY <1>6, <2>1, <2>2, Zenon
  <2>3. CASE ~c
    BY <1>6, <2>1, <2>3, Zenon
  <2> QED
    BY <2>2, <2>3
<1>8. Right(n) => c
  <2> SUFFICES ASSUME Right(n)
               PROVE  assignability(ty, n.ty) = "Incompatible"
    BY <1>5
  <2>1. n.ty # TyError
    BY RightValue
  <2>2. ty # TyError /\ ty \notin {TyInt, TyChar} /\ ty.shape # "ptr"
    BY WrittenIs
  <2> QED
    BY <2>1, <2>2 DEF assignability
<1> QED
  BY <1>7, <1>8

LEMMA InitializerExpressionStep ==
  ASSUME Inv, initializer_expression
  PROVE  Inv'
<1> DEFINE n == typed[1]
           m == carry_into(n, place.ty)
<1>0. MaxNodes \in Nat /\ typed \in Seq(Grown) /\ SizeOf(typed) <= MaxNodes
  BY TypeCheckerAssumption DEF Inv, TypeInvariant
<1>1. PICK constant \in BOOLEAN : constant = (n.kind = "StrLit" \/ n.value # <<>>)
  OBVIOUS
<1>2. /\ Values(1) /\ Len(typed) = 1
      /\ \/ /\ fills_an_array(n, place.ty) /\ typed' = typed
            /\ Ended("expression", Overrun(n.ty.len, place.ty, n.span), constant, n.span)
         \/ /\ ~fills_an_array(n, place.ty) /\ typed' = <<m>>
            /\ Ended("expression", Cannot("initialize", n, place.ty), constant, n.span)
  BY <1>1 DEF initializer_expression
<1>3. /\ phase = "expression" /\ place.form \in Declarations /\ place.init = "expression"
      /\ place' = place
  BY <1>2 DEF Ended
<1>4. place.ty \in Written /\ place.redeclared \in BOOLEAN
  BY <1>3, PlaceIs DEF Inv, TypeInvariant
<1>5. /\ n \in Grown /\ n \in Tree /\ Accurate(n) /\ n.kind # "Callee"
      /\ n.ty \in Ty /\ n.span \in Spans
      /\ AllIn(typed, Rights) <=> Right(n)
      /\ Right(n) <=> Sort[n] # Wrong
      /\ typed # <<>>
  BY <1>2, <1>3, OneExpression
<1>6. ASSUME NEW es, Len(es) = 1, DOMAIN es = 1 .. 1, es[1].kind = n.kind, es[1].value = n.value
      PROVE  constant <=> AllFold(es)
  <2>1. AllFold(es) <=> Folds(es[1])
    BY <1>6 DEF AllFold
  <2>2. Folds(es[1]) <=> n.value # <<>> \/ n.kind = "StrLit"
    BY <1>3, <1>6, Zenon DEF Folds
  <2> QED
    BY <1>1, <2>1, <2>2
<1>7. CASE fills_an_array(n, place.ty)
  <2> DEFINE said == Overrun(n.ty.len, place.ty, n.span)
  <2>1. typed' = typed /\ Ended("expression", said, constant, n.span)
    BY <1>2, <1>7
  <2>2. n.kind = "StrLit" /\ place.ty.shape = "array"
    BY <1>7 DEF fills_an_array
  <2>3. Sort[n] = ArrayOf("char")
    BY <1>0, <1>5, <2>2, LeafSort
  <2>4. Right(n)
    BY <1>5, <2>3, SortsDiffer
  <2>5. n.ty.len \in Nat
    <3>1. n.ty \in ValueTypes
      BY <1>5, <2>4, RightValue
    <3>2. n.ty.shape = "array"
      BY <1>5, <2>2 DEF Accurate
    <3> QED
      BY <3>1, <3>2, ObjectIs
  <2>6. said \in Seq(Reports) /\ (said = <<>> <=> n.ty.len <= place.ty.len)
    BY <1>4, <1>5, <2>2, <2>5, OverrunIs
  <2>7. constant <=> AllFold(typed)
    BY <1>0, <1>2, <1>6
  <2>8. Initializes(typed) <=> place.ty.base = "char" /\ n.ty.len <= place.ty.len
    BY <1>3, <2>2 DEF Initializes
  <2>9. \/ TextForNumbers'
        \/ Storable(place.ty) => (AllIn(typed, Rights) /\ said = <<>> <=> Initializes(typed))
    <3>1. place.ty.base \in {"int", "char", "void"}
      BY <1>4, WrittenIs DEF Bases
    <3>2. CASE place.ty.base = "int"
      BY <1>3, <2>1, <2>2, <3>2 DEF TextForNumbers
    <3>3. CASE place.ty.base = "char"
      BY <1>5, <2>4, <2>6, <2>8, <3>3
    <3>4. CASE place.ty.base = "void"
      BY <3>4 DEF Storable
    <3> QED
      BY <3>1, <3>2, <3>3, <3>4
  <2>10. SiteGetsItsType'
    <3>1. place'.init = "expression" /\ place'.form \in Declarations /\ place'.ty.shape = "array"
      BY <1>3, <2>2
    <3> QED
      BY <3>1 DEF SiteGetsItsType, Declarations
  <2> HIDE DEF said
  <2> QED
    BY <1>0, <1>5, <2>1, <2>6, <2>7, <2>9, <2>10, DeclarationEnds
<1>8. CASE ~fills_an_array(n, place.ty)
  <2> DEFINE said == Cannot("initialize", n, place.ty)
             es == <<m>>
  <2>1. typed' = es /\ Ended("expression", said, constant, n.span)
    BY <1>2, <1>8
  <2>2. Converted(m, n)
    BY <1>0, <1>5, RecordedIs
  <2>3. /\ es \in Seq(Grown) /\ SizeOf(es) <= MaxNodes
        /\ AllIn(typed, Consistents) => AllIn(es, Consistents)
        /\ Sort[m] = Sort[n] /\ m.kind = n.kind /\ m.value = n.value
    BY <1>2, <1>3, <2>2, OneConverted
  <2>4. Len(es) = 1 /\ DOMAIN es = 1 .. 1 /\ es[1] = m
    OBVIOUS
  <2>5. typed'[1] = m
    BY <2>1, <2>4
  <2> HIDE DEF m, es
  <2>6. constant <=> AllFold(es)
    BY <1>6, <2>3, <2>4
  <2>7. CASE place.ty.shape = "array"
    <3>1. said \in Seq(Reports) /\ (Right(n) => said # <<>>)
      BY <1>4, <1>5, <2>7, NotCarried
    <3>2. ~Initializes(es)
      <4>1. es[1].kind # "StrLit"
        BY <1>8, <2>3, <2>4, <2>7 DEF fills_an_array
      <4> QED
        BY <1>3, <2>7, <4>1 DEF Initializes
    <3> HIDE DEF said
    <3> QED
      BY <1>4, <1>5, <2>1, <2>3, <2>6, <3>1, <3>2, DeclarationEnds
  <2>8. CASE place.ty = TyVoid
    <3>1. ~Storable(place.ty)
      BY <2>8, ScalarsDiffer DEF Storable
    <3>2. said \in Seq(Reports)
      <4>1. place.ty \in Ty /\ "initialize" \in {"assign", "pass", "return", "initialize"}
        BY <2>8, TyHas
      <4> QED
        BY <1>5, <4>1, CannotIs
    <3> HIDE DEF said
    <3> QED
      BY <1>5, <2>1, <2>3, <2>6, <3>1, <3>2, DeclarationEnds
  <2>9. CASE place.ty \in {TyInt, TyChar}
    <3>1. /\ said \in Seq(Reports)
          /\ Right(n) /\ said = <<>> <=> Sort[n] = Number
          /\ Sort[n] = Number => Receives(m) = place.ty
      BY <1>5, <2>9, NumberCarried DEF m
    <3>2. Initializes(es) <=> Sort[n] = Number
      <4>1. place.ty.shape # "array"
        BY <2>9, ScalarsDiffer
      <4> QED
        BY <1>3, <2>3, <2>4, <4>1 DEF Initializes
    <3>3. Sort[n] = Number => SiteGetsItsType'
      <4> SUFFICES ASSUME Sort[n] = Number
                   PROVE  SiteGetsItsType'
        OBVIOUS
      <4>1. place'.init = "expression" /\ place'.form \in Declarations /\ place'.ty.shape = "scalar"
            /\ Receives(typed'[1]) = place'.ty
        BY <1>3, <2>5, <2>9, <3>1, ScalarsDiffer
      <4> QED
        BY <4>1 DEF SiteGetsItsType, Declarations, Receives
    <3> HIDE DEF said
    <3> QED
      BY <1>5, <2>1, <2>3, <2>6, <3>1, <3>2, <3>3, DeclarationEnds
  <2> QED
    BY <1>4, <2>7, <2>8, <2>9, WrittenIs
<1> QED
  BY <1>7, <1>8

(* The expressions of a list, carried or as they are.                      *)
LEMMA ListConverted ==
  ASSUME Inv, NEW es \in Seq(Tree), Stands(es, typed)
  PROVE  /\ es \in Seq(Grown) /\ SizeOf(es) <= MaxNodes /\ Len(es) = Len(typed)
         /\ AllIn(typed, Consistents) => AllIn(es, Consistents)
         /\ \A i \in 1 .. Len(typed) :
              Sort[es[i]] = Sort[typed[i]] /\ es[i].value = typed[i].value /\ es[i].kind = typed[i].kind
<1>0. MaxNodes \in Nat /\ typed \in Seq(Grown) /\ SizeOf(typed) <= MaxNodes
  BY TypeCheckerAssumption DEF Inv, TypeInvariant
<1>1. Len(es) = Len(typed) /\ Len(typed) \in Nat /\ DOMAIN typed = 1 .. Len(typed) /\ DOMAIN es = 1 .. Len(typed)
  BY <1>0 DEF Stands
<1>2. ASSUME NEW i \in 1 .. Len(typed)
      PROVE  /\ es[i] \in Grown /\ es[i].size = typed[i].size
             /\ Sort[es[i]] = Sort[typed[i]] /\ es[i].value = typed[i].value /\ es[i].kind = typed[i].kind
             /\ Consistent(typed[i]) => Consistent(es[i])
  <2>1. typed[i] \in Grown /\ typed[i] \in Tree
    BY <1>0 DEF Grown
  <2>2. Converted(es[i], typed[i])
    BY DEF Stands
  <2>3. PICK m : m = es[i]
    OBVIOUS
  <2>4. PICK n : n = typed[i]
    OBVIOUS
  <2>5. n \in Grown /\ n \in Tree /\ Converted(m, n) /\ MaxNodes \in Nat
    BY <1>0, <2>1, <2>2, <2>3, <2>4
  <2>6. m \in Grown /\ m.size = n.size /\ m.value = n.value /\ m.kind = n.kind
    BY <2>5, ConvertedGrows, ConvertedIs
  <2>7. Sort[m] = Sort[n]
    BY <2>5, SortOfConverted
  <2>8. Consistent(n) => Consistent(m)
    BY <2>5, ConsistentConverted
  <2> QED
    BY <2>3, <2>4, <2>6, <2>7, <2>8
<1>3. es \in Seq(Grown)
  <2>1. es = [i \in 1 .. Len(typed) |-> es[i]]
    BY <1>1
  <2> QED
    BY <1>1, <1>2, <2>1
<1>4. SizeOf(es) <= MaxNodes
  <2>1. Sized(typed)
    BY <1>0, GrownAreTrees, SizedTrees
  <2>2. Len(typed) = Len(es) /\ \A i \in 1 .. Len(typed) : typed[i].size = es[i].size
    BY <1>1, <1>2
  <2>3. SizeOf(es) = SizeOf(typed)
    BY <1>0, <1>3, <2>1, <2>2, SameSizes
  <2> QED
    BY <1>0, <2>3
<1>5. AllIn(typed, Consistents) => AllIn(es, Consistents)
  BY <1>1, <1>2 DEF AllIn, Consistents
<1> QED
  BY <1>1, <1>2, <1>3, <1>4, <1>5

LEMMA ListItem ==
  ASSUME Inv, phase = "expression", Values(Len(typed)), NEW i \in 1 .. Len(typed)
  PROVE  /\ typed[i] \in Tree /\ Accurate(typed[i]) /\ typed[i].kind # "Callee"
         /\ typed[i].ty \in Ty /\ typed[i].span \in Spans
         /\ typed[i] \in Rights <=> Right(typed[i])
<1>1. typed[i] \in Grown /\ typed[i] \in Tree /\ Accurate(typed[i]) /\ typed[i].ty \in Ty /\ typed[i].span \in Spans
  BY StackItem
<1>2. typed[i].kind # "Callee"
  <2>1. typed \in Seq(Grown)
    BY DEF Inv, TypeInvariant
  <2>2. i \in Len(typed) - Len(typed) + 1 .. Len(typed)
    BY <2>1
  <2> QED
    BY <2>2 DEF Values
<1> QED
  BY <1>1, <1>2 DEF Rights

ListSpan == Span(Opening, 1 + (IF typed = <<>> THEN Opening ELSE Last(typed).span.end))
ListReports(element) == [i \in DOMAIN typed |-> IF place.ty.shape = "array" THEN Cannot("initialize", typed[i], element) ELSE <<>>]

LEMMA ListSpanIs ==
  ASSUME Inv, phase = "expression"
  PROVE  ListSpan \in Spans
<1>1. typed \in Seq(Grown)
  BY DEF Inv, TypeInvariant
<1> DEFINE e == 1 + (IF typed = <<>> THEN Opening ELSE Last(typed).span.end)
<1>2. e \in Int /\ Opening \in Int
  <2>1. CASE typed = <<>>
    BY <2>1 DEF Opening
  <2>2. CASE typed # <<>>
    <3>1. Len(typed) \in 1 .. Len(typed) /\ Last(typed) = typed[Len(typed)]
      BY <1>1, <2>2 DEF Last
    <3>2. Last(typed).span.end \in Int
      BY <3>1, StackItem
    <3> QED
      BY <2>2, <3>2 DEF Opening
  <2> QED
    BY <2>1, <2>2
<1>3. ListSpan = Span(Opening, e)
  BY DEF ListSpan
<1> HIDE DEF e
<1> QED
  BY <1>2, <1>3, SpanIs

LEMMA ListReportsAre ==
  ASSUME Inv, phase = "expression", Values(Len(typed)), NEW element \in Ty
  PROVE  /\ FlattenSeq(ListReports(element)) \in Seq(Reports)
         /\ place.ty.shape = "array" =>
              (FlattenSeq(ListReports(element)) = <<>> <=>
                 \A i \in 1 .. Len(typed) : Cannot("initialize", typed[i], element) = <<>>)
<1> DEFINE seqs == ListReports(element)
<1>0. typed \in Seq(Grown) /\ Len(typed) \in Nat /\ DOMAIN typed = 1 .. Len(typed)
  BY DEF Inv, TypeInvariant
<1>1. ASSUME NEW i \in 1 .. Len(typed)
      PROVE  Cannot("initialize", typed[i], element) \in Seq(Reports)
  <2>1. typed[i].ty \in Ty /\ typed[i].span \in Spans
    BY ListItem
  <2>2. "initialize" \in {"assign", "pass", "return", "initialize"}
    OBVIOUS
  <2> QED
    BY <2>1, <2>2, CannotIs
<1>2. <<>> \in Seq(Reports)
  OBVIOUS
<1>3. seqs \in Seq(Seq(Reports)) /\ Len(seqs) = Len(typed)
  BY <1>0, <1>1, <1>2 DEF ListReports
<1>4. place.ty.shape = "array" => \A i \in 1 .. Len(typed) : seqs[i] = Cannot("initialize", typed[i], element)
  BY <1>0 DEF ListReports
<1> HIDE DEF seqs
<1>5. /\ FlattenSeq(seqs) \in Seq(Reports)
      /\ FlattenSeq(seqs) = <<>> <=> \A i \in 1 .. Len(seqs) : seqs[i] = <<>>
  BY <1>3, Flattened
<1>6. place.ty.shape = "array" =>
        (FlattenSeq(seqs) = <<>> <=> \A i \in 1 .. Len(typed) : Cannot("initialize", typed[i], element) = <<>>)
  BY <1>3, <1>4, <1>5
<1> QED
  BY <1>5, <1>6 DEF seqs

IsList(es, element) ==
  es = [i \in DOMAIN typed |-> IF place.ty.shape = "array" THEN carry_into(typed[i], element) ELSE typed[i]]

LEMMA ListIs ==
  ASSUME Inv, NEW element, NEW es, IsList(es, element)
  PROVE  /\ es \in Seq(Tree) /\ Stands(es, typed)
         /\ place.ty.shape = "array" => \A i \in 1 .. Len(typed) : es[i] = carry_into(typed[i], element)
<1>0. MaxNodes \in Nat /\ typed \in Seq(Grown) /\ Len(typed) \in Nat /\ DOMAIN typed = 1 .. Len(typed)
  BY TypeCheckerAssumption DEF Inv, TypeInvariant
<1>1. typed \in Seq(Tree)
  BY <1>0, GrownAreTrees
<1>2. ASSUME NEW i \in 1 .. Len(typed)
      PROVE  Converted(es[i], typed[i]) /\ es[i] \in Tree
  <2>1. PICK n \in Tree : n = typed[i]
    BY <1>1
  <2>2. Converted(n, n) /\ Converted(carry_into(n, element), n)
    BY <1>0, RecordedIs, Unconverted
  <2>3. es[i] = IF place.ty.shape = "array" THEN carry_into(n, element) ELSE n
    BY <1>0, <2>1 DEF IsList
  <2>4. Converted(es[i], n)
    BY <2>2, <2>3
  <2>5. es[i] \in Tree
    BY <1>0, <2>4, ConvertedIs
  <2> QED
    BY <2>1, <2>4, <2>5
<1>3. DOMAIN es = 1 .. Len(typed) /\ es = [i \in 1 .. Len(typed) |-> es[i]]
  BY <1>0 DEF IsList
<1>4. es \in Seq(Tree) /\ Len(es) = Len(typed)
  BY <1>0, <1>2, <1>3
<1>5. place.ty.shape = "array" => \A i \in 1 .. Len(typed) : es[i] = carry_into(typed[i], element)
  BY <1>0 DEF IsList
<1> QED
  BY <1>2, <1>4, <1>5 DEF Stands

LEMMA InitializerListStep ==
  ASSUME Inv, initializer_list
  PROVE  Inv'
<1> DEFINE element == Scalar(place.ty.base)
           listed == FlattenSeq(ListReports(element))
           overrun == Overrun(Len(typed), place.ty, ListSpan)
           said == listed \o overrun
<1>0. typed \in Seq(Grown) /\ Len(typed) \in Nat /\ DOMAIN typed = 1 .. Len(typed)
  BY DEF Inv, TypeInvariant
<1>1. PICK constant \in BOOLEAN : constant = (\A i \in DOMAIN typed : typed[i].value # <<>>)
  OBVIOUS
<1>2. PICK es : IsList(es, element) /\ typed' = es
  BY Zenon DEF initializer_list, IsList
<1>3. Values(Len(typed)) /\ Ended("list", said, constant, ListSpan)
  BY <1>1, Zenon DEF initializer_list, ListReports, ListSpan
<1>4. /\ phase = "expression" /\ place.form \in Declarations /\ place.init = "list"
      /\ place' = place
  BY <1>3 DEF Ended
<1>5. place.ty \in Written
  BY <1>4, PlaceIs DEF Inv, TypeInvariant
<1>6. ListSpan \in Spans
  BY <1>4, ListSpanIs
<1>7. /\ es \in Seq(Tree) /\ Stands(es, typed)
      /\ place.ty.shape = "array" => \A i \in 1 .. Len(typed) : es[i] = carry_into(typed[i], element)
  BY <1>2, ListIs
<1>8. /\ es \in Seq(Grown) /\ SizeOf(es) <= MaxNodes /\ Len(es) = Len(typed)
      /\ AllIn(typed, Consistents) => AllIn(es, Consistents)
      /\ \A i \in 1 .. Len(typed) :
           Sort[es[i]] = Sort[typed[i]] /\ es[i].value = typed[i].value /\ es[i].kind = typed[i].kind
  BY <1>7, ListConverted
<1>9. constant <=> AllFold(es)
  <2>1. \A i : Folds(es[i]) <=> es[i].value # <<>>
    BY <1>4, Zenon DEF Folds
  <2>2. DOMAIN es = 1 .. Len(typed)
    BY <1>8
  <2>3. AllFold(es) <=> \A i \in 1 .. Len(typed) : es[i].value # <<>>
    BY <2>1, <2>2 DEF AllFold
  <2>4. constant <=> \A i \in 1 .. Len(typed) : typed[i].value # <<>>
    BY <1>0, <1>1
  <2> QED
    BY <1>8, <2>3, <2>4
<1>10. element \in Ty /\ (place.ty.base # "void" => element \in {TyInt, TyChar})
  <2>1. place.ty.base \in {"int", "char", "void"}
    BY <1>5, WrittenIs DEF Bases
  <2> QED
    BY <2>1, TyHas DEF TyInt, TyChar, TyVoid
<1> HIDE DEF element
<1>11. /\ listed \in Seq(Reports)
       /\ place.ty.shape = "array" =>
            (listed = <<>> <=> \A i \in 1 .. Len(typed) : Cannot("initialize", typed[i], element) = <<>>)
  BY <1>3, <1>4, <1>10, ListReportsAre
<1>12. overrun \in Seq(Reports) /\ (overrun = <<>> <=> (place.ty.shape = "array" => Len(typed) <= place.ty.len))
  BY <1>0, <1>5, <1>6, OverrunIs
<1> HIDE DEF listed, overrun
<1>13. said \in Seq(Reports) /\ (said = <<>> <=> listed = <<>> /\ overrun = <<>>)
  BY <1>11, <1>12, BothEmpty
<1> HIDE DEF said
<1>14. CASE place.ty.shape # "array"
  <2>1. ListForAScalar /\ ListForAScalar'
    BY <1>4, <1>14 DEF ListForAScalar
  <2>2. SiteGetsItsType'
    <3>1. place'.init = "list" /\ place'.form \in Declarations
      BY <1>4
    <3> QED
      BY <2>1, <3>1 DEF SiteGetsItsType, Declarations
  <2> QED
    BY <1>2, <1>3, <1>6, <1>8, <1>9, <1>13, <2>1, <2>2, DeclarationEnds
<1>15. CASE place.ty.shape = "array" /\ place.ty.base = "void"
  <2>1. ~Storable(place.ty)
    BY <1>15 DEF Storable
  <2> QED
    BY <1>2, <1>3, <1>6, <1>8, <1>9, <1>13, <2>1, DeclarationEnds
<1>16. CASE place.ty.shape = "array" /\ place.ty.base # "void"
  <2>1. ASSUME NEW i \in 1 .. Len(typed)
        PROVE  /\ typed[i] \in Rights /\ Cannot("initialize", typed[i], element) = <<>> <=> Sort[typed[i]] = Number
               /\ Sort[typed[i]] = Number => Receives(es[i]) = element
    <3>1. typed[i] \in Tree /\ Accurate(typed[i]) /\ typed[i].kind # "Callee"
          /\ (typed[i] \in Rights <=> Right(typed[i]))
      BY <1>3, <1>4, ListItem
    <3>2. /\ Right(typed[i]) /\ Cannot("initialize", typed[i], element) = <<>> <=> Sort[typed[i]] = Number
          /\ Sort[typed[i]] = Number => Receives(carry_into(typed[i], element)) = element
      BY <1>10, <1>16, <3>1, NumberCarried
    <3> QED
      BY <1>7, <1>16, <3>1, <3>2
  <2>2. AllIn(typed, Rights) /\ listed = <<>> <=> \A i \in 1 .. Len(typed) : Sort[typed[i]] = Number
    BY <1>0, <1>11, <1>16, <2>1 DEF AllIn
  <2>3. Initializes(es) <=> Len(typed) <= place.ty.len /\ \A i \in 1 .. Len(typed) : Sort[typed[i]] = Number
    <3>1. DOMAIN es = 1 .. Len(typed) /\ Len(es) = Len(typed)
      BY <1>8
    <3>2. Initializes(es) <=> Len(es) =< place.ty.len /\ \A i \in DOMAIN es : Sort[es[i]] = Number
      BY <1>4, <1>16 DEF Initializes
    <3> QED
      BY <1>8, <3>1, <3>2
  <2>4. AllIn(typed, Rights) /\ said = <<>> <=> Initializes(es)
    BY <1>12, <1>13, <1>16, <2>2, <2>3
  <2>5. AllIn(typed, Rights) /\ said = <<>> => SiteGetsItsType'
    <3> SUFFICES ASSUME AllIn(typed, Rights), said = <<>>
                 PROVE  SiteGetsItsType'
      OBVIOUS
    <3>1. \A i \in 1 .. Len(typed) : Receives(es[i]) = element
      BY <1>13, <2>1, <2>2
    <3>2. DOMAIN typed' = 1 .. Len(typed)
      BY <1>2, <1>8
    <3>3. \A i \in DOMAIN typed' : Receives(typed'[i]) = Scalar(place'.ty.base)
      BY <1>2, <1>4, <3>1, <3>2 DEF element
    <3>4. place'.init = "list" /\ place'.form \in Declarations
      BY <1>4
    <3> QED
      BY <3>3, <3>4 DEF SiteGetsItsType, Declarations, Receives
  <2> QED
    BY <1>2, <1>3, <1>6, <1>8, <1>9, <1>13, <2>4, <2>5, DeclarationEnds
<1> QED
  BY <1>14, <1>15, <1>16

LEMMA FinishStep ==
  ASSUME Inv, finish
  PROVE  Inv'
<1>1. /\ phase = "walked" /\ phase' = "finished" /\ analysis' = into_sorted(diagnostics)
      /\ place' = place /\ typed' = typed /\ diagnostics' = diagnostics
  BY DEF finish
<1>2. diagnostics \in Seq(Reports)
  BY DEF Inv, TypeInvariant
<1>3. analysis' \in Seq(Reports) /\ (analysis' = <<>> <=> diagnostics = <<>>)
  <2> DEFINE sorted == into_sorted(diagnostics)
  <2>1. sorted \in Seq(Reports) /\ Len(sorted) = Len(diagnostics)
    BY <1>2, SortedWhole
  <2> HIDE DEF sorted
  <2>2. sorted = <<>> <=> diagnostics = <<>>
    BY <1>2, <2>1
  <2>3. analysis' = sorted
    BY <1>1 DEF sorted
  <2> QED
    BY <2>1, <2>2, <2>3
<1>4. /\ AllowedByC(typed)' <=> AllowedByC(typed)
      /\ ListForAScalar' <=> ListForAScalar
  BY <1>1, JudgedNext
<1>5. (TextForNumbers' <=> TextForNumbers) /\ (SiteGetsItsType' <=> SiteGetsItsType)
  BY <1>1 DEF TextForNumbers, SiteGetsItsType, ListForAScalar
<1>6. TypeInvariant'
  BY <1>1, <1>3 DEF Inv, TypeInvariant, Phases
<1>7. Untouched' /\ ReportedAsWrong'
  BY <1>1 DEF Untouched, ReportedAsWrong
<1>8. Judged'
  BY <1>1, <1>3, <1>4, <1>5 DEF Inv, Judged
<1>9. ConvertedAsUsed'
  BY <1>1, <1>5 DEF Inv, ConvertedAsUsed
<1> QED
  BY <1>6, <1>7, <1>8, <1>9 DEF Inv

(* In every state the bag is empty exactly if every expression typed so far *)
(* is well typed, each well typed one has the type of its sort, and until  *)
(* the first report every value is converted to what uses it: the walk of  *)
(* Analyzer::type_of and the checks of the statement or declaration around *)
(* it report all that is wrong and nothing else.                           *)
THEOREM ReportsAreOfWhatIsWrong == Spec => []Inv
<1>1. Init => Inv
  BY Beginning
<1>2. ASSUME Inv, [Next]_vars
      PROVE  Inv'
  <2>1. CASE UNCHANGED vars
    BY <1>2, <2>1, Stuttering
  <2>2. CASE declaration
    BY <1>2, <2>2, DeclarationStep
  <2>3. CASE Expression
    BY <1>2, <2>3, ExpressionStep
  <2>4. CASE full_expression
    BY <1>2, <2>4, FullExpressionStep
  <2>5. CASE condition
    BY <1>2, <2>5, ConditionStep
  <2>6. CASE return_value
    BY <1>2, <2>6, ReturnValueStep
  <2>7. CASE return_nothing
    BY <1>2, <2>7, ReturnNothingStep
  <2>8. CASE uninitialized
    BY <1>2, <2>8, UninitializedStep
  <2>9. CASE initializer_expression
    BY <1>2, <2>9, InitializerExpressionStep
  <2>10. CASE initializer_list
    BY <1>2, <2>10, InitializerListStep
  <2>11. CASE finish
    BY <1>2, <2>11, FinishStep
  <2> QED
    BY <1>2, <2>1, <2>2, <2>3, <2>4, <2>5, <2>6, <2>7, <2>8, <2>9, <2>10, <2>11 DEF Next
<1> QED
  BY <1>1, <1>2, PTL DEF Spec

(* Whatever the names in scope, the expression within the depth guard and  *)
(* what it is written in, the analyzer hands on no report of what the      *)
(* subset types, and hands one on of what C has no type for, but for the   *)
(* two initializers type_initializer passes unseen: recovery behind        *)
(* Ty::Error swallows no error, and no rule of src/sema/types.rs refuses   *)
(* what is right or passes what is not.                                    *)
THEOREM AcceptsTheWellTyped == Spec => []AcceptedIsWellTyped
<1>1. Inv => AcceptedIsWellTyped
  BY DEF Inv, Judged, AcceptedIsWellTyped, WellTyped
<1> QED
  BY <1>1, ReportsAreOfWhatIsWrong, PTL

(* In what is accepted every value is converted to the type of what uses   *)
(* it: operands of arithmetic and subscripts to int, what is stored,       *)
(* passed, returned or put into an array to the type of where it goes.     *)
(* It is what analysis records (converted_type_of in                       *)
(* src/sema/annotations.rs), wherever code generation asks for it.         *)
THEOREM ConvertsForEveryUse == Spec => []ConversionsMeetTheirUse
<1>1. ASSUME Inv
      PROVE  ConversionsMeetTheirUse
  <2> SUFFICES ASSUME phase = "finished", analysis = <<>>
               PROVE  SiteGetsItsType /\ \A n \in InsideAll(typed) : PartsMeetTheirUse(n)
    BY DEF ConversionsMeetTheirUse
  <2>1. diagnostics = <<>>
    BY <1>1 DEF Inv, Judged
  <2>2. SiteGetsItsType /\ AllIn(typed, Consistents)
    BY <1>1, <2>1 DEF Inv, ConvertedAsUsed
  <2>3. ASSUME NEW n \in InsideAll(typed)
        PROVE  PartsMeetTheirUse(n)
    <3>1. PICK i \in DOMAIN typed : n \in Inside[typed[i]]
      BY DEF InsideAll
    <3>2. Consistent(typed[i])
      BY <2>2 DEF AllIn, Consistents
    <3> QED
      BY <3>1, <3>2 DEF Consistent
  <2> QED
    BY <2>2, <2>3
<1> QED
  BY <1>1, ReportsAreOfWhatIsWrong, PTL
-----------------------------------------------------------------------------
(* What C defines of two constants.                                        *)

LEMMA CheckedIsAnOption ==
  ASSUME NEW w, NEW S, \A v : v \in S <=> v \in Ints /\ v = w
  PROVE  checked(w) = AnOption(S)
<1>1. CASE w \in Ints
  <2>1. S = {w}
    BY <1>1
  <2>2. AnOption({w}) = <<w>>
    BY DEF AnOption
  <2> QED
    BY <1>1, <2>1, <2>2, CheckedIs
<1>2. CASE w \notin Ints
  <2>1. S = {}
    BY <1>2
  <2>2. AnOption({}) = <<>>
    BY DEF AnOption
  <2> QED
    BY <1>2, <2>1, <2>2, CheckedIs
<1> QED
  BY <1>1, <1>2

LEMMA FromIsAnOption ==
  ASSUME NEW p \in BOOLEAN, NEW S, \A v : v \in S <=> v \in Ints /\ v = IF p THEN 1 ELSE 0
  PROVE  from(p) = AnOption(S)
<1> DEFINE w == IF p THEN 1 ELSE 0
<1>1. w \in Ints
  BY IntsAre
<1>2. \A v : v \in S <=> v \in Ints /\ v = w
  OBVIOUS
<1>3. from(p) = <<w>>
  BY DEF from
<1> HIDE DEF w
<1> QED
  BY <1>1, <1>2, <1>3, CheckedIs, CheckedIsAnOption

(* Two divisions of the same number by `b`, their remainders smaller than  *)
(* `b` and of one sign.                                                    *)
DivideAlike(b, q, r, t, u) ==
  /\ q * b + r = t * b + u
  /\ Magnitude(r) < Magnitude(b) /\ Magnitude(u) < Magnitude(b)
  /\ \/ r >= 0 /\ u >= 0
     \/ r <= 0 /\ u <= 0

(* A quotient towards zero is the only one with a small enough remainder   *)
(* of the sign of `a`.                                                     *)
LEMMA DivisionIsOne ==
  ASSUME NEW b \in Int, NEW q \in Int, NEW r \in Int, NEW t \in Int, NEW u \in Int,
         DivideAlike(b, q, r, t, u)
  PROVE  q = t /\ r = u
<1> DEFINE d == Magnitude(b)
           k == t - q
<1> USE DEF DivideAlike
<1>1. d \in Nat /\ r - u < d /\ u - r < d
  BY MagnitudeIs
<1>2. k \in Int /\ k * b = r - u
  <2>1. (t - q) * b = t * b - q * b
    OBVIOUS
  <2>2. t * b \in Int /\ q * b \in Int
    OBVIOUS
  <2> QED
    BY <2>1, <2>2
<1>3. d = b \/ d = -b
  BY MagnitudeIs
<1> HIDE DEF d, k
<1>4. k = 0
  <2>1. k * d = r - u \/ k * d = u - r
    <3>1. CASE d = b
      BY <1>2, <3>1
    <3>2. CASE d = -b
      <4>1. k * (-b) = -(k * b)
        BY <1>2
      <4> QED
        BY <1>2, <3>2, <4>1
    <3> QED
      BY <1>3, <3>1, <3>2
  <2>2. k * d < d /\ -(k * d) < d /\ k * d \in Int
    BY <1>1, <1>2, <2>1
  <2>3. ASSUME k >= 1
        PROVE  FALSE
    <3>1. k * d >= d
      BY <1>1, <1>2, <2>3
    <3> QED
      BY <1>1, <2>2, <3>1
  <2>4. ASSUME k <= -1
        PROVE  FALSE
    <3>1. -(k * d) >= d
      <4>1. (-k) * d >= d
        BY <1>1, <1>2, <2>4
      <4>2. (-k) * d = -(k * d)
        BY <1>1, <1>2
      <4> QED
        BY <4>1, <4>2
    <3> QED
      BY <1>1, <2>2, <3>1
  <2> QED
    BY <1>2, <2>3, <2>4
<1>5. q = t
  BY <1>4 DEF k
<1>6. q * b \in Int
  OBVIOUS
<1> QED
  BY <1>5, <1>6

LEMMA SameSign ==
  ASSUME NEW a \in Int, NEW r \in Int, r * a >= 0
  PROVE  (a > 0 => r >= 0) /\ (a < 0 => r <= 0)
<1>1. ASSUME a > 0, r <= -1
      PROVE  FALSE
  <2>1. r * a <= -a
    BY <1>1
  <2> QED
    BY <1>1, <2>1
<1>2. ASSUME a < 0, r >= 1
      PROVE  FALSE
  <2>1. r * a <= a
    BY <1>2
  <2> QED
    BY <1>2, <2>1
<1> QED
  BY <1>1, <1>2

LEMMA DivisionsAre ==
  ASSUME NEW a \in Ints, NEW b \in Ints
  PROVE  /\ b = 0 => Divisions(a, b) = {}
         /\ b # 0 => LET q == Truncated(a, b) IN Divisions(a, b) = {<<q, a - b * q>>}
<1>0. a \in Int /\ b \in Int /\ -IntMax - 1 <= a /\ a <= IntMax /\ IntMax \in Nat
  BY IntsAre
<1>1. \A x \in Divisions(a, b) :
        \E t \in Int, u \in Int : /\ x = <<t, u>> /\ a = t * b + u
                                  /\ Magnitude(u) < Magnitude(b) /\ u * a >= 0
  <2> SUFFICES ASSUME NEW x \in Divisions(a, b)
               PROVE  \E t \in Int, u \in Int : /\ x = <<t, u>> /\ a = t * b + u
                                  /\ Magnitude(u) < Magnitude(b) /\ u * a >= 0
    OBVIOUS
  <2>1. x \in (IntMin .. -IntMin) \X (IntMin .. IntMax)
    BY DEF Divisions
  <2>2. x[1] \in Int /\ x[2] \in Int /\ x = <<x[1], x[2]>>
    BY <1>0, <2>1 DEF IntMin
  <2>3. a = x[1] * b + x[2] /\ Magnitude(x[2]) < Magnitude(b) /\ x[2] * a >= 0
    BY DEF Divisions
  <2> QED
    BY <2>2, <2>3
<1>2. CASE b = 0
  <2>1. ASSUME NEW x \in Divisions(a, b)
        PROVE  FALSE
    <3>1. PICK u \in Int : Magnitude(u) < Magnitude(b)
      BY <1>1, <2>1
    <3> QED
      BY <1>2, <3>1, MagnitudeIs
  <2> QED
    BY <1>2, <2>1
<1>3. CASE b # 0
  <2> DEFINE q == Truncated(a, b)
             r == a - b * q
  <2>1. /\ q \in Int /\ r \in Int
        /\ Magnitude(q) = Magnitude(a) \div Magnitude(b)
        /\ Magnitude(r) < Magnitude(b) /\ Magnitude(r) <= Magnitude(a)
        /\ (a >= 0 => r >= 0) /\ (a <= 0 => r <= 0)
    BY <1>0, <1>3, TruncatedIs
  <2>2. r = a - b * q
    OBVIOUS
  <2>d. r = a - b * q
    OBVIOUS
  <2> HIDE DEF q, r
  <2>3. a = q * b + r
    <3>1. q * b = b * q /\ b * q \in Int
      BY <1>0, <2>1
    <3> QED
      BY <1>0, <2>1, <2>2, <3>1
  <2>4. Magnitude(a) \in Nat /\ Magnitude(b) \in Nat /\ Magnitude(b) # 0 /\ Magnitude(a) <= IntMax + 1
    BY <1>0, <1>3 DEF Magnitude
  <2>5. Magnitude(q) <= IntMax + 1
    <3> DEFINE m == Magnitude(a)
               d == Magnitude(b)
    <3>1. m \in Nat /\ d \in Nat /\ d # 0
      BY <2>4
    <3> HIDE DEF m, d
    <3>2. m \div d <= m /\ m \div d \in Nat
      BY <3>1, Quotient
    <3>3. Magnitude(q) <= m
      BY <2>1, <3>2 DEF m, d
    <3> QED
      BY <1>0, <2>4, <3>1, <3>2, <3>3, <2>1 DEF m, d
  <2>6. q \in IntMin .. -IntMin
    <3>1. -IntMax - 1 <= q /\ q <= IntMax + 1
      BY <1>0, <2>1, <2>5 DEF Magnitude
    <3> QED
      BY <1>0, <2>1, <3>1 DEF IntMin
  <2>7. r \in IntMin .. IntMax
    <3>1. -IntMax - 1 <= r /\ r <= IntMax
      <4>1. CASE a >= 0
        BY <1>0, <2>1, <4>1 DEF Magnitude
      <4>2. CASE a < 0
        BY <1>0, <2>1, <4>2 DEF Magnitude
      <4> QED
        BY <1>0, <4>1, <4>2
    <3> QED
      BY <1>0, <2>1, <3>1 DEF IntMin
  <2>8. r * a >= 0
    <3>1. CASE a >= 0
      BY <1>0, <2>1, <3>1
    <3>2. CASE a < 0
      <4>1. (-r) * (-a) >= 0
        BY <1>0, <2>1, <3>2
      <4>2. (-r) * (-a) = r * a
        BY <1>0, <2>1
      <4> QED
        BY <4>1, <4>2
    <3> QED
      BY <1>0, <3>1, <3>2
  <2>9. <<q, r>> \in Divisions(a, b)
    BY <2>1, <2>3, <2>6, <2>7, <2>8 DEF Divisions
  <2>10. ASSUME NEW x \in Divisions(a, b)
         PROVE  x = <<q, r>>
    <3>1. PICK t \in Int, u \in Int : /\ x = <<t, u>> /\ a = t * b + u
                                      /\ Magnitude(u) < Magnitude(b) /\ u * a >= 0
      BY <1>1, <2>10
    <3>2. q * b + r = t * b + u
      BY <2>3, <3>1
    <3>3. \/ r >= 0 /\ u >= 0
          \/ r <= 0 /\ u <= 0
      <4>1. (a > 0 => u >= 0) /\ (a < 0 => u <= 0)
        BY <1>0, <3>1, SameSign
      <4>2. CASE a = 0
        <5>1. r = 0
          BY <2>1, <4>2
        <5> QED
          BY <3>1, <5>1
      <4> QED
        BY <1>0, <2>1, <4>1, <4>2
    <3>4. q = t /\ r = u
      <4>1. /\ b \in Int /\ q \in Int /\ r \in Int /\ t \in Int /\ u \in Int
            /\ Magnitude(r) < Magnitude(b) /\ Magnitude(u) < Magnitude(b)
        BY <1>0, <2>1, <3>1
      <4> HIDE DEF q, r
      <4>2. DivideAlike(b, q, r, t, u)
        BY <3>2, <3>3, <4>1 DEF DivideAlike
      <4> QED
        BY <4>1, <4>2, DivisionIsOne, Zenon
    <3> QED
      BY <3>1, <3>4
  <2>11. Divisions(a, b) = {<<q, r>>}
    BY <2>9, <2>10
  <2> QED
    BY <1>3, <2>11, <2>d DEF q
<1> QED
  BY <1>2, <1>3

LEMMA DivideFolds ==
  ASSUME NEW a \in Ints, NEW b \in Ints
  PROVE  folded_binary("Divide", a, b) = AnOption(DefinedByC("Divide", a, b))
<1> DEFINE q == Truncated(a, b)
           S == DefinedByC("Divide", a, b)
<1>1. \A v : v \in S <=> v \in Ints /\ \E qr \in Divisions(a, b) : v = qr[1]
  BY DEF DefinedByC
<1>2. folded_binary("Divide", a, b) = IF b = 0 THEN <<>> ELSE checked(q)
  BY DEF folded_binary
<1>3. CASE b = 0
  <2>1. Divisions(a, b) = {}
    BY <1>3, DivisionsAre
  <2> HIDE DEF S, q
  <2>2. S = {}
    BY <1>1, <2>1
  <2>3. AnOption({}) = <<>>
    BY DEF AnOption
  <2>4. AnOption(S) = <<>>
    BY <2>2, <2>3
  <2> QED
    BY <1>2, <1>3, <2>4 DEF S
<1>4. CASE b # 0
  <2>1. Divisions(a, b) = {<<q, a - b * q>>}
    BY <1>4, DivisionsAre
  <2> HIDE DEF S, q
  <2>2. \A v : v \in S <=> v \in Ints /\ v = q
    BY <1>1, <2>1
  <2>3. checked(q) = AnOption(S)
    BY <2>2, CheckedIsAnOption
  <2> QED
    BY <1>2, <1>4, <2>3 DEF S
<1> QED
  BY <1>3, <1>4

LEMMA RemainderFolds ==
  ASSUME NEW a \in Ints, NEW b \in Ints
  PROVE  folded_binary("Remainder", a, b) = AnOption(DefinedByC("Remainder", a, b))
<1> DEFINE q == Truncated(a, b)
           r == a - b * q
           S == DefinedByC("Remainder", a, b)
<1>1. \A v : v \in S <=> v \in Ints /\ \E qr \in Divisions(a, b) : v = qr[2] /\ qr[1] \in Ints
  BY DEF DefinedByC
<1>2. folded_binary("Remainder", a, b) = IF b = 0 \/ checked(q) = <<>> THEN <<>> ELSE <<r>>
  BY DEF folded_binary, checked_rem
<1>0. AnOption({}) = <<>> /\ AnOption({r}) = <<r>>
  BY DEF AnOption
<1>3. CASE b = 0
  <2>1. Divisions(a, b) = {}
    BY <1>3, DivisionsAre
  <2> HIDE DEF S, q, r
  <2>2. S = {}
    BY <1>1, <2>1
  <2>3. AnOption(S) = <<>>
    BY <1>0, <2>2
  <2> QED
    BY <1>2, <1>3, <2>3 DEF S
<1>4. CASE b # 0
  <2>1. Divisions(a, b) = {<<q, r>>}
    BY <1>4, DivisionsAre
  <2>2. <<q, r>> \in Divisions(a, b)
    BY <2>1
  <2>3. r \in Ints
    BY <2>2 DEF Divisions, Ints
  <2>4. checked(q) = <<>> <=> q \notin Ints
    BY CheckedIs
  <2> HIDE DEF S, q, r
  <2>5. \A v : v \in S <=> v \in Ints /\ v = r /\ q \in Ints
    BY <1>1, <2>1
  <2>6. CASE q \in Ints
    <3>1. S = {r}
      BY <2>3, <2>5, <2>6
    <3>2. AnOption(S) = <<r>>
      BY <1>0, <3>1
    <3> QED
      BY <1>2, <1>4, <2>4, <2>6, <3>2 DEF S
  <2>7. CASE q \notin Ints
    <3>1. S = {}
      BY <2>5, <2>7
    <3>2. AnOption(S) = <<>>
      BY <1>0, <3>1
    <3> QED
      BY <1>2, <1>4, <2>4, <2>7, <3>2 DEF S
  <2> QED
    BY <2>6, <2>7
<1> QED
  BY <1>3, <1>4

LEMMA SumsFold ==
  ASSUME NEW a \in Ints, NEW b \in Ints
  PROVE  /\ folded_binary("Add", a, b) = AnOption(DefinedByC("Add", a, b))
         /\ folded_binary("Subtract", a, b) = AnOption(DefinedByC("Subtract", a, b))
         /\ folded_binary("Multiply", a, b) = AnOption(DefinedByC("Multiply", a, b))
<1>1. /\ \A v : v \in DefinedByC("Add", a, b) <=> v \in Ints /\ v = a + b
      /\ \A v : v \in DefinedByC("Subtract", a, b) <=> v \in Ints /\ v = a - b
      /\ \A v : v \in DefinedByC("Multiply", a, b) <=> v \in Ints /\ v = a * b
  BY DEF DefinedByC
<1>2. /\ folded_binary("Add", a, b) = checked(a + b)
      /\ folded_binary("Subtract", a, b) = checked(a - b)
      /\ folded_binary("Multiply", a, b) = checked(a * b)
  BY DEF folded_binary
<1>3. /\ checked(a + b) = AnOption(DefinedByC("Add", a, b))
      /\ checked(a - b) = AnOption(DefinedByC("Subtract", a, b))
      /\ checked(a * b) = AnOption(DefinedByC("Multiply", a, b))
  BY <1>1, CheckedIsAnOption
<1> QED
  BY <1>2, <1>3

LEMMA TestsFold ==
  ASSUME NEW a \in Ints, NEW b \in Ints, NEW op \in Comparisons \cup Logical
  PROVE  folded_binary(op, a, b) = AnOption(DefinedByC(op, a, b))
<1> DEFINE S == DefinedByC(op, a, b)
<1>0. op \notin {"Add", "Subtract", "Multiply", "Divide", "Remainder"} /\ a \in Int /\ b \in Int
  BY IntsAre DEF Comparisons, Logical
<1>1. PICK p \in BOOLEAN : p <=> Holds(op, a, b)
  OBVIOUS
<1>2. \A v : v \in S <=> v \in Ints /\ v = IF p THEN 1 ELSE 0
  BY <1>0, <1>1 DEF DefinedByC
<1>3. folded_binary(op, a, b) = from(p)
  <2>1. CASE op \in Comparisons
    BY <1>0, <1>1, <2>1 DEF folded_binary, Holds, Comparisons
  <2>2. CASE op \in Logical
    BY <1>0, <1>1, <2>2 DEF folded_binary, Holds, Logical
  <2> QED
    BY <2>1, <2>2
<1> HIDE DEF S
<1>4. from(p) = AnOption(S)
  BY <1>2, FromIsAnOption
<1> QED
  BY <1>3, <1>4 DEF S

LEMMA UnaryFolds ==
  ASSUME NEW a \in Ints
  PROVE  /\ folded_unary("Negate", a) = AnOption({v \in Ints : v + a = 0})
         /\ folded_unary("Not", a) = folded_binary("Equal", a, 0)
<1>1. folded_unary("Negate", a) = checked(-a)
  BY DEF folded_unary
<1>2. \A v : v \in {w \in Ints : w + a = 0} <=> v \in Ints /\ v = -a
  BY IntsAre
<1>3. checked(-a) = AnOption({v \in Ints : v + a = 0})
  BY <1>2, CheckedIsAnOption
<1>4. folded_unary("Not", a) = from(a = 0) /\ folded_binary("Equal", a, 0) = from(a = 0)
  BY DEF folded_unary, folded_binary
<1> QED
  BY <1>1, <1>3, <1>4

(* Whatever the width of an int, a constant expression of a global folds   *)
(* to what C defines, and to nothing where C defines nothing               *)
(* (constant_value in src/sema/mod.rs): its remainder needs a quotient an  *)
(* int holds, its quotient goes towards zero, and no sum wraps around.     *)
THEOREM ConstantsFold == Spec => []FoldsAsCDoes
<1>1. ASSUME Inv
      PROVE  FoldsAsCDoes
  <2> SUFFICES ASSUME phase = "expression", Len(typed) = 2,
                      \A i \in 1 .. 2 : typed[i].value # <<>>
               PROVE  LET a == typed[1].value[1]
                          b == typed[2].value[1]
                      IN  /\ \A op \in BinaryOperators : folded_binary(op, a, b) = AnOption(DefinedByC(op, a, b))
                          /\ folded_unary("Negate", a) = AnOption({v \in Ints : v + a = 0})
                          /\ folded_unary("Not", a) = folded_binary("Equal", a, 0)
    BY DEF FoldsAsCDoes
  <2>1. ASSUME NEW i \in 1 .. 2
        PROVE  typed[i].value[1] \in Ints
    <3>1. i \in 1 .. Len(typed) /\ typed[i].value # <<>>
      OBVIOUS
    <3>2. Accurate(typed[i])
      BY <1>1, <3>1, StackItem
    <3> QED
      BY <3>1, <3>2, ValueIs
  <2>2. PICK a \in Ints, b \in Ints : a = typed[1].value[1] /\ b = typed[2].value[1]
    BY <2>1
  <2>3. ASSUME NEW op \in BinaryOperators
        PROVE  folded_binary(op, a, b) = AnOption(DefinedByC(op, a, b))
    <3>1. op \in {"Add", "Subtract", "Multiply"} \/ op = "Divide" \/ op = "Remainder" \/ op \in Comparisons \cup Logical
      BY DEF BinaryOperators
    <3> QED
      BY <3>1, SumsFold, DivideFolds, RemainderFolds, TestsFold
  <2> QED
    BY <2>2, <2>3, UnaryFolds
<1> QED
  BY <1>1, ReportsAreOfWhatIsWrong, PTL

-----------------------------------------------------------------------------
(* The order of what is handed on.                                         *)

(* `t` holds the reports of `s`, the i-th the turns[i]-th of them, in      *)
(* order of place and then of turn.                                        *)
InOrder(t, turns) ==
  \A i, j \in DOMAIN t : i < j =>
    \/ Precedes(t[i].span, t[j].span)
    \/ t[i].span = t[j].span /\ turns[i] < turns[j]
Turns(s, t, k, turns) ==
  /\ turns \in [1 .. k -> 1 .. k]
  /\ \A i, j \in 1 .. k : turns[i] = turns[j] => i = j
  /\ \A i \in 1 .. k : t[i] = s[turns[i]]

LEMMA Bounds ==
  ASSUME NEW m \in Nat, NEW B, B \subseteq 1 .. m,
         \A i, j \in 1 .. m : i < j /\ j \in B => i \in B
  PROVE  B = 1 .. Cardinality(B) /\ Cardinality(B) \in 0 .. m
<1>1. CASE B = {}
  <2>1. Cardinality(B) = 0
    BY <1>1, FS_EmptySet
  <2> QED
    BY <1>1, <2>1
<1>2. CASE B # {}
  <2>1. PICK k \in B : \A i \in B : i <= k
    BY <1>2, HasGreatest
  <2>2. k \in 1 .. m /\ B = 1 .. k
    <3>1. k \in 1 .. m
      OBVIOUS
    <3>2. \A i \in 1 .. k : i \in B
      <4>1. \A i \in 1 .. k : i \in 1 .. m /\ (i = k \/ i < k)
        BY <3>1
      <4> QED
        BY <3>1, <4>1
    <3>3. \A i \in B : i \in 1 .. k
      <4>1. \A i \in B : i \in 1 .. m /\ i <= k
        BY <2>1
      <4> QED
        BY <3>1, <4>1
    <3> QED
      BY <3>1, <3>2, <3>3
  <2>3. Cardinality(1 .. k) = k
    <3>1. 1 \in Int /\ k \in Int /\ (IF 1 > k THEN 0 ELSE k - 1 + 1) = k
      BY <2>2
    <3> QED
      BY <3>1, FS_Interval
  <2> QED
    BY <2>2, <2>3
<1> QED
  BY <1>1, <1>2

LEMMA SpansOrdered ==
  ASSUME NEW a \in Spans, NEW b \in Spans
  PROVE  /\ Precedes(a, b) \/ a = b \/ Precedes(b, a)
         /\ ~(Precedes(a, b) /\ Precedes(b, a)) /\ ~Precedes(a, a)
         /\ \A c \in Spans : Precedes(a, b) /\ Precedes(b, c) => Precedes(a, c)
<1>1. a.start = b.start /\ a.end = b.end => a = b
  BY DEF Spans
<1>2. \A c \in Spans : c.start \in Int /\ c.end \in Int
  BY DEF Spans
<1> QED
  BY <1>1, <1>2 DEF Precedes

(* One report more. *)
LEMMA InsertedInOrder ==
  ASSUME NEW bag \in Seq(Reports), NEW k \in Nat, k + 1 <= Len(bag),
         NEW t \in Seq(Reports), Len(t) = k, NEW turns, Turns(bag, t, k, turns), InOrder(t, turns)
  PROVE  LET u == Inserted(t, bag[k + 1])
         IN  \E new : Turns(bag, u, k + 1, new) /\ InOrder(u, new)
<1> DEFINE d == bag[k + 1]
           u == Inserted(t, d)
           B == Behinds(t, d)
<1>r. \A x \in Reports : x.span \in Spans
  <2>1. \A A, C, x : x \in [span : A, message : C] => x.span \in A
    OBVIOUS
  <2> QED
    BY <2>1, Zenon DEF Reports
<1>0. d \in Reports /\ d.span \in Spans
  <2>1. k + 1 \in 1 .. Len(bag)
    OBVIOUS
  <2>2. d \in Reports
    BY <2>1
  <2> QED
    BY <1>r, <2>2
<1>s. ASSUME NEW i \in 1 .. k
      PROVE  t[i] \in Reports /\ t[i].span \in Spans
  <2>1. t[i] \in Reports
    OBVIOUS
  <2> QED
    BY <1>r, <2>1
<1>1. PICK n \in 0 .. k :
        /\ n = Cardinality(B)
        /\ u \in Seq(Reports) /\ Len(u) = k + 1
        /\ \A i \in 1 .. n : u[i] = t[i]
        /\ u[n + 1] = d
        /\ \A i \in n + 1 .. k : u[i + 1] = t[i]
  <2> HIDE DEF d, u, B
  <2>1. PICK n \in 0 .. Len(t) : IsInserted(u, Reports, t, d, n)
    BY <1>0, InsertedIs DEF u
  <2> QED
    BY <2>1 DEF B, IsInserted
<1> DEFINE new == [i \in 1 .. k + 1 |-> IF i <= n THEN turns[i] ELSE IF i = n + 1 THEN k + 1 ELSE turns[i - 1]]
<1>d. DOMAIN t = 1 .. k /\ DOMAIN u = 1 .. k + 1
  BY <1>1
<1>2. \A i \in 1 .. k : i <= n <=> ~Precedes(d.span, t[i].span)
  <2>1. \A i : i \in B <=> i \in 1 .. k /\ ~Precedes(d.span, t[i].span)
    BY <1>d DEF Behinds
  <2>2. ASSUME NEW i \in 1 .. k, NEW j \in 1 .. k, i < j, j \in B
        PROVE  i \in B
    <3>1. Precedes(t[i].span, t[j].span) \/ t[i].span = t[j].span
      BY <1>d, <2>2 DEF InOrder
    <3>2. ~Precedes(d.span, t[j].span)
      BY <2>1, <2>2
    <3>3. t[i].span \in Spans /\ t[j].span \in Spans
      BY <1>s
    <3>4. ~Precedes(d.span, t[i].span)
      BY <1>0, <3>1, <3>2, <3>3, SpansOrdered
    <3> QED
      BY <2>1, <3>4
  <2>3. B \subseteq 1 .. k
    BY <2>1
  <2> HIDE DEF B
  <2>4. B = 1 .. n
    BY <1>1, <2>2, <2>3, Bounds
  <2> QED
    BY <2>1, <2>4
<1>3. /\ turns \in [1 .. k -> 1 .. k]
      /\ \A i, j \in 1 .. k : turns[i] = turns[j] => i = j
      /\ \A i \in 1 .. k : t[i] = bag[turns[i]]
  BY DEF Turns
<1> HIDE DEF d, u, B
<1>4. ASSUME NEW i \in 1 .. k + 1
      PROVE  \/ i <= n /\ i \in 1 .. k /\ new[i] = turns[i] /\ u[i] = t[i]
             \/ i = n + 1 /\ new[i] = k + 1 /\ u[i] = d
             \/ i > n + 1 /\ i - 1 \in 1 .. k /\ new[i] = turns[i - 1] /\ u[i] = t[i - 1]
  <2>1. CASE i <= n
    BY <1>1, <2>1
  <2>2. CASE i = n + 1
    BY <1>1, <2>2
  <2>3. CASE i > n + 1
    <3>1. i - 1 \in n + 1 .. k /\ (i - 1) + 1 = i /\ i - 1 \in 1 .. k
      BY <2>3
    <3>2. u[(i - 1) + 1] = t[i - 1]
      BY <1>1, <3>1
    <3>3. new[i] = turns[i - 1]
      BY <2>3
    <3> QED
      BY <2>3, <3>1, <3>2, <3>3
  <2> QED
    BY <2>1, <2>2, <2>3
<1>5. new \in [1 .. k + 1 -> 1 .. k + 1]
  <2>1. \A i \in 1 .. k + 1 : new[i] \in 1 .. k + 1
    BY <1>3, <1>4
  <2>2. new = [i \in 1 .. k + 1 |-> new[i]]
    OBVIOUS
  <2> HIDE DEF new
  <2> QED
    BY <2>1, <2>2
<1> HIDE DEF new
<1>6. \A i, j \in 1 .. k + 1 : new[i] = new[j] => i = j
  <2> SUFFICES ASSUME NEW i \in 1 .. k + 1, NEW j \in 1 .. k + 1, new[i] = new[j]
               PROVE  i = j
    OBVIOUS
  <2>1. \A a \in 1 .. k : turns[a] \in 1 .. k
    BY <1>3
  <2>2. CASE i = n + 1
    <3>1. new[j] = k + 1
      BY <1>4, <2>2
    <3>2. \A a \in 1 .. k : turns[a] # k + 1
      BY <2>1
    <3> QED
      BY <1>4, <2>2, <3>1, <3>2
  <2>3. CASE i # n + 1
    <3>1. new[i] # k + 1
      BY <1>4, <2>1, <2>3
    <3>2. j # n + 1
      BY <1>4, <3>1
    <3>3. PICK a \in 1 .. k : new[i] = turns[a] /\ a = IF i <= n THEN i ELSE i - 1
      BY <1>4, <2>3
    <3>4. PICK b \in 1 .. k : new[j] = turns[b] /\ b = IF j <= n THEN j ELSE j - 1
      BY <1>4, <3>2
    <3>5. a = b
      <4>1. turns[a] = turns[b]
        BY <3>3, <3>4
      <4> QED
        BY <1>3, <4>1
    <3> QED
      BY <2>3, <3>2, <3>3, <3>4, <3>5
  <2> QED
    BY <2>2, <2>3
<1>7. \A i \in 1 .. k + 1 : u[i] = bag[new[i]]
  <2> SUFFICES ASSUME NEW i \in 1 .. k + 1
               PROVE  u[i] = bag[new[i]]
    OBVIOUS
  <2>1. CASE i <= n /\ i \in 1 .. k /\ new[i] = turns[i] /\ u[i] = t[i]
    BY <1>3, <2>1
  <2>2. CASE i = n + 1 /\ new[i] = k + 1 /\ u[i] = d
    BY <2>2 DEF d
  <2>3. CASE i > n + 1 /\ i - 1 \in 1 .. k /\ new[i] = turns[i - 1] /\ u[i] = t[i - 1]
    BY <1>3, <2>3
  <2> QED
    BY <1>4, <2>1, <2>2, <2>3
<1>8. InOrder(u, new)
  <2> SUFFICES ASSUME NEW i \in 1 .. k + 1, NEW j \in 1 .. k + 1, i < j
               PROVE  \/ Precedes(u[i].span, u[j].span)
                      \/ u[i].span = u[j].span /\ new[i] < new[j]
    BY <1>d DEF InOrder
  <2>1. ASSUME NEW a \in 1 .. k, NEW b \in 1 .. k, a < b
        PROVE  \/ Precedes(t[a].span, t[b].span)
               \/ t[a].span = t[b].span /\ turns[a] < turns[b]
    BY <1>d, <2>1 DEF InOrder
  <2>2. \/ i <= n /\ i \in 1 .. k /\ new[i] = turns[i] /\ u[i] = t[i]
        \/ i = n + 1 /\ new[i] = k + 1 /\ u[i] = d
        \/ i > n + 1 /\ i - 1 \in 1 .. k /\ new[i] = turns[i - 1] /\ u[i] = t[i - 1]
    BY <1>4
  <2>3. \/ j <= n /\ j \in 1 .. k /\ new[j] = turns[j] /\ u[j] = t[j]
        \/ j = n + 1 /\ new[j] = k + 1 /\ u[j] = d
        \/ j > n + 1 /\ j - 1 \in 1 .. k /\ new[j] = turns[j - 1] /\ u[j] = t[j - 1]
    BY <1>4
  <2>4. CASE j = n + 1
    <3>1. i <= n /\ i \in 1 .. k /\ new[i] = turns[i] /\ u[i] = t[i] /\ new[j] = k + 1 /\ u[j] = d
      BY <2>2, <2>3, <2>4
    <3>2. ~Precedes(d.span, t[i].span)
      BY <1>2, <3>1
    <3>3. Precedes(t[i].span, d.span) \/ t[i].span = d.span
      BY <1>0, <1>s, <3>1, <3>2, SpansOrdered
    <3>4. turns[i] < k + 1
      BY <1>3, <3>1
    <3> QED
      BY <3>1, <3>3, <3>4
  <2>5. CASE i = n + 1
    <3>1. j - 1 \in 1 .. k /\ u[j] = t[j - 1] /\ u[i] = d /\ ~(j - 1 <= n)
      BY <2>2, <2>3, <2>5
    <3>2. Precedes(d.span, t[j - 1].span)
      BY <1>2, <3>1
    <3> QED
      BY <3>1, <3>2
  <2>6. CASE i # n + 1 /\ j # n + 1
    <3>1. PICK a \in 1 .. k, b \in 1 .. k :
            a < b /\ new[i] = turns[a] /\ u[i] = t[a] /\ new[j] = turns[b] /\ u[j] = t[b]
      BY <2>2, <2>3, <2>6
    <3> QED
      BY <2>1, <3>1
  <2> QED
    BY <2>4, <2>5, <2>6
<1> QED
  BY <1>5, <1>6, <1>7, <1>8 DEF Turns, u, d

LEMMA SortedInOrder ==
  ASSUME NEW bag \in Seq(Reports)
  PROVE  \E turns \in Injection(DOMAIN bag, DOMAIN bag) :
           /\ into_sorted(bag) = [i \in DOMAIN bag |-> bag[turns[i]]]
           /\ InOrder(into_sorted(bag), turns)
<1>1. PICK g : /\ g[0] = <<>>
               /\ \A k \in 1 .. Len(bag) : g[k] = Inserted(g[k - 1], bag[k])
               /\ into_sorted(bag) = g[Len(bag)]
  BY InsertsInTurn
<1> DEFINE n == Len(bag)
           Whole(k) == g[k] \in Seq(Reports) /\ Len(g[k]) = k
                       /\ \E turns : Turns(bag, g[k], k, turns) /\ InOrder(g[k], turns)
           Good == {k \in Nat : k <= n => Whole(k)}
<1>2. n \in Nat
  OBVIOUS
<1>3. Whole(0)
  <2> DEFINE none == [i \in 1 .. 0 |-> 1]
  <2>1. g[0] \in Seq(Reports) /\ Len(g[0]) = 0 /\ DOMAIN g[0] = {}
    BY <1>1
  <2>2. none \in [1 .. 0 -> 1 .. 0] /\ \A i : i \notin 1 .. 0
    OBVIOUS
  <2> HIDE DEF none
  <2>3. Turns(bag, g[0], 0, none)
    BY <2>2 DEF Turns
  <2>4. InOrder(g[0], none)
    BY <2>1 DEF InOrder
  <2> QED
    BY <2>1, <2>3, <2>4
<1>4. ASSUME NEW k \in Nat, k + 1 <= n, Whole(k)
      PROVE  Whole(k + 1)
  <2>1. PICK turns : Turns(bag, g[k], k, turns) /\ InOrder(g[k], turns)
    BY <1>4
  <2>2. g[k + 1] = Inserted(g[k], bag[k + 1])
    <3>1. k + 1 \in 1 .. Len(bag) /\ (k + 1) - 1 = k
      BY <1>4
    <3> QED
      BY <1>1, <3>1
  <2>3. bag[k + 1] \in Reports
    BY <1>4
  <2> DEFINE t == g[k]
             u == Inserted(t, bag[k + 1])
  <2>4. t \in Seq(Reports) /\ Len(t) = k /\ Turns(bag, t, k, turns) /\ InOrder(t, turns)
    BY <1>4, <2>1
  <2> HIDE DEF t
  <2>5. u \in Seq(Reports) /\ Len(u) = k + 1
    BY <2>3, <2>4, InsertedWhole
  <2>6. PICK new : Turns(bag, u, k + 1, new) /\ InOrder(u, new)
    BY <1>4, <2>4, InsertedInOrder
  <2>7. g[k + 1] = u
    BY <2>2 DEF t
  <2> HIDE DEF u
  <2> QED
    BY <2>5, <2>6, <2>7
<1>5. 0 \in Good
  BY <1>3
<1>6. \A k \in Nat : k \in Good => k + 1 \in Good
  <2> SUFFICES ASSUME NEW k \in Nat, k \in Good, k + 1 <= n
               PROVE  Whole(k + 1)
    BY DEF Good
  <2> HIDE DEF Whole
  <2>1. k <= n
    BY <1>2
  <2>2. Whole(k)
    BY <2>1 DEF Good
  <2> QED
    BY <1>4, <2>2
<1> HIDE DEF Good
<1>7. n \in Good
  BY <1>2, <1>5, <1>6, FromZero
<1>8. Whole(n)
  BY <1>2, <1>7 DEF Good
<1>9. PICK turns : Turns(bag, g[n], n, turns) /\ InOrder(g[n], turns)
  BY <1>8
<1>10. DOMAIN bag = 1 .. n /\ g[n] \in Seq(Reports) /\ Len(g[n]) = n
  BY <1>8
<1>11. into_sorted(bag) = g[n]
  BY <1>1
<1> HIDE DEF n
<1>12. turns \in Injection(DOMAIN bag, DOMAIN bag)
  BY <1>9, <1>10 DEF Turns, Injection, IsInjective
<1>13. g[n] = [i \in DOMAIN bag |-> bag[turns[i]]]
  <2>1. g[n] = [i \in 1 .. n |-> g[n][i]]
    BY <1>10
  <2>2. \A i \in 1 .. n : g[n][i] = bag[turns[i]]
    BY <1>9 DEF Turns
  <2> QED
    BY <1>10, <2>1, <2>2
<1> QED
  BY <1>9, <1>11, <1>12, <1>13

(* What has been handed on is the sorted bag. *)
HandedOn == phase = "finished" => analysis = into_sorted(diagnostics)

LEMMA HandsOn == Spec => []HandedOn
<1>1. Init => HandedOn
  BY DEF Init, HandedOn
<1>2. ASSUME HandedOn, [Next]_vars
      PROVE  HandedOn'
  <2>1. CASE UNCHANGED vars
    BY <1>2, <2>1 DEF vars, HandedOn
  <2>2. CASE finish
    BY <2>2 DEF finish, HandedOn
  <2>3. CASE Expression
    <3>1. phase' = phase /\ phase = "expression"
      BY <2>3, Zenon DEF Expression, literal, assign, index, postfix, resolve, unary, binary, call, Leaf, Make
    <3> QED
      BY <3>1 DEF HandedOn
  <2>4. CASE declaration
    BY <2>4 DEF declaration, HandedOn
  <2>5. CASE full_expression \/ condition \/ return_value \/ return_nothing
    <3>1. phase' = "walked"
      BY <2>5, Zenon DEF full_expression, condition, return_value, return_nothing, Finished
    <3> QED
      BY <3>1 DEF HandedOn
  <2>6. CASE uninitialized \/ initializer_expression \/ initializer_list
    <3>1. phase' = "walked"
      BY <2>6, Zenon DEF uninitialized, initializer_expression, initializer_list, Ended
    <3> QED
      BY <3>1 DEF HandedOn
  <2> QED
    BY <1>2, <2>1, <2>2, <2>3, <2>4, <2>5, <2>6 DEF Next
<1> QED
  BY <1>1, <1>2, PTL DEF Spec

(* However many reports the walk made, in whatever order, what is handed   *)
(* on holds each of them once, by place, and those about one place in the  *)
(* order they were made (DiagnosticBag::into_sorted in                     *)
(* src/diagnostics.rs, at the end of the analysis).                        *)
THEOREM ReportsInOrder == Spec => []ReportsInSourceOrder
<1>1. ASSUME Inv, HandedOn
      PROVE  ReportsInSourceOrder
  <2> SUFFICES ASSUME phase = "finished"
               PROVE  \E turns \in Injection(DOMAIN diagnostics, DOMAIN diagnostics) :
                        /\ analysis = [i \in DOMAIN diagnostics |-> diagnostics[turns[i]]]
                        /\ \A i, j \in DOMAIN analysis : i < j =>
                             \/ Precedes(analysis[i].span, analysis[j].span)
                             \/ analysis[i].span = analysis[j].span /\ turns[i] < turns[j]
    BY DEF ReportsInSourceOrder
  <2>1. diagnostics \in Seq(Reports) /\ analysis = into_sorted(diagnostics)
    BY <1>1 DEF Inv, TypeInvariant, HandedOn
  <2>2. PICK turns \in Injection(DOMAIN diagnostics, DOMAIN diagnostics) :
           /\ into_sorted(diagnostics) = [i \in DOMAIN diagnostics |-> diagnostics[turns[i]]]
           /\ InOrder(into_sorted(diagnostics), turns)
    BY <2>1, SortedInOrder
  <2>3. analysis = [i \in DOMAIN diagnostics |-> diagnostics[turns[i]]] /\ InOrder(analysis, turns)
    BY <2>1, <2>2, Zenon
  <2> QED
    BY <2>3, Zenon DEF InOrder
<1> QED
  BY <1>1, ReportsAreOfWhatIsWrong, HandsOn, PTL

=============================================================================
