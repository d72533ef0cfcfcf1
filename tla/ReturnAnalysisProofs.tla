------------------------ MODULE ReturnAnalysisProofs ------------------------
(***************************************************************************)
(* Proofs about ReturnAnalysis, for every set of statements, every body of *)
(* them and every limit: a break or a continue finds a loop, and a body    *)
(* that stays within half the limit does not run off its closing brace.    *)
(*                                                                         *)
(* The first part shows that the recursive functions of the model exist    *)
(* and what they are; they recurse from a depth to the next, up to the     *)
(* limit, so nothing is assumed of how the statements are nested.          *)
(***************************************************************************)
EXTENDS ReturnAnalysis, SequenceTheorems, WellFoundedInduction, TLAPS

(* A nonempty set of numbers has a least member. *)
LEMMA HasLeast ==
  ASSUME NEW S, S \subseteq Nat, S # {}
  PROVE  \E i \in S : \A j \in S : i <= j
<1>1. PICK i \in S : \A j \in S : <<j, i>> \notin OpToRel(<, Nat)
  BY WFMin, NatLessThanWellFounded
<1>2. \A j \in S : ~(j < i)
  BY <1>1 DEF OpToRel
<1>3. \A j \in S : i <= j
  BY <1>2
<1> QED
  BY <1>3

(* Recursion from a depth to the next ones, which ends at a limit: what     *)
(* holds from the limit on, and of a depth whenever it holds of the two    *)
(* below it, holds of every depth.                                         *)
LEMMA FromTheLimit ==
  ASSUME NEW M \in Nat, NEW Holds,
         \A d \in Nat : d >= M => d \in Holds,
         \A d \in Nat : d + 1 \in Holds /\ d + 2 \in Holds => d \in Holds
  PROVE  \A d \in Nat : d \in Holds
<1> DEFINE Bad == {d \in Nat : d \notin Holds}
           Above == {M - d : d \in Bad}
<1> SUFFICES ASSUME Bad # {}
             PROVE  FALSE
  OBVIOUS
<1>1. \A d \in Bad : d \in Nat /\ d < M
  OBVIOUS
<1>2. Above \subseteq Nat /\ Above # {}
  <2> HIDE DEF Bad
  <2> QED
    BY <1>1
<1>3. \E x \in Above : \A y \in Above : x <= y
  <2> HIDE DEF Above
  <2> QED
    BY <1>2, HasLeast
<1>4. PICK d \in Bad : \A y \in Above : M - d <= y
  <2> HIDE DEF Bad
  <2> QED
    BY <1>3
<1>5. \A e \in Bad : M - d <= M - e
  <2> HIDE DEF Bad
  <2> QED
    BY <1>4
<1>6. d + 1 \notin Bad /\ d + 2 \notin Bad
  <2> HIDE DEF Bad
  <2>1. d \in Nat
    BY <1>1
  <2> QED
    BY <1>5, <2>1
<1> QED
  BY <1>6

(* A function defined by such a recursion exists. *)
Descends(g, M, last, step) ==
    \A d \in Nat : g[d] = IF d >= M THEN last ELSE step[d][<<g[d + 1], g[d + 2]>>]

LEMMA CountsDown ==
  ASSUME NEW V, NEW M \in Nat, NEW last \in V, NEW step \in [Nat -> [V \X V -> V]]
  PROVE  \E g \in [Nat -> V] : Descends(g, M, last, step)
<1> DEFINE Right(g, d) == g[d] = IF d >= M THEN last ELSE step[d][<<g[d + 1], g[d + 2]>>]
           From(g, m) == \A d \in Nat : d >= m => Right(g, d)
           Reached == {m \in Nat : \E g \in [Nat -> V] : From(g, m)}
<1>1. \A d \in Nat : d >= M => d \in Reached
  <2> SUFFICES ASSUME NEW m \in Nat, m >= M
               PROVE  \E g \in [Nat -> V] : From(g, m)
    OBVIOUS
  <2> DEFINE g == [d \in Nat |-> last]
  <2>1. g \in [Nat -> V]
    OBVIOUS
  <2>2. From(g, m)
    OBVIOUS
  <2> QED
    BY <2>1, <2>2
<1>2. \A d \in Nat : d + 1 \in Reached => d \in Reached
  <2> SUFFICES ASSUME NEW k \in Nat, k + 1 \in Reached
               PROVE  \E h \in [Nat -> V] : From(h, k)
    OBVIOUS
  <2>1. PICK g \in [Nat -> V] : From(g, k + 1)
    OBVIOUS
  <2> DEFINE new == IF k >= M THEN last ELSE step[k][<<g[k + 1], g[k + 2]>>]
             h == [d \in Nat |-> IF d = k THEN new ELSE g[d]]
  <2>2. new \in V
    <3>1. g[k + 1] \in V /\ g[k + 2] \in V
      OBVIOUS
    <3>2. <<g[k + 1], g[k + 2]>> \in V \X V /\ step[k] \in [V \X V -> V]
      BY <3>1
    <3> QED
      BY <3>2
  <2>3. h \in [Nat -> V]
    <3> HIDE DEF new
    <3> QED
      BY <2>2
  <2>4. ASSUME NEW d \in Nat, d >= k
        PROVE  Right(h, d)
    <3>1. h[d + 1] = g[d + 1] /\ h[d + 2] = g[d + 2]
      <4> HIDE DEF new
      <4> QED
        BY <2>4
    <3>2. CASE d = k
      <4>1. h[d] = new
        <5> HIDE DEF new
        <5> QED
          BY <3>2
      <4> HIDE DEF h
      <4> QED
        BY <3>1, <3>2, <4>1
    <3>3. CASE d # k
      <4>1. h[d] = g[d]
        <5> HIDE DEF new
        <5> QED
          BY <3>3
      <4>2. d >= k + 1
        BY <2>4, <3>3
      <4>3. Right(g, d)
        BY <2>1, <4>2
      <4> HIDE DEF h
      <4> QED
        BY <3>1, <4>1, <4>3
    <3> QED
      BY <3>2, <3>3
  <2> HIDE DEF h, Right
  <2> QED
    BY <2>3, <2>4
<1>3. 0 \in Reached
  <2> HIDE DEF Reached
  <2>1. \A d \in Nat : d + 1 \in Reached /\ d + 2 \in Reached => d \in Reached
    BY <1>2
  <2>2. \A d \in Nat : d \in Reached
    BY <1>1, <2>1, FromTheLimit
  <2> QED
    BY <2>2
<1> QED
  BY <1>3 DEF Descends

(* Walks. *)

Grows(walk, later) ==
    /\ later \in Walks
    /\ later.loop_depth = walk.loop_depth
    /\ walk.reports \subseteq later.reports

LEMMA GrowsTransitive ==
  ASSUME NEW a \in Walks, NEW b, NEW c, Grows(a, b), Grows(b, c)
  PROVE  Grows(a, c)
BY DEF Grows

LEMMA ReportGrows ==
  ASSUME NEW walk \in Walks, NEW message \in Messages
  PROVE  /\ Grows(walk, Report(walk, message))
         /\ message \in Report(walk, message).reports
BY DEF Grows, Report, Walks

(* The statements of a sequence, walked in turn. *)

Walking(walked, depth) == \A stmt \in Statements : walked[stmt][depth] \in [Walks -> Walks]

TurnsOf(walked, depth, walk, stmts, after) ==
    after = [i \in 0 .. Len(stmts) |->
                IF i = 0 THEN walk ELSE walked[stmts[i]][depth][after[i - 1]]]

LEMMA TurnsExist ==
  ASSUME NEW walked, NEW depth, NEW walk \in Walks, NEW stmts \in Seq(Statements),
         Walking(walked, depth)
  PROVE  \E after : TurnsOf(walked, depth, walk, stmts, after)
<1> DEFINE n == Len(stmts)
           back == [d \in Nat |-> IF d < n THEN n - d ELSE n]
           go(d) == [pair \in Walks \X Walks |->
                        IF d < n THEN walked[stmts[n - d]][depth][pair[1]] ELSE walk]
           step == [d \in Nat |-> go(d)]
<1>0. n \in Nat
  OBVIOUS
<1>1. \A i \in 1 .. n : walked[stmts[i]][depth] \in [Walks -> Walks]
  BY DEF Walking
<1>2. \A d \in Nat : go(d) \in [Walks \X Walks -> Walks]
  <2> SUFFICES ASSUME NEW d \in Nat, NEW pair \in Walks \X Walks
               PROVE  (IF d < n THEN walked[stmts[n - d]][depth][pair[1]] ELSE walk) \in Walks
    OBVIOUS
  <2>1. CASE d < n
    <3>1. n - d \in 1 .. n
      BY <1>0, <2>1
    <3>2. walked[stmts[n - d]][depth] \in [Walks -> Walks]
      BY <1>1, <3>1
    <3> QED
      BY <2>1, <3>2
  <2> QED
    BY <2>1
<1>3. step \in [Nat -> [Walks \X Walks -> Walks]]
  <2> HIDE DEF go
  <2> QED
    BY <1>2
<1>4. PICK g \in [Nat -> Walks] : Descends(g, n, walk, step)
  <2> HIDE DEF step, n
  <2> QED
    BY <1>0, <1>3, CountsDown, Zenon
<1> DEFINE after == [i \in 0 .. n |-> g[n - i]]
<1>5. ASSUME NEW i \in 0 .. n
      PROVE  after[i] = IF i = 0 THEN walk ELSE walked[stmts[i]][depth][after[i - 1]]
  <2>1. after[i] = g[n - i] /\ n - i \in Nat
    BY <1>0
  <2>2. CASE i = 0
    <3>1. g[n] = walk
      <4>1. n >= n
        BY <1>0
      <4> HIDE DEF step, n
      <4> QED
        BY <1>0, <1>4, <4>1 DEF Descends
    <3> QED
      BY <1>0, <2>1, <2>2, <3>1
  <2>3. CASE i # 0
    <3> DEFINE d == n - i
    <3>1. d \in Nat /\ d < n /\ n - d = i /\ d + 1 = n - (i - 1) /\ i - 1 \in 0 .. n
      BY <1>0, <2>3
    <3>2. after[i - 1] = g[d + 1]
      BY <3>1
    <3>3. g[d] = step[d][<<g[d + 1], g[d + 2]>>]
      <4> HIDE DEF step, d, n
      <4> QED
        BY <1>0, <1>4, <3>1 DEF Descends
    <3>4. <<g[d + 1], g[d + 2]>> \in Walks \X Walks
      <4>1. d + 1 \in Nat /\ d + 2 \in Nat
        BY <3>1
      <4> QED
        BY <4>1
    <3>5. step[d] = go(d)
      <4> HIDE DEF go, d
      <4> QED
        BY <3>1
    <3>6. go(d)[<<g[d + 1], g[d + 2]>>] = walked[stmts[n - d]][depth][g[d + 1]]
      <4> HIDE DEF d, n
      <4> QED
        BY <3>1, <3>4
    <3>7. g[d] = walked[stmts[i]][depth][g[d + 1]]
      <4> HIDE DEF step, go, d, n
      <4> QED
        BY <3>1, <3>3, <3>5, <3>6
    <3> HIDE DEF after
    <3> QED
      BY <2>1, <2>3, <3>2, <3>7
  <2> QED
    BY <2>2, <2>3
<1>6. after = [i \in 0 .. n |-> IF i = 0 THEN walk ELSE walked[stmts[i]][depth][after[i - 1]]]
  <2>1. after = [i \in 0 .. n |-> after[i]]
    OBVIOUS
  <2> HIDE DEF after
  <2> QED
    BY <1>5, <2>1
<1> QED
  BY <1>6 DEF TurnsOf

(* What the walk is after each statement. *)
LEMMA TurnsStep ==
  ASSUME NEW walked, NEW depth, NEW walk \in Walks, NEW stmts \in Seq(Statements),
         Walking(walked, depth), NEW after, TurnsOf(walked, depth, walk, stmts, after)
  PROVE  /\ after[0] = walk
         /\ \A i \in 1 .. Len(stmts) : after[i] = walked[stmts[i]][depth][after[i - 1]]
         /\ \A i \in 0 .. Len(stmts) : after[i] \in Walks
<1> DEFINE n == Len(stmts)
           next(i) == IF i = 0 THEN walk ELSE walked[stmts[i]][depth][after[i - 1]]
           Bad == {i \in 0 .. n : after[i] \notin Walks}
<1>0. n \in Nat
  OBVIOUS
<1>1. \A i \in 0 .. n : after[i] = next(i)
  <2>1. after = [i \in 0 .. n |-> next(i)]
    BY DEF TurnsOf
  <2> HIDE DEF next, n
  <2> QED
    BY <2>1
<1>2. after[0] = walk
  <2>1. 0 \in 0 .. n
    BY <1>0
  <2> QED
    BY <1>1, <2>1
<1>3. \A i \in 1 .. n : after[i] = walked[stmts[i]][depth][after[i - 1]]
  <2>1. \A i \in 1 .. n : i \in 0 .. n /\ i # 0
    BY <1>0
  <2> QED
    BY <1>1, <2>1
<1>4. Bad = {}
  <2> SUFFICES ASSUME Bad # {}
               PROVE  FALSE
    OBVIOUS
  <2>1. Bad \subseteq Nat
    BY <1>0
  <2>2. PICK i \in Bad : \A j \in Bad : i <= j
    <3> HIDE DEF Bad
    <3> QED
      BY <2>1, HasLeast
  <2>3. i \in 0 .. n /\ after[i] \notin Walks
    OBVIOUS
  <2>4. i # 0
    BY <1>2, <2>3
  <2>5. i \in 1 .. n /\ i - 1 \in 0 .. n /\ ~(i <= i - 1)
    BY <1>0, <2>3, <2>4
  <2>6. i - 1 \notin Bad
    <3> HIDE DEF Bad
    <3> QED
      BY <2>2, <2>5
  <2>7. after[i - 1] \in Walks
    BY <2>5, <2>6
  <2>8. stmts[i] \in Statements
    BY <2>5
  <2>9. walked[stmts[i]][depth] \in [Walks -> Walks]
    BY <2>8 DEF Walking
  <2>10. walked[stmts[i]][depth][after[i - 1]] \in Walks
    <3> DEFINE f == walked[stmts[i]][depth]
    <3>1. f \in [Walks -> Walks]
      BY <2>9
    <3> HIDE DEF f
    <3>2. f[after[i - 1]] \in Walks
      BY <2>7, <3>1
    <3> QED
      BY <3>2 DEF f
  <2> QED
    BY <1>3, <2>3, <2>5, <2>10
<1>5. \A i \in 0 .. n : after[i] \in Walks
  BY <1>4
<1> QED
  BY <1>2, <1>3, <1>5

LEMMA InTurnIs ==
  ASSUME NEW walked, NEW depth, NEW walk \in Walks, NEW stmts \in Seq(Statements),
         Walking(walked, depth)
  PROVE  \E after : /\ TurnsOf(walked, depth, walk, stmts, after)
                    /\ InTurn(walked, depth, walk, stmts) = after[Len(stmts)]
<1> DEFINE chosen == CHOOSE after : TurnsOf(walked, depth, walk, stmts, after)
<1>1. InTurn(walked, depth, walk, stmts) = chosen[Len(stmts)]
  BY DEF InTurn, TurnsOf
<1>2. TurnsOf(walked, depth, walk, stmts, chosen)
  BY TurnsExist
<1> QED
  BY <1>1, <1>2

(* Walking statements in turn uses nothing but how each of them is walked. *)
SameWalks(walked, depth, second, level) ==
    \A stmt \in Statements : walked[stmt][depth] = second[stmt][level]

LEMMA InTurnAgrees ==
  ASSUME NEW walked, NEW depth, NEW second, NEW level, NEW walk \in Walks,
         NEW stmts \in Seq(Statements), Walking(walked, depth), Walking(second, level),
         SameWalks(walked, depth, second, level)
  PROVE  InTurn(walked, depth, walk, stmts) = InTurn(second, level, walk, stmts)
<1>1. PICK a : /\ TurnsOf(walked, depth, walk, stmts, a)
               /\ InTurn(walked, depth, walk, stmts) = a[Len(stmts)]
  BY InTurnIs
<1>2. PICK b : /\ TurnsOf(second, level, walk, stmts, b)
               /\ InTurn(second, level, walk, stmts) = b[Len(stmts)]
  BY InTurnIs
<1>3. a[0] = walk /\ \A i \in 1 .. Len(stmts) : a[i] = walked[stmts[i]][depth][a[i - 1]]
  BY <1>1, TurnsStep
<1>4. b[0] = walk /\ \A i \in 1 .. Len(stmts) : b[i] = second[stmts[i]][level][b[i - 1]]
  BY <1>2, TurnsStep
<1> DEFINE Bad == {i \in 0 .. Len(stmts) : a[i] # b[i]}
<1>5. Bad = {}
  <2> SUFFICES ASSUME Bad # {}
               PROVE  FALSE
    OBVIOUS
  <2>1. Bad \subseteq Nat
    OBVIOUS
  <2>2. PICK i \in Bad : \A j \in Bad : i <= j
    <3> HIDE DEF Bad
    <3> QED
      BY <2>1, HasLeast
  <2>3. i \in 0 .. Len(stmts) /\ a[i] # b[i]
    OBVIOUS
  <2>4. i # 0
    BY <1>3, <1>4, <2>3
  <2>5. i \in 1 .. Len(stmts) /\ i - 1 \in 0 .. Len(stmts) /\ ~(i <= i - 1)
    BY <2>3, <2>4
  <2>6. i - 1 \notin Bad
    <3> HIDE DEF Bad
    <3> QED
      BY <2>2, <2>5
  <2>7. a[i - 1] = b[i - 1]
    BY <2>5, <2>6
  <2>8. walked[stmts[i]][depth] = second[stmts[i]][level]
    BY <2>5 DEF SameWalks
  <2>9. a[i] = walked[stmts[i]][depth][a[i - 1]] /\ b[i] = second[stmts[i]][level][b[i - 1]]
    BY <1>3, <1>4, <2>5
  <2> QED
    BY <2>3, <2>7, <2>8, <2>9
<1>6. Len(stmts) \in 0 .. Len(stmts)
  OBVIOUS
<1>7. a[Len(stmts)] = b[Len(stmts)]
  BY <1>5, <1>6
<1> QED
  BY <1>1, <1>2, <1>7

(* Walking statements in turn reports all that walking any of them does. *)
Growing(walked, depth) ==
    /\ Walking(walked, depth)
    /\ \A stmt \in Statements : \A walk \in Walks : Grows(walk, walked[stmt][depth][walk])

LEMMA InTurnGrows ==
  ASSUME NEW walked, NEW depth, NEW walk \in Walks, NEW stmts \in Seq(Statements),
         Growing(walked, depth)
  PROVE  /\ Grows(walk, InTurn(walked, depth, walk, stmts))
         /\ \A i \in 1 .. Len(stmts) : \E before \in Walks :
               /\ Grows(walk, before)
               /\ Grows(walked[stmts[i]][depth][before], InTurn(walked, depth, walk, stmts))
<1> DEFINE n == Len(stmts)
<1>0. n \in Nat /\ Walking(walked, depth)
  BY DEF Growing
<1>1. PICK after : /\ TurnsOf(walked, depth, walk, stmts, after)
                   /\ InTurn(walked, depth, walk, stmts) = after[Len(stmts)]
  BY <1>0, InTurnIs
<1>2. /\ after[0] = walk
      /\ \A i \in 1 .. n : after[i] = walked[stmts[i]][depth][after[i - 1]]
      /\ \A i \in 0 .. n : after[i] \in Walks
  BY <1>0, <1>1, TurnsStep
<1>3. \A i \in 1 .. n : Grows(after[i - 1], after[i])
  <2> SUFFICES ASSUME NEW i \in 1 .. n
               PROVE  Grows(after[i - 1], after[i])
    OBVIOUS
  <2>1. i - 1 \in 0 .. n /\ stmts[i] \in Statements
    BY <1>0
  <2>2. after[i - 1] \in Walks /\ after[i] = walked[stmts[i]][depth][after[i - 1]]
    BY <1>2, <2>1
  <2>3. Grows(after[i - 1], walked[stmts[i]][depth][after[i - 1]])
    BY <2>1, <2>2 DEF Growing
  <2> QED
    BY <2>2, <2>3
<1>4. \A i \in 0 .. n : Grows(walk, after[i])
  <2> DEFINE Bad == {i \in 0 .. n : ~Grows(walk, after[i])}
  <2> SUFFICES ASSUME Bad # {}
               PROVE  FALSE
    OBVIOUS
  <2>1. Bad \subseteq Nat
    BY <1>0
  <2>2. PICK i \in Bad : \A j \in Bad : i <= j
    <3> HIDE DEF Bad
    <3> QED
      BY <2>1, HasLeast
  <2>3. i \in 0 .. n /\ ~Grows(walk, after[i])
    OBVIOUS
  <2>4. i # 0
    <3>1. Grows(walk, after[0])
      BY <1>2 DEF Grows
    <3> QED
      BY <2>3, <3>1
  <2>5. i \in 1 .. n /\ i - 1 \in 0 .. n /\ ~(i <= i - 1)
    BY <1>0, <2>3, <2>4
  <2>6. i - 1 \notin Bad
    <3> HIDE DEF Bad
    <3> QED
      BY <2>2, <2>5
  <2>7. Grows(walk, after[i - 1]) /\ Grows(after[i - 1], after[i])
    BY <1>3, <2>5, <2>6
  <2>8. Grows(walk, after[i])
    BY <2>7 DEF Grows
  <2> QED
    BY <2>3, <2>8
<1>5. \A i \in 0 .. n : Grows(after[i], after[n])
  <2> DEFINE Holds == {d \in Nat : d \in 0 .. n => Grows(after[d], after[n])}
  <2>1. \A d \in Nat : d >= n => d \in Holds
    <3>1. Grows(after[n], after[n])
      <4>1. n \in 0 .. n
        BY <1>0
      <4> QED
        BY <1>2, <4>1 DEF Grows
    <3>2. \A d \in Nat : d >= n /\ d \in 0 .. n => d = n
      BY <1>0
    <3> QED
      BY <3>1, <3>2
  <2>2. \A d \in Nat : d + 1 \in Holds /\ d + 2 \in Holds => d \in Holds
    <3> SUFFICES ASSUME NEW d \in Nat, d + 1 \in Holds, d \in 0 .. n
                 PROVE  Grows(after[d], after[n])
      OBVIOUS
    <3>1. CASE d = n
      BY <2>1, <3>1, <1>0
    <3>2. CASE d # n
      <4>1. d + 1 \in 1 .. n /\ d + 1 \in 0 .. n /\ (d + 1) - 1 = d
        BY <1>0, <3>2
      <4>2. Grows(after[d + 1], after[n])
        BY <4>1
      <4>3. Grows(after[(d + 1) - 1], after[d + 1])
        BY <1>3, <4>1
      <4>4. Grows(after[d], after[d + 1])
        BY <4>1, <4>3
      <4> QED
        BY <4>2, <4>4 DEF Grows
    <3> QED
      BY <3>1, <3>2
  <2>3. \A d \in Nat : d \in Holds
    <3> HIDE DEF Holds
    <3> QED
      BY <1>0, <2>1, <2>2, FromTheLimit
  <2> QED
    BY <1>0, <2>3
<1>6. Grows(walk, after[n])
  <2>1. n \in 0 .. n
    BY <1>0
  <2> QED
    BY <1>4, <2>1
<1>7. ASSUME NEW i \in 1 .. n
      PROVE  \E before \in Walks :
                /\ Grows(walk, before)
                /\ Grows(walked[stmts[i]][depth][before], after[n])
  <2>1. i - 1 \in 0 .. n /\ i \in 0 .. n
    BY <1>0
  <2>2. after[i - 1] \in Walks /\ Grows(walk, after[i - 1]) /\ Grows(after[i], after[n])
    BY <1>2, <1>4, <1>5, <2>1
  <2>3. Grows(walked[stmts[i]][depth][after[i - 1]], after[n])
    BY <1>2, <2>2
  <2> QED
    BY <2>2, <2>3
<1> QED
  BY <1>1, <1>6, <1>7

(* What is known of a statement. *)
LEMMA StatementFacts ==
  ASSUME NEW stmt \in Statements
  PROVE  /\ stmt.parts \in Seq(Statements)
         /\ stmt.when \in {Always, Never, Maybe, Absent}
         /\ stmt.kind \in {"return", "break", "continue", "other", "block", "if", "while", "for"}
         /\ stmt.kind \in {"return", "break", "continue", "other"} => stmt.parts = <<>>
         /\ stmt.kind = "if" => Len(stmt.parts) \in {1, 2}
         /\ IsLoop(stmt) => Len(stmt.parts) = 1
         /\ \A i \in DOMAIN stmt.parts : stmt.parts[i] \in Statements
<1>1. /\ stmt.when \in {Always, Never, Maybe, Absent}
      /\ stmt.parts \in Seq(Statements)
      /\ \/ stmt.kind \in {"return", "break", "continue", "other"} /\ stmt.parts = <<>>
         \/ stmt.kind = "block"
         \/ stmt.kind = "if" /\ Len(stmt.parts) \in {1, 2}
         \/ IsLoop(stmt) /\ Len(stmt.parts) = 1
  BY StatementAssumption
<1>2. \A i \in DOMAIN stmt.parts : stmt.parts[i] \in Statements
  BY <1>1
<1>3. \/ stmt.kind \in {"return", "break", "continue", "other"} /\ stmt.parts = <<>>
      \/ stmt.kind = "block"
      \/ stmt.kind = "if" /\ Len(stmt.parts) \in {1, 2}
      \/ stmt.kind \in {"while", "for"} /\ Len(stmt.parts) = 1
  BY <1>1 DEF IsLoop
<1> DEFINE kind == stmt.kind
           count == Len(stmt.parts)
<1>4. /\ kind \in {"return", "break", "continue", "other", "block", "if", "while", "for"}
      /\ kind \in {"return", "break", "continue", "other"} => stmt.parts = <<>>
      /\ kind = "if" => count \in {1, 2}
      /\ kind \in {"while", "for"} => count = 1
  <2>1. \/ kind \in {"return", "break", "continue", "other"} /\ stmt.parts = <<>>
        \/ kind = "block"
        \/ kind = "if" /\ count \in {1, 2}
        \/ kind \in {"while", "for"} /\ count = 1
    BY <1>3
  <2> HIDE DEF kind, count
  <2> QED
    BY <2>1
<1> QED
  BY <1>1, <1>2, <1>4 DEF IsLoop

LEMMA LoopBody ==
  ASSUME NEW stmt \in Statements, IsLoop(stmt)
  PROVE  stmt.parts[1] \in Statements
BY StatementFacts

(* The walk of a statement that is not too deep, given the walk of those   *)
(* one level down.                                                         *)
Tested(depth, stmt, walk) == IF HasExpression(stmt) THEN expr(enter(depth), walk) ELSE walk

WalkStep(down, depth, stmt, walk) ==
    IF IsLoop(stmt)
      THEN OutOfLoop(down[stmt.parts[1]][enter(depth)][IntoLoop(Tested(depth, stmt, walk))])
    ELSE IF stmt.kind \in {"break", "continue"} THEN check_inside_a_loop(Tested(depth, stmt, walk))
    ELSE InTurn(down, enter(depth), Tested(depth, stmt, walk), stmt.parts)

WalkRule(f) ==
    f = [stmt \in Statements |-> [depth \in Nat |-> [walk \in Walks |->
           IF TooDeep(depth) THEN Report(walk, "too deep") ELSE WalkStep(f, depth, stmt, walk)]]]

LEMMA TestedGrows ==
  ASSUME NEW depth \in Nat, NEW stmt \in Statements, NEW walk \in Walks
  PROVE  Grows(walk, Tested(depth, stmt, walk))
<1>1. Grows(walk, walk)
  BY DEF Grows
<1>2. Grows(walk, Report(walk, "too deep"))
  BY ReportGrows DEF Messages
<1> QED
  BY <1>1, <1>2 DEF Tested, expr

LEMMA IntoAndOut ==
  ASSUME NEW walk \in Walks
  PROVE  /\ IntoLoop(walk) \in Walks
         /\ \A later : Grows(IntoLoop(walk), later) => Grows(walk, OutOfLoop(later))
BY DEF IntoLoop, OutOfLoop, Grows, Walks

LEMMA InsideGrows ==
  ASSUME NEW walk \in Walks
  PROVE  Grows(walk, check_inside_a_loop(walk))
<1>1. Grows(walk, walk)
  BY DEF Grows
<1>2. Grows(walk, Report(walk, "outside a loop"))
  BY ReportGrows DEF Messages
<1> QED
  BY <1>1, <1>2 DEF check_inside_a_loop

LEMMA WalkStepGrows ==
  ASSUME NEW down, NEW depth \in Nat, NEW stmt \in Statements, NEW walk \in Walks,
         Growing(down, enter(depth))
  PROVE  Grows(walk, WalkStep(down, depth, stmt, walk))
<1> DEFINE tested == Tested(depth, stmt, walk)
           step == WalkStep(down, depth, stmt, walk)
<1>1. Grows(walk, tested) /\ tested \in Walks
  BY TestedGrows DEF Grows
<1>2. stmt.parts \in Seq(Statements)
  BY StatementFacts
<1> HIDE DEF tested, step
<1>3. CASE IsLoop(stmt)
  <2> DEFINE inner == IntoLoop(tested)
             later == down[stmt.parts[1]][enter(depth)][inner]
  <2>1. step = OutOfLoop(later)
    BY <1>3 DEF step, tested, WalkStep
  <2>2. inner \in Walks /\ stmt.parts[1] \in Statements
    BY <1>1, <1>3, IntoAndOut, LoopBody
  <2>3. Grows(inner, later)
    <3> HIDE DEF inner
    <3> QED
      BY <2>2 DEF Growing
  <2>4. Grows(tested, OutOfLoop(later))
    <3> HIDE DEF later
    <3> QED
      BY <1>1, <2>3, IntoAndOut
  <2>5. Grows(walk, OutOfLoop(later))
    <3> HIDE DEF later
    <3> QED
      BY <1>1, <2>4, GrowsTransitive
  <2> QED
    BY <2>1, <2>5 DEF step
<1>4. CASE ~IsLoop(stmt) /\ stmt.kind \in {"break", "continue"}
  <2>1. step = check_inside_a_loop(tested)
    BY <1>4 DEF step, tested, WalkStep
  <2>2. Grows(tested, check_inside_a_loop(tested))
    BY <1>1, InsideGrows
  <2>3. Grows(walk, step)
    BY <1>1, <2>1, <2>2, GrowsTransitive
  <2> QED
    BY <2>3 DEF step
<1>5. CASE ~IsLoop(stmt) /\ stmt.kind \notin {"break", "continue"}
  <2> DEFINE later == InTurn(down, enter(depth), tested, stmt.parts)
  <2>1. step = later
    BY <1>5 DEF step, tested, WalkStep
  <2>2. Grows(tested, later)
    BY <1>1, <1>2, InTurnGrows
  <2> HIDE DEF later
  <2>3. Grows(walk, step)
    BY <1>1, <2>1, <2>2, GrowsTransitive
  <2> QED
    BY <2>3 DEF step
<1> QED
  BY <1>3, <1>4, <1>5

LEMMA WalkStepAgrees ==
  ASSUME NEW down, NEW below, NEW depth \in Nat, NEW stmt \in Statements, NEW walk \in Walks,
         Walking(down, enter(depth)), Walking(below, enter(depth)),
         SameWalks(down, enter(depth), below, enter(depth))
  PROVE  WalkStep(down, depth, stmt, walk) = WalkStep(below, depth, stmt, walk)
<1> DEFINE tested == Tested(depth, stmt, walk)
<1>1. tested \in Walks
  BY TestedGrows DEF Grows
<1>2. stmt.parts \in Seq(Statements)
  BY StatementFacts
<1>3. CASE IsLoop(stmt)
  <2>1. stmt.parts[1] \in Statements
    BY <1>3, LoopBody
  <2>2. down[stmt.parts[1]][enter(depth)] = below[stmt.parts[1]][enter(depth)]
    BY <2>1 DEF SameWalks
  <2> QED
    BY <1>3, <2>2 DEF WalkStep
<1>4. CASE ~IsLoop(stmt)
  <2>1. InTurn(down, enter(depth), tested, stmt.parts) = InTurn(below, enter(depth), tested, stmt.parts)
    <3> HIDE DEF tested
    <3> QED
      BY <1>1, <1>2, InTurnAgrees
  <2> QED
    BY <1>4, <2>1 DEF WalkStep
<1> QED
  BY <1>3, <1>4

(* The walk of a statement, as the model defines it. *)
Walkers == {f \in [Statements -> [Walks -> Walks]] :
              \A stmt \in Statements : \A walk \in Walks : Grows(walk, f[stmt][walk])}

\* The same walk at every depth.
Evenly(f) == [stmt \in Statements |-> [depth \in Nat |-> f[stmt]]]

LEMMA EvenlyGrows ==
  ASSUME NEW f \in Walkers, NEW depth \in Nat
  PROVE  Growing(Evenly(f), depth) /\ Walking(Evenly(f), depth)
<1>1. \A stmt \in Statements : Evenly(f)[stmt][depth] = f[stmt]
  BY DEF Evenly
<1>2. \A stmt \in Statements : f[stmt] \in [Walks -> Walks]
  BY DEF Walkers
<1>3. \A stmt \in Statements : \A walk \in Walks : Grows(walk, f[stmt][walk])
  BY DEF Walkers
<1> QED
  BY <1>1, <1>2, <1>3 DEF Growing, Walking

LEMMA WalkExists == \E f : WalkRule(f)
<1> DEFINE last == [stmt \in Statements |-> [walk \in Walks |-> Report(walk, "too deep")]]
           at(pair, d, stmt) == [walk \in Walks |-> WalkStep(Evenly(pair[1]), d, stmt, walk)]
           all(pair, d) == [stmt \in Statements |-> at(pair, d, stmt)]
           go(d) == [pair \in Walkers \X Walkers |-> all(pair, d)]
           step == [d \in Nat |-> go(d)]
<1>1. last \in Walkers
  <2>1. \A walk \in Walks : Grows(walk, Report(walk, "too deep"))
    BY ReportGrows DEF Messages
  <2>2. \A walk \in Walks : Report(walk, "too deep") \in Walks
    BY <2>1 DEF Grows
  <2> QED
    BY <2>1, <2>2 DEF Walkers
<1>2. ASSUME NEW pair \in Walkers \X Walkers, NEW d \in Nat
      PROVE  all(pair, d) \in Walkers
  <2>1. pair[1] \in Walkers
    OBVIOUS
  <2>2. enter(d) \in Nat
    BY DEF enter
  <2>3. Growing(Evenly(pair[1]), enter(d))
    BY <2>1, <2>2, EvenlyGrows
  <2>4. \A stmt \in Statements : \A walk \in Walks :
           Grows(walk, WalkStep(Evenly(pair[1]), d, stmt, walk))
    BY <2>3, WalkStepGrows
  <2>5. \A stmt \in Statements : \A walk \in Walks :
           WalkStep(Evenly(pair[1]), d, stmt, walk) \in Walks
    BY <2>4 DEF Grows
  <2>6. \A stmt \in Statements : at(pair, d, stmt) \in [Walks -> Walks]
    BY <2>5
  <2>7. \A stmt \in Statements : \A walk \in Walks : Grows(walk, at(pair, d, stmt)[walk])
    BY <2>4
  <2> HIDE DEF at
  <2>8. all(pair, d) \in [Statements -> [Walks -> Walks]]
    BY <2>6
  <2>9. \A stmt \in Statements : all(pair, d)[stmt] = at(pair, d, stmt)
    OBVIOUS
  <2> HIDE DEF all
  <2> QED
    BY <2>7, <2>8, <2>9 DEF Walkers
<1>3. step \in [Nat -> [Walkers \X Walkers -> Walkers]]
  <2>1. \A d \in Nat : go(d) \in [Walkers \X Walkers -> Walkers]
    <3> HIDE DEF all
    <3> QED
      BY <1>2
  <2> HIDE DEF go
  <2> QED
    BY <2>1
<1>4. PICK G \in [Nat -> Walkers] : Descends(G, MAX_NESTING_DEPTH, last, step)
  <2> HIDE DEF step, last
  <2> QED
    BY <1>1, <1>3, DepthAssumption, CountsDown
<1>5. \A d \in Nat : G[d] \in Walkers /\ G[d + 1] \in Walkers /\ G[d + 2] \in Walkers
  OBVIOUS
<1> DEFINE f == [stmt \in Statements |-> [depth \in Nat |-> G[depth][stmt]]]
           value(stmt, depth, walk) == IF TooDeep(depth) THEN Report(walk, "too deep")
                                       ELSE WalkStep(f, depth, stmt, walk)
<1>6. \A stmt \in Statements : \A depth \in Nat :
         f[stmt][depth] = G[depth][stmt] /\ f[stmt][depth] \in [Walks -> Walks]
  <2>1. \A stmt \in Statements : \A depth \in Nat : G[depth][stmt] \in [Walks -> Walks]
    BY <1>5 DEF Walkers
  <2> QED
    BY <2>1
<1>7. ASSUME NEW stmt \in Statements, NEW depth \in Nat, NEW walk \in Walks
      PROVE  f[stmt][depth][walk] = value(stmt, depth, walk)
  <2>1. f[stmt][depth][walk] = G[depth][stmt][walk]
    BY <1>6
  <2>2. CASE TooDeep(depth)
    <3>1. G[depth] = last
      <4>1. depth >= MAX_NESTING_DEPTH
        BY <2>2 DEF TooDeep
      <4> HIDE DEF last, step
      <4> QED
        BY <1>4, <4>1 DEF Descends
    <3>2. last[stmt][walk] = Report(walk, "too deep")
      OBVIOUS
    <3> HIDE DEF last, f
    <3> QED
      BY <2>1, <2>2, <3>1, <3>2
  <2>3. CASE ~TooDeep(depth)
    <3> DEFINE pair == <<G[depth + 1], G[depth + 2]>>
    <3>1. G[depth] = step[depth][pair]
      <4>1. ~(depth >= MAX_NESTING_DEPTH)
        BY <2>3 DEF TooDeep
      <4> HIDE DEF last, step
      <4> QED
        BY <1>4, <4>1 DEF Descends
    <3>2. pair \in Walkers \X Walkers /\ pair[1] = G[depth + 1]
      BY <1>5
    <3>3. step[depth] = go(depth)
      <4> HIDE DEF go
      <4> QED
        OBVIOUS
    <3>4. go(depth)[pair] = all(pair, depth)
      <4> HIDE DEF all, pair
      <4> QED
        BY <3>2
    <3>5. all(pair, depth)[stmt] = at(pair, depth, stmt)
      <4> HIDE DEF at, pair
      <4> QED
        OBVIOUS
    <3>6. at(pair, depth, stmt)[walk] = WalkStep(Evenly(G[depth + 1]), depth, stmt, walk)
      <4> HIDE DEF pair
      <4> QED
        BY <3>2
    <3>7. G[depth][stmt][walk] = WalkStep(Evenly(G[depth + 1]), depth, stmt, walk)
      <4> HIDE DEF step, go, all, at, pair
      <4> QED
        BY <3>1, <3>3, <3>4, <3>5, <3>6
    <3>8. enter(depth) = depth + 1 /\ enter(depth) \in Nat
      BY DEF enter
    <3>9. Walking(f, enter(depth)) /\ Walking(Evenly(G[depth + 1]), enter(depth))
      <4> HIDE DEF f
      <4> QED
        BY <1>5, <1>6, <3>8, EvenlyGrows DEF Walking
    <3>10. SameWalks(f, enter(depth), Evenly(G[depth + 1]), enter(depth))
      <4>1. \A s \in Statements : Evenly(G[depth + 1])[s][enter(depth)] = G[depth + 1][s]
        BY <3>8 DEF Evenly
      <4>2. \A s \in Statements : f[s][enter(depth)] = G[enter(depth)][s]
        <5> HIDE DEF f
        <5> QED
          BY <1>6, <3>8
      <4> HIDE DEF f
      <4> QED
        BY <3>8, <4>1, <4>2 DEF SameWalks
    <3>11. WalkStep(f, depth, stmt, walk) = WalkStep(Evenly(G[depth + 1]), depth, stmt, walk)
      <4> HIDE DEF f
      <4> QED
        BY <3>9, <3>10, WalkStepAgrees
    <3> HIDE DEF f
    <3> QED
      BY <2>1, <2>3, <3>7, <3>11
  <2> QED
    BY <2>2, <2>3
<1>8. \A stmt \in Statements : \A depth \in Nat :
         f[stmt][depth] = [walk \in Walks |-> value(stmt, depth, walk)]
  <2> HIDE DEF f, value
  <2> QED
    BY <1>6, <1>7
<1>9. f = [stmt \in Statements |-> [depth \in Nat |-> f[stmt][depth]]]
  OBVIOUS
<1>10. f = [stmt \in Statements |-> [depth \in Nat |-> [walk \in Walks |-> value(stmt, depth, walk)]]]
  <2> HIDE DEF f, value
  <2> QED
    BY <1>8, <1>9
<1> HIDE DEF f
<1> QED
  BY <1>10 DEF WalkRule

LEMMA WalkIs == WalkRule(stmt_walk)
<1>1. stmt_walk = CHOOSE f : WalkRule(f)
  BY DEF stmt_walk, WalkRule, WalkStep, Tested
<1> QED
  BY <1>1, WalkExists

LEMMA WalkOf ==
  ASSUME NEW stmt \in Statements, NEW depth \in Nat, NEW walk \in Walks
  PROVE  stmt_walk[stmt][depth][walk] = IF TooDeep(depth) THEN Report(walk, "too deep")
                                        ELSE WalkStep(stmt_walk, depth, stmt, walk)
<1> DEFINE value(s, d, w) == IF TooDeep(d) THEN Report(w, "too deep") ELSE WalkStep(stmt_walk, d, s, w)
           ofWalk(s, d) == [w \in Walks |-> value(s, d, w)]
           ofDepth(s) == [d \in Nat |-> ofWalk(s, d)]
<1>1. stmt_walk = [s \in Statements |-> ofDepth(s)]
  BY WalkIs DEF WalkRule
<1>2. stmt_walk[stmt] = ofDepth(stmt)
  <2> HIDE DEF ofDepth
  <2> QED
    BY <1>1
<1>3. stmt_walk[stmt][depth] = ofWalk(stmt, depth)
  <2> HIDE DEF ofWalk
  <2> QED
    BY <1>2
<1>4. stmt_walk[stmt][depth][walk] = value(stmt, depth, walk)
  <2> HIDE DEF value
  <2> QED
    BY <1>3
<1> QED
  BY <1>4

LEMMA WalkAt ==
  ASSUME NEW stmt \in Statements, NEW depth \in Nat
  PROVE  stmt_walk[stmt][depth] = [walk \in Walks |-> stmt_walk[stmt][depth][walk]]
<1> DEFINE value(s, d, w) == IF TooDeep(d) THEN Report(w, "too deep") ELSE WalkStep(stmt_walk, d, s, w)
           ofWalk(s, d) == [w \in Walks |-> value(s, d, w)]
           ofDepth(s) == [d \in Nat |-> ofWalk(s, d)]
<1>1. stmt_walk = [s \in Statements |-> ofDepth(s)]
  BY WalkIs DEF WalkRule
<1>2. stmt_walk[stmt] = ofDepth(stmt)
  <2> HIDE DEF ofDepth
  <2> QED
    BY <1>1
<1>3. stmt_walk[stmt][depth] = ofWalk(stmt, depth)
  <2> HIDE DEF ofWalk
  <2> QED
    BY <1>2
<1> QED
  <2> HIDE DEF value
  <2> QED
    BY <1>3

(* A walk takes no report back and leaves the count of the loops as it was. *)
LEMMA WalkGrows == \A depth \in Nat : Growing(stmt_walk, depth)
<1> DEFINE Holds == {d \in Nat : Growing(stmt_walk, d)}
<1>1. ASSUME NEW d \in Nat,
             \A stmt \in Statements : \A walk \in Walks : Grows(walk, stmt_walk[stmt][d][walk])
      PROVE  Growing(stmt_walk, d)
  <2>1. \A stmt \in Statements : \A walk \in Walks : stmt_walk[stmt][d][walk] \in Walks
    BY <1>1 DEF Grows
  <2>2. \A stmt \in Statements : stmt_walk[stmt][d] \in [Walks -> Walks]
    <3> SUFFICES ASSUME NEW stmt \in Statements
                 PROVE  stmt_walk[stmt][d] \in [Walks -> Walks]
      OBVIOUS
    <3> DEFINE value(w) == stmt_walk[stmt][d][w]
    <3>1. stmt_walk[stmt][d] = [w \in Walks |-> value(w)]
      BY WalkAt
    <3>2. \A w \in Walks : value(w) \in Walks
      BY <2>1
    <3> HIDE DEF value
    <3>3. [w \in Walks |-> value(w)] \in [Walks -> Walks]
      BY <3>2
    <3> QED
      BY <3>1, <3>3
  <2> QED
    BY <1>1, <2>2 DEF Growing, Walking
<1>2. \A d \in Nat : d >= MAX_NESTING_DEPTH => d \in Holds
  <2> SUFFICES ASSUME NEW d \in Nat, d >= MAX_NESTING_DEPTH
               PROVE  Growing(stmt_walk, d)
    OBVIOUS
  <2>1. \A stmt \in Statements : \A walk \in Walks :
           stmt_walk[stmt][d][walk] = Report(walk, "too deep")
    BY WalkOf DEF TooDeep
  <2>2. \A walk \in Walks : Grows(walk, Report(walk, "too deep"))
    BY ReportGrows DEF Messages
  <2> QED
    BY <1>1, <2>1, <2>2
<1>3. \A d \in Nat : d + 1 \in Holds => d \in Holds
  <2> SUFFICES ASSUME NEW d \in Nat, Growing(stmt_walk, d + 1)
               PROVE  Growing(stmt_walk, d)
    OBVIOUS
  <2>1. Growing(stmt_walk, enter(d))
    BY DEF enter
  <2>2. ASSUME NEW stmt \in Statements, NEW walk \in Walks
        PROVE  Grows(walk, stmt_walk[stmt][d][walk])
    <3>1. Grows(walk, WalkStep(stmt_walk, d, stmt, walk))
      BY <2>1, WalkStepGrows
    <3>2. Grows(walk, Report(walk, "too deep"))
      BY ReportGrows DEF Messages
    <3> QED
      BY <3>1, <3>2, WalkOf
  <2> QED
    BY <1>1, <2>2
<1> HIDE DEF Holds
<1>4. \A d \in Nat : d + 1 \in Holds /\ d + 2 \in Holds => d \in Holds
  BY <1>3
<1>5. \A d \in Nat : d \in Holds
  BY <1>2, <1>4, DepthAssumption, FromTheLimit
<1> QED
  BY <1>5 DEF Holds

(* Statements that can be walked outside any loop with nothing reported.   *)
Quiet(stmt) ==
    \E depth \in Nat : \E walk \in Walks :
        walk.loop_depth = 0 /\ stmt_walk[stmt][depth][walk].reports = {}

LEMMA QuietIsNoJump ==
  ASSUME NEW stmt \in Statements, Quiet(stmt)
  PROVE  stmt.kind \notin {"break", "continue"}
<1> SUFFICES ASSUME stmt.kind \in {"break", "continue"}
             PROVE  FALSE
  OBVIOUS
<1>1. PICK depth \in Nat, walk \in Walks :
         walk.loop_depth = 0 /\ stmt_walk[stmt][depth][walk].reports = {}
  BY DEF Quiet
<1>2. ~TooDeep(depth)
  <2>1. "too deep" \in Report(walk, "too deep").reports
    BY ReportGrows DEF Messages
  <2> QED
    BY <1>1, <2>1, WalkOf
<1>3. stmt_walk[stmt][depth][walk] = check_inside_a_loop(Tested(depth, stmt, walk))
  BY <1>2, WalkOf DEF WalkStep, IsLoop
<1>4. Tested(depth, stmt, walk) \in Walks /\ Tested(depth, stmt, walk).loop_depth = 0
  BY <1>1, TestedGrows DEF Grows
<1>5. "outside a loop" \in check_inside_a_loop(Tested(depth, stmt, walk)).reports
  <2>1. "outside a loop" \in Report(Tested(depth, stmt, walk), "outside a loop").reports
    BY <1>4, ReportGrows DEF Messages
  <2> QED
    BY <1>4, <2>1 DEF check_inside_a_loop
<1> QED
  BY <1>1, <1>3, <1>5

LEMMA QuietInTurn ==
  ASSUME NEW depth \in Nat, NEW walk \in Walks, NEW stmts \in Seq(Statements),
         walk.loop_depth = 0, InTurn(stmt_walk, depth, walk, stmts).reports = {}
  PROVE  \A i \in 1 .. Len(stmts) : Quiet(stmts[i])
<1> SUFFICES ASSUME NEW i \in 1 .. Len(stmts)
             PROVE  Quiet(stmts[i])
  OBVIOUS
<1> DEFINE last == InTurn(stmt_walk, depth, walk, stmts)
<1>1. Growing(stmt_walk, depth)
  BY WalkGrows
<1>2. PICK before \in Walks : /\ Grows(walk, before)
                              /\ Grows(stmt_walk[stmts[i]][depth][before], last)
  BY <1>1, InTurnGrows
<1>3. before.loop_depth = 0
  BY <1>2 DEF Grows
<1>4. stmt_walk[stmts[i]][depth][before].reports = {}
  <2> HIDE DEF last
  <2>1. stmt_walk[stmts[i]][depth][before].reports \subseteq last.reports
    BY <1>2 DEF Grows
  <2>2. last.reports = {}
    BY DEF last
  <2> QED
    BY <2>1, <2>2
<1> QED
  BY <1>3, <1>4 DEF Quiet

LEMMA QuietParts ==
  ASSUME NEW stmt \in Statements, Quiet(stmt), ~IsLoop(stmt)
  PROVE  \A i \in 1 .. Len(stmt.parts) : Quiet(stmt.parts[i])
<1>1. PICK depth \in Nat, walk \in Walks :
         walk.loop_depth = 0 /\ stmt_walk[stmt][depth][walk].reports = {}
  BY DEF Quiet
<1>2. ~TooDeep(depth)
  <2>1. "too deep" \in Report(walk, "too deep").reports
    BY ReportGrows DEF Messages
  <2> QED
    BY <1>1, <2>1, WalkOf
<1>3. stmt.kind \notin {"break", "continue"}
  BY QuietIsNoJump
<1>4. stmt_walk[stmt][depth][walk] = InTurn(stmt_walk, enter(depth), Tested(depth, stmt, walk), stmt.parts)
  BY <1>2, <1>3, WalkOf DEF WalkStep
<1>5. Tested(depth, stmt, walk) \in Walks /\ Tested(depth, stmt, walk).loop_depth = 0
  BY <1>1, TestedGrows DEF Grows
<1>6. stmt.parts \in Seq(Statements) /\ enter(depth) \in Nat
  BY StatementFacts DEF enter
<1> QED
  BY <1>1, <1>4, <1>5, <1>6, QuietInTurn

(* The judgements on the tree: functions of a statement and a depth that   *)
(* look at most two depths down.                                           *)
Judgements == [Statements -> BOOLEAN]

At(f, depth) == [stmt \in Statements |-> f[stmt][depth]]

Judged(f, last, step) ==
    /\ f = [stmt \in Statements |-> [depth \in Nat |-> f[stmt][depth]]]
    /\ \A depth \in Nat :
          /\ At(f, depth) \in Judgements
          /\ At(f, depth) = IF depth >= MAX_NESTING_DEPTH THEN last
                            ELSE step[depth][<<At(f, depth + 1), At(f, depth + 2)>>]

LEMMA JudgementsExist ==
  ASSUME NEW last \in Judgements,
         NEW step \in [Nat -> [Judgements \X Judgements -> Judgements]]
  PROVE  \E f : Judged(f, last, step)
<1>1. PICK G \in [Nat -> Judgements] : Descends(G, MAX_NESTING_DEPTH, last, step)
  BY CountsDown, DepthAssumption
<1> DEFINE f == [stmt \in Statements |-> [depth \in Nat |-> G[depth][stmt]]]
<1>2. \A stmt \in Statements : \A depth \in Nat : f[stmt][depth] = G[depth][stmt]
  OBVIOUS
<1>3. f = [stmt \in Statements |-> [depth \in Nat |-> f[stmt][depth]]]
  OBVIOUS
<1>4. \A depth \in Nat : At(f, depth) = G[depth]
  <2> HIDE DEF f
  <2> QED
    BY <1>2 DEF At, Judgements
<1> HIDE DEF f
<1>5. \A depth \in Nat :
         At(f, depth) = IF depth >= MAX_NESTING_DEPTH THEN last
                        ELSE step[depth][<<At(f, depth + 1), At(f, depth + 2)>>]
  <2> SUFFICES ASSUME NEW depth \in Nat
               PROVE  At(f, depth) = IF depth >= MAX_NESTING_DEPTH THEN last
                                     ELSE step[depth][<<At(f, depth + 1), At(f, depth + 2)>>]
    OBVIOUS
  <2>1. depth + 1 \in Nat /\ depth + 2 \in Nat
    OBVIOUS
  <2>2. /\ At(f, depth) = G[depth]
        /\ At(f, depth + 1) = G[depth + 1]
        /\ At(f, depth + 2) = G[depth + 2]
    BY <1>4, <2>1
  <2>3. G[depth] = IF depth >= MAX_NESTING_DEPTH THEN last
                   ELSE step[depth][<<G[depth + 1], G[depth + 2]>>]
    BY <1>1 DEF Descends
  <2> QED
    BY <2>2, <2>3
<1> QED
  BY <1>3, <1>4, <1>5 DEF Judged

(* What a judgement is at the limit and below it. *)
LEMMA JudgedAt ==
  ASSUME NEW f, NEW last, NEW step, Judged(f, last, step), NEW depth \in Nat,
         NEW stmt \in Statements
  PROVE  /\ f[stmt][depth] \in BOOLEAN
         /\ f[stmt][depth] = At(f, depth)[stmt]
         /\ At(f, depth) \in Judgements
         /\ ~(depth >= MAX_NESTING_DEPTH) =>
               f[stmt][depth] = step[depth][<<At(f, depth + 1), At(f, depth + 2)>>][stmt]
<1>1. f[stmt][depth] = At(f, depth)[stmt]
  BY DEF At
<1>2. At(f, depth) \in Judgements
  BY DEF Judged
<1>3. At(f, depth)[stmt] \in BOOLEAN
  <2> DEFINE now == At(f, depth)
  <2>1. now \in Judgements
    BY <1>2
  <2> HIDE DEF now
  <2>2. now[stmt] \in BOOLEAN
    BY <2>1 DEF Judgements
  <2> QED
    BY <2>2 DEF now
<1>4. At(f, depth) = IF depth >= MAX_NESTING_DEPTH THEN last
                     ELSE step[depth][<<At(f, depth + 1), At(f, depth + 2)>>]
  BY DEF Judged
<1>5. f[stmt][depth] \in BOOLEAN
  BY <1>1, <1>3
<1>6. ~(depth >= MAX_NESTING_DEPTH) =>
         f[stmt][depth] = step[depth][<<At(f, depth + 1), At(f, depth + 2)>>][stmt]
  BY <1>1, <1>4
<1> QED
  BY <1>1, <1>2, <1>5, <1>6

EscapesValue(f, stmt, depth) ==
    /\ depth < MAX_NESTING_DEPTH
    /\ \/ stmt.kind = "break"
       \/ \E i \in DOMAIN Descended(stmt) : f[Descended(stmt)[i]][depth + 1]

ReturnsValue(f, stmt, depth) ==
    \/ depth >= MAX_NESTING_DEPTH
    \/ stmt.kind = "return"
    \/ stmt.kind = "block" /\ \E i \in DOMAIN stmt.parts : f[stmt.parts[i]][depth + 2]
    \/ /\ stmt.kind = "if" /\ HasElse(stmt)
       /\ \A arm \in {1, 2} : f[stmt.parts[arm]][depth + 1]
    \/ IsLoop(stmt) /\ CannotEnd(stmt) /\ ~escapes_the_loop[stmt.parts[1]][depth + 1]

DeepValue(f, stmt, level) ==
    \/ 2 * level > MAX_NESTING_DEPTH
    \/ \E i \in DOMAIN stmt.parts : f[stmt.parts[i]][level + 1]

EscapesRule(f) == f = [stmt \in Statements |-> [depth \in Nat |-> EscapesValue(f, stmt, depth)]]
ReturnsRule(f) == f = [stmt \in Statements |-> [depth \in Nat |-> ReturnsValue(f, stmt, depth)]]
DeepRule(f) == f = [stmt \in Statements |-> [level \in Nat |-> DeepValue(f, stmt, level)]]

LEMMA DescendedFacts ==
  ASSUME NEW stmt \in Statements
  PROVE  \A i \in DOMAIN Descended(stmt) : Descended(stmt)[i] \in Statements
BY StatementFacts DEF Descended

LEMMA EscapesExist == \E f : EscapesRule(f)
<1> DEFINE last == [stmt \in Statements |-> FALSE]
           now(g, stmt) == \/ stmt.kind = "break"
                           \/ \E i \in DOMAIN Descended(stmt) : g[Descended(stmt)[i]]
           all(pair) == [stmt \in Statements |-> now(pair[1], stmt)]
           go == [pair \in Judgements \X Judgements |-> all(pair)]
           step == [d \in Nat |-> go]
<1>1. last \in Judgements
  BY DEF Judgements
<1>2. step \in [Nat -> [Judgements \X Judgements -> Judgements]]
  <2>1. \A pair \in Judgements \X Judgements : all(pair) \in Judgements
    BY DEF Judgements
  <2>2. go \in [Judgements \X Judgements -> Judgements]
    <3> HIDE DEF all
    <3> QED
      BY <2>1
  <2> HIDE DEF go
  <2> QED
    BY <2>2
<1>3. PICK f : Judged(f, last, step)
  <2> HIDE DEF step, last
  <2> QED
    BY <1>1, <1>2, JudgementsExist
<1>4. ASSUME NEW stmt \in Statements, NEW depth \in Nat
      PROVE  f[stmt][depth] = EscapesValue(f, stmt, depth)
  <2>1. CASE depth >= MAX_NESTING_DEPTH
    <3>1. f[stmt][depth] = last[stmt]
      <4> HIDE DEF last, step
      <4>1. At(f, depth) = last
        BY <1>3, <2>1 DEF Judged
      <4>2. f[stmt][depth] = At(f, depth)[stmt]
        BY DEF At
      <4> QED
        BY <4>1, <4>2
    <3>2. ~EscapesValue(f, stmt, depth)
      BY <2>1, DepthAssumption DEF EscapesValue
    <3>3. EscapesValue(f, stmt, depth) \in BOOLEAN
      BY DEF EscapesValue
    <3> QED
      BY <3>1, <3>2, <3>3
  <2>2. CASE ~(depth >= MAX_NESTING_DEPTH)
    <3> DEFINE pair == <<At(f, depth + 1), At(f, depth + 2)>>
    <3>1. f[stmt][depth] = step[depth][pair][stmt]
      <4> HIDE DEF last, step
      <4> QED
        BY <1>3, <2>2, JudgedAt
    <3>2. pair \in Judgements \X Judgements
      <4>1. depth + 1 \in Nat /\ depth + 2 \in Nat
        OBVIOUS
      <4> HIDE DEF last, step
      <4> QED
        BY <1>3, <4>1, JudgedAt
    <3>3. step[depth] = go
      <4> HIDE DEF go
      <4> QED
        OBVIOUS
    <3>4. go[pair] = all(pair)
      <4> HIDE DEF all, pair
      <4> QED
        BY <3>2
    <3>5. all(pair)[stmt] = now(pair[1], stmt)
      <4> HIDE DEF now, pair
      <4> QED
        OBVIOUS
    <3>6. f[stmt][depth] = now(At(f, depth + 1), stmt)
      <4>1. pair[1] = At(f, depth + 1)
        OBVIOUS
      <4> HIDE DEF step, go, all, now, pair
      <4> QED
        BY <3>1, <3>3, <3>4, <3>5, <4>1
    <3>7. \A i \in DOMAIN Descended(stmt) :
             At(f, depth + 1)[Descended(stmt)[i]] = f[Descended(stmt)[i]][depth + 1]
      BY DescendedFacts DEF At
    <3>8. depth < MAX_NESTING_DEPTH
      BY <2>2, DepthAssumption
    <3> HIDE DEF step
    <3> QED
      BY <3>6, <3>7, <3>8, Zenon DEF EscapesValue
  <2> QED
    BY <2>1, <2>2
<1>5. f = [stmt \in Statements |-> [depth \in Nat |-> f[stmt][depth]]]
  <2> HIDE DEF step, last
  <2> QED
    BY <1>3 DEF Judged
<1>6. f = [stmt \in Statements |-> [depth \in Nat |-> EscapesValue(f, stmt, depth)]]
  <2> HIDE DEF step, last
  <2> QED
    BY <1>4, <1>5
<1> HIDE DEF step, last
<1> QED
  BY <1>6 DEF EscapesRule

LEMMA ReturnsExist == \E f : ReturnsRule(f)
<1> DEFINE last == [stmt \in Statements |-> TRUE]
           now(pair, d, stmt) ==
              \/ stmt.kind = "return"
              \/ stmt.kind = "block" /\ \E i \in DOMAIN stmt.parts : pair[2][stmt.parts[i]]
              \/ /\ stmt.kind = "if" /\ HasElse(stmt)
                 /\ \A arm \in {1, 2} : pair[1][stmt.parts[arm]]
              \/ IsLoop(stmt) /\ CannotEnd(stmt) /\ ~escapes_the_loop[stmt.parts[1]][d + 1]
           all(pair, d) == [stmt \in Statements |-> now(pair, d, stmt)]
           go(d) == [pair \in Judgements \X Judgements |-> all(pair, d)]
           step == [d \in Nat |-> go(d)]
<1>1. last \in Judgements
  BY DEF Judgements
<1>2. step \in [Nat -> [Judgements \X Judgements -> Judgements]]
  <2>1. \A d \in Nat : \A pair \in Judgements \X Judgements : \A stmt \in Statements :
           now(pair, d, stmt) \in BOOLEAN
    OBVIOUS
  <2>2. \A d \in Nat : \A pair \in Judgements \X Judgements : all(pair, d) \in Judgements
    <3> HIDE DEF now
    <3> QED
      BY <2>1 DEF Judgements
  <2>3. \A d \in Nat : go(d) \in [Judgements \X Judgements -> Judgements]
    <3> HIDE DEF all
    <3> QED
      BY <2>2
  <2> HIDE DEF go
  <2> QED
    BY <2>3
<1>3. PICK f : Judged(f, last, step)
  <2> HIDE DEF step, last
  <2> QED
    BY <1>1, <1>2, JudgementsExist
<1>4. ASSUME NEW stmt \in Statements, NEW depth \in Nat
      PROVE  f[stmt][depth] = ReturnsValue(f, stmt, depth)
  <2>1. CASE depth >= MAX_NESTING_DEPTH
    <3>1. f[stmt][depth] = last[stmt]
      <4> HIDE DEF last, step
      <4>1. At(f, depth) = last
        BY <1>3, <2>1 DEF Judged
      <4>2. f[stmt][depth] = At(f, depth)[stmt]
        BY DEF At
      <4> QED
        BY <4>1, <4>2
    <3>2. ReturnsValue(f, stmt, depth) = TRUE
      BY <2>1, DepthAssumption DEF ReturnsValue
    <3> QED
      BY <3>1, <3>2
  <2>2. CASE ~(depth >= MAX_NESTING_DEPTH)
    <3> DEFINE pair == <<At(f, depth + 1), At(f, depth + 2)>>
    <3>1. f[stmt][depth] = step[depth][pair][stmt]
      <4> HIDE DEF last, step
      <4> QED
        BY <1>3, <2>2, JudgedAt
    <3>2. pair \in Judgements \X Judgements
      <4>1. depth + 1 \in Nat /\ depth + 2 \in Nat
        OBVIOUS
      <4> HIDE DEF last, step
      <4> QED
        BY <1>3, <4>1, JudgedAt
    <3>3. step[depth] = go(depth)
      <4> HIDE DEF go
      <4> QED
        OBVIOUS
    <3>4. go(depth)[pair] = all(pair, depth)
      <4> HIDE DEF all, pair
      <4> QED
        BY <3>2
    <3>5. all(pair, depth)[stmt] = now(pair, depth, stmt)
      <4> HIDE DEF now, pair
      <4> QED
        OBVIOUS
    <3>6. f[stmt][depth] = now(pair, depth, stmt)
      <4> HIDE DEF step, go, all, now, pair
      <4> QED
        BY <3>1, <3>3, <3>4, <3>5
    <3>7. pair[1] = At(f, depth + 1) /\ pair[2] = At(f, depth + 2)
      OBVIOUS
    <3>8. \A i \in DOMAIN stmt.parts :
             pair[2][stmt.parts[i]] = f[stmt.parts[i]][depth + 2]
      BY <3>7, StatementFacts DEF At
    <3>9. HasElse(stmt) => \A arm \in {1, 2} :
             pair[1][stmt.parts[arm]] = f[stmt.parts[arm]][depth + 1]
      <4>1. HasElse(stmt) => \A arm \in {1, 2} : stmt.parts[arm] \in Statements
        BY StatementFacts DEF HasElse
      <4> HIDE DEF pair
      <4> QED
        BY <3>7, <4>1 DEF At
    <3> HIDE DEF pair
    <3> HIDE DEF step
    <3> QED
      BY <3>6, <2>2, <3>8, <3>9, Zenon DEF ReturnsValue
  <2> QED
    BY <2>1, <2>2
<1>5. f = [stmt \in Statements |-> [depth \in Nat |-> f[stmt][depth]]]
  <2> HIDE DEF step, last
  <2> QED
    BY <1>3 DEF Judged
<1>6. f = [stmt \in Statements |-> [depth \in Nat |-> ReturnsValue(f, stmt, depth)]]
  <2> HIDE DEF step, last
  <2> QED
    BY <1>4, <1>5
<1> HIDE DEF step, last
<1> QED
  BY <1>6 DEF ReturnsRule

LEMMA DeepExist == \E f : DeepRule(f)
<1> DEFINE last == [stmt \in Statements |-> TRUE]
           now(pair, d, stmt) ==
              \/ 2 * d > MAX_NESTING_DEPTH
              \/ \E i \in DOMAIN stmt.parts : pair[1][stmt.parts[i]]
           all(pair, d) == [stmt \in Statements |-> now(pair, d, stmt)]
           go(d) == [pair \in Judgements \X Judgements |-> all(pair, d)]
           step == [d \in Nat |-> go(d)]
<1>1. last \in Judgements
  BY DEF Judgements
<1>2. step \in [Nat -> [Judgements \X Judgements -> Judgements]]
  <2>1. \A d \in Nat : \A pair \in Judgements \X Judgements : \A stmt \in Statements :
           now(pair, d, stmt) \in BOOLEAN
    OBVIOUS
  <2>2. \A d \in Nat : \A pair \in Judgements \X Judgements : all(pair, d) \in Judgements
    <3> HIDE DEF now
    <3> QED
      BY <2>1 DEF Judgements
  <2>3. \A d \in Nat : go(d) \in [Judgements \X Judgements -> Judgements]
    <3> HIDE DEF all
    <3> QED
      BY <2>2
  <2> HIDE DEF go
  <2> QED
    BY <2>3
<1>3. PICK f : Judged(f, last, step)
  <2> HIDE DEF step, last
  <2> QED
    BY <1>1, <1>2, JudgementsExist
<1>4. ASSUME NEW stmt \in Statements, NEW depth \in Nat
      PROVE  f[stmt][depth] = DeepValue(f, stmt, depth)
  <2>1. CASE depth >= MAX_NESTING_DEPTH
    <3>1. f[stmt][depth] = last[stmt]
      <4> HIDE DEF last, step
      <4>1. At(f, depth) = last
        BY <1>3, <2>1 DEF Judged
      <4>2. f[stmt][depth] = At(f, depth)[stmt]
        BY DEF At
      <4> QED
        BY <4>1, <4>2
    <3>2. DeepValue(f, stmt, depth) = TRUE
      BY <2>1, DepthAssumption DEF DeepValue
    <3> QED
      BY <3>1, <3>2
  <2>2. CASE ~(depth >= MAX_NESTING_DEPTH)
    <3> DEFINE pair == <<At(f, depth + 1), At(f, depth + 2)>>
    <3>1. f[stmt][depth] = step[depth][pair][stmt]
      <4> HIDE DEF last, step
      <4> QED
        BY <1>3, <2>2, JudgedAt
    <3>2. pair \in Judgements \X Judgements
      <4>1. depth + 1 \in Nat /\ depth + 2 \in Nat
        OBVIOUS
      <4> HIDE DEF last, step
      <4> QED
        BY <1>3, <4>1, JudgedAt
    <3>3. step[depth] = go(depth)
      <4> HIDE DEF go
      <4> QED
        OBVIOUS
    <3>4. go(depth)[pair] = all(pair, depth)
      <4> HIDE DEF all, pair
      <4> QED
        BY <3>2
    <3>5. all(pair, depth)[stmt] = now(pair, depth, stmt)
      <4> HIDE DEF now, pair
      <4> QED
        OBVIOUS
    <3>6. f[stmt][depth] = now(pair, depth, stmt)
      <4> HIDE DEF step, go, all, now, pair
      <4> QED
        BY <3>1, <3>3, <3>4, <3>5
    <3>7. \A i \in DOMAIN stmt.parts :
             pair[1][stmt.parts[i]] = f[stmt.parts[i]][depth + 1]
      BY StatementFacts DEF At
    <3> HIDE DEF pair
    <3> HIDE DEF step
    <3> QED
      BY <3>6, <3>7, Zenon DEF DeepValue
  <2> QED
    BY <2>1, <2>2
<1>5. f = [stmt \in Statements |-> [depth \in Nat |-> f[stmt][depth]]]
  <2> HIDE DEF step, last
  <2> QED
    BY <1>3 DEF Judged
<1>6. f = [stmt \in Statements |-> [depth \in Nat |-> DeepValue(f, stmt, depth)]]
  <2> HIDE DEF step, last
  <2> QED
    BY <1>4, <1>5
<1> HIDE DEF step, last
<1> QED
  BY <1>6 DEF DeepRule

LEMMA EscapesIs ==
  ASSUME NEW stmt \in Statements, NEW depth \in Nat
  PROVE  escapes_the_loop[stmt][depth] = EscapesValue(escapes_the_loop, stmt, depth)
<1>1. escapes_the_loop = CHOOSE f : EscapesRule(f)
  BY DEF escapes_the_loop, EscapesRule, EscapesValue, SomeOf
<1>2. EscapesRule(escapes_the_loop)
  BY <1>1, EscapesExist
<1> QED
  BY <1>2 DEF EscapesRule

LEMMA ReturnsIs ==
  ASSUME NEW stmt \in Statements, NEW depth \in Nat
  PROVE  always_returns[stmt][depth] = ReturnsValue(always_returns, stmt, depth)
<1>1. always_returns = CHOOSE f : ReturnsRule(f)
  BY DEF always_returns, ReturnsRule, ReturnsValue, SomeOf
<1>2. ReturnsRule(always_returns)
  BY <1>1, ReturnsExist
<1> QED
  BY <1>2 DEF ReturnsRule

LEMMA PastHalfIs ==
  ASSUME NEW stmt \in Statements, NEW level \in Nat
  PROVE  PastHalf[stmt][level] = DeepValue(PastHalf, stmt, level)
<1>1. PastHalf = CHOOSE f : DeepRule(f)
  BY DEF PastHalf, DeepRule, DeepValue, SomeOf
<1>2. DeepRule(PastHalf)
  BY <1>1, DeepExist
<1> QED
  BY <1>2 DEF DeepRule

-----------------------------------------------------------------------------
(* What is left to execute.  An item is a statement or a loop under way; a *)
(* position is near a later one if no loop under way stands between them,  *)
(* that is, if a jump made at the first leads past the second.             *)

Items == Statements \cup {Again(loop) : loop \in Statements}
Stmt(item) == IF IsAgain(item) THEN item.loop ELSE item

Near(seq, j, p) == \A k \in j + 1 .. p - 1 : ~IsAgain(seq[k])
Guard(seq, p, Q) == \A j \in 1 .. p - 1 : Near(seq, j, p) => Stmt(seq[j]) \in Q

Quieted == {stmt \in Statements : Quiet(stmt)}

\* The judgements at a depth the levels under it cannot push past the limit: a level costs two
\* depths at most, and one that is not past half the limit leaves room for them.
Room(stmt, depth, level) == depth < 2 * level /\ ~PastHalf[stmt][level]
Staying == {stmt \in Statements :
              \E depth \in Nat : \E level \in Nat :
                  Room(stmt, depth, level) /\ ~escapes_the_loop[stmt][depth]}
Returning == {stmt \in Statements :
                \E depth \in Nat : \E level \in Nat :
                    Room(stmt, depth, level) /\ always_returns[stmt][depth]}

\* What keeps control from the closing brace: an item that always returns, with no jump that
\* leads past it.
Held(seq, i) ==
    /\ Near(seq, i, Len(seq) + 1)
    /\ Stmt(seq[i]) \in Returning
    /\ IsAgain(seq[i]) => Guard(seq, i, Staying)

LEMMA ItemFacts ==
  /\ \A stmt \in Statements : ~IsAgain(stmt) /\ Stmt(stmt) = stmt /\ stmt \in Items
  /\ \A loop \in Statements : IsAgain(Again(loop)) /\ Stmt(Again(loop)) = loop /\ Again(loop) \in Items
<1>1. \A stmt \in Statements : stmt.kind # "again"
  <2> SUFFICES ASSUME NEW stmt \in Statements
               PROVE  stmt.kind # "again"
    OBVIOUS
  <2>1. stmt.kind \in {"return", "break", "continue", "other", "block", "if", "while", "for"}
    BY StatementFacts
  <2> QED
    BY <2>1
<1>2. \A loop \in Statements : IsAgain(Again(loop)) /\ Stmt(Again(loop)) = loop
  BY DEF IsAgain, Again, Stmt
<1> QED
  BY <1>1, <1>2 DEF IsAgain, Stmt, Items

(* The head of a sequence gives way to others. *)
LEMMA Replaced ==
  ASSUME NEW seq \in Seq(Items), seq # <<>>, NEW given \in Seq(Items)
  PROVE  LET new == given \o Tail(seq)
         IN /\ new \in Seq(Items)
            /\ Len(new) = Len(given) + Len(seq) - 1
            /\ \A j \in 1 .. Len(given) : new[j] = given[j]
            /\ \A j \in 2 .. Len(seq) : new[Len(given) + j - 1] = seq[j]
<1> DEFINE rest == Tail(seq)
           new == given \o rest
<1>1. rest \in Seq(Items) /\ Len(rest) = Len(seq) - 1 /\ \A j \in 1 .. Len(seq) - 1 : rest[j] = seq[j + 1]
  OBVIOUS
<1> HIDE DEF rest
<1>2. /\ new \in Seq(Items)
      /\ Len(new) = Len(given) + Len(rest)
      /\ \A j \in 1 .. Len(new) : new[j] = IF j <= Len(given) THEN given[j] ELSE rest[j - Len(given)]
  <2>1. new \in Seq(Items)
    BY <1>1, ConcatProperties
  <2>2. Len(new) = Len(given) + Len(rest)
    BY <1>1, ConcatProperties
  <2>3. \A j \in 1 .. Len(given) + Len(rest) :
           new[j] = IF j <= Len(given) THEN given[j] ELSE rest[j - Len(given)]
    BY <1>1, ConcatProperties
  <2> QED
    BY <2>1, <2>2, <2>3
<1>3. Len(given) \in Nat /\ Len(seq) \in Nat /\ Len(seq) >= 1
  OBVIOUS
<1> HIDE DEF new
<1>4. ASSUME NEW j \in 1 .. Len(given)
      PROVE  new[j] = given[j]
  <2>1. j \in 1 .. Len(new) /\ j <= Len(given)
    BY <1>1, <1>2, <1>3
  <2> QED
    BY <1>2, <2>1
<1>5. ASSUME NEW j \in 2 .. Len(seq)
      PROVE  new[Len(given) + j - 1] = seq[j]
  <2> DEFINE k == Len(given) + j - 1
  <2>1. k \in 1 .. Len(new) /\ ~(k <= Len(given)) /\ k - Len(given) = j - 1
    BY <1>1, <1>2, <1>3
  <2>2. j - 1 \in 1 .. Len(seq) - 1 /\ (j - 1) + 1 = j
    BY <1>3
  <2>3. new[k] = rest[j - 1]
    <3> HIDE DEF k
    <3> QED
      BY <1>2, <2>1
  <2>4. rest[j - 1] = seq[j]
    BY <1>1, <2>2
  <2> QED
    BY <2>3, <2>4
<1>6. Len(new) = Len(given) + Len(seq) - 1
  BY <1>1, <1>2, <1>3
<1> QED
  BY <1>2, <1>4, <1>5, <1>6 DEF new, rest

LEMMA GuardReplaced ==
  ASSUME NEW Q, NEW seq \in Seq(Items), seq # <<>>, NEW given \in Seq(Items), NEW new,
         new = given \o Tail(seq), NEW p \in 2 .. Len(seq) + 1, Guard(seq, p, Q),
         Stmt(seq[1]) \in Q => Guard(given, Len(given) + 1, Q)
  PROVE  Guard(new, Len(given) + p - 1, Q)
<1> DEFINE n == Len(given)
           q == n + p - 1
<1>1. /\ \A j \in 1 .. n : new[j] = given[j]
      /\ \A j \in 2 .. Len(seq) : new[n + j - 1] = seq[j]
  BY Replaced
<1>2. n \in Nat /\ Len(seq) \in Nat
  OBVIOUS
<1> SUFFICES ASSUME NEW j \in 1 .. q - 1, Near(new, j, q)
             PROVE  Stmt(new[j]) \in Q
  BY DEF Guard
<1>3. CASE j <= n
  <2>1. Near(given, j, n + 1)
    <3> SUFFICES ASSUME NEW k \in j + 1 .. n
                 PROVE  ~IsAgain(given[k])
      BY <1>2 DEF Near
    <3>1. k \in j + 1 .. q - 1 /\ k \in 1 .. n
      BY <1>2, <1>3
    <3> QED
      BY <1>1, <3>1 DEF Near
  <2>2. Near(seq, 1, p)
    <3> SUFFICES ASSUME NEW k \in 2 .. p - 1
                 PROVE  ~IsAgain(seq[k])
      BY DEF Near
    <3>1. n + k - 1 \in j + 1 .. q - 1 /\ k \in 2 .. Len(seq)
      BY <1>2, <1>3
    <3>2. ~IsAgain(new[n + k - 1])
      <4> HIDE DEF q, n
      <4> QED
        BY <3>1 DEF Near
    <3> QED
      BY <1>1, <3>1, <3>2
  <2>3. Stmt(seq[1]) \in Q
    <3>1. 1 \in 1 .. p - 1
      OBVIOUS
    <3> QED
      BY <2>2, <3>1 DEF Guard
  <2>4. j \in 1 .. (n + 1) - 1
    BY <1>2, <1>3
  <2>5. Stmt(given[j]) \in Q
    <3> HIDE DEF n
    <3> QED
      BY <2>1, <2>3, <2>4 DEF Guard, n
  <2> QED
    BY <1>1, <1>2, <1>3, <2>5
<1>4. CASE ~(j <= n)
  <2> DEFINE i == j - n + 1
  <2>1. i \in 2 .. p - 1 /\ i \in 1 .. p - 1 /\ i \in 2 .. Len(seq) /\ n + i - 1 = j
    BY <1>2, <1>4
  <2>2. Near(seq, i, p)
    <3> SUFFICES ASSUME NEW k \in i + 1 .. p - 1
                 PROVE  ~IsAgain(seq[k])
      BY DEF Near
    <3>1. n + k - 1 \in j + 1 .. q - 1 /\ k \in 2 .. Len(seq)
      BY <1>2, <2>1
    <3>2. ~IsAgain(new[n + k - 1])
      <4> HIDE DEF q, n
      <4> QED
        BY <3>1 DEF Near
    <3> QED
      BY <1>1, <3>1, <3>2
  <2> HIDE DEF i
  <2>3. Stmt(seq[i]) \in Q
    BY <2>1, <2>2 DEF Guard
  <2>4. new[j] = seq[i]
    <3>1. new[n + i - 1] = seq[i]
      BY <1>1, <2>1
    <3> QED
      BY <2>1, <3>1
  <2> QED
    BY <2>3, <2>4
<1> QED
  BY <1>3, <1>4

\* What may take the place of an item.
Replaces(given, item) ==
    /\ given \in Seq(Items)
    /\ Stmt(item) \in Quieted => Guard(given, Len(given) + 1, Quieted)
    /\ Stmt(item) \in Staying => Guard(given, Len(given) + 1, Staying)
    /\ Stmt(item) \in Returning => \E j \in 1 .. Len(given) : Held(given, j)

Innocent(seq) == Guard(seq, Len(seq) + 1, Quieted)
HeldSomewhere(seq) == \E i \in 1 .. Len(seq) : Held(seq, i)

LEMMA HeldReplaced ==
  ASSUME NEW seq \in Seq(Items), seq # <<>>, NEW given, NEW new,
         new = given \o Tail(seq), Replaces(given, seq[1]), HeldSomewhere(seq)
  PROVE  HeldSomewhere(new)
<1> DEFINE n == Len(given)
<1>0. given \in Seq(Items)
  BY DEF Replaces
<1>1. /\ Len(new) = n + Len(seq) - 1
      /\ \A j \in 1 .. n : new[j] = given[j]
      /\ \A j \in 2 .. Len(seq) : new[n + j - 1] = seq[j]
  BY <1>0, Replaced
<1>2. n \in Nat /\ Len(seq) \in Nat /\ Len(seq) >= 1
  BY <1>0
<1>3. PICK i \in 1 .. Len(seq) : Held(seq, i)
  BY DEF HeldSomewhere
<1>4. CASE i = 1
  <2>1. Stmt(seq[1]) \in Returning
    BY <1>3, <1>4 DEF Held
  <2>2. PICK j \in 1 .. n : Held(given, j)
    BY <2>1 DEF Replaces
  <2>3. Near(new, j, Len(new) + 1)
    <3>0. (Len(new) + 1) - 1 = Len(new)
      BY <1>1, <1>2
    <3> SUFFICES ASSUME NEW k \in j + 1 .. Len(new)
                 PROVE  ~IsAgain(new[k])
      BY <3>0 DEF Near
    <3>1. CASE k <= n
      <4>1. k \in j + 1 .. (n + 1) - 1 /\ k \in 1 .. n
        BY <1>2, <3>1
      <4>2. ~IsAgain(given[k])
        <5> HIDE DEF n
        <5> QED
          BY <2>2, <4>1 DEF Held, Near, n
      <4> QED
        BY <1>1, <4>1, <4>2
    <3>2. CASE ~(k <= n)
      <4> DEFINE m == k - n + 1
      <4>1. m \in 2 .. Len(seq) /\ n + m - 1 = k /\ m \in 1 + 1 .. (Len(seq) + 1) - 1
        BY <1>1, <1>2, <3>2
      <4> HIDE DEF m
      <4>2. ~IsAgain(seq[m])
        BY <1>3, <1>4, <4>1 DEF Held, Near
      <4>3. new[n + m - 1] = seq[m]
        BY <1>1, <4>1
      <4> QED
        BY <4>1, <4>2, <4>3
    <3> QED
      BY <3>1, <3>2
  <2>4. new[j] = given[j]
    BY <1>1
  <2>5. IsAgain(given[j]) => Guard(new, j, Staying)
    <3> SUFFICES ASSUME Guard(given, j, Staying)
                 PROVE  Guard(new, j, Staying)
      BY <2>2 DEF Held
    <3> SUFFICES ASSUME NEW m \in 1 .. j - 1, Near(new, m, j)
                 PROVE  Stmt(new[m]) \in Staying
      BY DEF Guard
    <3>1. m \in 1 .. n /\ \A k \in m + 1 .. j - 1 : k \in 1 .. n
      BY <1>2
    <3>2. Near(given, m, j)
      BY <1>1, <3>1 DEF Near
    <3>3. Stmt(given[m]) \in Staying
      BY <3>2 DEF Guard
    <3> QED
      BY <1>1, <3>1, <3>3
  <2>6. Held(new, j)
    BY <2>2, <2>3, <2>4, <2>5 DEF Held
  <2>7. j \in 1 .. Len(new)
    BY <1>1, <1>2
  <2> QED
    BY <2>6, <2>7 DEF HeldSomewhere
<1>5. CASE i # 1
  <2> DEFINE q == n + i - 1
  <2>1. i \in 2 .. Len(seq) /\ i \in 2 .. Len(seq) + 1 /\ q \in 1 .. Len(new)
    BY <1>1, <1>2, <1>5
  <2>2. new[q] = seq[i]
    BY <1>1, <2>1
  <2>3. Near(new, q, Len(new) + 1)
    <3>0. (Len(new) + 1) - 1 = Len(new)
      BY <1>1, <1>2
    <3> SUFFICES ASSUME NEW k \in q + 1 .. Len(new)
                 PROVE  ~IsAgain(new[k])
      BY <3>0 DEF Near
    <3> DEFINE m == k - n + 1
    <3>1. m \in 2 .. Len(seq) /\ n + m - 1 = k /\ m \in i + 1 .. (Len(seq) + 1) - 1
      BY <1>1, <1>2, <2>1
    <3> HIDE DEF m
    <3>2. ~IsAgain(seq[m])
      BY <1>3, <3>1 DEF Held, Near
    <3>3. new[n + m - 1] = seq[m]
      BY <1>1, <3>1
    <3> QED
      BY <3>1, <3>2, <3>3
  <2>4. IsAgain(seq[i]) => Guard(new, q, Staying)
    <3> SUFFICES ASSUME Guard(seq, i, Staying)
                 PROVE  Guard(new, q, Staying)
      BY <1>3 DEF Held
    <3>1. Stmt(seq[1]) \in Staying => Guard(given, Len(given) + 1, Staying)
      BY DEF Replaces
    <3> QED
      BY <1>0, <2>1, <3>1, GuardReplaced
  <2>5. Held(new, q)
    <3> HIDE DEF q
    <3> QED
      BY <1>3, <2>2, <2>3, <2>4 DEF Held
  <2> QED
    BY <2>1, <2>5 DEF HeldSomewhere
<1> QED
  BY <1>4, <1>5

LEMMA InnocentReplaced ==
  ASSUME NEW seq \in Seq(Items), seq # <<>>, NEW given, NEW new,
         new = given \o Tail(seq), Replaces(given, seq[1]), Innocent(seq)
  PROVE  new \in Seq(Items) /\ Innocent(new)
<1>1. given \in Seq(Items) /\ (Stmt(seq[1]) \in Quieted => Guard(given, Len(given) + 1, Quieted))
  BY DEF Replaces
<1>2. new \in Seq(Items) /\ Len(new) = Len(given) + Len(seq) - 1
  BY <1>1, Replaced
<1> DEFINE p == Len(seq) + 1
<1>3. p \in 2 .. Len(seq) + 1 /\ Len(given) + p - 1 = Len(new) + 1
  BY <1>1, <1>2
<1>4. Guard(seq, p, Quieted)
  BY DEF Innocent
<1>5. Guard(new, Len(given) + p - 1, Quieted)
  <2> HIDE DEF p
  <2> QED
    BY <1>1, <1>3, <1>4, GuardReplaced
<1> QED
  BY <1>2, <1>3, <1>5 DEF Innocent

(* The front of a sequence is jumped over. *)
LEMMA InnocentSuffix ==
  ASSUME NEW seq \in Seq(Items), NEW m \in 1 .. Len(seq) + 1, NEW new,
         new = SubSeq(seq, m, Len(seq)), Innocent(seq)
  PROVE  /\ new \in Seq(Items) /\ Innocent(new)
         /\ Len(new) = Len(seq) - m + 1
         /\ \A j \in 1 .. Len(new) : new[j] = seq[j + m - 1]
<1>1. /\ new \in Seq(Items) /\ Len(new) = Len(seq) - m + 1
      /\ \A j \in 1 .. Len(new) : new[j] = seq[j + m - 1]
  OBVIOUS
<1>2. Len(seq) \in Nat /\ Len(new) \in Nat
  BY <1>1
<1>3. Innocent(new)
  <2> SUFFICES ASSUME NEW j \in 1 .. Len(new), Near(new, j, Len(new) + 1)
               PROVE  Stmt(new[j]) \in Quieted
    BY <1>2 DEF Innocent, Guard
  <2> DEFINE i == j + m - 1
  <2>1. i \in 1 .. (Len(seq) + 1) - 1
    BY <1>1, <1>2
  <2>2. Near(seq, i, Len(seq) + 1)
    <3> SUFFICES ASSUME NEW k \in i + 1 .. Len(seq)
                 PROVE  ~IsAgain(seq[k])
      BY <1>2 DEF Near
    <3> DEFINE l == k - m + 1
    <3>1. l \in j + 1 .. (Len(new) + 1) - 1 /\ l \in 1 .. Len(new) /\ l + m - 1 = k
      BY <1>1, <1>2
    <3> HIDE DEF l
    <3>2. ~IsAgain(new[l]) /\ new[l] = seq[l + m - 1]
      BY <1>1, <3>1 DEF Near
    <3> QED
      BY <3>1, <3>2
  <2>3. Stmt(seq[i]) \in Quieted
    <3> HIDE DEF i
    <3> QED
      BY <2>1, <2>2 DEF Innocent, Guard
  <2> QED
    BY <1>1, <2>3
<1> QED
  BY <1>1, <1>3

LEMMA HeldSuffix ==
  ASSUME NEW seq \in Seq(Items), NEW m \in 1 .. Len(seq) + 1, NEW new,
         new = SubSeq(seq, m, Len(seq)), NEW i \in m .. Len(seq), Held(seq, i)
  PROVE  HeldSomewhere(new)
<1>1. /\ new \in Seq(Items) /\ Len(new) = Len(seq) - m + 1
      /\ \A j \in 1 .. Len(new) : new[j] = seq[j + m - 1]
  OBVIOUS
<1>2. Len(seq) \in Nat /\ Len(new) \in Nat
  BY <1>1
<1> DEFINE q == i - m + 1
<1>3. q \in 1 .. Len(new) /\ q + m - 1 = i
  BY <1>1, <1>2
<1>4. new[q] = seq[i]
  BY <1>1, <1>3
<1>5. Near(new, q, Len(new) + 1)
  <2> SUFFICES ASSUME NEW l \in q + 1 .. Len(new)
               PROVE  ~IsAgain(new[l])
    BY <1>2 DEF Near
  <2>1. l + m - 1 \in i + 1 .. (Len(seq) + 1) - 1 /\ l \in 1 .. Len(new)
    BY <1>1, <1>2
  <2>2. ~IsAgain(seq[l + m - 1])
    BY <2>1 DEF Held, Near
  <2> QED
    BY <1>1, <2>1, <2>2
<1>6. IsAgain(seq[i]) => Guard(new, q, Staying)
  <2> SUFFICES ASSUME Guard(seq, i, Staying), NEW j \in 1 .. q - 1, Near(new, j, q)
               PROVE  Stmt(new[j]) \in Staying
    BY DEF Held, Guard
  <2> DEFINE k == j + m - 1
  <2>1. k \in 1 .. i - 1 /\ j \in 1 .. Len(new)
    BY <1>1, <1>2
  <2>2. Near(seq, k, i)
    <3> SUFFICES ASSUME NEW l \in k + 1 .. i - 1
                 PROVE  ~IsAgain(seq[l])
      BY DEF Near
    <3> DEFINE o == l - m + 1
    <3>1. o \in j + 1 .. q - 1 /\ o \in 1 .. Len(new) /\ o + m - 1 = l
      <4>1. /\ l \in Nat /\ i \in Nat /\ j \in Nat /\ m \in Nat /\ q \in 1 .. Len(new)
            /\ j + m - 1 < l /\ l < i /\ q = i - m + 1 /\ 1 <= j
        BY <1>2, <1>3, <2>1
      <4> HIDE DEF q, k
      <4>2. o \in j + 1 .. q - 1 /\ o + m - 1 = l
        BY <4>1
      <4> QED
        BY <1>2, <4>1, <4>2
    <3> HIDE DEF o
    <3>2. ~IsAgain(new[o]) /\ new[o] = seq[o + m - 1]
      BY <1>1, <3>1 DEF Near
    <3> QED
      BY <3>1, <3>2
  <2>3. Stmt(seq[k]) \in Staying
    <3> HIDE DEF k
    <3> QED
      BY <2>1, <2>2 DEF Guard
  <2> QED
    BY <1>1, <2>1, <2>3
<1>7. Held(new, q)
  <2> HIDE DEF q
  <2> QED
    BY <1>4, <1>5, <1>6 DEF Held
<1> QED
  BY <1>3, <1>7 DEF HeldSomewhere

-----------------------------------------------------------------------------
(* The judgements of a statement and those of its parts. *)

LEMMA RoomFacts ==
  ASSUME NEW stmt \in Statements, NEW depth \in Nat, NEW level \in Nat, Room(stmt, depth, level)
  PROVE  /\ depth < MAX_NESTING_DEPTH
         /\ \A i \in DOMAIN stmt.parts :
               Room(stmt.parts[i], depth + 1, level + 1) /\ Room(stmt.parts[i], depth + 2, level + 1)
<1>1. ~DeepValue(PastHalf, stmt, level)
  BY PastHalfIs DEF Room
<1>2. ~(2 * level > MAX_NESTING_DEPTH)
  BY <1>1 DEF DeepValue
<1>3. \A i \in DOMAIN stmt.parts : ~PastHalf[stmt.parts[i]][level + 1]
  BY <1>1 DEF DeepValue
<1>4. depth < 2 * level
  BY DEF Room
<1>5. depth + 1 < 2 * (level + 1) /\ depth + 2 < 2 * (level + 1) /\ depth < MAX_NESTING_DEPTH
  BY <1>2, <1>4, DepthAssumption
<1> QED
  BY <1>3, <1>5 DEF Room

LEMMA StayingFacts ==
  ASSUME NEW stmt \in Staying
  PROVE  /\ stmt \in Statements
         /\ stmt.kind # "break"
         /\ stmt.kind \in {"block", "if"} => \A i \in DOMAIN stmt.parts : stmt.parts[i] \in Staying
<1>1. stmt \in Statements
  BY DEF Staying
<1>2. PICK depth \in Nat, level \in Nat :
         Room(stmt, depth, level) /\ ~escapes_the_loop[stmt][depth]
  BY DEF Staying
<1>3. ~EscapesValue(escapes_the_loop, stmt, depth)
  BY <1>1, <1>2, EscapesIs
<1>4. depth < MAX_NESTING_DEPTH
  BY <1>1, <1>2, RoomFacts
<1>5. stmt.kind # "break"
  BY <1>3, <1>4 DEF EscapesValue
<1>6. \A i \in DOMAIN Descended(stmt) : ~escapes_the_loop[Descended(stmt)[i]][depth + 1]
  BY <1>3, <1>4 DEF EscapesValue
<1>7. ASSUME stmt.kind \in {"block", "if"}, NEW i \in DOMAIN stmt.parts
      PROVE  stmt.parts[i] \in Staying
  <2>1. ~escapes_the_loop[stmt.parts[i]][depth + 1]
    BY <1>6, <1>7 DEF Descended
  <2>2. Room(stmt.parts[i], depth + 1, level + 1)
    BY <1>1, <1>2, RoomFacts
  <2>3. stmt.parts[i] \in Statements
    BY <1>1, StatementFacts
  <2>4. depth + 1 \in Nat /\ level + 1 \in Nat
    OBVIOUS
  <2> QED
    BY <2>1, <2>2, <2>3, <2>4 DEF Staying
<1> QED
  BY <1>1, <1>5, <1>7

LEMMA ReturningFacts ==
  ASSUME NEW stmt \in Returning
  PROVE  /\ stmt \in Statements
         /\ stmt.kind \notin {"break", "continue", "other"}
         /\ stmt.kind = "block" => \E i \in DOMAIN stmt.parts : stmt.parts[i] \in Returning
         /\ stmt.kind = "if" => HasElse(stmt) /\ \A arm \in {1, 2} : stmt.parts[arm] \in Returning
         /\ IsLoop(stmt) => CannotEnd(stmt) /\ stmt.parts[1] \in Staying
<1>1. stmt \in Statements
  BY DEF Returning
<1>2. PICK depth \in Nat, level \in Nat :
         Room(stmt, depth, level) /\ always_returns[stmt][depth]
  BY DEF Returning
<1>3. ReturnsValue(always_returns, stmt, depth)
  BY <1>1, <1>2, ReturnsIs
<1>4. ~(depth >= MAX_NESTING_DEPTH)
  <2>1. depth < MAX_NESTING_DEPTH
    BY <1>1, <1>2, RoomFacts
  <2> QED
    BY <2>1, DepthAssumption
<1>5. \/ stmt.kind = "return"
      \/ stmt.kind = "block" /\ \E i \in DOMAIN stmt.parts : always_returns[stmt.parts[i]][depth + 2]
      \/ /\ stmt.kind = "if" /\ HasElse(stmt)
         /\ \A arm \in {1, 2} : always_returns[stmt.parts[arm]][depth + 1]
      \/ IsLoop(stmt) /\ CannotEnd(stmt) /\ ~escapes_the_loop[stmt.parts[1]][depth + 1]
  BY <1>3, <1>4 DEF ReturnsValue
<1>6. depth + 1 \in Nat /\ depth + 2 \in Nat /\ level + 1 \in Nat
  OBVIOUS
<1>7. \A i \in DOMAIN stmt.parts :
         /\ stmt.parts[i] \in Statements
         /\ Room(stmt.parts[i], depth + 1, level + 1)
         /\ Room(stmt.parts[i], depth + 2, level + 1)
  BY <1>1, <1>2, StatementFacts, RoomFacts
<1>8. stmt.kind \notin {"break", "continue", "other"}
  BY <1>5 DEF IsLoop
<1>9. ASSUME stmt.kind = "block"
      PROVE  \E i \in DOMAIN stmt.parts : stmt.parts[i] \in Returning
  <2>1. PICK i \in DOMAIN stmt.parts : always_returns[stmt.parts[i]][depth + 2]
    BY <1>5, <1>9 DEF IsLoop
  <2>2. stmt.parts[i] \in Returning
    BY <1>6, <1>7, <2>1 DEF Returning
  <2> QED
    BY <2>2
<1>10. ASSUME stmt.kind = "if"
       PROVE  HasElse(stmt) /\ \A arm \in {1, 2} : stmt.parts[arm] \in Returning
  <2>1. HasElse(stmt) /\ \A arm \in {1, 2} : always_returns[stmt.parts[arm]][depth + 1]
    BY <1>5, <1>10 DEF IsLoop
  <2>2. \A arm \in {1, 2} : arm \in DOMAIN stmt.parts
    <3>1. stmt.parts \in Seq(Statements) /\ Len(stmt.parts) = 2
      BY <1>1, <2>1, StatementFacts DEF HasElse
    <3> QED
      BY <3>1
  <2>3. ASSUME NEW arm \in {1, 2}
        PROVE  stmt.parts[arm] \in Returning
    BY <1>6, <1>7, <2>1, <2>2 DEF Returning
  <2> QED
    BY <2>1, <2>3
<1>11. ASSUME IsLoop(stmt)
       PROVE  CannotEnd(stmt) /\ stmt.parts[1] \in Staying
  <2>1. CannotEnd(stmt) /\ ~escapes_the_loop[stmt.parts[1]][depth + 1]
    BY <1>5, <1>11 DEF IsLoop
  <2>2. 1 \in DOMAIN stmt.parts
    <3>1. stmt.parts \in Seq(Statements) /\ Len(stmt.parts) = 1
      BY <1>1, <1>11, StatementFacts
    <3> QED
      BY <3>1
  <2>3. stmt.parts[1] \in Staying
    BY <1>6, <1>7, <2>1, <2>2 DEF Staying
  <2> QED
    BY <2>1, <2>3
<1> QED
  BY <1>1, <1>8, <1>9, <1>10, <1>11

(* What each step puts in the place of the head. *)
LEMMA OneHeld ==
  ASSUME NEW stmt \in Returning
  PROVE  \E j \in 1 .. Len(<<stmt>>) : Held(<<stmt>>, j)
<1> DEFINE given == <<stmt>>
<1>1. Len(given) = 1 /\ given[1] = stmt
  OBVIOUS
<1>2. stmt \in Statements /\ ~IsAgain(stmt) /\ Stmt(stmt) = stmt
  BY ItemFacts DEF Returning
<1> HIDE DEF given
<1>3. Held(given, 1)
  BY <1>1, <1>2 DEF Held, Near
<1> QED
  BY <1>1, <1>3 DEF given

LEMMA OneReplaces ==
  ASSUME NEW item, NEW part \in Statements,
         Stmt(item) \in Quieted => part \in Quieted,
         Stmt(item) \in Staying => part \in Staying,
         Stmt(item) \in Returning => part \in Returning
  PROVE  Replaces(<<part>>, item)
<1> DEFINE given == <<part>>
<1>1. given \in Seq(Items) /\ Len(given) = 1 /\ given[1] = part /\ Stmt(part) = part
  <2>1. part \in Items /\ Stmt(part) = part
    BY ItemFacts
  <2> QED
    BY <2>1
<1>2. part \in Returning => \E j \in 1 .. Len(given) : Held(given, j)
  BY OneHeld
<1> HIDE DEF given
<1>3. \A Q : part \in Q => Guard(given, Len(given) + 1, Q)
  BY <1>1 DEF Guard
<1>4. Replaces(given, item)
  BY <1>1, <1>2, <1>3 DEF Replaces
<1> QED
  BY <1>4 DEF given

LEMMA NoneReplaces ==
  ASSUME NEW item, Stmt(item) \notin Returning
  PROVE  Replaces(<<>>, item)
<1>1. <<>> \in Seq(Items) /\ Len(<<>>) = 0
  OBVIOUS
<1>2. \A Q : Guard(<<>>, Len(<<>>) + 1, Q)
  BY <1>1 DEF Guard
<1> QED
  BY <1>1, <1>2 DEF Replaces

LEMMA ArmReplaces ==
  ASSUME NEW stmt \in Statements, stmt.kind = "if", NEW arm \in {1, 2}, arm = 1 \/ HasElse(stmt)
  PROVE  Replaces(<<stmt.parts[arm]>>, stmt)
<1> DEFINE part == stmt.parts[arm]
<1>1. arm \in DOMAIN stmt.parts /\ arm \in 1 .. Len(stmt.parts)
  <2>1. stmt.parts \in Seq(Statements) /\ Len(stmt.parts) \in {1, 2}
    BY StatementFacts
  <2>2. Len(stmt.parts) = 2 \/ arm = 1
    BY DEF HasElse
  <2>3. arm \in 1 .. Len(stmt.parts)
    BY <2>1, <2>2
  <2> QED
    BY <2>1, <2>3
<1>2. part \in Statements
  BY <1>1, StatementFacts
<1>3. Stmt(stmt) = stmt /\ ~IsLoop(stmt)
  BY ItemFacts DEF IsLoop
<1>4. stmt \in Quieted => part \in Quieted
  BY <1>1, <1>2, <1>3, QuietParts DEF Quieted
<1>5. stmt \in Staying => part \in Staying
  BY <1>1, StayingFacts
<1>6. stmt \in Returning => part \in Returning
  BY ReturningFacts
<1> HIDE DEF part
<1>7. Replaces(<<part>>, stmt)
  BY <1>2, <1>3, <1>4, <1>5, <1>6, OneReplaces
<1> QED
  BY <1>7 DEF part

LEMMA BlockReplaces ==
  ASSUME NEW stmt \in Statements, stmt.kind = "block"
  PROVE  Replaces(stmt.parts, stmt)
<1> DEFINE given == stmt.parts
<1>1. given \in Seq(Statements) /\ \A i \in DOMAIN given : given[i] \in Statements
  BY StatementFacts
<1>2. Stmt(stmt) = stmt /\ ~IsLoop(stmt)
  BY ItemFacts DEF IsLoop
<1>3. stmt \in Quieted => \A i \in DOMAIN given : given[i] \in Quieted
  BY <1>1, <1>2, QuietParts DEF Quieted
<1>4. stmt \in Staying => \A i \in DOMAIN given : given[i] \in Staying
  BY StayingFacts
<1>5. stmt \in Returning => \E i \in DOMAIN given : given[i] \in Returning
  BY ReturningFacts
<1> HIDE DEF given
<1>6. given \in Seq(Items) /\ Len(given) \in Nat /\ DOMAIN given = 1 .. Len(given)
  <2>1. Statements \subseteq Items
    BY DEF Items
  <2> QED
    BY <1>1, <2>1
<1>7. \A i \in DOMAIN given : ~IsAgain(given[i]) /\ Stmt(given[i]) = given[i]
  BY <1>1, ItemFacts
<1>8. \A Q : (\A i \in DOMAIN given : given[i] \in Q) => Guard(given, Len(given) + 1, Q)
  BY <1>6, <1>7 DEF Guard
<1>9. ASSUME NEW i \in DOMAIN given, given[i] \in Returning
      PROVE  Held(given, i)
  <2>1. Near(given, i, Len(given) + 1)
    BY <1>6, <1>7 DEF Near
  <2> QED
    BY <1>7, <1>9, <2>1 DEF Held
<1>10. Replaces(given, stmt)
  BY <1>2, <1>3, <1>4, <1>5, <1>6, <1>8, <1>9 DEF Replaces
<1> QED
  BY <1>10 DEF given

LEMMA RoundReplaces ==
  ASSUME NEW loop \in Statements, IsLoop(loop)
  PROVE  Replaces(<<loop.parts[1], Again(loop)>>, loop)
<1> DEFINE part == loop.parts[1]
           given == <<part, Again(loop)>>
<1>1. part \in Statements
  BY LoopBody
<1>2. /\ ~IsAgain(part) /\ Stmt(part) = part /\ part \in Items /\ Stmt(loop) = loop
      /\ IsAgain(Again(loop)) /\ Stmt(Again(loop)) = loop /\ Again(loop) \in Items
  BY <1>1, ItemFacts
<1>3. loop \in Returning => part \in Staying
  BY ReturningFacts
<1> HIDE DEF part
<1>4. given \in Seq(Items) /\ Len(given) = 2 /\ given[1] = part /\ given[2] = Again(loop)
  BY <1>2
<1> HIDE DEF given
<1>5. ASSUME NEW Q, loop \in Q
      PROVE  Guard(given, Len(given) + 1, Q)
  <2> SUFFICES ASSUME NEW j \in 1 .. 2, Near(given, j, 3)
               PROVE  Stmt(given[j]) \in Q
    BY <1>4 DEF Guard
  <2>1. j # 1
    <3>1. 2 \in 1 + 1 .. 3 - 1
      OBVIOUS
    <3> QED
      BY <1>2, <1>4, <3>1 DEF Near
  <2>2. j = 2
    BY <2>1
  <2> QED
    BY <1>2, <1>4, <1>5, <2>2
<1>6. ASSUME loop \in Returning
      PROVE  Held(given, 2)
  <2>1. Near(given, 2, Len(given) + 1)
    BY <1>4 DEF Near
  <2>2. Guard(given, 2, Staying)
    <3> SUFFICES ASSUME NEW j \in 1 .. 1
                 PROVE  Stmt(given[j]) \in Staying
      BY DEF Guard
    <3>1. j = 1
      OBVIOUS
    <3> QED
      BY <1>2, <1>3, <1>4, <1>6, <3>1
  <2> QED
    BY <1>2, <1>4, <1>6, <2>1, <2>2 DEF Held
<1>7. Replaces(given, loop)
  <2>1. 2 \in 1 .. Len(given)
    BY <1>4
  <2> QED
    BY <1>2, <1>4, <1>5, <1>6, <2>1 DEF Replaces
<1> QED
  BY <1>7 DEF given, part

-----------------------------------------------------------------------------
(* What the analysis of a function accepts. *)

LEMMA AnalysisFacts ==
  ASSUME NEW stmts \in Seq(Statements), NEW main \in BOOLEAN
  PROVE  /\ check_function(stmts, main) \subseteq Messages
         /\ check_function(stmts, main) = {} =>
               /\ \A i \in 1 .. Len(stmts) : stmts[i] \in Quieted
               /\ ~main => \E i \in DOMAIN stmts : always_returns[stmts[i]][1]
<1> DEFINE start == [loop_depth |-> 0, reports |-> {}]
           walk == InTurn(stmt_walk, 0, start, stmts)
           found == check_function(stmts, main)
           returns == \E i \in DOMAIN stmts : always_returns[stmts[i]][1]
<1>1. start \in Walks /\ start.loop_depth = 0
  BY DEF Walks
<1>2. Growing(stmt_walk, 0)
  BY WalkGrows
<1>3. walk \in Walks
  <2>1. Grows(start, walk)
    <3> HIDE DEF start
    <3> QED
      BY <1>1, <1>2, InTurnGrows
  <2> QED
    BY <2>1 DEF Grows
<1>4. found = IF main \/ returns THEN walk.reports ELSE Report(walk, "reaches the end").reports
  <2>1. found = check_reaches_the_end(walk, stmts, main).reports
    BY DEF check_function
  <2>2. block_always_returns(stmts, 0) = returns
    BY DEF block_always_returns, SomeOf
  <2> HIDE DEF walk, found, returns
  <2> QED
    BY <2>1, <2>2 DEF check_reaches_the_end
<1>5. walk.reports \subseteq Messages
  <2> HIDE DEF walk
  <2> QED
    BY <1>3 DEF Walks
<1>6. /\ Report(walk, "reaches the end").reports \subseteq Messages
      /\ "reaches the end" \in Report(walk, "reaches the end").reports
  <2> HIDE DEF walk
  <2> QED
    BY <1>3, ReportGrows DEF Messages, Walks, Grows
<1>7. found \subseteq Messages
  <2> HIDE DEF walk, found, returns
  <2> QED
    BY <1>4, <1>5, <1>6
<1>8. ASSUME found = {}
      PROVE  walk.reports = {} /\ (~main => returns)
  <2> HIDE DEF walk, found, returns
  <2> QED
    BY <1>4, <1>6, <1>8
<1>9. ASSUME walk.reports = {}
      PROVE  \A i \in 1 .. Len(stmts) : stmts[i] \in Quieted
  <2>1. \A i \in 1 .. Len(stmts) : Quiet(stmts[i])
    <3> HIDE DEF start
    <3> QED
      BY <1>1, <1>9, QuietInTurn
  <2>2. \A i \in 1 .. Len(stmts) : stmts[i] \in Statements
    OBVIOUS
  <2> QED
    BY <2>1, <2>2 DEF Quieted
<1> HIDE DEF walk, found, returns
<1>10. found = {} => (\A i \in 1 .. Len(stmts) : stmts[i] \in Quieted) /\ (~main => returns)
  BY <1>8, <1>9
<1> QED
  BY <1>7, <1>10 DEF found, returns

-----------------------------------------------------------------------------
(* The invariant: as long as a function runs, what is left of it jumps out *)
(* of no loop it is not in, and holds an item that always returns.         *)

Shallow == \A i \in DOMAIN body : ~PastHalf[body[i]][1]

RunInv ==
    /\ body \in Seq(Statements)
    /\ is_main \in BOOLEAN
    /\ todo \in Seq(Items)
    /\ TypeOK
    /\ phase = "running" => Innocent(todo)
    /\ phase = "running" /\ ~is_main /\ Shallow => HeldSomewhere(todo)
    /\ phase = "fell off" => ~Shallow

LEMMA InitRun == Init => RunInv
<1> SUFFICES ASSUME Init
             PROVE  RunInv
  OBVIOUS
<1>1. body \in Seq(Statements)
  BY StatementAssumption DEF Init
<1>2. TypeOK
  BY DEF Init, TypeOK
<1>3. todo \in Seq(Items) /\ phase = "analysis" /\ is_main \in BOOLEAN
  BY DEF Init
<1> QED
  BY <1>1, <1>2, <1>3 DEF RunInv

LEMMA AnalyzeKeeps ==
  ASSUME RunInv, analyze
  PROVE  RunInv'
<1>1. body \in Seq(Statements) /\ is_main \in BOOLEAN /\ phase = "analysis" /\ todo = <<>>
  BY DEF RunInv, TypeOK, analyze
<1>2. /\ reports' = check_function(body, is_main)
      /\ body' = body /\ is_main' = is_main
  BY DEF analyze
<1>3. reports' \subseteq Messages
  BY <1>1, <1>2, AnalysisFacts
<1>4. CASE reports' = {}
  <2>1. phase' = "running" /\ todo' = body
    BY <1>4 DEF analyze, Accepted
  <2>2. /\ \A i \in 1 .. Len(body) : body[i] \in Quieted
        /\ ~is_main => \E i \in DOMAIN body : always_returns[body[i]][1]
    BY <1>1, <1>2, <1>4, AnalysisFacts
  <2>3. DOMAIN body = 1 .. Len(body) /\ Len(body) \in Nat /\ \A i \in DOMAIN body : body[i] \in Statements
    BY <1>1
  <2>4. \A i \in DOMAIN body : ~IsAgain(body[i]) /\ Stmt(body[i]) = body[i]
    BY <2>3, ItemFacts
  <2>5. body \in Seq(Items)
    <3>1. Statements \subseteq Items
      BY DEF Items
    <3> QED
      BY <1>1, <3>1
  <2>6. Innocent(body)
    BY <2>2, <2>3, <2>4 DEF Innocent, Guard
  <2>7. ASSUME ~is_main, Shallow
        PROVE  HeldSomewhere(body)
    <3>1. PICK i \in DOMAIN body : always_returns[body[i]][1]
      BY <2>2, <2>7
    <3>2. Room(body[i], 1, 1)
      BY <2>7 DEF Room, Shallow
    <3>3. body[i] \in Returning
      BY <2>3, <3>1, <3>2 DEF Returning
    <3>4. Near(body, i, Len(body) + 1)
      BY <2>3, <2>4 DEF Near
    <3>5. Held(body, i)
      BY <2>4, <3>3, <3>4 DEF Held
    <3> QED
      BY <2>3, <3>5 DEF HeldSomewhere
  <2>8. Shallow' = Shallow
    BY <1>2 DEF Shallow
  <2>9. TypeOK'
    BY <1>4, <2>1 DEF TypeOK
  <2> QED
    BY <1>1, <1>2, <2>1, <2>5, <2>6, <2>7, <2>8, <2>9 DEF RunInv
<1>5. CASE reports' # {}
  <2>1. phase' = "rejected" /\ todo' = <<>>
    BY <1>1, <1>5 DEF analyze, Accepted
  <2>2. TypeOK'
    BY <1>3, <1>5, <2>1 DEF TypeOK, Messages
  <2>3. todo' \in Seq(Items)
    BY <2>1
  <2> QED
    BY <1>1, <1>2, <2>1, <2>2, <2>3 DEF RunInv
<1> QED
  BY <1>4, <1>5

(* The head of what is left gives way to what may take its place. *)
LEMMA GoesOn ==
  ASSUME RunInv, phase = "running", todo # <<>>, NEW given, Replaces(given, Head(todo)),
         Goes(given \o Tail(todo))
  PROVE  RunInv'
<1>1. todo \in Seq(Items) /\ Head(todo) = todo[1]
  BY DEF RunInv
<1>2. Innocent(todo) /\ (~is_main /\ Shallow => HeldSomewhere(todo))
  BY DEF RunInv
<1>3. todo' = given \o Tail(todo) /\ UNCHANGED <<body, is_main, phase, reports>>
  BY DEF Goes
<1>4. Replaces(given, todo[1])
  BY <1>1
<1>5. todo' \in Seq(Items) /\ Innocent(todo')
  BY <1>1, <1>2, <1>3, <1>4, InnocentReplaced
<1>6. HeldSomewhere(todo) => HeldSomewhere(todo')
  BY <1>1, <1>3, <1>4, HeldReplaced
<1>7. Shallow' = Shallow
  BY <1>3 DEF Shallow
<1>8. TypeOK'
  BY <1>3 DEF RunInv, TypeOK
<1> QED
  BY <1>2, <1>3, <1>5, <1>6, <1>7, <1>8 DEF RunInv

LEMMA HeadFacts ==
  ASSUME RunInv, NEW kind, Executes(kind), kind # "again"
  PROVE  /\ phase = "running" /\ todo # <<>> /\ Head(todo) = todo[1] /\ 1 \in 1 .. Len(todo)
         /\ Head(todo) \in Statements /\ Stmt(Head(todo)) = Head(todo) /\ Head(todo).kind = kind
<1>1. phase = "running" /\ todo # <<>> /\ Head(todo).kind = kind
  BY DEF Executes
<1>2. todo \in Seq(Items)
  BY DEF RunInv
<1>3. Head(todo) = todo[1] /\ 1 \in 1 .. Len(todo) /\ Head(todo) \in Items
  BY <1>1, <1>2
<1>4. Head(todo) \in Statements
  <2>1. ~IsAgain(Head(todo))
    BY <1>1 DEF IsAgain
  <2> QED
    BY <1>3, <2>1, ItemFacts DEF Items
<1>5. Stmt(Head(todo)) = Head(todo)
  BY <1>4, ItemFacts
<1> QED
  BY <1>1, <1>3, <1>4, <1>5

LEMMA OutcomeFacts ==
  ASSUME NEW stmt \in Statements, NEW holds \in Outcomes(stmt.when)
  PROVE  holds \in BOOLEAN /\ (CannotEnd(stmt) => holds)
<1>1. stmt.when \in {Always, Never, Maybe, Absent}
  BY StatementFacts
<1>2. CASE stmt.when \in {Always, Absent}
  <2>1. Outcomes(stmt.when) = {TRUE}
    BY <1>2 DEF Outcomes, Always, Never, Maybe, Absent
  <2> QED
    BY <2>1
<1>3. CASE stmt.when = Never
  <2>1. Outcomes(stmt.when) = {FALSE} /\ ~CannotEnd(stmt)
    BY <1>3 DEF Outcomes, CannotEnd, is_always_true, Always, Never, Maybe, Absent
  <2> QED
    BY <2>1
<1>4. CASE stmt.when = Maybe
  <2>1. Outcomes(stmt.when) = BOOLEAN /\ ~CannotEnd(stmt)
    BY <1>4 DEF Outcomes, CannotEnd, is_always_true, Always, Never, Maybe, Absent
  <2> QED
    BY <2>1
<1> QED
  BY <1>1, <1>2, <1>3, <1>4

LEMMA NoneGiven ==
  ASSUME RunInv, todo # <<>>
  PROVE  Tail(todo) = <<>> \o Tail(todo)
<1> DEFINE rest == Tail(todo)
<1>1. rest \in Seq(Items)
  <2>1. todo \in Seq(Items)
    BY DEF RunInv
  <2> QED
    BY <2>1
<1> HIDE DEF rest
<1>2. rest = <<>> \o rest
  BY <1>1, ConcatEmptySeq
<1> QED
  BY <1>2 DEF rest

LEMMA BranchKeeps ==
  ASSUME RunInv, branch
  PROVE  RunInv'
<1> DEFINE stmt == Head(todo)
<1>1. /\ phase = "running" /\ todo # <<>> /\ stmt \in Statements /\ Stmt(stmt) = stmt
      /\ stmt.kind = "if"
  <2>1. Executes("if") /\ "if" # "again"
    BY DEF branch
  <2> QED
    BY <2>1, HeadFacts
<1>2. PICK holds \in Outcomes(stmt.when) :
         Goes(CASE holds -> <<stmt.parts[1]>> \o Tail(todo)
                [] ~holds /\ HasElse(stmt) -> <<stmt.parts[2]>> \o Tail(todo)
                [] OTHER -> Tail(todo))
  BY DEF branch
<1>3. holds \in BOOLEAN
  BY <1>1, OutcomeFacts
<1> HIDE DEF stmt
<1>4. CASE holds
  <2>1. Goes(<<stmt.parts[1]>> \o Tail(todo))
    BY <1>2, <1>3, <1>4
  <2>2. Replaces(<<stmt.parts[1]>>, stmt)
    BY <1>1, ArmReplaces
  <2> QED
    BY <1>1, <2>1, <2>2, GoesOn DEF stmt
<1>5. CASE ~holds /\ HasElse(stmt)
  <2>1. Goes(<<stmt.parts[2]>> \o Tail(todo))
    BY <1>2, <1>3, <1>5
  <2>2. Replaces(<<stmt.parts[2]>>, stmt)
    BY <1>1, <1>5, ArmReplaces
  <2> QED
    BY <1>1, <2>1, <2>2, GoesOn DEF stmt
<1>6. CASE ~holds /\ ~HasElse(stmt)
  <2>1. Goes(Tail(todo))
    BY <1>2, <1>3, <1>6
  <2>2. Goes(<<>> \o Tail(todo))
    BY <1>1, <2>1, NoneGiven
  <2>3. Replaces(<<>>, stmt)
    BY <1>1, <1>6, NoneReplaces, ReturningFacts
  <2> QED
    BY <1>1, <2>2, <2>3, GoesOn DEF stmt
<1> QED
  BY <1>3, <1>4, <1>5, <1>6

LEMMA LoopKeeps ==
  ASSUME RunInv, NEW kind \in {"while", "for"}, Loop(kind)
  PROVE  RunInv'
<1> DEFINE loop == Head(todo)
<1>1. /\ phase = "running" /\ todo # <<>> /\ loop \in Statements /\ Stmt(loop) = loop
      /\ loop.kind = kind
  <2>1. Executes(kind) /\ kind # "again"
    BY DEF Loop
  <2> QED
    BY <2>1, HeadFacts
<1>2. PICK holds \in Outcomes(loop.when) :
         Goes(IF holds THEN <<loop.parts[1], Again(loop)>> \o Tail(todo) ELSE Tail(todo))
  BY DEF Loop
<1>3. holds \in BOOLEAN /\ (CannotEnd(loop) => holds)
  BY <1>1, OutcomeFacts
<1>4. IsLoop(loop)
  BY <1>1 DEF IsLoop
<1> HIDE DEF loop
<1>5. CASE holds
  <2>1. Goes(<<loop.parts[1], Again(loop)>> \o Tail(todo))
    BY <1>2, <1>3, <1>5
  <2>2. Replaces(<<loop.parts[1], Again(loop)>>, loop)
    BY <1>1, <1>4, RoundReplaces
  <2> QED
    BY <1>1, <2>1, <2>2, GoesOn DEF loop
<1>6. CASE ~holds
  <2>1. Goes(Tail(todo))
    BY <1>2, <1>3, <1>6
  <2>2. Goes(<<>> \o Tail(todo))
    BY <1>1, <2>1, NoneGiven
  <2>3. loop \notin Returning
    BY <1>3, <1>4, <1>6, ReturningFacts
  <2>4. Replaces(<<>>, loop)
    BY <1>1, <2>3, NoneReplaces
  <2> QED
    BY <1>1, <2>2, <2>4, GoesOn DEF loop
<1> QED
  BY <1>3, <1>5, <1>6

LEMMA NextRoundKeeps ==
  ASSUME RunInv, next_round
  PROVE  RunInv'
<1> DEFINE item == Head(todo)
<1>1. /\ phase = "running" /\ todo # <<>> /\ IsAgain(item)
      /\ Goes(<<item.loop>> \o Tail(todo))
  BY DEF next_round
<1>2. item \in Items
  <2>1. todo \in Seq(Items)
    BY DEF RunInv
  <2> QED
    BY <1>1, <2>1
<1> HIDE DEF item
<1>3. item.loop \in Statements /\ Stmt(item) = item.loop
  <2>1. item \notin Statements
    BY <1>1, ItemFacts
  <2>2. PICK loop \in Statements : item = Again(loop)
    BY <1>2, <2>1 DEF Items
  <2> QED
    BY <1>1, <2>2, ItemFacts DEF Stmt
<1>4. Replaces(<<item.loop>>, item)
  BY <1>3, OneReplaces
<1> QED
  BY <1>1, <1>4, GoesOn DEF item

LEMMA BlockKeeps ==
  ASSUME RunInv, block
  PROVE  RunInv'
<1>1. Executes("block") /\ "block" # "again" /\ Goes(Head(todo).parts \o Tail(todo))
  BY DEF block
<1>2. /\ phase = "running" /\ todo # <<>> /\ Head(todo) \in Statements
      /\ Head(todo).kind = "block"
  BY <1>1, HeadFacts
<1>3. Replaces(Head(todo).parts, Head(todo))
  BY <1>2, BlockReplaces
<1> QED
  BY <1>1, <1>2, <1>3, GoesOn

LEMMA OtherKeeps ==
  ASSUME RunInv, other
  PROVE  RunInv'
<1>1. Executes("other") /\ "other" # "again" /\ Goes(Tail(todo))
  BY DEF other
<1>2. /\ phase = "running" /\ todo # <<>> /\ Head(todo) \in Statements
      /\ Stmt(Head(todo)) = Head(todo) /\ Head(todo).kind = "other"
  BY <1>1, HeadFacts
<1>3. Replaces(<<>>, Head(todo))
  BY <1>2, NoneReplaces, ReturningFacts
<1>4. Goes(<<>> \o Tail(todo))
  BY <1>1, <1>2, NoneGiven
<1> QED
  BY <1>2, <1>3, <1>4, GoesOn

LEMMA JumpKeeps ==
  ASSUME RunInv, NEW breaking \in BOOLEAN, leave_loop(breaking)
  PROVE  RunInv'
<1> DEFINE m == Innermost
           cut == IF breaking THEN m + 1 ELSE m
           n == Len(todo)
<1>1. /\ LoopsUnderWay # {}
      /\ Goes(SubSeq(todo, IF breaking THEN Innermost + 1 ELSE Innermost, Len(todo)))
  BY DEF leave_loop
<1>2. /\ phase = "running" /\ todo # <<>> /\ Head(todo) = todo[1] /\ 1 \in 1 .. Len(todo)
      /\ Head(todo) \in Statements /\ Stmt(Head(todo)) = Head(todo)
      /\ Head(todo).kind = IF breaking THEN "break" ELSE "continue"
  <2> DEFINE kind == IF breaking THEN "break" ELSE "continue"
  <2>1. Executes(kind) /\ kind # "again"
    BY DEF leave_loop
  <2> HIDE DEF kind
  <2>2. /\ phase = "running" /\ todo # <<>> /\ Head(todo) = todo[1] /\ 1 \in 1 .. Len(todo)
        /\ Head(todo) \in Statements /\ Stmt(Head(todo)) = Head(todo) /\ Head(todo).kind = kind
    BY <2>1, HeadFacts
  <2> QED
    BY <2>2 DEF kind
<1>3. todo \in Seq(Items) /\ n \in Nat /\ DOMAIN todo = 1 .. n
  <2>1. todo \in Seq(Items)
    BY DEF RunInv
  <2> QED
    BY <2>1
<1>4. /\ m \in 1 .. n /\ IsAgain(todo[m])
      /\ \A j \in 1 .. m - 1 : ~IsAgain(todo[j])
  <2>1. LoopsUnderWay \subseteq Nat
    BY <1>3 DEF LoopsUnderWay
  <2>2. \E i \in LoopsUnderWay : \A j \in LoopsUnderWay : i <= j
    BY <1>1, <2>1, HasLeast
  <2>3. m \in LoopsUnderWay /\ \A j \in LoopsUnderWay : m <= j
    BY <2>2 DEF Innermost
  <2> HIDE DEF m
  <2>4. m \in 1 .. n /\ IsAgain(todo[m])
    BY <1>3, <2>3 DEF LoopsUnderWay
  <2>5. ASSUME NEW j \in 1 .. m - 1, IsAgain(todo[j])
        PROVE  FALSE
    <3>1. j \in 1 .. n /\ ~(m <= j)
      BY <1>3, <2>4
    <3>2. j \in LoopsUnderWay
      BY <1>3, <2>5, <3>1 DEF LoopsUnderWay
    <3> QED
      BY <2>3, <3>1, <3>2
  <2> QED
    BY <2>4, <2>5
<1>5. todo' = SubSeq(todo, cut, n) /\ UNCHANGED <<body, is_main, phase, reports>>
  BY <1>1 DEF Goes
<1> HIDE DEF m
<1>6. cut \in 1 .. n + 1
  BY <1>3, <1>4
<1>7. Innocent(todo)
  BY <1>2 DEF RunInv
<1>8. todo' \in Seq(Items) /\ Innocent(todo')
  <2> HIDE DEF cut
  <2> QED
    BY <1>3, <1>5, <1>6, <1>7, InnocentSuffix
<1>9. ASSUME HeldSomewhere(todo)
      PROVE  HeldSomewhere(todo')
  <2>1. PICK i \in 1 .. n : Held(todo, i)
    BY <1>9 DEF HeldSomewhere
  <2>2. m <= i
    <3> SUFFICES ASSUME i < m
                 PROVE  FALSE
      BY <1>3, <1>4
    <3>1. m \in i + 1 .. (n + 1) - 1
      BY <1>3, <1>4
    <3> QED
      BY <1>4, <2>1, <3>1 DEF Held, Near
  <2>3. ~(breaking /\ i = m)
    <3> SUFFICES ASSUME breaking, i = m
                 PROVE  FALSE
      OBVIOUS
    <3>1. Guard(todo, m, Staying)
      BY <1>4, <2>1 DEF Held
    <3>2. ~IsAgain(todo[1])
      BY <1>2, ItemFacts
    <3>3. 1 \in 1 .. m - 1
      BY <1>3, <1>4, <3>2
    <3>4. Near(todo, 1, m)
      BY <1>3, <1>4 DEF Near
    <3>5. Stmt(todo[1]) \in Staying
      BY <3>1, <3>3, <3>4 DEF Guard
    <3>6. Head(todo) \in Staying /\ Head(todo).kind = "break"
      BY <1>2, <3>5
    <3> QED
      BY <3>6, StayingFacts
  <2>4. i \in cut .. n
    BY <1>3, <1>4, <2>2, <2>3
  <2> HIDE DEF cut
  <2> QED
    BY <1>3, <1>5, <1>6, <2>1, <2>4, HeldSuffix
<1>10. Shallow' = Shallow
  BY <1>5 DEF Shallow
<1>11. TypeOK'
  BY <1>5, <1>2 DEF RunInv, TypeOK
<1>12. is_main' = is_main /\ body' = body /\ phase' = phase
  BY <1>5
<1> QED
  BY <1>2, <1>8, <1>9, <1>10, <1>11, <1>12 DEF RunInv

LEMMA EndKeeps ==
  ASSUME RunInv, return \/ closing_brace
  PROVE  RunInv'
<1>1. phase = "running"
  BY DEF return, Executes, closing_brace
<1>2. /\ todo' = <<>> /\ body' = body /\ is_main' = is_main /\ reports' = reports
      /\ phase' \in {"returned", "fell off"}
      /\ phase' = "fell off" => todo = <<>> /\ ~is_main
  BY DEF return, closing_brace, Ends, RunInv
<1>3. ASSUME phase' = "fell off"
      PROVE  ~Shallow
  <2>1. todo = <<>>
    BY <1>2, <1>3
  <2>2. Len(todo) = 0
    BY <2>1
  <2>3. ~HeldSomewhere(todo)
    BY <2>2 DEF HeldSomewhere
  <2> QED
    BY <1>1, <1>2, <1>3, <2>3 DEF RunInv
<1>4. Shallow' = Shallow
  BY <1>2 DEF Shallow
<1>5. TypeOK'
  BY <1>1, <1>2 DEF RunInv, TypeOK
<1>6. todo' \in Seq(Items) /\ phase' # "running"
  <2>1. <<>> \in Seq(Items)
    OBVIOUS
  <2> QED
    BY <1>2, <2>1
<1> QED
  BY <1>2, <1>3, <1>4, <1>5, <1>6 DEF RunInv

LEMMA NextKeeps == RunInv /\ [Next]_vars => RunInv'
<1> SUFFICES ASSUME RunInv, [Next]_vars
             PROVE  RunInv'
  OBVIOUS
<1>1. CASE analyze
  BY <1>1, AnalyzeKeeps
<1>2. CASE branch
  BY <1>2, BranchKeeps
<1>3. CASE while_loop
  BY <1>3, LoopKeeps DEF while_loop
<1>4. CASE for_loop
  BY <1>4, LoopKeeps DEF for_loop
<1>5. CASE next_round
  BY <1>5, NextRoundKeeps
<1>6. CASE \E breaking \in BOOLEAN : leave_loop(breaking)
  BY <1>6, JumpKeeps
<1>7. CASE block
  BY <1>7, BlockKeeps
<1>8. CASE other
  BY <1>8, OtherKeeps
<1>9. CASE return \/ closing_brace
  BY <1>9, EndKeeps
<1>10. CASE UNCHANGED vars
  <2>1. Shallow' = Shallow
    BY <1>10 DEF vars, Shallow
  <2>2. TypeOK' = TypeOK
    BY <1>10 DEF vars, TypeOK
  <2> QED
    BY <1>10, <2>1, <2>2 DEF vars, RunInv
<1> QED
  BY <1>1, <1>2, <1>3, <1>4, <1>5, <1>6, <1>7, <1>8, <1>9, <1>10 DEF Next

(* The invariant of a run: unless the body goes past half the limit, what  *)
(* is left to execute of an accepted function always holds a statement     *)
(* that returns on every path, which no jump can lead past.                *)
THEOREM SomethingLeftReturns == Spec => []RunInv
<1> QED
  BY InitRun, NextKeeps, PTL DEF Spec

(* A function the analyzer accepted, with a body that goes no deeper than  *)
(* half the limit, never runs off its closing brace, whatever way its      *)
(* branches and loops go.                                                  *)
THEOREM AcceptedNeverFallsSilently == Spec => []NoSilentFall
<1>1. RunInv => NoSilentFall
  BY DEF RunInv, NoSilentFall, Shallow, SomeOf
<1> QED
  BY <1>1, SomethingLeftReturns, PTL

(* A break or a continue that an accepted function reaches finds a loop    *)
(* under way to leave or to go on with.                                    *)
THEOREM AcceptedJumpsFindALoop == Spec => []LeavesALoop
<1>1. RunInv => LeavesALoop
  <2> SUFFICES ASSUME RunInv, phase = "running", todo # <<>>,
                      Head(todo).kind \in {"break", "continue"}, LoopsUnderWay = {}
               PROVE  FALSE
    BY DEF LeavesALoop
  <2> DEFINE kind == Head(todo).kind
  <2>1. Executes(kind) /\ kind # "again"
    BY DEF Executes
  <2>2. /\ Head(todo) = todo[1] /\ 1 \in 1 .. Len(todo) /\ Head(todo) \in Statements
        /\ Stmt(Head(todo)) = Head(todo)
    <3> HIDE DEF kind
    <3> QED
      BY <2>1, HeadFacts
  <2>3. todo \in Seq(Items) /\ Innocent(todo)
    BY DEF RunInv
  <2>4. \A k \in 1 .. Len(todo) : ~IsAgain(todo[k])
    BY <2>3 DEF LoopsUnderWay
  <2>5. Near(todo, 1, Len(todo) + 1)
    BY <2>3, <2>4 DEF Near
  <2>6. 1 \in 1 .. (Len(todo) + 1) - 1
    BY <2>2, <2>3
  <2>7. Stmt(todo[1]) \in Quieted
    BY <2>3, <2>5, <2>6 DEF Innocent, Guard
  <2>8. Quiet(Head(todo))
    BY <2>2, <2>7 DEF Quieted
  <2> QED
    BY <2>2, <2>8, QuietIsNoJump
<1> QED
  BY <1>1, SomethingLeftReturns, PTL

=============================================================================
