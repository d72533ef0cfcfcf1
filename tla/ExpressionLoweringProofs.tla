---------------------- MODULE ExpressionLoweringProofs ----------------------
(***************************************************************************)
(* For every survey result and every expression within it: no spilled      *)
(* operand and no parked argument is overwritten before it is used, the    *)
(* survey is always enough, and the counters return to zero.               *)
(*                                                                         *)
(* SpilledSurvives is not inductive: it needs that an activation above one *)
(* with a live temporary is strictly deeper.  That in turn needs depths    *)
(* and call depths to grow along the stack (Nested), and the bounds on     *)
(* both that the surveys give (Within).                                    *)
(***************************************************************************)
EXTENDS ExpressionLowering, SequenceTheorems, TLAPS

(* A position in an earlier row comes before every position of a later     *)
(* one.                                                                    *)
LEMMA RowBelow ==
  ASSUME NEW c \in Nat, NEW d \in Nat, NEW w \in Nat, NEW i \in 0 .. w - 1, c < d
  PROVE  c * w + i < d * w
<1>1. PICK k \in Nat : d = c + 1 + k
  <2>1. d - c - 1 \in Nat /\ d = c + 1 + (d - c - 1)
    OBVIOUS
  <2> QED
    BY <2>1
<1>2. d * w = c * w + w + k * w /\ k * w >= 0 /\ c * w \in Nat /\ k * w \in Nat
  BY <1>1
<1> QED
  BY <1>2

(* A prefix of a sequence. *)
LEMMA PrefixOfSeq ==
  ASSUME NEW S, NEW s \in Seq(S), NEW n \in 0 .. Len(s)
  PROVE  /\ SubSeq(s, 1, n) \in Seq(S)
         /\ Len(SubSeq(s, 1, n)) = n
         /\ \A i \in 1 .. n : SubSeq(s, 1, n)[i] = s[i]
  OBVIOUS

(* Along the stack neither counter falls; above a call the call depth      *)
(* rises, above any other operator the expression depth does.              *)
Nested(s) ==
  \A j, k \in 1 .. Len(s) :
    j < k => /\ s[j].depth <= s[k].depth
             /\ s[j].calls <= s[k].calls
             /\ s[j].kind = "call" => s[j].calls < s[k].calls
             /\ s[j].kind # "call" => s[j].depth < s[k].depth

(* What each activation is entitled to. *)
Within(s) ==
  \A k \in 1 .. Len(s) :
    /\ s[k].depth < k
    /\ k + 1 <= needs.temporaries
    /\ s[k].saved <= Saves(s[k])
    /\ s[k].survey = s[k].calls
    /\ s[k].kind = "call" =>
         s[k].calls + 1 <= needs.call_depth /\ s[k].args <= needs.arguments

(* The route an activation came by is the one the activation below takes   *)
(* its operands by, and says which counter it raised.                      *)
Routed(s) ==
  /\ s # <<>> => s[1].route = "statement" /\ s[1].depth = 0 /\ s[1].calls = 0
  /\ \A k \in 2 .. Len(s) :
       IF s[k - 1].kind = "call"
       THEN /\ s[k].route = "argument"
            /\ s[k].depth = s[k - 1].depth
            /\ s[k].calls = s[k - 1].calls + 1
       ELSE /\ s[k].route = "deeper"
            /\ s[k].depth = s[k - 1].depth + 1
            /\ s[k].calls = s[k - 1].calls

(* The generator's counters are those of the innermost activation. *)
Counters(s, d, c) ==
  /\ s = <<>> => d = 0 /\ c = 0
  /\ s # <<>> => d = s[Len(s)].depth /\ c = s[Len(s)].calls

Shape(s, d, c) == Nested(s) /\ Within(s) /\ Routed(s) /\ Counters(s, d, c)

IInv ==
  /\ TypeOK
  /\ Shape(stack, depth, call_depth)
  /\ SpilledSurvives
  /\ ParkedSurvives
  /\ SurveySuffices

(* Two activations that differ at most in how many operands were done. *)
SameButDone(a, b) ==
  /\ a.kind = b.kind /\ a.route = b.route /\ a.args = b.args /\ a.saved = b.saved
  /\ a.depth = b.depth /\ a.calls = b.calls /\ a.survey = b.survey

------------------------------------------------------------------------------

(* The surveyed numbers are natural numbers. *)
LEMMA NeedsType ==
  ASSUME needs \in Needs
  PROVE  /\ needs.temporaries \in Nat
         /\ needs.arguments \in Nat
         /\ needs.call_depth \in Nat
  BY LoweringNeedsAssumption

(* Counting an operand as done changes nothing else. *)
LEMMA OperandDoneFacts ==
  ASSUME NEW s \in Seq(Activations)
  PROVE  /\ OperandDone(s) \in Seq(Activations)
         /\ Len(OperandDone(s)) = Len(s)
         /\ \A k \in 1 .. Len(s) : SameButDone(OperandDone(s)[k], s[k])
<1>1. CASE s = <<>>
  BY <1>1 DEF OperandDone
<1>2. CASE s # <<>>
  <2>1. Len(s) \in Nat \ {0} /\ \A k \in 1 .. Len(s) : s[k] \in Activations
    BY <1>2, ElementOfSeq, EmptySeq
  <2> DEFINE top == [s[Len(s)] EXCEPT !.done = @ + 1]
  <2>2. top \in Activations /\ SameButDone(top, s[Len(s)])
    <3>1. s[Len(s)] \in Activations /\ s[Len(s)].done + 1 \in Nat
      BY <2>1 DEF Activations
    <3> DEFINE a == s[Len(s)]
    <3>2. a \in Activations /\ a.done + 1 \in Nat
      BY <3>1
    <3> HIDE DEF a
    <3>3. [a EXCEPT !.done = @ + 1] \in Activations
          /\ SameButDone([a EXCEPT !.done = @ + 1], a)
      BY <3>2 DEF Activations, SameButDone
    <3> QED
      BY <3>3 DEF a
  <2>3. OperandDone(s) = [s EXCEPT ![Len(s)] = top]
    BY <1>2 DEF OperandDone
  <2> HIDE DEF top
  <2>4. /\ OperandDone(s) \in Seq(Activations)
        /\ Len(OperandDone(s)) = Len(s)
        /\ \A k \in 1 .. Len(s) : OperandDone(s)[k] = IF k = Len(s) THEN top ELSE s[k]
    BY <2>1, <2>2, <2>3, ExceptSeq
  <2> QED
    BY <2>1, <2>2, <2>4 DEF SameButDone
<1> QED
  BY <1>1, <1>2

(* A stack that agrees with the walk's on its activations, operands done   *)
(* aside, has its shape and keeps its values.                              *)
LEMMA ShapeOfPrefix ==
  ASSUME NEW t \in Seq(Activations), stack \in Seq(Activations),
         Len(t) <= Len(stack),
         \A k \in 1 .. Len(t) : SameButDone(t[k], stack[k]),
         Nested(stack), Within(stack), Routed(stack)
  PROVE  Nested(t) /\ Within(t) /\ Routed(t)
<1>1. Len(t) \in Nat /\ Len(stack) \in Nat
  OBVIOUS
<1>2. Nested(t)
  BY <1>1 DEF Nested, SameButDone
<1>3. Within(t)
  BY <1>1 DEF Within, SameButDone, Saves
<1>4. Routed(t)
  <2>1. ASSUME t # <<>>
        PROVE  t[1].route = "statement" /\ t[1].depth = 0 /\ t[1].calls = 0
    <3>1. Len(t) \in Nat \ {0}
      BY <2>1, EmptySeq
    <3>2. stack # <<>>
      BY <3>1, <1>1, EmptySeq
    <3> QED
      BY <3>1, <3>2 DEF Routed, SameButDone
  <2>2. ASSUME NEW k \in 2 .. Len(t)
        PROVE  IF t[k - 1].kind = "call"
               THEN /\ t[k].route = "argument"
                    /\ t[k].depth = t[k - 1].depth
                    /\ t[k].calls = t[k - 1].calls + 1
               ELSE /\ t[k].route = "deeper"
                    /\ t[k].depth = t[k - 1].depth + 1
                    /\ t[k].calls = t[k - 1].calls
    <3>1. k \in 2 .. Len(stack) /\ k \in 1 .. Len(t) /\ k - 1 \in 1 .. Len(t)
      BY <1>1
    <3>2. SameButDone(t[k], stack[k]) /\ SameButDone(t[k - 1], stack[k - 1])
      BY <3>1
    <3> QED
      BY <3>1, <3>2 DEF Routed, SameButDone
  <2> QED
    BY <2>1, <2>2 DEF Routed
<1> QED
  BY <1>2, <1>3, <1>4

------------------------------------------------------------------------------

LEMMA InitIInv == Init => IInv
<1> SUFFICES ASSUME Init PROVE IInv
  OBVIOUS
<1>1. stack = <<>> /\ Len(stack) = 0 /\ depth = 0 /\ call_depth = 0 /\ unlowered = FALSE
  BY DEF Init
<1>2. TypeOK
  BY EmptySeq DEF Init, TypeOK, Nobody
<1>3. Shape(stack, depth, call_depth)
  BY <1>1 DEF Shape, Nested, Within, Routed, Counters
<1> QED
  BY <1>1, <1>2, <1>3 DEF IInv, SpilledSurvives, ParkedSurvives, SurveySuffices

(* What the invariant says of the innermost activation. *)
LEMMA TopFacts ==
  ASSUME IInv, stack # <<>>
  PROVE  /\ Len(stack) \in Nat \ {0}
         /\ Top \in Activations
         /\ depth = Top.depth /\ call_depth = Top.calls
         /\ Top.depth < Len(stack) /\ Len(stack) + 1 <= needs.temporaries
         /\ Top.saved <= Saves(Top) /\ Top.survey = Top.calls
         /\ Top.kind = "call" =>
              Top.calls + 1 <= needs.call_depth /\ Top.args <= needs.arguments
<1>1. stack \in Seq(Activations)
  BY DEF IInv, TypeOK
<1>2. Len(stack) \in Nat \ {0}
  BY <1>1, EmptySeq
<1>3. Top \in Activations
  BY <1>1, <1>2, ElementOfSeq DEF Top
<1>4. Within(stack) /\ Counters(stack, depth, call_depth)
  BY DEF IInv, Shape
<1> QED
  BY <1>2, <1>3, <1>4 DEF Within, Counters, Top

(* The slot of an argument a call is entitled to exists. *)
LEMMA ArgumentSlotExists ==
  ASSUME needs \in Needs, NEW c \in Nat, NEW i \in Nat,
         c + 1 <= needs.call_depth, i < needs.arguments
  PROVE  argument(c, i) \in ArgumentSlots
<1>1. needs.arguments \in Nat /\ needs.call_depth \in Nat
  BY NeedsType
<1>2. i \in 0 .. needs.arguments - 1 /\ c < needs.call_depth
  BY <1>1
<1>3. c * needs.arguments + i < needs.call_depth * needs.arguments
  BY <1>1, <1>2, RowBelow
<1>4. c * needs.arguments \in Nat /\ needs.call_depth * needs.arguments \in Nat
  BY <1>1
<1> QED
  BY <1>3, <1>4 DEF argument, ArgumentSlots

(* A step that at most drops activations and forgets what the dropped ones *)
(* wrote keeps the shape of the stack and every live value.                *)
LEMMA StackShrinks ==
  ASSUME IInv, needs' = needs,
         stack' \in Seq(Activations), Len(stack') <= Len(stack),
         \A k \in 1 .. Len(stack') : SameButDone(stack'[k], stack[k]),
         \A t \in TemporarySlots, k \in 1 .. Len(stack') : temps[t] = k => temps'[t] = k,
         \A p \in ArgumentSlots, k \in 1 .. Len(stack') : parked[p] = k => parked'[p] = k
  PROVE  /\ Nested(stack)' /\ Within(stack)' /\ Routed(stack)'
         /\ SpilledSurvives' /\ ParkedSurvives'
<1>1. /\ stack \in Seq(Activations) /\ Nested(stack) /\ Within(stack) /\ Routed(stack)
      /\ SpilledSurvives /\ ParkedSurvives /\ needs \in Needs
  BY DEF IInv, TypeOK, Shape
<1>2. Nested(stack') /\ Within(stack') /\ Routed(stack')
  BY <1>1, ShapeOfPrefix
<1>3. Within(stack)'
  BY <1>2 DEF Within
<1>4. Len(stack') \in Nat /\ Len(stack) \in Nat /\ 1 .. Len(stack') \subseteq 1 .. Len(stack)
  BY <1>1
<1>5. \A k \in 1 .. Len(stack') : stack[k] \in Activations
  BY <1>1, <1>4, ElementOfSeq
<1>6. SpilledSurvives'
  <2> SUFFICES ASSUME NEW k \in 1 .. Len(stack'),
                      stack'[k].kind \in Spilling, stack'[k].saved > 0
               PROVE  temps'[stack'[k].depth] = k
    BY DEF SpilledSurvives
  <2>1. /\ stack[k].kind \in Spilling /\ stack[k].saved > 0
        /\ stack'[k].depth = stack[k].depth
    BY DEF SameButDone
  <2>2. temps[stack[k].depth] = k
    BY <2>1, <1>1, <1>4 DEF SpilledSurvives
  <2>3. stack[k].depth \in TemporarySlots
    <3>1. stack[k].depth \in Nat /\ stack[k].depth < k /\ k + 1 <= needs.temporaries
      BY <1>1, <1>4, <1>5 DEF Within, Activations
    <3> QED
      BY <3>1, <1>1, NeedsType DEF TemporarySlots
  <2> QED
    BY <2>1, <2>2, <2>3
<1>7. ParkedSurvives'
  <2> SUFFICES ASSUME NEW k \in 1 .. Len(stack'), stack'[k].kind = "call",
                      NEW i \in 0 .. stack'[k].saved - 1
               PROVE  parked'[argument(stack'[k].calls, i)] = k
    BY DEF ParkedSurvives, argument
  <2>1. /\ stack[k].kind = "call" /\ i \in 0 .. stack[k].saved - 1
        /\ stack'[k].calls = stack[k].calls
    BY DEF SameButDone
  <2>2. parked[argument(stack[k].calls, i)] = k
    BY <2>1, <1>1, <1>4 DEF ParkedSurvives
  <2>3. argument(stack[k].calls, i) \in ArgumentSlots
    <3>1. /\ stack[k].calls \in Nat /\ stack[k].args \in Nat /\ stack[k].saved \in Nat
          /\ stack[k].calls + 1 <= needs.call_depth
          /\ stack[k].saved <= stack[k].args /\ stack[k].args <= needs.arguments
      BY <1>1, <1>4, <1>5, <2>1 DEF Within, Activations, Saves
    <3>2. i \in Nat /\ i < needs.arguments
      BY <3>1, <2>1, <1>1, NeedsType
    <3> QED
      BY <3>1, <3>2, <1>1, ArgumentSlotExists
  <2> QED
    BY <2>1, <2>2, <2>3
<1> QED
  BY <1>2, <1>3, <1>6, <1>7 DEF Nested, Routed

------------------------------------------------------------------------------

LEMMA LeafKeeps == IInv /\ Leaf => IInv'
<1> SUFFICES ASSUME IInv, Leaf PROVE IInv'
  OBVIOUS
<1>1. stack \in Seq(Activations) /\ TypeOK /\ SurveySuffices
  BY DEF IInv, TypeOK
<1>2. stack # <<>> /\ stack' = OperandDone(stack)
      /\ UNCHANGED <<needs, depth, call_depth, temps, parked, unlowered>>
  BY DEF Leaf
<1>3. /\ stack' \in Seq(Activations) /\ Len(stack') = Len(stack)
      /\ \A k \in 1 .. Len(stack') : SameButDone(stack'[k], stack[k])
  BY <1>1, <1>2, OperandDoneFacts
<1>4. /\ Nested(stack)' /\ Within(stack)' /\ Routed(stack)'
      /\ SpilledSurvives' /\ ParkedSurvives'
  BY <1>2, <1>3, StackShrinks
<1>5. Counters(stack, depth, call_depth)'
  <2>1. Len(stack) \in Nat \ {0} /\ depth = Top.depth /\ call_depth = Top.calls
    BY <1>2, TopFacts
  <2>2. stack' # <<>>
    BY <2>1, <1>3, EmptySeq
  <2>3. SameButDone(stack'[Len(stack')], Top)
    BY <2>1, <1>3 DEF Top
  <2> QED
    BY <1>2, <2>1, <2>2, <2>3 DEF Counters, SameButDone
<1>6. TypeOK' /\ SurveySuffices'
  BY <1>1, <1>2, <1>3 DEF TypeOK, SurveySuffices, TemporarySlots, ArgumentSlots
<1> QED
  BY <1>4, <1>5, <1>6 DEF IInv, Shape

(* Every way of leaving an activation. *)
LEMMA LeaveKeeps ==
  ASSUME IInv, stack # <<>>, Leave, unlowered' = FALSE
  PROVE  IInv'
<1>1. stack \in Seq(Activations) /\ TypeOK /\ Routed(stack)
  BY DEF IInv, TypeOK, Shape
<1>2. /\ Len(stack) \in Nat \ {0} /\ Top \in Activations
      /\ depth = Top.depth /\ call_depth = Top.calls
  BY TopFacts
<1>3. /\ Popped \in Seq(Activations) /\ Len(Popped) = Len(stack) - 1
      /\ \A k \in 1 .. Len(stack) - 1 : Popped[k] = stack[k]
  <2>1. Len(stack) - 1 \in 0 .. Len(stack)
    BY <1>2
  <2> QED
    BY <1>1, <2>1, PrefixOfSeq, Zenon DEF Popped
<1>4. /\ stack' \in Seq(Activations) /\ Len(stack') = Len(stack) - 1
      /\ \A k \in 1 .. Len(stack') : SameButDone(stack'[k], stack[k])
  <2>1. stack' = OperandDone(Popped)
    BY DEF Leave
  <2>2. /\ stack' \in Seq(Activations) /\ Len(stack') = Len(Popped)
        /\ \A k \in 1 .. Len(Popped) : SameButDone(stack'[k], Popped[k])
    BY <1>3, <2>1, OperandDoneFacts
  <2> QED
    BY <1>3, <2>2
<1>5. /\ temps' = [t \in TemporarySlots |-> IF temps[t] = Len(stack) THEN Nobody ELSE temps[t]]
      /\ parked' = [p \in ArgumentSlots |-> IF parked[p] = Len(stack) THEN Nobody ELSE parked[p]]
      /\ needs' = needs
  BY <1>1 DEF Leave, Forget, TypeOK
<1>6. /\ Nested(stack)' /\ Within(stack)' /\ Routed(stack)'
      /\ SpilledSurvives' /\ ParkedSurvives'
  <2>1. \A k \in 1 .. Len(stack') : k # Len(stack)
    BY <1>2, <1>4
  <2>2. \A t \in TemporarySlots, k \in 1 .. Len(stack') : temps[t] = k => temps'[t] = k
    BY <1>5, <2>1
  <2>3. \A p \in ArgumentSlots, k \in 1 .. Len(stack') : parked[p] = k => parked'[p] = k
    BY <1>5, <2>1
  <2>4. Len(stack') <= Len(stack)
    BY <1>2, <1>4
  <2> QED
    BY <1>4, <1>5, <2>2, <2>3, <2>4, StackShrinks
<1>7. Counters(stack, depth, call_depth)'
  <2>1. depth' = RestoredDepth(Top.route) /\ call_depth' = RestoredCalls(Top.route)
    BY DEF Leave
  <2>2. CASE Len(stack) = 1
    <3>1. Top.route = "statement" /\ depth = 0 /\ call_depth = 0
      BY <1>1, <1>2, <2>2 DEF Routed, Top
    <3>2. depth' = 0 /\ call_depth' = 0
      BY <2>1, <3>1 DEF RestoredDepth, RestoredCalls
    <3>3. stack' = <<>>
      BY <1>4, <2>2, EmptySeq
    <3> QED
      BY <3>2, <3>3 DEF Counters
  <2>3. CASE Len(stack) # 1
    <3> DEFINE below == stack[Len(stack) - 1]
    <3>1. Len(stack) \in 2 .. Len(stack) /\ Len(stack) - 1 \in 1 .. Len(stack)
      BY <1>2, <2>3
    <3>2. below \in Activations /\ below.depth \in Nat /\ below.calls \in Nat
      <4>1. below \in Activations
        BY <1>1, <3>1, ElementOfSeq
      <4> QED
        BY <4>1 DEF Activations
    <3>3. IF below.kind = "call"
          THEN Top.route = "argument" /\ Top.depth = below.depth /\ Top.calls = below.calls + 1
          ELSE Top.route = "deeper" /\ Top.depth = below.depth + 1 /\ Top.calls = below.calls
      BY <1>1, <3>1 DEF Routed, Top
    <3>4. depth' = below.depth /\ call_depth' = below.calls
      BY <1>2, <2>1, <3>2, <3>3 DEF RestoredDepth, RestoredCalls
    <3>5. SameButDone(stack'[Len(stack')], below)
      BY <1>2, <1>4, <3>1
    <3>6. stack' # <<>>
      BY <1>4, <3>1, EmptySeq
    <3> QED
      BY <3>4, <3>5, <3>6 DEF Counters, SameButDone
  <2> QED
    BY <2>2, <2>3
<1>8. TypeOK' /\ SurveySuffices'
  <2>1. depth' \in Nat /\ call_depth' \in Nat
    <3>1. depth \in Nat /\ call_depth \in Nat
      BY <1>1 DEF TypeOK
    <3>2. CASE stack' = <<>>
      BY <1>7, <3>2 DEF Counters
    <3>3. CASE stack' # <<>>
      <4>1. stack'[Len(stack')] \in Activations
        <5>1. Len(stack') \in 1 .. Len(stack')
          BY <1>4, <3>3, EmptySeq
        <5> QED
          BY <5>1, <1>4, ElementOfSeq
      <4> QED
        BY <4>1, <1>7, <3>3 DEF Counters, Activations
    <3> QED
      BY <3>2, <3>3
  <2>2. temps' \in [TemporarySlots -> Nat] /\ parked' \in [ArgumentSlots -> Nat]
    BY <1>1, <1>5 DEF TypeOK, Nobody
  <2> QED
    BY <1>1, <1>4, <1>5, <2>1, <2>2
       DEF TypeOK, SurveySuffices, TemporarySlots, ArgumentSlots
<1> QED
  BY <1>6, <1>7, <1>8 DEF IInv, Shape

LEMMA FinishKeeps == IInv /\ Finish => IInv'
<1> SUFFICES ASSUME IInv, Finish PROVE IInv'
  OBVIOUS
<1>1. stack # <<>> /\ Leave /\ unlowered' = (unlowered \/ SlotMissing)
  BY DEF Finish
<1>2. ~SlotMissing
  <2> SUFFICES ASSUME SlotMissing PROVE FALSE
    OBVIOUS
  <2>1. /\ Top.calls \in Nat /\ Top.done \in Nat /\ Top.args \in Nat
        /\ Top.calls + 1 <= needs.call_depth /\ Top.args <= needs.arguments
    BY <1>1, TopFacts DEF SlotMissing, Activations
  <2>2. needs \in Needs /\ needs.arguments \in Nat
    BY NeedsType DEF IInv, TypeOK
  <2>3. Top.done < needs.arguments
    BY <2>1, <2>2 DEF SlotMissing
  <2>4. argument(Top.calls, Top.done) \in ArgumentSlots
    BY <2>1, <2>2, <2>3, ArgumentSlotExists
  <2> QED
    BY <2>4 DEF SlotMissing
<1>3. unlowered' = FALSE
  BY <1>1, <1>2 DEF IInv, TypeOK, SurveySuffices
<1> QED
  BY <1>1, <1>3, LeaveKeeps

LEMMA ShortCircuitKeeps == IInv /\ ShortCircuit => IInv'
<1> SUFFICES ASSUME IInv, ShortCircuit PROVE IInv'
  OBVIOUS
<1>1. stack # <<>> /\ Leave /\ unlowered' = FALSE
  BY DEF ShortCircuit, IInv, TypeOK, SurveySuffices
<1> QED
  BY <1>1, LeaveKeeps

(* The new activation is above all others, and its counters are at least   *)
(* those of the one below it.                                              *)
LEMMA EnterKeeps ==
  ASSUME IInv, NEW kind \in Kinds, NEW args \in Nat, Enter(kind, args)
  PROVE  IInv'
<1> DEFINE route == OperandRoute
           below == DepthBelow(route)
           calls == CallsBelow(route)
           n == Len(stack)
           entered == [kind |-> kind, route |-> route, args |-> args, done |-> 0, saved |-> 0,
                       depth |-> below, calls |-> calls, survey |-> SurveyDepth]
<1>1. /\ stack \in Seq(Activations) /\ n \in Nat /\ needs \in Needs
      /\ TypeOK /\ Nested(stack) /\ Within(stack) /\ Routed(stack)
      /\ Counters(stack, depth, call_depth)
      /\ SpilledSurvives /\ ParkedSurvives /\ SurveySuffices
  BY DEF IInv, TypeOK, Shape
<1>2. /\ needs.temporaries \in Nat /\ n + 2 <= needs.temporaries
      /\ kind = "call" => SurveyDepth + 1 <= needs.call_depth /\ args <= needs.arguments
  BY <1>1, NeedsType DEF Enter, Surveyed, Kinds, Spilling
<1>3. CASE stack = <<>>
  <2>1. route = "statement" /\ below = 0 /\ calls = 0 /\ SurveyDepth = 0 /\ n = 0
    BY <1>1, <1>3 DEF OperandRoute, DepthBelow, CallsBelow, SurveyDepth, Counters
  <2>2. 0 \in TemporarySlots
    BY <1>2, <2>1 DEF TemporarySlots
  <2>3. /\ stack' = Append(stack, entered) /\ depth' = 0 /\ call_depth' = 0
        /\ unlowered' = unlowered /\ UNCHANGED <<needs, temps, parked>>
    BY <1>1, <2>1, <2>2 DEF Enter, TypeOK
  <2>4. entered \in Activations
    BY <2>1 DEF Activations, Routes
  <2> HIDE DEF entered, route, below, calls
  <2>5. /\ stack' \in Seq(Activations) /\ Len(stack') = 1 /\ stack'[1] = entered
        /\ stack' # <<>>
    BY <1>1, <2>1, <2>3, <2>4, AppendProperties
  <2>6. /\ entered.depth = 0 /\ entered.calls = 0 /\ entered.survey = 0
        /\ entered.route = "statement" /\ entered.saved = 0
        /\ entered.kind = kind /\ entered.args = args
    BY <2>1 DEF entered
  <2>7. Nested(stack)' /\ Routed(stack)' /\ Counters(stack, depth, call_depth)'
    BY <2>3, <2>5, <2>6 DEF Nested, Routed, Counters
  <2>8. Within(stack)'
    BY <1>2, <2>1, <2>3, <2>5, <2>6 DEF Within, Saves
  <2>9. SpilledSurvives' /\ ParkedSurvives' /\ SurveySuffices'
    BY <1>1, <2>3, <2>5, <2>6 DEF SpilledSurvives, ParkedSurvives, SurveySuffices
  <2>10. TypeOK'
    BY <1>1, <2>3, <2>5 DEF TypeOK, TemporarySlots, ArgumentSlots
  <2> QED
    BY <2>7, <2>8, <2>9, <2>10 DEF IInv, Shape
<1>4. CASE stack # <<>>
  <2>1. /\ n \in Nat \ {0} /\ Top \in Activations /\ Top = stack[n]
        /\ depth = Top.depth /\ call_depth = Top.calls
        /\ Top.depth < n /\ Top.survey = Top.calls
        /\ Top.depth \in Nat /\ Top.calls \in Nat
    <3>1. /\ n \in Nat \ {0} /\ Top \in Activations
          /\ depth = Top.depth /\ call_depth = Top.calls
          /\ Top.depth < n /\ Top.survey = Top.calls
      BY <1>4, TopFacts
    <3> QED
      BY <3>1 DEF Activations, Top
  <2>2. IF Top.kind = "call"
        THEN route = "argument" /\ below = Top.depth /\ calls = Top.calls + 1
        ELSE route = "deeper" /\ below = Top.depth + 1 /\ calls = Top.calls
    BY <1>4, <2>1 DEF OperandRoute, DepthBelow, CallsBelow
  <2>3. SurveyDepth = calls
    BY <1>4, <2>1, <2>2 DEF SurveyDepth
  <2>4. /\ below \in Nat /\ calls \in Nat /\ below < n + 1
        /\ Top.depth <= below /\ Top.calls <= calls
        /\ Top.kind = "call" => Top.calls < calls
        /\ Top.kind # "call" => Top.depth < below
        /\ route \in Routes
    BY <2>1, <2>2 DEF Routes
  <2>5. below \in TemporarySlots
    BY <1>2, <2>1, <2>4 DEF TemporarySlots
  <2>6. /\ stack' = Append(stack, entered) /\ depth' = below /\ call_depth' = calls
        /\ unlowered' = unlowered /\ UNCHANGED <<needs, temps, parked>>
    BY <1>1, <2>5 DEF Enter, TypeOK
  <2>7. entered \in Activations
    BY <2>3, <2>4 DEF Activations
  <2>8. /\ entered.depth = below /\ entered.calls = calls /\ entered.survey = calls
        /\ entered.route = route /\ entered.saved = 0
        /\ entered.kind = kind /\ entered.args = args
    BY <2>3
  <2> HIDE DEF entered, route, below, calls
  <2>9. /\ stack' \in Seq(Activations) /\ Len(stack') = n + 1 /\ stack'[n + 1] = entered
        /\ \A k \in 1 .. n : stack'[k] = stack[k]
        /\ stack' # <<>>
    BY <1>1, <2>6, <2>7, AppendProperties
  <2>10. \A k \in 1 .. n : stack[k] \in Activations
    BY <1>1, ElementOfSeq
  <2>11. Nested(stack)'
    <3> SUFFICES ASSUME NEW j \in 1 .. n + 1, NEW k \in 1 .. n + 1, j < k
                 PROVE  /\ stack'[j].depth <= stack'[k].depth
                        /\ stack'[j].calls <= stack'[k].calls
                        /\ stack'[j].kind = "call" => stack'[j].calls < stack'[k].calls
                        /\ stack'[j].kind # "call" => stack'[j].depth < stack'[k].depth
      BY <2>9 DEF Nested
    <3>1. CASE k \in 1 .. n
      BY <1>1, <2>9, <3>1 DEF Nested
    <3>2. CASE k = n + 1 /\ j = n
      BY <2>1, <2>4, <2>8, <2>9, <3>2
    <3>3. CASE k = n + 1 /\ j < n
      <4>1. j \in 1 .. n /\ n \in 1 .. n
        BY <2>1, <3>3
      <4>2. /\ stack[j].depth \in Nat /\ stack[j].calls \in Nat
            /\ stack[j].depth <= Top.depth /\ stack[j].calls <= Top.calls
            /\ stack[j].kind = "call" => stack[j].calls < Top.calls
            /\ stack[j].kind # "call" => stack[j].depth < Top.depth
        BY <1>1, <2>1, <2>10, <3>3, <4>1 DEF Nested, Activations
      <4>3. stack'[j] = stack[j] /\ stack'[k].depth = below /\ stack'[k].calls = calls
        BY <2>8, <2>9, <3>3, <4>1
      <4>4. Top.depth \in Nat /\ Top.calls \in Nat /\ below \in Nat /\ calls \in Nat
        BY <2>1, <2>4
      <4>5. stack'[j].depth <= below /\ (stack[j].kind # "call" => stack'[j].depth < below)
        BY <2>4, <4>2, <4>3, <4>4
      <4>6. stack'[j].calls <= calls /\ (stack[j].kind = "call" => stack'[j].calls < calls)
        BY <2>4, <4>2, <4>3, <4>4
      <4> QED
        BY <4>3, <4>5, <4>6
    <3> QED
      BY <2>1, <3>1, <3>2, <3>3
  <2>12. Within(stack)'
    <3> SUFFICES ASSUME NEW k \in 1 .. n + 1
                 PROVE  /\ stack'[k].depth < k
                        /\ k + 1 <= needs.temporaries
                        /\ stack'[k].saved <= Saves(stack'[k])
                        /\ stack'[k].survey = stack'[k].calls
                        /\ stack'[k].kind = "call" =>
                             /\ stack'[k].calls + 1 <= needs.call_depth
                             /\ stack'[k].args <= needs.arguments
      BY <2>6, <2>9 DEF Within, Saves
    <3>1. CASE k \in 1 .. n
      BY <1>1, <2>9, <3>1 DEF Within
    <3>2. CASE k = n + 1
      BY <1>2, <2>1, <2>3, <2>4, <2>8, <2>9, <3>2 DEF Saves
    <3> QED
      BY <2>1, <3>1, <3>2
  <2>13. Routed(stack)'
    <3>1. stack'[1] = stack[1]
      BY <2>1, <2>9
    <3>2. ASSUME NEW k \in 2 .. n + 1
          PROVE  IF stack'[k - 1].kind = "call"
                 THEN /\ stack'[k].route = "argument"
                      /\ stack'[k].depth = stack'[k - 1].depth
                      /\ stack'[k].calls = stack'[k - 1].calls + 1
                 ELSE /\ stack'[k].route = "deeper"
                      /\ stack'[k].depth = stack'[k - 1].depth + 1
                      /\ stack'[k].calls = stack'[k - 1].calls
      <4>1. CASE k \in 2 .. n
        BY <1>1, <2>9, <4>1 DEF Routed
      <4>2. CASE k = n + 1
        BY <2>1, <2>2, <2>8, <2>9, <4>2
      <4> QED
        BY <2>1, <4>1, <4>2
    <3> QED
      BY <1>1, <1>4, <2>9, <3>1, <3>2 DEF Routed
  <2>14. Counters(stack, depth, call_depth)'
    BY <2>6, <2>8, <2>9 DEF Counters
  <2>15. SpilledSurvives' /\ SurveySuffices'
    <3> SUFFICES ASSUME NEW k \in 1 .. n + 1, stack'[k].kind \in Spilling, stack'[k].saved > 0
                 PROVE  temps'[stack'[k].depth] = k
      BY <1>1, <2>6, <2>9 DEF SpilledSurvives, SurveySuffices
    <3>1. k \in 1 .. n
      BY <2>1, <2>8, <2>9
    <3> QED
      BY <1>1, <2>6, <2>9, <3>1 DEF SpilledSurvives
  <2>16. ParkedSurvives'
    <3> SUFFICES ASSUME NEW k \in 1 .. n + 1, stack'[k].kind = "call",
                        NEW i \in 0 .. stack'[k].saved - 1
                 PROVE  parked'[argument(stack'[k].calls, i)] = k
      BY <2>6, <2>9 DEF ParkedSurvives, argument
    <3>1. k \in 1 .. n
      BY <2>1, <2>8, <2>9
    <3> QED
      BY <1>1, <2>6, <2>9, <3>1 DEF ParkedSurvives
  <2>17. TypeOK'
    BY <1>1, <2>4, <2>6, <2>9 DEF TypeOK, TemporarySlots, ArgumentSlots
  <2> QED
    BY <2>11, <2>12, <2>13, <2>14, <2>15, <2>16, <2>17 DEF IInv, Shape
<1> QED
  BY <1>3, <1>4

(* One more saved operand of the innermost activation keeps the shape. *)
LEMMA SaveFacts ==
  ASSUME IInv, stack # <<>>, MustSave(Top), needs' = needs,
         stack' = [stack EXCEPT ![Len(stack)].saved = @ + 1],
         UNCHANGED <<depth, call_depth>>
  PROVE  /\ stack' \in Seq(Activations) /\ Len(stack') = Len(stack)
         /\ \A k \in 1 .. Len(stack) - 1 : stack'[k] = stack[k]
         /\ stack'[Len(stack)].kind = Top.kind /\ stack'[Len(stack)].depth = Top.depth
         /\ stack'[Len(stack)].calls = Top.calls /\ stack'[Len(stack)].saved = Top.saved + 1
         /\ Shape(stack, depth, call_depth)'
<1> DEFINE n == Len(stack)
           saved == [Top EXCEPT !.saved = @ + 1]
<1>1. /\ stack \in Seq(Activations) /\ Nested(stack) /\ Within(stack) /\ Routed(stack)
      /\ Counters(stack, depth, call_depth)
  BY DEF IInv, TypeOK, Shape
<1>2. n \in Nat \ {0} /\ Top \in Activations /\ Top = stack[n]
  BY TopFacts DEF Top
<1>3. /\ saved \in Activations /\ saved.saved = Top.saved + 1
      /\ saved.kind = Top.kind /\ saved.route = Top.route /\ saved.args = Top.args
      /\ saved.depth = Top.depth /\ saved.calls = Top.calls /\ saved.survey = Top.survey
  <2> DEFINE a == Top
  <2>1. a \in Activations
    BY <1>2
  <2> HIDE DEF a
  <2>2. LET b == [a EXCEPT !.saved = @ + 1]
        IN  /\ b \in Activations /\ b.saved = a.saved + 1
            /\ b.kind = a.kind /\ b.route = a.route /\ b.args = a.args
            /\ b.depth = a.depth /\ b.calls = a.calls /\ b.survey = a.survey
    BY <2>1 DEF Activations
  <2> QED
    BY <2>2 DEF a
<1>4. stack' = [stack EXCEPT ![n] = saved]
  BY <1>2
<1> HIDE DEF saved
<1>5. /\ stack' \in Seq(Activations) /\ Len(stack') = n
      /\ \A k \in 1 .. n : stack'[k] = IF k = n THEN saved ELSE stack[k]
  BY <1>1, <1>2, <1>3, <1>4, ExceptSeq
<1>6. \A k \in 1 .. n : /\ stack'[k].kind = stack[k].kind /\ stack'[k].route = stack[k].route
                        /\ stack'[k].args = stack[k].args /\ stack'[k].depth = stack[k].depth
                        /\ stack'[k].calls = stack[k].calls
                        /\ stack'[k].survey = stack[k].survey
  BY <1>2, <1>3, <1>5
<1>7. Nested(stack)'
  BY <1>1, <1>5, <1>6 DEF Nested
<1>8. Within(stack)'
  <2> SUFFICES ASSUME NEW k \in 1 .. n
               PROVE  /\ stack'[k].depth < k
                      /\ k + 1 <= needs.temporaries
                      /\ stack'[k].saved <= Saves(stack'[k])
                      /\ stack'[k].survey = stack'[k].calls
                      /\ stack'[k].kind = "call" =>
                           /\ stack'[k].calls + 1 <= needs.call_depth
                           /\ stack'[k].args <= needs.arguments
    BY <1>5 DEF Within, Saves
  <2>1. stack'[k].saved <= Saves(stack'[k])
    <3>1. CASE k = n
      <4>1. Top.saved < Saves(Top) /\ Top.saved \in Nat /\ Saves(Top) \in Nat
        BY <1>2 DEF MustSave, Saves, Activations
      <4>2. Saves(saved) = Saves(Top) /\ stack'[k] = saved
        BY <1>3, <1>5, <3>1 DEF Saves
      <4>3. saved.saved <= Saves(saved)
        BY <1>3, <4>1, <4>2
      <4> QED
        BY <4>2, <4>3, Zenon
    <3>2. CASE k # n
      BY <1>1, <1>5, <3>2 DEF Within
    <3> QED
      BY <3>1, <3>2
  <2> QED
    BY <1>1, <1>6, <2>1 DEF Within
<1>9. Routed(stack)'
  <2>1. stack # <<>> => stack'[1].route = "statement" /\ stack'[1].depth = 0 /\ stack'[1].calls = 0
    BY <1>1, <1>2, <1>6 DEF Routed
  <2>2. ASSUME NEW k \in 2 .. n
        PROVE  IF stack'[k - 1].kind = "call"
               THEN /\ stack'[k].route = "argument"
                    /\ stack'[k].depth = stack'[k - 1].depth
                    /\ stack'[k].calls = stack'[k - 1].calls + 1
               ELSE /\ stack'[k].route = "deeper"
                    /\ stack'[k].depth = stack'[k - 1].depth + 1
                    /\ stack'[k].calls = stack'[k - 1].calls
    <3>1. k \in 1 .. n /\ k - 1 \in 1 .. n
      BY <1>2
    <3> QED
      BY <1>1, <1>6, <3>1 DEF Routed
  <2> QED
    BY <1>5, <2>1, <2>2 DEF Routed
<1>10. Counters(stack, depth, call_depth)'
  <2>1. stack' # <<>> /\ n \in 1 .. n
    BY <1>2, <1>5, EmptySeq
  <2> QED
    BY <1>1, <1>5, <1>6, <2>1 DEF Counters
<1> QED
  BY <1>2, <1>3, <1>5, <1>7, <1>8, <1>9, <1>10 DEF Shape

(* A spill goes to a temporary no shallower activation uses. *)
LEMMA SpillKeeps == IInv /\ Spill => IInv'
<1> SUFFICES ASSUME IInv, Spill PROVE IInv'
  OBVIOUS
<1>1. /\ stack # <<>> /\ Top.kind \in Spilling /\ MustSave(Top)
      /\ temps' = [temps EXCEPT ![Top.depth] = Len(stack)]
      /\ stack' = [stack EXCEPT ![Len(stack)].saved = @ + 1]
      /\ UNCHANGED <<needs, depth, call_depth, parked, unlowered>>
  BY DEF Spill
<1>2. /\ stack \in Seq(Activations) /\ TypeOK /\ Nested(stack)
      /\ SpilledSurvives /\ ParkedSurvives /\ SurveySuffices
  BY DEF IInv, TypeOK, Shape
<1>3. /\ stack' \in Seq(Activations) /\ Len(stack') = Len(stack)
      /\ \A k \in 1 .. Len(stack) - 1 : stack'[k] = stack[k]
      /\ stack'[Len(stack)].kind = Top.kind /\ stack'[Len(stack)].depth = Top.depth
      /\ stack'[Len(stack)].saved = Top.saved + 1
      /\ Shape(stack, depth, call_depth)'
  BY <1>1, SaveFacts
<1>4. /\ Len(stack) \in Nat \ {0} /\ Top \in Activations /\ Top = stack[Len(stack)]
      /\ Top.depth < Len(stack) /\ Len(stack) + 1 <= needs.temporaries
  BY <1>1, TopFacts DEF Top
<1>5. Top.depth \in TemporarySlots
  <2>1. Top.depth \in Nat /\ needs.temporaries \in Nat
    BY <1>2, <1>4, NeedsType DEF TypeOK, Activations
  <2> QED
    BY <1>4, <2>1 DEF TemporarySlots
<1>6. SpilledSurvives'
  <2> SUFFICES ASSUME NEW k \in 1 .. Len(stack),
                      stack'[k].kind \in Spilling, stack'[k].saved > 0
               PROVE  temps'[stack'[k].depth] = k
    BY <1>3 DEF SpilledSurvives
  <2>1. CASE k = Len(stack)
    BY <1>1, <1>2, <1>3, <1>5, <2>1 DEF TypeOK
  <2>2. CASE k < Len(stack)
    <3>1. k \in 1 .. Len(stack) - 1 /\ Len(stack) \in 1 .. Len(stack)
      BY <1>4, <2>2
    <3>2. stack'[k] = stack[k] /\ temps[stack[k].depth] = k
      BY <1>2, <1>3, <3>1 DEF SpilledSurvives
    <3>3. stack[k].kind # "call"
      BY <3>2 DEF Spilling
    <3>4. stack[k].depth < Top.depth /\ stack[k].depth \in Nat /\ Top.depth \in Nat
      <4>1. stack[k] \in Activations
        BY <1>2, ElementOfSeq
      <4> QED
        BY <1>2, <1>4, <2>2, <3>1, <3>3, <4>1 DEF Nested, Activations
    <3> QED
      BY <1>1, <1>2, <3>2, <3>4 DEF TypeOK
  <2> QED
    BY <1>4, <2>1, <2>2
<1>7. ParkedSurvives'
  <2> SUFFICES ASSUME NEW k \in 1 .. Len(stack), stack'[k].kind = "call",
                      NEW i \in 0 .. stack'[k].saved - 1
               PROVE  parked'[argument(stack'[k].calls, i)] = k
    BY <1>1, <1>3 DEF ParkedSurvives, argument
  <2>1. k # Len(stack)
    BY <1>1, <1>3 DEF Spilling
  <2>2. k \in 1 .. Len(stack) - 1
    BY <1>4, <2>1
  <2> QED
    BY <1>1, <1>2, <1>3, <2>2 DEF ParkedSurvives
<1>8. TypeOK' /\ SurveySuffices'
  BY <1>1, <1>2, <1>3, <1>4 DEF TypeOK, SurveySuffices, TemporarySlots, ArgumentSlots
<1> QED
  BY <1>3, <1>6, <1>7, <1>8 DEF IInv

(* An argument goes to a slot of its own call's row, and every call below  *)
(* has an earlier row.                                                     *)
LEMMA ParkKeeps == IInv /\ Park => IInv'
<1> SUFFICES ASSUME IInv, Park PROVE IInv'
  OBVIOUS
<1> DEFINE slot == argument(Top.calls, Top.saved)
<1>1. /\ stack # <<>> /\ Top.kind = "call" /\ MustSave(Top)
      /\ parked' = [parked EXCEPT ![slot] = Len(stack)]
      /\ stack' = [stack EXCEPT ![Len(stack)].saved = @ + 1]
      /\ UNCHANGED <<needs, depth, call_depth, temps, unlowered>>
  BY DEF Park
<1>2. /\ stack \in Seq(Activations) /\ TypeOK /\ Nested(stack) /\ Within(stack)
      /\ SpilledSurvives /\ ParkedSurvives /\ SurveySuffices /\ needs \in Needs
  BY DEF IInv, TypeOK, Shape
<1>3. /\ stack' \in Seq(Activations) /\ Len(stack') = Len(stack)
      /\ \A k \in 1 .. Len(stack) - 1 : stack'[k] = stack[k]
      /\ stack'[Len(stack)].kind = Top.kind
      /\ stack'[Len(stack)].calls = Top.calls /\ stack'[Len(stack)].saved = Top.saved + 1
      /\ Shape(stack, depth, call_depth)'
  BY <1>1, SaveFacts
<1>4. /\ Len(stack) \in Nat \ {0} /\ Top = stack[Len(stack)]
      /\ Top.calls \in Nat /\ Top.saved \in Nat /\ Top.args \in Nat
      /\ Top.saved < Top.args /\ Top.args <= needs.arguments
      /\ Top.calls + 1 <= needs.call_depth
      /\ needs.arguments \in Nat
  BY <1>1, <1>2, TopFacts, NeedsType DEF Top, Activations, MustSave, Saves
<1>5. slot \in ArgumentSlots
  BY <1>2, <1>4, ArgumentSlotExists
<1>6. SpilledSurvives'
  <2> SUFFICES ASSUME NEW k \in 1 .. Len(stack),
                      stack'[k].kind \in Spilling, stack'[k].saved > 0
               PROVE  temps'[stack'[k].depth] = k
    BY <1>3 DEF SpilledSurvives
  <2>1. k # Len(stack)
    BY <1>1, <1>3 DEF Spilling
  <2>2. k \in 1 .. Len(stack) - 1
    BY <1>4, <2>1
  <2> QED
    BY <1>1, <1>2, <1>3, <2>2 DEF SpilledSurvives
<1>7. ParkedSurvives'
  <2> SUFFICES ASSUME NEW k \in 1 .. Len(stack), stack'[k].kind = "call",
                      NEW i \in 0 .. stack'[k].saved - 1
               PROVE  parked'[argument(stack'[k].calls, i)] = k
    BY <1>1, <1>3 DEF ParkedSurvives, argument
  <2>1. CASE k = Len(stack) /\ i = Top.saved
    BY <1>1, <1>2, <1>3, <1>5, <2>1 DEF TypeOK
  <2>2. CASE k = Len(stack) /\ i # Top.saved
    <3>1. i \in 0 .. Top.saved - 1 /\ stack[k].kind = "call" /\ Top = stack[k]
      BY <1>1, <1>3, <1>4, <2>2
    <3>2. parked[argument(Top.calls, i)] = k
      BY <1>2, <3>1 DEF ParkedSurvives
    <3>3. argument(Top.calls, i) # slot
      <4>1. Top.calls * needs.arguments \in Nat
        BY <1>4
      <4> QED
        BY <1>4, <2>2, <3>1, <4>1 DEF argument
    <3> QED
      BY <1>1, <1>2, <1>3, <2>2, <3>2, <3>3 DEF TypeOK
  <2>3. CASE k < Len(stack)
    <3>1. k \in 1 .. Len(stack) - 1 /\ Len(stack) \in 1 .. Len(stack)
      BY <1>4, <2>3
    <3>2. stack'[k] = stack[k] /\ parked[argument(stack[k].calls, i)] = k
      BY <1>2, <1>3, <3>1 DEF ParkedSurvives
    <3>3. /\ stack[k].calls \in Nat /\ stack[k].calls < Top.calls
          /\ i \in 0 .. needs.arguments - 1
      <4>1. stack[k] \in Activations
        BY <1>2, ElementOfSeq
      <4>2. stack[k].saved <= stack[k].args /\ stack[k].args <= needs.arguments
        BY <1>2, <3>2 DEF Within, Saves
      <4>3. stack[k].calls < Top.calls
        BY <1>2, <1>4, <2>3, <3>1, <3>2 DEF Nested
      <4> QED
        BY <1>4, <3>2, <4>1, <4>2, <4>3 DEF Activations
    <3>4. argument(stack[k].calls, i) # slot
      <4>1. stack[k].calls * needs.arguments + i < Top.calls * needs.arguments
        BY <1>4, <3>3, RowBelow
      <4>2. Top.calls * needs.arguments \in Nat /\ stack[k].calls * needs.arguments \in Nat
        BY <1>4, <3>3
      <4> QED
        BY <1>4, <3>3, <4>1, <4>2 DEF argument
    <3> QED
      BY <1>1, <1>2, <3>2, <3>4 DEF TypeOK
  <2> QED
    BY <1>4, <2>1, <2>2, <2>3
<1>8. TypeOK' /\ SurveySuffices'
  BY <1>1, <1>2, <1>3, <1>4 DEF TypeOK, SurveySuffices, TemporarySlots, ArgumentSlots
<1> QED
  BY <1>3, <1>6, <1>7, <1>8 DEF IInv

------------------------------------------------------------------------------

LEMMA StepIInv == IInv /\ [Next]_vars => IInv'
<1> SUFFICES ASSUME IInv, [Next]_vars PROVE IInv'
  OBVIOUS
<1>1. CASE Leaf
  BY <1>1, LeafKeeps
<1>2. CASE \E kind \in Kinds, args \in 0 .. needs.arguments :
             /\ kind # "call" => args = 0
             /\ Enter(kind, args)
  <2>1. PICK kind \in Kinds, args \in 0 .. needs.arguments : Enter(kind, args)
    BY <1>2
  <2> QED
    BY <2>1, EnterKeeps
<1>3. CASE Spill
  BY <1>3, SpillKeeps
<1>4. CASE Park
  BY <1>4, ParkKeeps
<1>5. CASE Finish
  BY <1>5, FinishKeeps
<1>6. CASE ShortCircuit
  BY <1>6, ShortCircuitKeeps
<1>7. CASE UNCHANGED vars
  BY <1>7 DEF vars, walk, IInv, TypeOK, Shape, Nested, Within, Routed, Counters, SpilledSurvives,
          ParkedSurvives, SurveySuffices, argument, TemporarySlots, ArgumentSlots
<1> QED
  BY <1>1, <1>2, <1>3, <1>4, <1>5, <1>6, <1>7 DEF Next

(* The inductive invariant holds throughout. *)
THEOREM LoweringInvariant == Spec => []IInv
  BY InitIInv, StepIInv, PTL DEF Spec

(* The generator's state is well typed for every body within its survey. *)
THEOREM LoweringTypeOK == Spec => []TypeOK
<1>1. IInv => TypeOK
  BY DEF IInv
<1> QED
  BY <1>1, LoweringInvariant, PTL

(* No spilled operand is ever overwritten before its operator reloads it. *)
THEOREM SpillDiscipline == Spec => []SpilledSurvives
<1>1. IInv => SpilledSurvives
  BY DEF IInv
<1> QED
  BY <1>1, LoweringInvariant, PTL

(* No parked argument is ever overwritten before its call places it. *)
THEOREM ParkDiscipline == Spec => []ParkedSurvives
<1>1. IInv => ParkedSurvives
  BY DEF IInv
<1> QED
  BY <1>1, LoweringInvariant, PTL

(* The surveys of frame.rs reserve enough for every body they measured. *)
THEOREM SurveyIsEnough == Spec => []SurveySuffices
<1>1. IInv => SurveySuffices
  BY DEF IInv
<1> QED
  BY <1>1, LoweringInvariant, PTL

(* Both counters are zero between statements. *)
THEOREM CountersReturn == Spec => []CountersRestored
<1>1. IInv => CountersRestored
  BY DEF IInv, Shape, Counters, CountersRestored
<1> QED
  BY <1>1, LoweringInvariant, PTL

=============================================================================
