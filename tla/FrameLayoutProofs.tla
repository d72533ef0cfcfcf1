------------------------- MODULE FrameLayoutProofs -------------------------
(***************************************************************************)
(* For every declared frame and every survey result: build gives no two    *)
(* owners a common byte, keeps every place aligned and above the saved     *)
(* pair, and closes the frame below the incoming stack arguments.          *)
(*                                                                         *)
(* NoOverlap is not inductive on its own: a placement is known not to      *)
(* overlap the earlier ones because they all end at or before the cursor,  *)
(* and it is known to be a new owner because the domain of `place` is      *)
(* exactly what the loops have run through.                                *)
(***************************************************************************)
EXTENDS FrameLayout, SequenceTheorems, TLAPS

(* A position in an earlier row comes before every position of a later     *)
(* one.                                                                    *)
LEMMA RowBelow ==
  ASSUME NEW c \in Nat, NEW d \in Nat, NEW w \in Nat, NEW i \in 0 .. w - 1, c < d
  PROVE  c * w + i < d * w
<1>1. PICK k \in Nat : d = c + 1 + k
  <2>1. d - c - 1 \in Nat /\ d = c + 1 + (d - c - 1)
    OBVIOUS
  <2> QED
    BY <2>1
<1>2. d * w = c * w + w + k * w /\ k * w >= 0 /\ c * w \in Nat /\ k * w \in Nat
  BY <1>1
<1> QED
  BY <1>2

(* How far each loop has run. *)
DoneSlots == IF pc.loop = "slots" THEN pc.next - 1 ELSE Len(frame)

DoneTemporaries ==
  IF pc.loop = "slots" THEN 0
  ELSE IF pc.loop = "temporaries" THEN pc.next ELSE needs.temporaries

DoneArguments ==
  IF pc.loop \in {"slots", "temporaries"} THEN 0
  ELSE IF pc.loop = "arguments" THEN pc.next ELSE Blocks

LoopsInRange ==
  /\ pc.loop = "slots" => pc.next \in 1 .. Len(frame) + 1
  /\ pc.loop = "temporaries" => pc.next <= needs.temporaries
  /\ pc.loop = "arguments" => pc.next <= Blocks

PlacedSoFar ==
  DOMAIN place = ({"slot"} \X (1 .. DoneSlots))
                   \cup ({"temporary"} \X (0 .. DoneTemporaries - 1))
                   \cup ({"argument"} \X (0 .. DoneArguments - 1))

BelowCursor ==
  /\ cursor >= SAVED_REGISTERS
  /\ \A o \in DOMAIN place : End(o) <= cursor

Closed ==
  Built => size = align_to(cursor + needs.outgoing, STACK_ALIGNMENT)

IInv ==
  /\ TypeOK
  /\ LoopsInRange
  /\ PlacedSoFar
  /\ BelowCursor
  /\ NoOverlap
  /\ AboveSavedPairAndAligned
  /\ Closed

------------------------------------------------------------------------------

(* align_to returns the first multiple of the alignment at or above value. *)
LEMMA AlignTo ==
  ASSUME NEW value \in Nat, NEW a \in Alignments \cup {16}
  PROVE  /\ align_to(value, a) \in Nat
         /\ align_to(value, a) >= value
         /\ align_to(value, a) % a = 0
<1>1. CASE a = 1
  BY <1>1 DEF align_to
<1>2. CASE a = 4
  BY <1>2 DEF align_to
<1>3. CASE a = 8
  BY <1>3 DEF align_to
<1>4. CASE a = 16
  BY <1>4 DEF align_to
<1> QED
  BY <1>1, <1>2, <1>3, <1>4 DEF Alignments

(* Types of the inputs. *)
LEMMA Inputs ==
  ASSUME frame \in Frames, needs \in Needs
  PROVE  /\ frame \in Seq([size : Nat, align : Alignments])
         /\ Len(frame) \in Nat
         /\ needs.temporaries \in Nat
         /\ needs.arguments \in Nat
         /\ needs.call_depth \in Nat
         /\ needs.outgoing \in Nat
         /\ needs.outgoing % STACK_ALIGNMENT = 0
         /\ Blocks \in Nat
<1>1. frame \in Seq([size : Nat, align : Alignments])
  BY FramesAssumption
<1>2. needs \in Requirements /\ needs.outgoing % STACK_ALIGNMENT = 0
  BY NeedsAssumption
<1>3. needs.arguments \in Nat /\ needs.call_depth \in Nat
  BY <1>2 DEF Requirements
<1>4. Blocks \in Nat
  BY <1>3 DEF Blocks
<1> QED
  BY <1>1, <1>2, <1>4 DEF Requirements

(* Placing a new owner keeps everything placed apart, aligned, above the   *)
(* saved pair and below the cursor.                                        *)
LEMMA PutKeepsApart ==
  ASSUME NEW owner, NEW bytes \in Nat, NEW alignment \in Alignments,
         owner \notin DOMAIN place,
         cursor \in Nat,
         \A o \in DOMAIN place : place[o] \in Place,
         BelowCursor, NoOverlap, AboveSavedPairAndAligned,
         Put(owner, bytes, alignment)
  PROVE  /\ cursor' \in Nat
         /\ DOMAIN place' = DOMAIN place \cup {owner}
         /\ \A o \in DOMAIN place' : place'[o] \in Place
         /\ BelowCursor'
         /\ NoOverlap'
         /\ AboveSavedPairAndAligned'
<1> DEFINE at == align_to(cursor, alignment)
<1>1. at \in Nat /\ at >= cursor /\ at % alignment = 0
  BY AlignTo
<1>2. /\ DOMAIN place' = DOMAIN place \cup {owner}
      /\ place'[owner] = [offset |-> at, size |-> bytes, align |-> alignment]
      /\ \A o \in DOMAIN place : place'[o] = place[o]
      /\ cursor' = at + bytes
  BY DEF Put
<1> HIDE DEF at
<1>3. alignment \in Alignments /\ \A o \in DOMAIN place' : place'[o] \in Place
  BY <1>1, <1>2 DEF Place
<1>4. \A o \in DOMAIN place : End(o)' = End(o) /\ End(o) \in Nat
  BY <1>2 DEF End, Place
<1>5. End(owner)' = cursor' /\ cursor' \in Nat /\ cursor' >= cursor
  BY <1>1, <1>2 DEF End
<1>6. BelowCursor'
  BY <1>2, <1>4, <1>5 DEF BelowCursor, SAVED_REGISTERS
<1>7. NoOverlap'
  <2> SUFFICES ASSUME NEW o \in DOMAIN place', NEW q \in DOMAIN place', o # q
               PROVE  Disjoint(o, q)'
    BY DEF NoOverlap
  <2>1. CASE o \in DOMAIN place /\ q \in DOMAIN place
    BY <2>1, <1>2, <1>4 DEF NoOverlap, Disjoint
  <2>2. CASE o = owner
    <3>1. q \in DOMAIN place
      BY <2>2, <1>2
    <3>2. End(q)' <= cursor /\ place'[o].offset = at
      BY <3>1, <2>2, <1>2, <1>4 DEF BelowCursor
    <3> QED
      BY <3>1, <3>2, <1>1, <1>4 DEF Disjoint
  <2>3. CASE q = owner
    <3>1. o \in DOMAIN place
      BY <2>3, <1>2
    <3>2. End(o)' <= cursor /\ place'[q].offset = at
      BY <3>1, <2>3, <1>2, <1>4 DEF BelowCursor
    <3> QED
      BY <3>1, <3>2, <1>1, <1>4 DEF Disjoint
  <2> QED
    BY <2>1, <2>2, <2>3, <1>2
<1>8. AboveSavedPairAndAligned'
  BY <1>1, <1>2 DEF AboveSavedPairAndAligned, BelowCursor, SAVED_REGISTERS
<1> QED
  BY <1>2, <1>3, <1>5, <1>6, <1>7, <1>8

------------------------------------------------------------------------------

LEMMA InitIInv == Init => IInv
<1> SUFFICES ASSUME Init PROVE IInv
  OBVIOUS
<1>1. DOMAIN place = {}
  BY DEF Init
<1>2. Len(frame) \in Nat
  BY Inputs DEF Init
<1>3. TypeOK
  BY <1>1 DEF Init, TypeOK, Loops, SAVED_REGISTERS
<1>4. LoopsInRange /\ Closed
  BY <1>2 DEF Init, LoopsInRange, Closed, Built
<1>5. PlacedSoFar
  BY <1>1 DEF Init, PlacedSoFar, DoneSlots, DoneTemporaries, DoneArguments
<1>6. BelowCursor /\ NoOverlap /\ AboveSavedPairAndAligned
  BY <1>1 DEF Init, BelowCursor, NoOverlap, AboveSavedPairAndAligned, SAVED_REGISTERS
<1> QED
  BY <1>3, <1>4, <1>5, <1>6 DEF IInv

(* Each placement is of an owner its loop has not reached before. *)
LEMMA StepIInv == IInv /\ [Next]_vars => IInv'
<1> SUFFICES ASSUME IInv, [Next]_vars PROVE IInv'
  OBVIOUS
<1>1. /\ frame \in Frames /\ needs \in Needs
      /\ pc \in [loop : Loops, next : Nat]
      /\ cursor \in Nat /\ size \in Nat
      /\ DOMAIN place \subseteq Owners
      /\ \A o \in DOMAIN place : place[o] \in Place
  BY DEF IInv, TypeOK
<1>2. /\ LoopsInRange /\ PlacedSoFar /\ BelowCursor
      /\ NoOverlap /\ AboveSavedPairAndAligned /\ Closed
  BY DEF IInv
<1>3. /\ Len(frame) \in Nat /\ frame \in Seq([size : Nat, align : Alignments])
      /\ needs.temporaries \in Nat /\ needs.outgoing \in Nat /\ Blocks \in Nat
  BY <1>1, Inputs
<1>4. CASE PlaceSlot
  <2>1. /\ pc.loop = "slots" /\ pc.next \in 1 .. Len(frame)
        /\ frame[pc.next] \in [size : Nat, align : Alignments]
        /\ pc' = [loop |-> "slots", next |-> pc.next + 1]
        /\ frame' = frame /\ needs' = needs /\ size' = size /\ Blocks' = Blocks
        /\ Put(Slot(pc.next), frame[pc.next].size, frame[pc.next].align)
    <3>1. pc.loop = "slots" /\ pc.next \in 1 .. Len(frame)
      BY <1>1, <1>2, <1>3, <1>4 DEF PlaceSlot, LoopsInRange
    <3>2. frame[pc.next] \in [size : Nat, align : Alignments]
      BY <3>1, <1>3, ElementOfSeq
    <3>3. pc' = [loop |-> "slots", next |-> pc.next + 1]
      BY <3>1, <1>1, <1>4 DEF PlaceSlot
    <3> QED
      BY <3>1, <3>2, <3>3, <1>4 DEF PlaceSlot, Blocks
  <2>2. DOMAIN place = {"slot"} \X (1 .. pc.next - 1)
    BY <2>1, <1>2 DEF PlacedSoFar, DoneSlots, DoneTemporaries, DoneArguments
  <2>3. Slot(pc.next) \notin DOMAIN place
    BY <2>1, <2>2 DEF Slot
  <2>4. /\ cursor' \in Nat
        /\ DOMAIN place' = DOMAIN place \cup {Slot(pc.next)}
        /\ \A o \in DOMAIN place' : place'[o] \in Place
        /\ BelowCursor' /\ NoOverlap' /\ AboveSavedPairAndAligned'
    BY <1>1, <1>2, <2>1, <2>3, PutKeepsApart
  <2>5. DOMAIN place' = {"slot"} \X (1 .. pc.next)
    BY <2>1, <2>2, <2>4 DEF Slot
  <2>6. PlacedSoFar' /\ LoopsInRange' /\ Closed'
    BY <2>1, <2>5, <1>3
       DEF PlacedSoFar, DoneSlots, DoneTemporaries, DoneArguments, LoopsInRange, Closed, Built
  <2>7. TypeOK'
    <3>1. DOMAIN place' \subseteq Owners'
      BY <2>1, <2>5, <1>3 DEF Owners
    <3> QED
      BY <3>1, <1>1, <2>1, <2>4 DEF TypeOK, Loops
  <2> QED
    BY <2>4, <2>6, <2>7 DEF IInv
<1>5. CASE SlotsDone
  <2>1. /\ pc.loop = "slots" /\ pc.next = Len(frame) + 1
        /\ pc' = [loop |-> "temporaries", next |-> 0]
        /\ UNCHANGED <<frame, needs, cursor, place, size>>
    BY <1>1, <1>2, <1>3, <1>5 DEF SlotsDone, LoopsInRange
  <2>2. PlacedSoFar'
    BY <2>1, <1>2, <1>3 DEF PlacedSoFar, DoneSlots, DoneTemporaries, DoneArguments
  <2>3. TypeOK' /\ LoopsInRange' /\ Closed'
    BY <2>1, <1>1, <1>3 DEF TypeOK, Loops, LoopsInRange, Closed, Built, Owners, Blocks
  <2>4. BelowCursor' /\ NoOverlap' /\ AboveSavedPairAndAligned'
    BY <2>1, <1>2 DEF BelowCursor, NoOverlap, AboveSavedPairAndAligned, Disjoint, End
  <2> QED
    BY <2>2, <2>3, <2>4 DEF IInv
<1>6. CASE PlaceTemporary
  <2>1. /\ pc.loop = "temporaries" /\ pc.next \in 0 .. needs.temporaries - 1
        /\ pc' = [loop |-> "temporaries", next |-> pc.next + 1]
        /\ frame' = frame /\ needs' = needs /\ size' = size /\ Blocks' = Blocks
        /\ Put(Temporary(pc.next), TEMPORARY_BYTES, TEMPORARY_BYTES)
    BY <1>1, <1>2, <1>3, <1>6 DEF PlaceTemporary, LoopsInRange, Blocks
  <2>2. DOMAIN place = ({"slot"} \X (1 .. Len(frame)))
                         \cup ({"temporary"} \X (0 .. pc.next - 1))
    BY <2>1, <1>2 DEF PlacedSoFar, DoneSlots, DoneTemporaries, DoneArguments
  <2>3. Temporary(pc.next) \notin DOMAIN place
    BY <2>1, <2>2 DEF Temporary
  <2>4. /\ cursor' \in Nat
        /\ DOMAIN place' = DOMAIN place \cup {Temporary(pc.next)}
        /\ \A o \in DOMAIN place' : place'[o] \in Place
        /\ BelowCursor' /\ NoOverlap' /\ AboveSavedPairAndAligned'
    <3>1. TEMPORARY_BYTES \in Nat /\ TEMPORARY_BYTES \in Alignments
      BY DEF TEMPORARY_BYTES, Alignments
    <3> QED
      BY <3>1, <1>1, <1>2, <2>1, <2>3, PutKeepsApart
  <2>5. DOMAIN place' = ({"slot"} \X (1 .. Len(frame)))
                          \cup ({"temporary"} \X (0 .. pc.next))
    BY <2>1, <2>2, <2>4 DEF Temporary
  <2>6. PlacedSoFar' /\ LoopsInRange' /\ Closed'
    BY <2>1, <2>5, <1>3
       DEF PlacedSoFar, DoneSlots, DoneTemporaries, DoneArguments, LoopsInRange, Closed, Built
  <2>7. TypeOK'
    <3>1. DOMAIN place' \subseteq Owners'
      BY <2>1, <2>5, <1>3 DEF Owners
    <3> QED
      BY <3>1, <1>1, <2>1, <2>4 DEF TypeOK, Loops
  <2> QED
    BY <2>4, <2>6, <2>7 DEF IInv
<1>7. CASE TemporariesDone
  <2>1. /\ pc.loop = "temporaries" /\ pc.next = needs.temporaries
        /\ pc' = [loop |-> "arguments", next |-> 0]
        /\ UNCHANGED <<frame, needs, cursor, place, size>>
    BY <1>1, <1>2, <1>3, <1>7 DEF TemporariesDone, LoopsInRange
  <2>2. PlacedSoFar'
    BY <2>1, <1>2, <1>3 DEF PlacedSoFar, DoneSlots, DoneTemporaries, DoneArguments
  <2>3. TypeOK' /\ LoopsInRange' /\ Closed'
    BY <2>1, <1>1, <1>3 DEF TypeOK, Loops, LoopsInRange, Closed, Built, Owners, Blocks
  <2>4. BelowCursor' /\ NoOverlap' /\ AboveSavedPairAndAligned'
    BY <2>1, <1>2 DEF BelowCursor, NoOverlap, AboveSavedPairAndAligned, Disjoint, End
  <2> QED
    BY <2>2, <2>3, <2>4 DEF IInv
<1>8. CASE PlaceArgument
  <2>1. /\ pc.loop = "arguments" /\ pc.next \in 0 .. Blocks - 1
        /\ pc' = [loop |-> "arguments", next |-> pc.next + 1]
        /\ frame' = frame /\ needs' = needs /\ size' = size /\ Blocks' = Blocks
        /\ Put(Argument(pc.next), TEMPORARY_BYTES, TEMPORARY_BYTES)
    BY <1>1, <1>2, <1>3, <1>8 DEF PlaceArgument, LoopsInRange, Blocks
  <2>2. DOMAIN place = ({"slot"} \X (1 .. Len(frame)))
                         \cup ({"temporary"} \X (0 .. needs.temporaries - 1))
                         \cup ({"argument"} \X (0 .. pc.next - 1))
    BY <2>1, <1>2 DEF PlacedSoFar, DoneSlots, DoneTemporaries, DoneArguments
  <2>3. Argument(pc.next) \notin DOMAIN place
    BY <2>1, <2>2 DEF Argument
  <2>4. /\ cursor' \in Nat
        /\ DOMAIN place' = DOMAIN place \cup {Argument(pc.next)}
        /\ \A o \in DOMAIN place' : place'[o] \in Place
        /\ BelowCursor' /\ NoOverlap' /\ AboveSavedPairAndAligned'
    <3>1. TEMPORARY_BYTES \in Nat /\ TEMPORARY_BYTES \in Alignments
      BY DEF TEMPORARY_BYTES, Alignments
    <3> QED
      BY <3>1, <1>1, <1>2, <2>1, <2>3, PutKeepsApart
  <2>5. DOMAIN place' = ({"slot"} \X (1 .. Len(frame)))
                          \cup ({"temporary"} \X (0 .. needs.temporaries - 1))
                          \cup ({"argument"} \X (0 .. pc.next))
    BY <2>1, <2>2, <2>4 DEF Argument
  <2>6. PlacedSoFar' /\ LoopsInRange' /\ Closed'
    BY <2>1, <2>5, <1>3
       DEF PlacedSoFar, DoneSlots, DoneTemporaries, DoneArguments, LoopsInRange, Closed, Built
  <2>7. TypeOK'
    <3>1. DOMAIN place' \subseteq Owners'
      BY <2>1, <2>5, <1>3 DEF Owners
    <3> QED
      BY <3>1, <1>1, <2>1, <2>4 DEF TypeOK, Loops
  <2> QED
    BY <2>4, <2>6, <2>7 DEF IInv
<1>9. CASE Finish
  <2>1. /\ pc.loop = "arguments" /\ pc.next = Blocks
        /\ pc' = [loop |-> "built", next |-> 0]
        /\ size' = align_to(cursor + needs.outgoing, STACK_ALIGNMENT)
        /\ UNCHANGED <<frame, needs, cursor, place>> /\ Blocks' = Blocks
    BY <1>1, <1>2, <1>3, <1>9 DEF Finish, LoopsInRange, Blocks
  <2>2. size' \in Nat
    BY <2>1, <1>1, <1>3, AlignTo DEF STACK_ALIGNMENT
  <2>3. PlacedSoFar'
    BY <2>1, <1>2, <1>3 DEF PlacedSoFar, DoneSlots, DoneTemporaries, DoneArguments
  <2>4. TypeOK' /\ LoopsInRange' /\ Closed'
    BY <2>1, <2>2, <1>1, <1>3
       DEF TypeOK, Loops, LoopsInRange, Closed, Built, Owners, Blocks
  <2>5. BelowCursor' /\ NoOverlap' /\ AboveSavedPairAndAligned'
    BY <2>1, <1>2 DEF BelowCursor, NoOverlap, AboveSavedPairAndAligned, Disjoint, End
  <2> QED
    BY <2>3, <2>4, <2>5 DEF IInv
<1>10. CASE UNCHANGED vars
  BY <1>1, <1>2, <1>10
     DEF vars, IInv, TypeOK, LoopsInRange, PlacedSoFar, BelowCursor, NoOverlap, Disjoint, End,
         AboveSavedPairAndAligned, Closed, Built, DoneSlots, DoneTemporaries, DoneArguments,
         Blocks, Owners, Place
<1> QED
  BY <1>4, <1>5, <1>6, <1>7, <1>8, <1>9, <1>10 DEF Next

(* The inductive invariant holds throughout. *)
THEOREM LayoutInvariant == Spec => []IInv
  BY InitIInv, StepIInv, PTL DEF Spec

(* The layout is well typed whatever was declared. *)
THEOREM LayoutTypeOK == Spec => []TypeOK
<1>1. IInv => TypeOK
  BY DEF IInv
<1> QED
  BY <1>1, LayoutInvariant, PTL

(* No two values build gives a place to share a byte, for every declared   *)
(* frame and every survey result.                                          *)
THEOREM LayoutNoOverlap == Spec => []NoOverlap
<1>1. IInv => NoOverlap
  BY DEF IInv
<1> QED
  BY <1>1, LayoutInvariant, PTL

(* Every place is aligned and above the saved x29 and x30. *)
THEOREM LayoutAligned == Spec => []AboveSavedPairAndAligned
<1>1. IInv => AboveSavedPairAndAligned
  BY DEF IInv
<1> QED
  BY <1>1, LayoutInvariant, PTL

(* A finished frame is a multiple of sixteen bytes and ends at or below    *)
(* the address its own stack-passed arguments are read from.               *)
THEOREM LayoutEndsBelowIncoming == Spec => []FrameEndsBelowIncoming
<1>1. IInv => FrameEndsBelowIncoming
  <2> SUFFICES ASSUME IInv, Built PROVE FrameEndsBelowIncoming
    BY DEF FrameEndsBelowIncoming
  <2>1. cursor \in Nat /\ frame \in Frames /\ needs \in Needs
        /\ \A o \in DOMAIN place : place[o] \in Place
    BY DEF IInv, TypeOK
  <2>2. needs.outgoing \in Nat /\ needs.outgoing % 16 = 0
    BY <2>1, Inputs DEF STACK_ALIGNMENT
  <2>3. size = align_to(cursor + needs.outgoing, 16)
    BY DEF IInv, Closed, STACK_ALIGNMENT
  <2>4. size \in Nat /\ size >= cursor + needs.outgoing /\ size % 16 = 0
    BY <2>1, <2>2, <2>3, AlignTo
  <2>5. incoming \in Nat /\ incoming % 16 = 0 /\ incoming >= cursor
    BY <2>1, <2>2, <2>4 DEF incoming
  <2>6. \A o \in DOMAIN place : End(o) \in Nat /\ End(o) <= cursor
    BY <2>1 DEF IInv, BelowCursor, End, Place
  <2>7. incoming >= SAVED_REGISTERS /\ \A o \in DOMAIN place : End(o) <= incoming
    BY <2>1, <2>5, <2>6 DEF IInv, BelowCursor, SAVED_REGISTERS
  <2> QED
    BY <2>4, <2>5, <2>7 DEF FrameEndsBelowIncoming, STACK_ALIGNMENT
<1> QED
  BY <1>1, LayoutInvariant, PTL

(* Every slot, every temporary below the surveyed depth and every argument *)
(* of every surveyed call depth has a place of its own.                    *)
THEOREM LayoutPlacesEveryNeed == Spec => []EveryNeedIsPlaced
<1>1. IInv => EveryNeedIsPlaced
  <2> SUFFICES ASSUME IInv, Built PROVE EveryNeedIsPlaced
    BY DEF EveryNeedIsPlaced
  <2>1. needs.arguments \in Nat /\ needs.call_depth \in Nat /\ Blocks \in Nat
        /\ needs \in Needs /\ frame \in Frames
    <3>1. needs \in Needs /\ frame \in Frames
      BY DEF IInv, TypeOK
    <3> QED
      BY <3>1, Inputs
  <2>2. DOMAIN place = Owners
    BY DEF IInv, PlacedSoFar, DoneSlots, DoneTemporaries, DoneArguments, Owners, Built
  <2>3. ASSUME NEW c \in 0 .. needs.call_depth - 1, NEW d \in 0 .. needs.call_depth - 1,
               NEW i \in 0 .. needs.arguments - 1, NEW j \in 0 .. needs.arguments - 1
        PROVE  /\ ArgumentOwner(c, i) \in DOMAIN place
               /\ ArgumentOwner(c, i) = ArgumentOwner(d, j) => c = d /\ i = j
    <3>1. c * needs.arguments + i < needs.call_depth * needs.arguments
      BY <2>1, RowBelow
    <3>2. c * needs.arguments \in Nat /\ d * needs.arguments \in Nat
      BY <2>1
    <3>3. ArgumentOwner(c, i) \in DOMAIN place
      <4>1. c * needs.arguments + i \in 0 .. Blocks - 1
        BY <2>1, <3>1, <3>2 DEF Blocks
      <4>2. <<"argument", c * needs.arguments + i>> \in Owners
        BY <4>1 DEF Owners
      <4> QED
        BY <2>2, <4>2 DEF ArgumentOwner, Argument
    <3>4. ASSUME c * needs.arguments + i = d * needs.arguments + j
          PROVE  c = d /\ i = j
      <4>1. ~(c < d)
        <5> SUFFICES ASSUME c < d PROVE FALSE
          OBVIOUS
        <5>1. c * needs.arguments + i < d * needs.arguments
          BY <2>1, RowBelow
        <5> QED
          BY <5>1, <3>2, <3>4, <2>1
      <4>2. ~(d < c)
        <5> SUFFICES ASSUME d < c PROVE FALSE
          OBVIOUS
        <5>1. d * needs.arguments + j < c * needs.arguments
          BY <2>1, RowBelow
        <5> QED
          BY <5>1, <3>2, <3>4, <2>1
      <4>3. c = d
        BY <4>1, <4>2, <2>1
      <4> QED
        BY <4>3, <3>2, <3>4
    <3> QED
      BY <3>3, <3>4 DEF ArgumentOwner, Argument
  <2> QED
    BY <2>2, <2>3 DEF EveryNeedIsPlaced
<1> QED
  BY <1>1, LayoutInvariant, PTL

=============================================================================
