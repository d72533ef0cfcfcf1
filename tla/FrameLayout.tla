---------------------------- MODULE FrameLayout ----------------------------
(***************************************************************************)
(* The stack frame of one function, as FrameLayout::build lays it out      *)
(* (src/codegen/frame.rs).  The three loops of build are three actions,    *)
(* one placement each: named slots in declaration order, then expression   *)
(* temporaries, then argument slots; Finish rounds the total up.           *)
(*                                                                         *)
(* Offsets are relative to x29.  The saved pair is below the first slot,   *)
(* the area for outgoing stack arguments is below x29, and the arguments   *)
(* this function received on the stack begin where its frame ends.         *)
(***************************************************************************)
EXTENDS Alignment, Sequences

CONSTANTS
  Frames,   (* the declared frames: sequences of [size, align] records     *)
  Needs     (* what the surveys found: Requirements records                *)

SAVED_REGISTERS == 16
TEMPORARY_BYTES == 8
STACK_ALIGNMENT == 16

(* The alignments types.rs reports: a char, an int, an address.  An array  *)
(* has the alignment of its element.                                       *)
Alignments == {1, 4, 8}

Requirements ==
  [temporaries : Nat, arguments : Nat, call_depth : Nat, outgoing : Nat]

ASSUME FramesAssumption ==
  Frames \subseteq Seq([size : Nat, align : Alignments])

ASSUME NeedsAssumption ==
  /\ Needs \subseteq Requirements
  /\ \A n \in Needs : n.outgoing % STACK_ALIGNMENT = 0

VARIABLES
  frame,    (* the FrameSlots analysis recorded, in declaration order      *)
  needs,    (* the Requirements of the body                                *)
  pc,       (* which loop of build is running                              *)
  cursor,   (* the next free byte above x29                                *)
  place,    (* offset and size of everything placed so far, by owner       *)
  size      (* the frame's total size, set when build returns              *)

vars == <<frame, needs, pc, cursor, place, size>>

(* The owners of a place: the k-th declared slot, the temporary of nesting *)
(* depth d, the p-th argument slot counted over all call depths.           *)
Slot(k)      == <<"slot", k>>
Temporary(d) == <<"temporary", d>>
Argument(p)  == <<"argument", p>>

Blocks == needs.call_depth * needs.arguments

(* Gives `owner` the next `bytes` bytes at a multiple of `alignment`.       *)
Put(owner, bytes, alignment) ==
  LET at == align_to(cursor, alignment)
  IN  /\ place' = [o \in DOMAIN place \cup {owner} |->
                     IF o = owner THEN [offset |-> at, size |-> bytes, align |-> alignment]
                                  ELSE place[o]]
      /\ cursor' = at + bytes

Placed(kind) == {o \in DOMAIN place : o[1] = kind}

------------------------------------------------------------------------------

Init ==
  /\ frame \in Frames
  /\ needs \in Needs
  /\ pc = [loop |-> "slots", next |-> 1]
  /\ cursor = SAVED_REGISTERS
  /\ place = <<>>
  /\ size = 0

(* One turn of `for slot in &frame.slots`. *)
PlaceSlot ==
  /\ pc.loop = "slots"
  /\ pc.next <= Len(frame)
  /\ Put(Slot(pc.next), frame[pc.next].size, frame[pc.next].align)
  /\ pc' = [pc EXCEPT !.next = @ + 1]
  /\ UNCHANGED <<frame, needs, size>>

SlotsDone ==
  /\ pc.loop = "slots"
  /\ pc.next > Len(frame)
  /\ pc' = [loop |-> "temporaries", next |-> 0]
  /\ UNCHANGED <<frame, needs, cursor, place, size>>

(* One turn of `for _ in 0..needs.temporaries`. *)
PlaceTemporary ==
  /\ pc.loop = "temporaries"
  /\ pc.next < needs.temporaries
  /\ Put(Temporary(pc.next), TEMPORARY_BYTES, TEMPORARY_BYTES)
  /\ pc' = [pc EXCEPT !.next = @ + 1]
  /\ UNCHANGED <<frame, needs, size>>

TemporariesDone ==
  /\ pc.loop = "temporaries"
  /\ pc.next >= needs.temporaries
  /\ pc' = [loop |-> "arguments", next |-> 0]
  /\ UNCHANGED <<frame, needs, cursor, place, size>>

(* One turn of `for _ in 0..blocks`. *)
PlaceArgument ==
  /\ pc.loop = "arguments"
  /\ pc.next < Blocks
  /\ Put(Argument(pc.next), TEMPORARY_BYTES, TEMPORARY_BYTES)
  /\ pc' = [pc EXCEPT !.next = @ + 1]
  /\ UNCHANGED <<frame, needs, size>>

(* A fault of Finish: the outgoing area is left out of the total. *)
FinishWithoutOutgoing ==
  /\ pc.loop = "arguments"
  /\ pc.next >= Blocks
  /\ size' = align_to(cursor, STACK_ALIGNMENT)
  /\ pc' = [loop |-> "built", next |-> 0]
  /\ UNCHANGED <<frame, needs, cursor, place>>

(* The frame is closed: the outgoing area is added and the sum rounded up. *)
Finish ==
  /\ pc.loop = "arguments"
  /\ pc.next >= Blocks
  /\ size' = align_to(cursor + needs.outgoing, STACK_ALIGNMENT)
  /\ pc' = [loop |-> "built", next |-> 0]
  /\ UNCHANGED <<frame, needs, cursor, place>>

Next ==
  \/ PlaceSlot
  \/ SlotsDone
  \/ PlaceTemporary
  \/ TemporariesDone
  \/ PlaceArgument
  \/ Finish

Spec == Init /\ [][Next]_vars

------------------------------------------------------------------------------
(* What the rest of the generator asks of a finished layout. *)

Built == pc.loop = "built"

(* Where this function's own stack-passed arguments begin. *)
incoming == size - needs.outgoing

(* A fault of argument: call depths are one slot apart. *)
ArgumentOwnerUnscaled(depth, index) == Argument(depth + index)

(* The owner `argument(depth, index)` finds the offset of. *)
ArgumentOwner(depth, index) == Argument(depth * needs.arguments + index)

End(o) == place[o].offset + place[o].size

Disjoint(o, q) == End(o) <= place[q].offset \/ End(q) <= place[o].offset

------------------------------------------------------------------------------
(* Properties. *)

Owners ==
  ({"slot"} \X (1 .. Len(frame)))
    \cup ({"temporary"} \X (0 .. needs.temporaries - 1))
    \cup ({"argument"} \X (0 .. Blocks - 1))

Loops == {"slots", "temporaries", "arguments", "built"}

Place == [offset : Nat, size : Nat, align : Alignments]

(* Type invariant: the layout maps owners to places, and offsets, sizes    *)
(* and the cursor are natural numbers.                                     *)
TypeOK ==
  /\ frame \in Frames
  /\ needs \in Needs
  /\ pc \in [loop : Loops, next : Nat]
  /\ cursor \in Nat
  /\ DOMAIN place \subseteq Owners
  /\ \A o \in DOMAIN place : place[o] \in Place
  /\ size \in Nat

(* No two of the things build places share a byte: a local, a temporary    *)
(* and a parked argument are never given the same address, however sizes   *)
(* and alignments are mixed.                                               *)
NoOverlap ==
  \A o, q \in DOMAIN place : o # q => Disjoint(o, q)

(* Nothing is placed on the saved x29 and x30, and everything starts at    *)
(* the boundary its type asks for.                                         *)
AboveSavedPairAndAligned ==
  \A o \in DOMAIN place :
    /\ place[o].offset >= SAVED_REGISTERS
    /\ place[o].offset % place[o].align = 0

(* A finished frame keeps the stack pointer aligned, and everything placed *)
(* ends before the bytes the caller wrote this function's stack arguments  *)
(* to: incoming() never points into the frame's own slots.                 *)
FrameEndsBelowIncoming ==
  Built => /\ size % STACK_ALIGNMENT = 0
           /\ incoming % STACK_ALIGNMENT = 0
           /\ incoming >= SAVED_REGISTERS
           /\ \A o \in DOMAIN place : End(o) <= incoming

(* A finished layout has a place for every declared slot, for every        *)
(* nesting depth below the survey's and for every argument of every call   *)
(* depth below the survey's, and argument(depth, index) tells them apart:  *)
(* an `unlowered` diagnostic is never the fate of a program that passed    *)
(* analysis.                                                               *)
EveryNeedIsPlaced ==
  Built =>
    /\ DOMAIN place = Owners
    /\ \A c, d \in 0 .. needs.call_depth - 1, i, j \in 0 .. needs.arguments - 1 :
         /\ ArgumentOwner(c, i) \in DOMAIN place
         /\ ArgumentOwner(c, i) = ArgumentOwner(d, j) => c = d /\ i = j

=============================================================================
