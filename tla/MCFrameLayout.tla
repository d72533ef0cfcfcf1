-------------------------- MODULE MCFrameLayout ---------------------------
(* Small instances of FrameLayout for TLC. *)
EXTENDS FrameLayout, SequencesExt

(* The slots a declaration can produce: char, int, a decayed array         *)
(* parameter, and char arrays whose length leaves the cursor unaligned.    *)
Slots == {[size |-> 1, align |-> 1], [size |-> 4, align |-> 4],
          [size |-> 8, align |-> 8], [size |-> 3, align |-> 1],
          [size |-> 12, align |-> 4]}

MaxSlots == 3

SmallFrames == UNION {[1 .. n -> Slots] : n \in 0 .. MaxSlots}

SmallNeeds ==
  [temporaries : 0 .. 2, arguments : 0 .. 2, call_depth : 0 .. 2, outgoing : {0, 16}]

=============================================================================
