----------------------------- MODULE Alignment -----------------------------
(* Rounding to a boundary, shared by the layout of a frame and the packing *)
(* of stack arguments (align_to in src/codegen/frame.rs and its twin       *)
(* align_up in src/codegen/expr.rs).                                       *)
EXTENDS Integers

(* Faults of align_to: rounding down, and not rounding at all. *)
align_down(value, alignment) == value - (value % alignment)
align_not(value, alignment) == value

(* `value` rounded up to the next multiple of `alignment`, which is not 0. *)
align_to(value, alignment) ==
  IF value % alignment = 0
  THEN value
  ELSE value + (alignment - (value % alignment))

=============================================================================
