---------------------------- MODULE Instructions ----------------------------
(***************************************************************************)
(* The ARM64 instructions src/codegen emits, as records, and the spellings *)
(* the emitter chooses between (src/codegen/emit.rs).                      *)
(*                                                                         *)
(* Registers are numbered; w and x names are told apart by the             *)
(* instruction.  `movz` stands for the movz and movk that build a literal, *)
(* `cset` for a cmp and the cset that follows it, `adr` for an adrp and    *)
(* the add that completes it.                                              *)
(***************************************************************************)
EXTENDS Integers, Sequences

CONSTANTS
  Reach,      (* largest offset of a load or store, by width               *)
  AddReach,   (* largest immediate of an add or a sub                      *)
  PairReach   (* largest offset of an stp or ldp                           *)

Widths == {"byte", "word", "double"}

ASSUME ReachAssumption ==
  /\ Reach \in [Widths -> Nat]
  /\ AddReach \in Nat
  /\ PairReach \in Nat

SCRATCH == 9
FP == 29
LR == 30
SP == 31

element_stride(width) == CASE width = "byte" -> 1 [] width = "word" -> 4 [] OTHER -> 8

(* What the assembler accepts as the offset of a load or store. *)
OffsetEncodes(width, offset) ==
  /\ offset <= Reach[width]
  /\ offset % element_stride(width) = 0

(* A fault of reaches: one step too far. *)
ReachesOneMore(width, offset) ==
  /\ offset <= Reach[width] + element_stride(width)
  /\ offset % element_stride(width) = 0

(* Whether the emitter takes an offset to fit the immediate field of its   *)
(* width.                                                                  *)
reaches(width, offset) ==
  /\ offset <= Reach[width]
  /\ offset % element_stride(width) = 0

Movz(d, v)            == [i |-> "movz", d |-> d, v |-> v]
Memory(i, w, d, base, at) == [i |-> i, w |-> w, d |-> d, base |-> base, at |-> at]
Load(w, d, base, at)  == Memory("load", w, d, base, at)
Store(w, d, base, at) == Memory("store", w, d, base, at)
AddImmediate(d, base, by) == [i |-> "add_imm", d |-> d, base |-> base, by |-> by]
AddRegister(d, base, m)   == [i |-> "add_reg", d |-> d, base |-> base, m |-> m]
SubRegister(d, base, m)   == [i |-> "sub_reg", d |-> d, base |-> base, m |-> m]
Word(op, d, n, m)     == [i |-> "word", op |-> op, d |-> d, n |-> n, m |-> m]
WordStep(d, n, by)    == [i |-> "step", d |-> d, n |-> n, by |-> by]
Msub(d, n, m, a)      == [i |-> "msub", d |-> d, n |-> n, m |-> m, a |-> a]
Neg(d)                == [i |-> "neg", d |-> d]
Cset(code, d, n, m)   == [i |-> "cset", code |-> code, d |-> d, n |-> n, m |-> m]
CsetZero(d)           == [i |-> "cset_zero", d |-> d]
Mov(d, n)             == [i |-> "mov", d |-> d, n |-> n]
MovAddress(d, n)      == [i |-> "mov_x", d |-> d, n |-> n]
Sxtw(d, n)            == [i |-> "sxtw", d |-> d, n |-> n]
Madd(d, n, m, a)      == [i |-> "madd", d |-> d, n |-> n, m |-> m, a |-> a]
Adr(d, symbol)        == [i |-> "adr", d |-> d, symbol |-> symbol]
Label(l)              == [i |-> "label", l |-> l]
FunctionLabel(name)   == [i |-> "function", name |-> name]
Goto(l)               == [i |-> "b", l |-> l]
Cbz(l)                == [i |-> "cbz", l |-> l]
Cbnz(l)               == [i |-> "cbnz", l |-> l]
Bl(name)              == [i |-> "bl", name |-> name]
Ret                   == [i |-> "ret"]
StpPre(by)            == [i |-> "stp_pre", by |-> by]
LdpPost(by)           == [i |-> "ldp_post", by |-> by]
Pair(i, base, at)     == [i |-> i, base |-> base, at |-> at]

(* One frame load or store: through the scratch register when the offset   *)
(* does not fit.                                                           *)
frame_access(instruction, width, register, offset) ==
  IF reaches(width, offset)
  THEN <<Memory(instruction, width, register, FP, offset)>>
  ELSE <<Movz(SCRATCH, offset), AddRegister(SCRATCH, FP, SCRATCH),
         Memory(instruction, width, register, SCRATCH, 0)>>

load_from_frame(register, width, offset) == frame_access("load", width, register, offset)
store_to_frame(register, width, offset)  == frame_access("store", width, register, offset)

(* The address of a place in the frame. *)
frame_address(register, offset) ==
  IF offset <= AddReach
  THEN <<AddImmediate(register, FP, offset)>>
  ELSE <<Movz(SCRATCH, offset), AddRegister(register, FP, SCRATCH)>>

=============================================================================
