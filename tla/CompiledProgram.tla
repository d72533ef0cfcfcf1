--------------------------- MODULE CompiledProgram ---------------------------
(***************************************************************************)
(* A compiled program running: the code CodeGenerator emits for a program, *)
(* executed one instruction at a time on a register file and a byte        *)
(* memory, with the runtime's functions as the outside world.              *)
(*                                                                         *)
(* The processor is not part of the compiler; it is modelled from the      *)
(* instructions the compiler emits.  A register is the pair of its low and *)
(* high 32 bits: writing a w register clears the high half.  Everything    *)
(* the program did not write holds the same arbitrary byte, and a call to  *)
(* the runtime destroys the caller-saved registers.                        *)
(***************************************************************************)
EXTENDS CodeGenerator, CSemantics, SequencesExt

CONSTANTS
  Programs,      (* the programs compiled, a function from their names     *)
  Images,        (* what each is compiled to: Compiled, below              *)
  Meanings,      (* what C says each does: Interpreted, below              *)
  Garbage,       (* bytes uninitialized storage may hold                   *)
  MemoryBytes    (* size of memory; the stack grows down from its end      *)

ASSUME ProgramAssumption ==
  /\ Garbage \subseteq 0 .. 255
  /\ MemoryBytes % STACK_ALIGNMENT = 0

VARIABLES
  p,         (* which program runs                                         *)
  image,     (* its executable: code, data section and frame layouts       *)
  garbage,   (* the byte uninitialized storage holds in this run           *)
  pc,        (* position of the next instruction; 0 when main has returned *)
  regs,      (* x0 to x9, x29, x30 and sp                                  *)
  mem,       (* the bytes of memory                                        *)
  out,       (* what the runtime's functions have printed                  *)
  calls      (* history: functions running, with what they must restore    *)

vars == <<p, image, garbage, pc, regs, mem, out, calls>>

Code == image.code
Instruction == Code[pc]

------------------------------------------------------------------------------
(* Bytes and words. *)

WordBytes(v) ==
  <<v % 256, (v \div 256) % 256, (v \div 65536) % 256, (v \div 16777216) % 256>>

SignedByte(b) == IF b > 127 THEN b - 256 ELSE b

WordAt(m, a) ==
  m[a] + 256 * m[a + 1] + 65536 * m[a + 2] + 16777216 * SignedByte(m[a + 3])

Low(v)      == [lo |-> v, hi |-> 0]
Extended(v) == [lo |-> v, hi |-> IF v < 0 THEN -1 ELSE 0]

(* What a load of `width` at address `a` leaves in a register. *)
Loaded(m, width, a) ==
  CASE width = "byte"   -> Low(SignedByte(m[a]))
    [] width = "word"   -> Low(WordAt(m, a))
    [] width = "double" -> [lo |-> WordAt(m, a), hi |-> WordAt(m, a + 4)]

(* Memory after the low bytes of register `r` are stored at `a`. *)
AfterStore(m, width, a, r) ==
  LET bytes == WordBytes(r.lo) \o WordBytes(r.hi)
  IN  [x \in DOMAIN m |->
         IF x >= a /\ x < a + element_stride(width) THEN bytes[x - a + 1] ELSE m[x]]

------------------------------------------------------------------------------
(* The data section: globals in the order written, then string literals.   *)

(* constant_value: the folder of global initializers. *)
RECURSIVE constant_value(_)
constant_value(e) ==
  CASE e.k \in {"IntLit", "CharLit"} -> e.v
    [] e.k = "Unary" ->
         LET x == constant_value(e.e)
         IN  IF e.op = "Negate" THEN -x ELSE IF e.op = "Not" THEN Truth(x = 0) ELSE x
    [] e.k = "Binary" ->
         LET x == constant_value(e.l)
             y == constant_value(e.r)
         IN  IF e.op = "And" THEN Truth(x # 0 /\ y # 0)
             ELSE IF e.op = "Or" THEN Truth(x # 0 \/ y # 0)
             ELSE Applied(e.op, x, y)

(* global_element: `.byte` or `.long` of the folded value, as the bytes    *)
(* the assembler makes of it.                                              *)
global_element(base, v) == IF base = "char" THEN <<v % 256>> ELSE WordBytes(v)

(* global and global_values: the initializer's values as far as they fit,  *)
(* then zeros.                                                             *)
GlobalImage(decl) ==
  LET bytes == IF decl.init.form = "expr" /\ decl.init.es[1].k = "StrLit"
               THEN decl.init.es[1].bytes \o <<0>>
               ELSE FlattenSeq([i \in DOMAIN decl.init.es |->
                      global_element(decl.ty.base, constant_value(decl.init.es[i]))])
  IN  [n \in 1 .. layout(decl.ty).size |-> IF n <= Len(bytes) THEN bytes[n] ELSE 0]

(* The values `.byte` can hold; the assembler refuses any other.           *)
ByteValues == -128 .. 255

DataAssembles(program) ==
  \A i \in DOMAIN program.globals :
    LET decl == program.globals[i]
    IN  decl.ty.base = "char" =>
          \A n \in DOMAIN decl.init.es :
            decl.init.es[n].k # "StrLit" => constant_value(decl.init.es[n]) \in ByteValues

(* intern_string: one copy of each distinct literal. *)
StringsOf(code) ==
  SetToSeq({i.symbol[2] : i \in {j \in ToSet(code) : j.i = "adr" /\ j.symbol[1] = "string"}})

(* Everything in the data section: its symbol, alignment and bytes. *)
DataItems(program, code) ==
  [i \in DOMAIN program.globals |->
     LET decl == program.globals[i]
     IN  [symbol |-> <<"global", decl.name>>, align |-> layout(decl.ty).align,
          bytes |-> GlobalImage(decl)]]
    \o [i \in DOMAIN StringsOf(code) |->
          [symbol |-> <<"string", StringsOf(code)[i]>>, align |-> 1,
           bytes |-> StringsOf(code)[i] \o <<0>>]]

(* The data section starts above address 0, which is no object's. *)
FirstData == 16

PlacedItems(items) ==
  LET end[n \in 0 .. Len(items)] ==
        IF n = 0 THEN FirstData
        ELSE align_to(end[n - 1], items[n].align) + Len(items[n].bytes)
  IN  [n \in DOMAIN items |-> [symbol |-> items[n].symbol, bytes |-> items[n].bytes,
                               at |-> end[n] - Len(items[n].bytes)]]

(* The executable of a program. *)
ImageOf(program) ==
  LET g == generate(program)
  IN  [code |-> g.code, lost |-> g.lost, assembles |-> DataAssembles(program),
       data |-> PlacedItems(DataItems(program, g.code)),
       layouts |-> [name \in {program.functions[i].name : i \in DOMAIN program.functions} |->
                      LayoutOf(FunctionNamed(program, name))]]

(* Every program is compiled, and interpreted, once, before any runs.      *)
Compiled ==
  LET executable[k \in DOMAIN Programs] == ImageOf(Programs[k]) IN executable

Interpreted ==
  LET meaning[k \in DOMAIN Programs] == Meaning(Programs[k]) IN meaning

ASSUME OnceAssumption == Images = Compiled /\ Meanings = Interpreted

Data == image.data

AddressOf(symbol) ==
  Data[CHOOSE n \in DOMAIN Data :
            Data[n].symbol[1] = symbol[1] /\ Data[n].symbol[2] = symbol[2]].at

------------------------------------------------------------------------------
(* The processor. *)

Registers == (0 .. 9) \cup {FP, LR, SP}

(* An address needs its high half clear. *)
Address(r) == IF regs[r].hi = 0 THEN regs[r].lo ELSE -1

LabelAt(l) == CHOOSE n \in DOMAIN Code : Code[n].i = "label" /\ Code[n].l = l
FunctionAt(name) == CHOOSE n \in DOMAIN Code : Code[n].i = "function" /\ Code[n].name = name

Holds(code, a, b) == Applied(code, a, b) = 1

(* The value an instruction leaves in its destination register. *)
Result(i) ==
  LET lo(r) == regs[r].lo
  IN  CASE i.i = "movz"      -> Low(i.v)
        [] i.i = "load"      -> Loaded(mem, i.w, Address(i.base) + i.at)
        [] i.i = "add_imm"   -> Low(lo(i.base) + i.by)
        [] i.i = "add_reg"   -> Low(lo(i.base) + lo(i.m))
        [] i.i = "sub_reg"   -> Low(lo(i.base) - lo(i.m))
        [] i.i = "word"      -> Low(CASE i.op = "add"  -> lo(i.n) + lo(i.m)
                                      [] i.op = "sub"  -> lo(i.n) - lo(i.m)
                                      [] i.op = "mul"  -> lo(i.n) * lo(i.m)
                                      [] i.op = "sdiv" -> Quotient(lo(i.n), lo(i.m)))
        [] i.i = "step"      -> Low(lo(i.n) + i.by)
        [] i.i = "msub"      -> Low(lo(i.a) - lo(i.n) * lo(i.m))
        [] i.i = "neg"       -> Low(-lo(i.d))
        [] i.i = "cset"      -> Low(Truth(Holds(i.code, lo(i.n), lo(i.m))))
        [] i.i = "cset_zero" -> Low(Truth(lo(i.d) = 0))
        [] i.i = "mov"       -> Low(lo(i.n))
        [] i.i = "mov_x"     -> regs[i.n]
        [] i.i = "sxtw"      -> Extended(lo(i.n))
        [] i.i = "madd"      -> IF regs[i.n] = Extended(lo(i.n))
                                THEN Low(lo(i.n) * lo(i.m) + lo(i.a))
                                ELSE [lo |-> lo(i.n), hi |-> lo(i.m)]
        [] i.i = "adr"       -> Low(AddressOf(i.symbol))

Accesses == {"load", "store"}
PairAccesses == {"stp", "ldp", "stp_pre", "ldp_post"}
Jumps == {"b", "cbz", "cbnz", "bl", "ret"}
Labels == {"label", "function"}
Computes(i) == i.i \notin {"store"} \cup PairAccesses \cup Jumps \cup Labels

(* The first byte a memory access touches. *)
Touched(i) ==
  CASE i.i \in Accesses \cup {"stp", "ldp"} -> Address(i.base) + i.at
    [] i.i = "stp_pre"  -> Address(SP) - i.by
    [] i.i = "ldp_post" -> Address(SP)

TouchedBytes(i) == IF i.i \in Accesses THEN element_stride(i.w) ELSE 16

(* What the assembler accepts: every immediate fits its field. *)
Encodable(i) ==
  CASE i.i \in Accesses       -> OffsetEncodes(i.w, i.at)
    [] i.i = "add_imm"        -> Magnitude(i.by) <= AddReach
    [] i.i \in {"stp", "ldp"} -> i.at <= PairReach
    [] i.i = "stp_pre"        -> i.by <= PairReach + 8
    [] i.i = "ldp_post"       -> i.by <= PairReach
    [] OTHER -> TRUE

(* An access that lands outside memory, or through a stack pointer that is *)
(* not aligned, stops the processor.                                       *)
Executes(i) ==
  i.i \in Accesses \cup PairAccesses =>
    /\ Touched(i) >= 0
    /\ Touched(i) + TouchedBytes(i) <= MemoryBytes
    /\ Address(SP) % STACK_ALIGNMENT = 0

Advance == pc' = pc + 1

Init ==
  /\ p \in DOMAIN Programs
  /\ image = Images[p]
  /\ garbage \in Garbage
  /\ LET word == WordAt([n \in 0 .. 3 |-> garbage], 0)
     IN  regs = [r \in Registers |->
                   IF r = SP THEN Low(MemoryBytes - 16)
                   ELSE IF r = FP THEN Low(MemoryBytes)
                   ELSE IF r = LR THEN Low(0) ELSE [lo |-> word, hi |-> word]]
  /\ mem = [a \in 0 .. MemoryBytes - 1 |->
              LET n == {m \in DOMAIN Data :
                          a >= Data[m].at /\ a < Data[m].at + Len(Data[m].bytes)}
              IN  IF n = {} THEN garbage
                  ELSE LET d == Data[CHOOSE m \in n : TRUE] IN d.bytes[a - d.at + 1]]
  /\ pc = FunctionAt("main")
  /\ out = <<>>
  /\ calls = <<[name |-> "main", return |-> 0, sp |-> MemoryBytes - 16, fp |-> MemoryBytes]>>

(* A register is computed or loaded. *)
Compute ==
  /\ pc # 0
  /\ Computes(Instruction)
  /\ Executes(Instruction)
  /\ regs' = [regs EXCEPT ![Instruction.d] = Result(Instruction)]
  /\ Advance
  /\ UNCHANGED <<p, image, garbage, mem, out, calls>>

StoreRegister ==
  /\ pc # 0
  /\ Instruction.i = "store"
  /\ Executes(Instruction)
  /\ mem' = AfterStore(mem, Instruction.w, Touched(Instruction), regs[Instruction.d])
  /\ Advance
  /\ UNCHANGED <<p, image, garbage, regs, out, calls>>

(* stp: the frame pointer and the return address are saved. *)
SavePair ==
  /\ pc # 0
  /\ Instruction.i \in {"stp", "stp_pre"}
  /\ Executes(Instruction)
  /\ mem' = LET a == Touched(Instruction)
            IN  AfterStore(AfterStore(mem, "double", a, regs[FP]), "double", a + 8, regs[LR])
  /\ regs' = [regs EXCEPT ![SP] = IF Instruction.i = "stp" THEN @ ELSE Low(Touched(Instruction))]
  /\ Advance
  /\ UNCHANGED <<p, image, garbage, out, calls>>

(* ldp: they are put back. *)
RestorePair ==
  /\ pc # 0
  /\ Instruction.i \in {"ldp", "ldp_post"}
  /\ Executes(Instruction)
  /\ LET a == Touched(Instruction)
     IN  regs' = [regs EXCEPT ![FP] = Loaded(mem, "double", a),
                              ![LR] = Loaded(mem, "double", a + 8),
                              ![SP] = IF Instruction.i = "ldp" THEN @ ELSE Low(a + Instruction.by)]
  /\ Advance
  /\ UNCHANGED <<p, image, garbage, mem, out, calls>>

(* A label is passed, or a branch taken or not. *)
Branch ==
  /\ pc # 0
  /\ Instruction.i \in Labels \cup {"b", "cbz", "cbnz"}
  /\ pc' = IF \/ Instruction.i = "b"
              \/ Instruction.i = "cbz" /\ regs[0].lo = 0
              \/ Instruction.i = "cbnz" /\ regs[0].lo # 0
           THEN LabelAt(Instruction.l) ELSE pc + 1
  /\ UNCHANGED <<p, image, garbage, regs, mem, out, calls>>

CallFunction ==
  /\ pc # 0
  /\ Instruction.i = "bl"
  /\ Instruction.name \notin RuntimeNames
  /\ pc' = FunctionAt(Instruction.name)
  /\ regs' = [regs EXCEPT ![LR] = Low(pc + 1)]
  /\ calls' = Append(calls, [name |-> Instruction.name, return |-> pc + 1,
                             sp |-> Address(SP), fp |-> Address(FP)])
  /\ UNCHANGED <<p, image, garbage, mem, out>>

(* The bytes of a string argument, up to its terminator. *)
TextAt(a) ==
  LET end == CHOOSE n \in 0 .. MemoryBytes - 1 - a :
               mem[a + n] = 0 /\ \A m \in 0 .. n - 1 : mem[a + m] # 0
  IN  [n \in 1 .. end |-> <<SignedByte(mem[a + n - 1])>>]

(* A call to the runtime: it prints, and leaves nothing in the registers a *)
(* callee may use.                                                         *)
CallRuntime ==
  /\ pc # 0
  /\ Instruction.i = "bl"
  /\ Instruction.name \in RuntimeNames
  /\ Address(SP) % STACK_ALIGNMENT = 0
  /\ out' = CASE Instruction.name = "print_int"  -> Append(out, <<regs[0].lo>>)
              [] Instruction.name = "print_char" ->
                   Append(out, <<SignedByte(regs[0].lo % 256)>>)
              [] Instruction.name = "print_string" -> out \o TextAt(Address(0))
  /\ LET word == WordAt([n \in 0 .. 3 |-> garbage], 0)
     IN  regs' = [r \in Registers |->
                    IF r = LR THEN Low(pc + 1)
                    ELSE IF r \in {SP, FP} THEN regs[r] ELSE [lo |-> word, hi |-> word]]
  /\ Advance
  /\ UNCHANGED <<p, image, garbage, mem, calls>>

Return_ ==
  /\ pc # 0
  /\ Instruction.i = "ret"
  /\ pc' = Address(LR)
  /\ calls' = Front(calls)
  /\ UNCHANGED <<p, image, garbage, regs, mem, out>>

Next ==
  \/ Compute
  \/ StoreRegister
  \/ SavePair
  \/ RestorePair
  \/ Branch
  \/ CallFunction
  \/ CallRuntime
  \/ Return_

(* A processor does not stop while it has an instruction to execute. *)
Spec == Init /\ [][Next]_vars /\ WF_vars(Next)

------------------------------------------------------------------------------
(* Properties. *)

Register == [lo : Int, hi : Int]

(* Type invariant: registers hold pairs of integers, memory holds bytes    *)
(* and the program counter is in the code or at the end.                   *)
TypeOK ==
  /\ p \in DOMAIN Programs
  /\ garbage \in Garbage
  /\ pc \in 0 .. Len(Code)
  /\ regs \in [Registers -> Register]
  /\ mem \in [0 .. MemoryBytes - 1 -> 0 .. 255]
  /\ \A i \in DOMAIN out : Len(out[i]) = 1
  /\ \A i \in DOMAIN calls : calls[i].return \in 0 .. Len(Code)

Finished == pc = 0

(* The values the global `decl` ends with, read from its bytes. *)
GlobalValues(decl) ==
  LET at == AddressOf(<<"global", decl.name>>)
  IN  [n \in 1 .. decl.ty.len |->
         Loaded(mem, width_for(decl.ty), at + (n - 1) * ScalarBytes(decl.ty.base)).lo]

(* A compiled program that ends has printed what the C program prints, in  *)
(* that order, left every global as the C program leaves it, and returns   *)
(* main's value: values survive spilling, calls, branches and byte-sized   *)
(* storage whatever the stack held before.                                 *)
AgreesWithC ==
  Finished =>
    LET meaning == Meanings[p]
    IN  /\ out = meaning.out
        /\ regs[0].lo = meaning.v
        /\ \A i \in DOMAIN Programs[p].globals :
             LET decl == Programs[p].globals[i]
             IN  GlobalValues(decl) = GlobalAfter(meaning, decl.name)

(* Where ret is reached, the caller's stack and frame pointers are back    *)
(* and the return address is the one of the call: the epilogue undoes the  *)
(* prologue in every shape of frame, whatever the body and the functions   *)
(* it called did.                                                          *)
ReturnsToCaller ==
  ~Finished /\ Instruction.i = "ret" =>
    /\ calls # <<>>
    /\ Address(SP) = Last(calls).sp
    /\ Address(FP) = Last(calls).fp
    /\ Address(LR) = Last(calls).return

(* Nothing analysis accepted is left unlowered.  Every immediate fits the  *)
(* field of its instruction or of its data directive, so that the          *)
(* assembler takes the file; every access lands in memory, and sp is       *)
(* aligned when it is used; and a branch has one place to go, for the      *)
(* numbers handed out as labels are unique in the file.                    *)
OnePlaceToGo(label) == Cardinality({n \in DOMAIN Code : Code[n].i = "label" /\ Code[n].l = label}) = 1

EveryInstructionExecutes ==
  /\ image.assembles /\ ~image.lost
  /\ ~Finished => /\ Encodable(Instruction) /\ Executes(Instruction)
                  /\ Instruction.i \in {"b", "cbz", "cbnz"} => OnePlaceToGo(Instruction.l)

(* Where the objects of the functions running are. *)
FrameOf(k) == IF k = Len(calls) THEN Address(FP) ELSE calls[k + 1].fp

NamedObjects(k) ==
  LET f     == FunctionNamed(Programs[p], calls[k].name)
      slots == slots_of(f)
  IN  {<<FrameOf(k) + image.layouts[f.name].offsets[slots[i].name], slots[i].size>> :
         i \in DOMAIN slots}

OwnObjects ==
  LET l == image.layouts[Last(calls).name]
  IN  {<<Address(FP) + at, TEMPORARY_BYTES>> : at \in ToSet(l.temporaries) \cup ToSet(l.arguments)}
        \cup {<<Address(FP) - l.outgoing, l.outgoing>>}

GlobalObjects ==
  {<<Data[n].at, Len(Data[n].bytes)>> :
     n \in {m \in DOMAIN Data : Data[m].symbol[1] = "global"}}

(* A store never runs over the edge of an object: it stays in one variable *)
(* (of this function, of the program, or of a caller that passed an        *)
(* array), in one of this call's own temporaries or argument slots, or in  *)
(* its own area for outgoing arguments.                                    *)
StoresStayInObjects ==
  ~Finished /\ Instruction.i = "store" =>
    \E o \in GlobalObjects \cup OwnObjects \cup UNION {NamedObjects(k) : k \in DOMAIN calls} :
      /\ o[1] <= Touched(Instruction)
      /\ Touched(Instruction) + TouchedBytes(Instruction) <= o[1] + o[2]

(* Every program whose loops end in C ends when compiled: `continue` and   *)
(* `break` reach the step and the exit of the innermost loop.              *)
Terminates == <>Finished

=============================================================================
