---------------------------- MODULE CodeGenerator ----------------------------
(***************************************************************************)
(* Lowering of functions, statements and expressions to instructions       *)
(* (src/codegen/mod.rs, stmt.rs, expr.rs and the prologue and epilogue of  *)
(* frame.rs).                                                              *)
(*                                                                         *)
(* A generator `g` is a record with the fields of the code's Generator;    *)
(* every operator returns the generator after it has run.  `code` is what  *)
(* was emitted, `lost` whether an Internal diagnostic was reported.        *)
(***************************************************************************)
EXTENDS FrameSurvey, Instructions

(* The pre-indexed stp reaches one step further down than stp reaches up.  *)
PRE_INDEXED_LIMIT == PairReach + 8
PAIR_OFFSET_LIMIT == PairReach

Emit(g, instructions) == [g EXCEPT !.code = @ \o instructions]

unlowered(g) == [g EXCEPT !.lost = TRUE]

(* The number of the next label; emit's counter runs across functions. *)
new_label(g) == g.labels
WithLabels(g, n) == [g EXCEPT !.labels = @ + n]

TypeOfNode(g, e) == type_of(g.program, g.names, e)

(* width_for: an array moves one element at a time. *)
width_for(ty) ==
  IF ty.shape = "ptr" THEN "double" ELSE IF ty.base = "char" THEN "byte" ELSE "word"

width_of(g, e) == width_for(TypeOfNode(g, e))

HasTemporary(g) == g.depth + 1 \in DOMAIN g.layout.temporaries
temporary(g) == g.layout.temporaries[g.depth + 1]

Operation(op) ==
  CASE op = "Add"       -> <<Word("add", 0, 0, 1)>>
    [] op = "Subtract"  -> <<Word("sub", 0, 0, 1)>>
    [] op = "Multiply"  -> <<Word("mul", 0, 0, 1)>>
    [] op = "Divide"    -> <<Word("sdiv", 0, 0, 1)>>
    [] op = "Remainder" -> <<Word("sdiv", 2, 0, 1), Msub(0, 2, 1, 0)>>
    [] op \in Comparisons -> <<Cset(op, 0, 0, 1)>>

RECURSIVE expr(_, _), address_of(_, _), deeper(_, _), deeper_address(_, _)

(* The left operand waits in the temporary of this depth. *)
binary(g, e) ==
  IF ~HasTemporary(g) THEN unlowered(g)
  ELSE LET left  == Emit(deeper(g, e.l), store_to_frame(0, "word", temporary(g)))
           right == Emit(deeper(left, e.r),
                         <<Mov(1, 0)>> \o load_from_frame(0, "word", temporary(g)))
       IN  Emit(right, Operation(e.op))

(* && and || branch past their right operand. *)
short_circuit(g, e) ==
  LET and     == e.op = "And"
      decided == new_label(g)
      Branch(l) == IF and THEN Cbz(l) ELSE Cbnz(l)
      left    == Emit(deeper(WithLabels(g, 2), e.l), <<Branch(decided)>>)
      right   == Emit(deeper(left, e.r), <<Branch(decided)>>)
  IN  Emit(right, <<Movz(0, IF and THEN 1 ELSE 0), Goto(decided + 1), Label(decided),
                    Movz(0, IF and THEN 0 ELSE 1), Label(decided + 1)>>)

(* ++ and -- in both positions: the address is computed once. *)
step(g, target, by, yield_old) ==
  IF ~HasTemporary(g) THEN unlowered(g)
  ELSE LET width == width_of(g, target)
           temp  == temporary(g)
       IN  Emit(deeper_address(g, target),
                store_to_frame(0, "double", temp)
                  \o <<Load(width, 0, 0, 0), WordStep(1, 0, by)>>
                  \o load_from_frame(2, "double", temp)
                  \o <<Store(width, 1, 2, 0)>>
                  \o (IF yield_old THEN <<>> ELSE <<Mov(0, 1)>>))

unary(g, e) ==
  CASE e.op = "Plus"   -> deeper(g, e.e)
    [] e.op = "Negate" -> Emit(deeper(g, e.e), <<Neg(0)>>)
    [] e.op = "Not"    -> Emit(deeper(g, e.e), <<CsetZero(0)>>)
    [] e.op = "PreIncrement" -> step(g, e.e, 1, FALSE)
    [] e.op = "PreDecrement" -> step(g, e.e, -1, FALSE)

assign(g, e) ==
  IF ~HasTemporary(g) THEN unlowered(g)
  ELSE LET temp   == temporary(g)
           target == Emit(deeper_address(g, e.l), store_to_frame(0, "double", temp))
       IN  Emit(deeper(target, e.r),
                load_from_frame(2, "double", temp) \o <<Store(width_of(g, e.l), 0, 2, 0)>>)

(* The value of a name or an element; an address is a value as it stands. *)
read_lvalue(g, e) ==
  IF TypeOfNode(g, e).shape # "scalar" THEN address_of(g, e)
  ELSE Emit(address_of(g, e), <<Load(width_of(g, e), 0, 0, 0)>>)

(* A slot of a decayed parameter holds an address, not the data. *)
address_of_name(g, name) ==
  Emit(g, IF name \notin DOMAIN g.layout.offsets THEN <<Adr(0, <<"global", name>>)>>
          ELSE IF g.names[name].shape = "ptr"
          THEN load_from_frame(0, "double", g.layout.offsets[name])
          ELSE frame_address(0, g.layout.offsets[name]))

(* The index is widened with its sign and scaled by the element size. *)
address_of_element(g, e) ==
  IF ~HasTemporary(g) THEN unlowered(g)
  ELSE LET temp == temporary(g)
           base == Emit(deeper_address(g, e.l), store_to_frame(0, "double", temp))
       IN  Emit(deeper(base, e.r),
                <<Sxtw(1, 0)>> \o load_from_frame(0, "double", temp)
                  \o <<Movz(2, element_stride(width_of(g, e))), Madd(0, 1, 2, 0)>>)

ParamTypes(g, name) == [i \in DOMAIN FunctionNamed(g.program, name).params |->
                          FunctionNamed(g.program, name).params[i].ty]

(* converted_width_of, for an argument: the width the callee reads. *)
ArgumentWidth(g, e, i) ==
  width_for(converted(ParamTypes(g, e.name)[i], TypeOfNode(g, e.args[i])))

(* Where stack-passed argument `i` goes, relative to sp. *)
StackPosition(g, e, i) ==
  LET Size(j) == element_stride(ArgumentWidth(g, e, j))
      at[j \in ARGUMENT_REGISTERS + 1 .. i] ==
        align_to(IF j = ARGUMENT_REGISTERS + 1 THEN 0 ELSE at[j - 1] + Size(j - 1), Size(j))
  IN  at[i]

(* A fault of place_arguments: the width of the argument as written, not   *)
(* the width of the parameter it is converted to.                          *)
PlacedAtOwnWidth(g, e, i, slot) ==
  IF i <= ARGUMENT_REGISTERS THEN load_from_frame(i - 1, "double", slot)
  ELSE load_from_frame(8, width_of(g, e.args[i]), slot)
         \o <<Store(width_of(g, e.args[i]), 8, SP, StackPosition(g, e, i))>>

(* place_arguments, for argument `i` (counted from 1). *)
Placed(g, e, i, slot) ==
  IF i <= ARGUMENT_REGISTERS THEN load_from_frame(i - 1, "double", slot)
  ELSE LET width == ArgumentWidth(g, e, i)
       IN  load_from_frame(8, width, slot)
             \o <<Store(width, 8, SP, StackPosition(g, e, i))>>

(* Every argument is evaluated and parked before any is placed; one the    *)
(* frame has no slot for is reported, and the code emitted is never used.  *)
call(g, e) ==
  IF \E i \in DOMAIN e.args : ~HasArgument(g.layout, g.call_depth, i - 1) THEN unlowered(g)
  ELSE
  LET Slot(i) == argument(g.layout, g.call_depth, i - 1)
      parked[i \in 0 .. Len(e.args)] ==
        IF i = 0 THEN g
        ELSE LET value == expr([parked[i - 1] EXCEPT !.call_depth = g.call_depth + 1], e.args[i])
             IN  Emit([value EXCEPT !.call_depth = g.call_depth],
                      store_to_frame(0, "double", Slot(i)))
      placed[i \in 0 .. Len(e.args)] ==
        IF i = 0 THEN <<>> ELSE placed[i - 1] \o Placed(g, e, i, Slot(i))
  IN  Emit(parked[Len(e.args)], placed[Len(e.args)] \o <<Bl(e.name)>>)

(* An array reaches an argument position as its address, which is also     *)
(* what reading it as a value leaves.                                      *)
expr(g, e) ==
  CASE e.k \in {"IntLit", "CharLit"} -> Emit(g, <<Movz(0, e.v)>>)
    [] e.k = "StrLit"  -> Emit(g, <<Adr(0, <<"string", e.bytes>>)>>)
    [] e.k = "Ident"   -> read_lvalue(g, e)
    [] e.k = "Index"   -> read_lvalue(g, e)
    [] e.k = "Unary"   -> unary(g, e)
    [] e.k = "Binary"  -> IF e.op \in Logical THEN short_circuit(g, e) ELSE binary(g, e)
    [] e.k = "Assign"  -> assign(g, e)
    [] e.k = "Postfix" -> step(g, e.e, IF e.op = "Increment" THEN 1 ELSE -1, TRUE)
    [] e.k = "Call"    -> call(g, e)

address_of(g, e) ==
  CASE e.k = "Ident"  -> address_of_name(g, e.name)
    [] e.k = "Index"  -> address_of_element(g, e)
    [] e.k = "StrLit" -> expr(g, e)
    [] OTHER -> unlowered(g)

Deeper(g) == [g EXCEPT !.depth = @ + 1]
Shallower(g) == [g EXCEPT !.depth = IF @ > 0 THEN @ - 1 ELSE 0]

deeper(g, e) == Shallower(expr(Deeper(g), e))
deeper_address(g, e) == Shallower(address_of(Deeper(g), e))

------------------------------------------------------------------------------
(* Statements (src/codegen/stmt.rs). *)

(* A fault of zero_elements: the last index is included. *)
ZeroOneElementMore(base, written, count, width) ==
  LET stores[n \in written .. count + 1] ==
        IF n = written THEN <<Movz(0, 0)>>
        ELSE stores[n - 1]
               \o store_to_frame(0, width, base + (n - 1) * element_stride(width))
  IN  stores[count + 1]

(* zero_elements: the zero is loaded once. *)
zero_elements(base, written, count, width) ==
  IF written >= count THEN <<>>
  ELSE LET stores[n \in written .. count] ==
             IF n = written THEN <<Movz(0, 0)>>
             ELSE stores[n - 1]
                    \o store_to_frame(0, width, base + (n - 1) * element_stride(width))
       IN  stores[count]

(* copy_string_into: the bytes and their terminator as far as they fit,    *)
(* then zeros.                                                             *)
copy_string_into(value, declared, base) ==
  LET bytes == value.bytes \o <<0>>
      fits  == IF Len(bytes) < declared.len THEN Len(bytes) ELSE declared.len
      width == width_for(declared)
      copied[n \in 0 .. fits] ==
        IF n = 0 THEN <<>>
        ELSE copied[n - 1] \o <<Movz(0, bytes[n])>>
               \o store_to_frame(0, width, base + (n - 1) * element_stride(width))
  IN  copied[fits] \o zero_elements(base, fits, declared.len, width)

(* A brace list, one element after another, then zeros up to the length of *)
(* an array.                                                               *)
StoreList(g, declared, base, elements) ==
  LET width == width_for(declared)
      stored[n \in 0 .. Len(elements)] ==
        IF n = 0 THEN g
        ELSE Emit(expr(stored[n - 1], elements[n]),
                  store_to_frame(0, width, base + (n - 1) * element_stride(width)))
  IN  Emit(stored[Len(elements)],
           IF declared.shape # "array" THEN <<>>
           ELSE zero_elements(base, Len(elements), declared.len, width))

(* A local with a single initializer stores it at the width of the         *)
(* initializer's own type.                                                 *)
local(g, s) ==
  LET base == g.layout.offsets[s.name]
  IN  CASE s.init.form = "none" -> g
        [] s.init.form = "list" -> StoreList(g, s.ty, base, s.init.es)
        [] s.init.form = "expr" ->
             IF fills_an_array(s.init.es[1], s.ty)
             THEN Emit(g, copy_string_into(s.init.es[1], s.ty, base))
             ELSE Emit(expr(g, s.init.es[1]),
                       store_to_frame(0, width_of(g, s.init.es[1]), base))

RECURSIVE stmt(_, _)

block(g, body) ==
  LET after[n \in 0 .. Len(body)] == IF n = 0 THEN g ELSE stmt(after[n - 1], body[n])
  IN  after[Len(body)]

(* Lowers `s` as the body of a loop whose exit and next labels are given. *)
InLoop(g, s, exit, next) ==
  [stmt([g EXCEPT !.loops = Append(@, [exit |-> exit, next |-> next])], s)
     EXCEPT !.loops = g.loops]

(* A condition, or a step, that may be absent. *)
Tested(g, condition, exit) ==
  IF condition = <<>> THEN g ELSE Emit(expr(g, condition[1]), <<Cbz(exit)>>)

Stepping(g, clause) == IF clause = <<>> THEN g ELSE expr(g, clause[1])

(* `if`: the then arm jumps past the else arm. *)
branch(g, s) ==
  LET end == new_label(g)
  IN  IF s.else = <<>>
      THEN LET tested == Emit(expr(WithLabels(g, 1), s.c), <<Cbz(end)>>)
           IN  Emit(stmt(tested, s.then), <<Label(end)>>)
      ELSE LET tested == Emit(expr(WithLabels(g, 2), s.c), <<Cbz(end + 1)>>)
               then   == Emit(stmt(tested, s.then), <<Goto(end), Label(end + 1)>>)
           IN  Emit(stmt(then, s.else[1]), <<Label(end)>>)

while_loop(g, s) ==
  LET top    == new_label(g)
      tested == Emit(expr(Emit(WithLabels(g, 2), <<Label(top)>>), s.c), <<Cbz(top + 1)>>)
  IN  Emit(InLoop(tested, s.body, top + 1, top), <<Goto(top), Label(top + 1)>>)

(* A fault of for_loop: `continue` goes to the condition. *)
ForContinueToTop(g, s) ==
  LET top    == new_label(g)
      opened == Emit(block(WithLabels(g, 3), s.init), <<Label(top)>>)
      tested == Tested(opened, s.c, top + 2)
      body   == Emit(InLoop(tested, s.body, top + 2, top), <<Label(top + 1)>>)
  IN  Emit(Stepping(body, s.step), <<Goto(top), Label(top + 2)>>)

(* `continue` goes to the step clause, and an absent condition is not      *)
(* tested.                                                                 *)
for_loop(g, s) ==
  LET top    == new_label(g)
      opened == Emit(block(WithLabels(g, 3), s.init), <<Label(top)>>)
      tested == Tested(opened, s.c, top + 2)
      body   == Emit(InLoop(tested, s.body, top + 2, top + 1), <<Label(top + 1)>>)
  IN  Emit(Stepping(body, s.step), <<Goto(top), Label(top + 2)>>)

leave_loop(g, breaking) ==
  IF g.loops = <<>> THEN unlowered(g)
  ELSE LET labels == g.loops[Len(g.loops)]
       IN  Emit(g, <<Goto(IF breaking THEN labels.exit ELSE labels.next)>>)

stmt(g, s) ==
  CASE s.k = "Block"    -> block(g, s.body)
    [] s.k = "Expr"     -> expr(g, s.e)
    [] s.k = "LocalVar" -> local(g, s)
    [] s.k = "Return"   -> Emit(IF s.value = <<>> THEN g ELSE expr(g, s.value[1]),
                                <<Goto(g.epilogue)>>)
    [] s.k = "If"       -> branch(g, s)
    [] s.k = "While"    -> while_loop(g, s)
    [] s.k = "For"      -> for_loop(g, s)
    [] s.k = "Break"    -> leave_loop(g, TRUE)
    [] s.k = "Continue" -> leave_loop(g, FALSE)
    [] OTHER -> g

------------------------------------------------------------------------------
(* Functions (src/codegen/mod.rs and frame.rs). *)

Small(l) == l.outgoing = 0 /\ l.size <= PRE_INDEXED_LIMIT

(* The stack pointer is lowered or raised by the frame's size. *)
adjust_stack(l, lowering) ==
  IF l.size <= AddReach
  THEN <<AddImmediate(SP, SP, IF lowering THEN -l.size ELSE l.size)>>
  ELSE <<Movz(SCRATCH, l.size),
         IF lowering THEN SubRegister(SP, SP, SCRATCH) ELSE AddRegister(SP, SP, SCRATCH)>>

(* The saved pair sits just above the outgoing area. *)
store_pair(l, operation) ==
  IF l.outgoing <= PAIR_OFFSET_LIMIT THEN <<Pair(operation, SP, l.outgoing)>>
  ELSE <<Movz(SCRATCH, l.outgoing), AddRegister(SCRATCH, SP, SCRATCH), Pair(operation, SCRATCH, 0)>>

address_of_saved_pair(l) ==
  IF l.outgoing <= AddReach THEN <<AddImmediate(FP, SP, l.outgoing)>>
  ELSE <<Movz(SCRATCH, l.outgoing), AddRegister(FP, SP, SCRATCH)>>

(* Parameter `i` (from 1) is copied from where it arrived to its slot. *)
CopyParameter(l, slots, i) ==
  LET width == width_for(slots[i].ty)
      at    == l.offsets[slots[i].name]
  IN  IF i <= ARGUMENT_REGISTERS THEN store_to_frame(i - 1, width, at)
      ELSE load_from_frame(8, width, incoming(l) + incoming_offset(slots, i - 1))
             \o store_to_frame(8, width, at)

emit_prologue(l, slots) ==
  LET copied[n \in 0 .. Len(slots)] ==
        IF n = 0 THEN <<>>
        ELSE copied[n - 1]
               \o (IF slots[n].parameter THEN CopyParameter(l, slots, n) ELSE <<>>)
  IN  (IF Small(l) THEN <<StpPre(l.size), MovAddress(FP, SP)>>
       ELSE adjust_stack(l, TRUE) \o store_pair(l, "stp") \o address_of_saved_pair(l))
        \o copied[Len(slots)]

(* A fault of emit_epilogue: the small shape closes every frame. *)
EpilogueAlwaysSmall(l) == <<MovAddress(SP, FP), LdpPost(l.size), Ret>>

emit_epilogue(l) ==
  (IF Small(l) THEN <<MovAddress(SP, FP), LdpPost(l.size)>>
   ELSE store_pair(l, "ldp") \o adjust_stack(l, FALSE))
    \o <<Ret>>

GlobalTypes(program) ==
  [name \in {program.globals[i].name : i \in DOMAIN program.globals} |->
     program.globals[CHOOSE i \in DOMAIN program.globals :
                       program.globals[i].name = name].ty]

LayoutOf(f) == build(slots_of(f), requirements(f.body))

(* A fault of open_function: label numbers restart at every function. *)
OpenedWithLabelsRestarted(g, f, slots) ==
  LET names == GlobalTypes(g.program)
      local_names == {slots[i].name : i \in DOMAIN slots}
  IN  [g EXCEPT !.layout = LayoutOf(f), !.depth = 0, !.call_depth = 0,
                !.epilogue = 0, !.labels = 1,
                !.names = [n \in local_names \cup DOMAIN names |->
                             IF n \in local_names
                             THEN slots[CHOOSE i \in DOMAIN slots : slots[i].name = n].ty
                             ELSE names[n]]]

(* The generator about to lower the body of `f`: its layout, its counters  *)
(* and the label of its epilogue.  A local hides a global of its name.     *)
Opened(g, f, slots) ==
  LET names == GlobalTypes(g.program)
      local_names == {slots[i].name : i \in DOMAIN slots}
  IN  [g EXCEPT !.layout = LayoutOf(f), !.depth = 0, !.call_depth = 0,
                !.epilogue = new_label(g), !.labels = @ + 1,
                !.names = [n \in local_names \cup DOMAIN names |->
                             IF n \in local_names
                             THEN slots[CHOOSE i \in DOMAIN slots : slots[i].name = n].ty
                             ELSE names[n]]]

(* One function, from its label to its single epilogue.  Falling out of    *)
(* main's body leaves zero.                                                *)
function(g, f) ==
  LET slots  == slots_of(f)
      opened == Opened(g, f, slots)
      body   == block(Emit(opened, <<FunctionLabel(f.name)>>
                                     \o emit_prologue(opened.layout, slots)),
                      f.body)
  IN  Emit(body, (IF f.name = "main" THEN <<Movz(0, 0)>> ELSE <<>>)
                   \o <<Label(opened.epilogue)>> \o emit_epilogue(opened.layout))

(* generate: every function in the order written. *)
generate(program) ==
  LET start == [program |-> program, code |-> <<>>, labels |-> 0, depth |-> 0,
                call_depth |-> 0, loops |-> <<>>, epilogue |-> 0, lost |-> FALSE,
                names |-> <<>>, layout |-> <<>>]
      after[n \in 0 .. Len(program.functions)] ==
        IF n = 0 THEN start ELSE function(after[n - 1], program.functions[n])
  IN  after[Len(program.functions)]

=============================================================================
