------------------------------- MODULE Scopes -------------------------------
(***************************************************************************)
(* The scope stack of src/sema/scope.rs, under the calls that the analyzer *)
(* of src/sema/mod.rs makes: every global and function first, then the     *)
(* body of each function.  A body is whatever sequence of blocks, loops,   *)
(* declarations and uses the grammar allows.  Types and spans are left     *)
(* out.  A SymbolId is a place in `symbols`, counted from 1, and 0 is no   *)
(* symbol.  The bounds of a model are MaxSymbols and MaxNesting.           *)
(***************************************************************************)
EXTENDS Integers, Sequences, FiniteSets

CONSTANTS Names, MaxSymbols, MaxNesting

ASSUME ScopesAssumption == MaxSymbols \in Nat /\ MaxNesting \in Nat

VARIABLES
  symbols,     \* every symbol ever declared
  scopes,      \* the symbols declared directly in each open scope, file scope first
  next_slot,   \* the next frame slot to hand out
  frame,       \* what the function being walked needs storage for
  bindings,    \* the names resolved, with the symbols they resolved to
  loop_depth,  \* how many loops enclose the statement being walked
  nest,        \* the constructs the walk is inside of
  phase        \* what the walk reads now

vars == <<symbols, scopes, next_slot, frame, bindings, loop_depth, nest, phase>>

Kinds == {"Function", "Global", "Parameter", "Local"}
Slotted == {"Parameter", "Local"}
NoSlot == -1
-----------------------------------------------------------------------------
Greatest(S) == CHOOSE i \in S : \A j \in S : j <= i
Least(S)    == CHOOSE i \in S : \A j \in S : i <= j

(* The last symbol of a scope that bears the name. *)
find_in(scope, name) ==
  LET named == {i \in DOMAIN scope : symbols[scope[i]].name = name}
  IN  IF named = {} THEN 0 ELSE scope[Greatest(named)]

(* Resolution from the first `d` scopes, innermost first; a fault, first,  *)
(* looks at the outermost first.                                           *)
ResolvedOutermost(d, name) ==
  LET found == {k \in 1 .. d : find_in(scopes[k], name) # 0}
  IN  IF found = {} THEN 0 ELSE find_in(scopes[Least(found)], name)

Resolved(d, name) ==
  LET found == {k \in 1 .. d : find_in(scopes[k], name) # 0}
  IN  IF found = {} THEN 0 ELSE find_in(scopes[Greatest(found)], name)

lookup(name) == Resolved(Len(scopes), name)
lookup_in_current_scope(name) == find_in(scopes[Len(scopes)], name)

enter_block == scopes' = Append(scopes, <<>>)
leave_block == scopes' = IF Len(scopes) > 1 THEN SubSeq(scopes, 1, Len(scopes) - 1) ELSE scopes

(* Faults: the numbering of slots is not restarted; a scope that closes    *)
(* takes its symbols with it.                                              *)
EnterWithoutRestart == enter_block /\ UNCHANGED next_slot
LeaveForgettingSymbols ==
  /\ leave_block
  /\ symbols' = SubSeq(symbols, 1, Len(symbols) - Len(scopes[Len(scopes)]))

enter_function == enter_block /\ next_slot' = 0
LeaveKeepingSymbols == leave_block /\ UNCHANGED symbols

(* Scopes::declare, with what Analyzer::declare_name does of the result:   *)
(* bind the declaration and, for a slot, add to the frame.  A name the     *)
(* innermost scope has already is reported and changes nothing.            *)
declare_name(name, kind) ==
  LET id == Len(symbols) + 1
  IN  \/ /\ lookup_in_current_scope(name) # 0
         /\ UNCHANGED <<symbols, scopes, next_slot, frame, bindings>>
      \/ /\ lookup_in_current_scope(name) = 0
         /\ id <= MaxSymbols
         /\ symbols' = Append(symbols, [name |-> name, kind |-> kind,
                                        slot |-> IF kind \in Slotted THEN next_slot ELSE NoSlot])
         /\ scopes' = [scopes EXCEPT ![Len(scopes)] = Append(@, id)]
         /\ bindings' = bindings \cup {[name |-> name, symbol |-> id]}
         /\ \/ /\ kind \in Slotted
               /\ next_slot' = next_slot + 1
               /\ frame' = Append(frame, [slot |-> next_slot, symbol |-> id])
            \/ kind \notin Slotted /\ UNCHANGED <<next_slot, frame>>
-----------------------------------------------------------------------------
Init ==
  /\ symbols = <<>>
  /\ scopes = <<<<>>>>
  /\ next_slot = 0 /\ loop_depth = 0
  /\ frame = <<>> /\ nest = <<>>
  /\ bindings = {}
  /\ phase = "top level"

(* Pass A. *)
collect_top_level ==
  /\ phase = "top level"
  /\ \E name \in Names, kind \in {"Function", "Global"} : declare_name(name, kind)
  /\ UNCHANGED <<loop_depth, nest, phase>>

check_bodies ==
  /\ phase = "top level"
  /\ phase' = "bodies"
  /\ UNCHANGED <<symbols, scopes, next_slot, frame, bindings, loop_depth, nest>>

(* Pass B: the head of a function, and its parameters. *)
check_function ==
  /\ phase = "bodies"
  /\ phase' = "parameters"
  /\ loop_depth' = 0
  /\ frame' = <<>>
  /\ enter_function
  /\ UNCHANGED <<symbols, bindings, nest>>

parameter ==
  /\ phase = "parameters"
  /\ \E name \in Names : declare_name(name, "Parameter")
  /\ UNCHANGED <<loop_depth, nest, phase>>

(* The statements of its body. *)
InBody == phase \in {"parameters", "body"} /\ phase' = "body"

declare_local ==
  /\ InBody
  /\ \E name \in Names : declare_name(name, "Local")
  /\ UNCHANGED <<loop_depth, nest>>

resolve ==
  /\ InBody
  /\ \E name \in Names :
       bindings' = IF lookup(name) = 0 THEN bindings
                   ELSE bindings \cup {[name |-> name, symbol |-> lookup(name)]}
  /\ UNCHANGED <<symbols, scopes, next_slot, frame, loop_depth, nest>>

(* A block opens a scope, a `while` a loop, a `for` both. *)
Enter(construct) ==
  /\ InBody
  /\ Len(nest) < MaxNesting
  /\ nest' = Append(nest, construct)
  /\ \/ construct \in {"block", "for"} /\ enter_block
     \/ construct = "while" /\ UNCHANGED scopes
  /\ loop_depth' = IF construct = "block" THEN loop_depth ELSE loop_depth + 1
  /\ UNCHANGED <<symbols, next_slot, frame, bindings>>

Innermost == nest[Len(nest)]

(* A fault: a `for` leaves its scope open. *)
LeaveBlocksOnly == Innermost = "block"
LeavesScope == Innermost \in {"block", "for"}

Leave ==
  /\ InBody
  /\ nest # <<>>
  /\ nest' = SubSeq(nest, 1, Len(nest) - 1)
  /\ \/ LeavesScope /\ LeaveKeepingSymbols
     \/ ~LeavesScope /\ UNCHANGED <<scopes, symbols>>
  /\ loop_depth' = IF Innermost = "block" THEN loop_depth ELSE loop_depth - 1
  /\ UNCHANGED <<next_slot, frame, bindings>>

leave_function ==
  /\ phase \in {"parameters", "body"}
  /\ nest = <<>>
  /\ LeaveKeepingSymbols
  /\ frame' = <<>>
  /\ phase' = "bodies"
  /\ UNCHANGED <<next_slot, bindings, loop_depth, nest>>

Next ==
  \/ collect_top_level \/ check_bodies \/ check_function \/ parameter
  \/ declare_local \/ resolve \/ leave_function \/ Leave
  \/ \E construct \in {"block", "while", "for"} : Enter(construct)

Spec == Init /\ [][Next]_vars
-----------------------------------------------------------------------------
Symbol == [name : Names, kind : Kinds, slot : Nat \cup {NoSlot}]

(* Every id in a scope, a binding or the frame is the id of a symbol.      *)
TypeOK ==
  /\ symbols \in Seq(Symbol)
  /\ scopes \in Seq(Seq(1 .. Len(symbols))) /\ scopes # <<>>
  /\ next_slot \in Nat /\ loop_depth \in Nat
  /\ frame \in Seq([slot : Nat, symbol : 1 .. Len(symbols)])
  /\ bindings \subseteq [name : Names, symbol : 1 .. Len(symbols)]
  /\ nest \in Seq({"block", "while", "for"})
  /\ phase \in {"top level", "bodies", "parameters", "body"}

(* What a name resolves to is what it means: resolution on the stack and   *)
(* the table implements the environment.                                   *)
Block == INSTANCE Environment WITH
  meaning <- [n \in Names |-> lookup(n)],
  outer   <- [d \in 1 .. Len(scopes) - 1 |-> [n \in Names |-> Resolved(d, n)]],
  issued  <- Len(symbols)

ImplementsEnvironment == Block!Spec

(* The code generator finds a variable by its slot.  The slots of a        *)
(* function count from zero without a gap, the frame holds them in that    *)
(* order, and every variable of the function that resolves is in it.       *)
SlotsAreTheFrames ==
  phase \in {"parameters", "body"} =>
    /\ next_slot = Len(frame)
    /\ \A i \in DOMAIN frame : frame[i].slot = i - 1 /\ symbols[frame[i].symbol].slot = i - 1
    /\ \A d \in 2 .. Len(scopes) : \A k \in DOMAIN scopes[d] :
         \E i \in DOMAIN frame : frame[i].symbol = scopes[d][k]

(* "Symbols are never removed": code generation reads a binding back long  *)
(* after the scope that produced it closed, and must find that name.       *)
BindingsStayTrue ==
  \A b \in bindings : b.symbol \in DOMAIN symbols /\ symbols[b.symbol].name = b.name
=============================================================================
