---------------------------- MODULE Environment -----------------------------
(***************************************************************************)
(* What names mean in a block-structured program, with no scope stack and  *)
(* no search: a name has one meaning at a time, a block may give it        *)
(* another, and when the block ends every name means again what it meant   *)
(* when the block began.                                                   *)
(***************************************************************************)
EXTENDS Naturals, Sequences

CONSTANTS Names

VARIABLES
  meaning,  \* what each name means now: a declaration, or 0 for none
  outer,    \* what each name meant when each open block began
  issued    \* how many declarations there have been; each is a new one

vars == <<meaning, outer, issued>>

Nothing == [n \in Names |-> 0]
Enclosing == IF outer = <<>> THEN Nothing ELSE outer[Len(outer)]

Init == meaning = Nothing /\ outer = <<>> /\ issued = 0

Open == /\ outer' = Append(outer, meaning)
        /\ UNCHANGED <<meaning, issued>>

Close == /\ outer # <<>>
         /\ meaning' = outer[Len(outer)]
         /\ outer' = SubSeq(outer, 1, Len(outer) - 1)
         /\ UNCHANGED issued

(* A block declares a name once: while it still means what it meant.       *)
Bind(n) == /\ meaning[n] = Enclosing[n]
           /\ issued' = issued + 1
           /\ meaning' = [meaning EXCEPT ![n] = issued + 1]
           /\ UNCHANGED outer

Next == Open \/ Close \/ \E n \in Names : Bind(n)
Spec == Init /\ [][Next]_vars
=============================================================================
