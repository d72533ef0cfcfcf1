------------------------- MODULE MCCompiledProgram -------------------------
(* Instances of CompiledProgram.  The reach of immediates is scaled down   *)
(* so that small frames already need the scratch register and the second   *)
(* shape of prologue.                                                      *)
EXTENDS CompiledProgram, SamplePrograms

SmallReach == [byte |-> 40, word |-> 80, double |-> 80]

(* The sample programs, and one for each expression of a small family.     *)
AllPrograms ==
  [key \in {<<"sample", k>> : k \in DOMAIN Samples}
             \cup {<<"expression", e>> : e \in Inner \cup Outer} |->
     IF key[1] = "sample" THEN Samples[key[2]] ELSE ExpressionProgram(key[2])]

(* What the immediate fields of the instructions hold. *)
RealReach == [byte |-> 4095, word |-> 16380, double |-> 32760]

=============================================================================
