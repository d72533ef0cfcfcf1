------------------------ MODULE MCExpressionLowering ------------------------
(* Bodies whose expressions have five levels (four nested operators and a  *)
(* leaf), with calls of up to two arguments nested in one another's.       *)
EXTENDS ExpressionLowering

SmallNeeds ==
  {[temporaries |-> t, arguments |-> a, call_depth |-> c, outgoing |-> 0] :
     t \in {5}, a \in {1, 2}, c \in {1, 2}}

=============================================================================
