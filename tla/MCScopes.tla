------------------------------ MODULE MCScopes ------------------------------
(* Two names, so that one shadows and one does not; enough symbols for a   *)
(* global, a parameter, a local and one of the next function.              *)
EXTENDS Scopes

TwoNames == {"a", "b"}
=============================================================================
