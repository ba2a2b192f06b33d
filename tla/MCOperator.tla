----------------------------- MODULE MCOperator -----------------------------
(***************************************************************************)
(* Operator for TLC: the configurations give every constant its value.     *)
(***************************************************************************)
EXTENDS Operator
=============================================================================
