------------------------ MODULE MCCodewindController ------------------------
(***************************************************************************)
(* CodewindController for TLC: the configurations give every constant its  *)
(* value.                                                                  *)
(***************************************************************************)
EXTENDS CodewindController
=============================================================================
