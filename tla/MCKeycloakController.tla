------------------------ MODULE MCKeycloakController ------------------------
(***************************************************************************)
(* KeycloakController for TLC: the configurations give every constant its  *)
(* value.                                                                  *)
(***************************************************************************)
EXTENDS KeycloakController
=============================================================================
