----------------------- MODULE MCKeycloakRegistration -----------------------
(***************************************************************************)
(* KeycloakRegistration for TLC: the configurations give every constant    *)
(* its value.                                                              *)
(***************************************************************************)
EXTENDS KeycloakRegistration
=============================================================================
