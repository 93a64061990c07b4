------------------------------ MODULE MCClaims ------------------------------
(***************************************************************************)
(* The instances of MCAccess, for the claims of DocumentedClaims.          *)
(***************************************************************************)
EXTENDS MCAccess, DocumentedClaims
=============================================================================
