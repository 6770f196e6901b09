--------------------------- MODULE MCAuthCodeFlow ---------------------------
(***************************************************************************)
(* Two logins, two codes the authorization server may issue for either,    *)
(* and two requests that reach port 8484 with any of them or without.    *)
(***************************************************************************)
EXTENDS AuthCodeFlow
=============================================================================
