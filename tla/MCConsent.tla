----------------------------- MODULE MCConsent -----------------------------
(* The instance of Consent that TLC checks. *)
EXTENDS Consent

CONSTANTS s1, s2
=============================================================================
