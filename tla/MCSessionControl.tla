-------------------------- MODULE MCSessionControl --------------------------
(* The instances of SessionControl that TLC checks. *)
EXTENDS SessionControl
=============================================================================
