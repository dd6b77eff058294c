---------------------------- MODULE MCTranscript ----------------------------
(* Instances of Transcript for TLC; the bounds are in the configurations. *)
EXTENDS Transcript
=============================================================================
