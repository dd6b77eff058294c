---------------------------- MODULE MCToolBatch ----------------------------
(* The instance of ToolBatch that TLC checks. *)
EXTENDS ToolBatch
=============================================================================
