----------------------------- MODULE MCRunLoop -----------------------------
(* Instances of RunLoop for TLC. *)
EXTENDS RunLoop, TLC

CONSTANTS g1, g2

(* Goals are interchangeable; used by runs of safety properties only. *)
GoalSymmetry == Permutations({g1, g2})
=============================================================================
