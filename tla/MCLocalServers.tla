--------------------------- MODULE MCLocalServers ---------------------------
(* The instance of LocalServers that TLC checks. *)
EXTENDS LocalServers

CONSTANTS m1, m2, small, large, a1, a2

(* One model with two sizes and one with one. *)
SomeWants == {[model |-> m1, size |-> small], [model |-> m1, size |-> large],
              [model |-> m2, size |-> small]}
=============================================================================
