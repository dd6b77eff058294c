-------------------------- MODULE MCLivingDocument --------------------------
(* The instance of LivingDocument that TLC checks.  No action and no property *)
(* tells one text from another, so texts are symmetric.                       *)
EXTENDS LivingDocument, TLC

TextSymmetry == Permutations(Texts)
=============================================================================
