---------------------------- MODULE MCValidation ----------------------------
(* The message pipeline on small instances.                                *)
EXTENDS Validation

CONSTANTS p1, p2, m1, m2

\* p2's copy of m1 has a bad signature, the other copies are good.
OneForger == [x \in {p1, p2} \X {m1, m2} |-> IF x = <<p2, m1>> THEN "signature" ELSE "none"]

\* p1 sends its copy of m2 twice.
OneRepeated == [x \in {p1, p2} \X {m1, m2} |-> IF x = <<p1, m2>> THEN 2 ELSE 1]
=============================================================================
