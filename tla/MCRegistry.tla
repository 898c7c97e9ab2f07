------------------------------ MODULE MCRegistry ------------------------------
(* Model values and symmetry for checking Registry with TLC. *)
EXTENDS Registry, TLC

CONSTANTS chat, m1, m2

Symmetry == Permutations({m1, m2})
===============================================================================
