------------------------------- MODULE MCZendGC -------------------------------
(* Two arrays, two zvals of one object, one variable; a buffer of two.     *)
EXTENDS ZendGC, TLC

Symmetry == Permutations(Array) \cup Permutations(Zval) \cup Permutations(Property)
=============================================================================
