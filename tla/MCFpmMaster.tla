------------------------------ MODULE MCFpmMaster ------------------------------
(* Instances of FpmMaster for TLC: a dynamic pool, or a dynamic and a static one. *)
EXTENDS FpmMaster, TLC

CONSTANTS w1, w2      \* pools

Both == {w1, w2}
OnlyDynamic == {w1}
OnlyStatic == {w2}
NoStatic == {}

Of(n) == [p \in Pool |-> n]
One == Of(1)
Two == Of(2)
Mixed == [p \in Pool |-> IF p = w1 THEN 2 ELSE 1]

\* Processes are interchangeable.
Symmetry == Permutations(Child)

=============================================================================
