---- MODULE MCRuntime ----
(* Small instances of the production runtime. *)
EXTENDS RuntimeProperties, TLC

CONSTANTS a1, a2, a3

Pair     == {a1, a2}
Trio     == {a1, a2, a3}
Nobody   == {}
First    == {a1}
Symmetry == Permutations(Actor)
====
