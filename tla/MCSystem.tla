---- MODULE MCSystem ----
(* Small instances of a whole run. *)
EXTENDS System, TLC

CONSTANTS a1, a2

Pair     == {a1, a2}
Nobody   == {}
Symmetry == Permutations(Actor)
====
