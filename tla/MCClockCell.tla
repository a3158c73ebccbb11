---- MODULE MCClockCell ----
(* Three actors, counters up to 2: every pair of clocks of that size. *)
EXTENDS ClockCell, TLC

CONSTANTS a1, a2, a3

MCActorId == {a1, a2, a3}
Symmetry == Permutations(MCActorId)
====
