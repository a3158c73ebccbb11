---------------------------- MODULE CausalClock ----------------------------
(***************************************************************************)
(* Lamport stamps and vector clocks (lichtung-clock).                      *)
(*                                                                         *)
(* A VectorClock is a BTreeMap from actor to counter, here a function      *)
(* whose DOMAIN is the set of keys.  A key that is missing counts as 0.    *)
(* The second half gives the mathematical reading the runtime model uses:  *)
(* a stamp, total over the actors, ordered component by component.         *)
(***************************************************************************)
EXTENDS Naturals

Larger(m, n) == IF m >= n THEN m ELSE n

----------------------------------------------------------------------------
(* Lamport stamps. *)

Tick(l) == l + 1

\* Mutant: receiving takes the maximum and forgets to advance.
UpdateKeepsMax(l, other) == Larger(l, other)

Update(l, other) == Larger(l, other) + 1

----------------------------------------------------------------------------
(* VectorClock as a map. *)

EmptyClock == [k \in {} |-> 0]

Get(vc, k) == IF k \in DOMAIN vc THEN vc[k] ELSE 0

Without(vc, k) == [j \in DOMAIN vc \ {k} |-> vc[j]]

SetEntry(vc, k, v) ==
    IF v = 0 THEN Without(vc, k)
             ELSE [j \in DOMAIN vc \cup {k} |-> IF j = k THEN v ELSE vc[j]]

Increment(vc, k) ==
    [j \in DOMAIN vc \cup {k} |-> IF j = k THEN Get(vc, k) + 1 ELSE vc[j]]

\* Mutants: zero entries are copied in; the other's entry wins; entries add up.
MergeKeepsZeros(vc, other) ==
    [k \in DOMAIN vc \cup DOMAIN other |-> Larger(Get(vc, k), Get(other, k))]
MergeOverwrites(vc, other) ==
    [k \in DOMAIN vc \cup {j \in DOMAIN other : other[j] # 0} |->
        IF k \in DOMAIN other THEN other[k] ELSE vc[k]]
MergeAdds(vc, other) ==
    [k \in DOMAIN vc \cup DOMAIN other |-> Get(vc, k) + Get(other, k)]

\* Only the keys of the other clock are visited, so a zero entry of the local
\* clock under any other key would survive.
Merge(vc, other) ==
    LET top(k)  == Larger(Get(vc, k), Get(other, k))
        visited == DOMAIN other
        kept    == {k \in DOMAIN vc \cup visited : k \in visited => top(k) # 0}
    IN  [k \in kept |-> top(k)]

\* Mutant: only the keys of the left clock are compared.
PartialCmpLeftKeys(a, b) ==
    LET sawLess    == \E k \in DOMAIN a : Get(a, k) < Get(b, k)
        sawGreater == \E k \in DOMAIN a : Get(a, k) > Get(b, k)
    IN  CASE sawLess /\ sawGreater   -> "none"
          [] sawLess /\ ~sawGreater  -> "less"
          [] ~sawLess /\ sawGreater  -> "greater"
          [] ~sawLess /\ ~sawGreater -> "equal"

\* PartialOrd::partial_cmp: "less", "equal", "greater", or "none".
PartialCmp(a, b) ==
    LET keys       == DOMAIN a \cup DOMAIN b
        sawLess    == \E k \in keys : Get(a, k) < Get(b, k)
        sawGreater == \E k \in keys : Get(a, k) > Get(b, k)
    IN  CASE sawLess /\ sawGreater   -> "none"
          [] sawLess /\ ~sawGreater  -> "less"
          [] ~sawLess /\ sawGreater  -> "greater"
          [] ~sawLess /\ ~sawGreater -> "equal"

HappensBefore(a, b) == PartialCmp(a, b) = "less"

Concurrent(a, b) == PartialCmp(a, b) = "none"

\* PartialEq::eq.
ClockEq(a, b) == \A k \in DOMAIN a \cup DOMAIN b : Get(a, k) = Get(b, k)

\* Mutant: equal clocks pass as ordered.
HbStrictOrEqual(a, b) == \A k \in DOMAIN a \cup DOMAIN b : Get(a, k) <= Get(b, k)

\* replay's own comparison of wire clocks (string-keyed maps).
HbStrict(a, b) ==
    LET keys == DOMAIN a \cup DOMAIN b
    IN  /\ \A k \in keys : Get(a, k) <= Get(b, k)
        /\ \E k \in keys : Get(a, k) < Get(b, k)

\* replay rebuilds a clock from the wire by `set`ting each entry: zeros vanish.
VclockFrom(wire) == [k \in {j \in DOMAIN wire : wire[j] # 0} |-> wire[k]]

\* No zero entry is stored, so equal clocks have equal wire forms.
Canonical(vc) == \A k \in DOMAIN vc : vc[k] # 0

----------------------------------------------------------------------------
(* Stamps: clocks read as total functions over a set of actors. *)

Stamp(vc, Ids) == [k \in Ids |-> Get(vc, k)]

Bump(s, k) == [s EXCEPT ![k] = @ + 1]

\* Mutants: the sender's clock is ignored; counters add up.
JoinForgetsSender(s, t) == s
JoinAdds(s, t) == [k \in DOMAIN s |-> s[k] + t[k]]

Join(s, t) == [k \in DOMAIN s |-> Larger(s[k], t[k])]

Leq(s, t) == \A k \in DOMAIN s : s[k] <= t[k]

Less(s, t) == Leq(s, t) /\ s # t
=============================================================================
