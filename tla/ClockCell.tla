----------------------------- MODULE ClockCell -----------------------------
(***************************************************************************)
(* One VectorClock value driven through its public operations, beside a    *)
(* clock that arrived over the wire.  A wire clock is whatever the derived *)
(* Deserialize accepts: it may carry explicit zero entries.                *)
(***************************************************************************)
EXTENDS CausalClock

CONSTANTS ActorId,   \* the actors whose counters are kept
          MaxCount   \* bound on every counter

ASSUME MaxCountAssumption == MaxCount \in Nat

VARIABLES local,     \* the clock an owner keeps by set / increment / merge
          wire       \* a clock read back from its serialized form

vars == <<local, wire>>

WireClock == UNION {[D -> 0..MaxCount] : D \in SUBSET ActorId}

TypeOK == local \in WireClock /\ wire \in WireClock

Init == local = EmptyClock /\ wire \in WireClock

Set(k, v) == /\ local' = SetEntry(local, k, v)
             /\ UNCHANGED wire

IncrementLocal(k) == /\ Get(local, k) < MaxCount
                     /\ local' = Increment(local, k)
                     /\ UNCHANGED wire

MergeWire == /\ local' = Merge(local, wire)
             /\ UNCHANGED wire

\* reexec.rs reads a recorded clock through `set`.
Reload == /\ local' = VclockFrom(wire)
          /\ UNCHANGED wire

Next == \/ \E k \in ActorId, v \in 0..MaxCount : Set(k, v)
        \/ \E k \in ActorId : IncrementLocal(k)
        \/ MergeWire
        \/ Reload

Spec == Init /\ [][Next]_vars

----------------------------------------------------------------------------
(* Properties *)

LocalStamp == Stamp(local, ActorId)
WireStamp  == Stamp(wire, ActorId)

\* The partial order the code computes with its two early-exit flags is the
\* product order on total stamps: exactly one of less, greater, equal and
\* concurrent holds, each exactly when the stamps say so, zero entries or not.
OrderIsProduct ==
    /\ HappensBefore(local, wire) <=> Less(LocalStamp, WireStamp)
    /\ HappensBefore(wire, local) <=> Less(WireStamp, LocalStamp)
    /\ ClockEq(local, wire) <=> LocalStamp = WireStamp
    /\ Concurrent(local, wire) <=>
         ~Leq(LocalStamp, WireStamp) /\ ~Leq(WireStamp, LocalStamp)

\* lichtung-replay has a second implementation of the strict order, on wire
\* maps; the validation of a log is only as good as its agreement with the
\* clocks the runtime compared.
ReplayOrderAgrees ==
    /\ HbStrict(local, wire) <=> HappensBefore(local, wire)
    /\ HbStrict(wire, local) <=> HappensBefore(wire, local)

\* A clock built by the public operations never stores a zero, whatever it is
\* merged with, so the wire form of a clock is a function of its value (replay
\* compares recorded and re-executed events as BTreeMaps, key by key).
WireFormIsCanonical == Canonical(local)

\* merge yields the least upper bound: it dominates both arguments and lies
\* below everything else that does.  Receiving can then neither forget a known
\* event nor claim one that nobody told it of.
MergeIsLeastUpperBound ==
    [][MergeWire =>
         /\ Leq(LocalStamp, LocalStamp')
         /\ Leq(WireStamp, LocalStamp')
         /\ \A s \in [ActorId -> 0..MaxCount] :
              Leq(LocalStamp, s) /\ Leq(WireStamp, s) => Leq(LocalStamp', s)
      ]_vars
=============================================================================
