----------------------------- MODULE ClockProofs -----------------------------
(***************************************************************************)
(* Machine-checked facts about VectorClock, for every set of actors and    *)
(* every bound on the counters: the order its code computes is the product *)
(* order, its wire form is canonical and its merge the least upper bound.  *)
(***************************************************************************)
EXTENDS ClockCell, TLAPS

LEMMA WireClockIs ==
    ASSUME NEW vc
    PROVE  vc \in WireClock <=> DOMAIN vc \subseteq ActorId /\ vc \in [DOMAIN vc -> 0..MaxCount]
<1>1. ASSUME vc \in WireClock
      PROVE  DOMAIN vc \subseteq ActorId /\ vc \in [DOMAIN vc -> 0..MaxCount]
  <2>1. PICK D \in SUBSET ActorId : vc \in [D -> 0..MaxCount]
    BY <1>1 DEF WireClock
  <2> QED BY <2>1
<1>2. ASSUME DOMAIN vc \subseteq ActorId, vc \in [DOMAIN vc -> 0..MaxCount]
      PROVE  vc \in WireClock
  BY <1>2 DEF WireClock
<1> QED BY <1>1, <1>2

\* A missing key counts as zero.
LEMMA GetType ==
    ASSUME NEW vc \in WireClock, NEW k
    PROVE  /\ Get(vc, k) \in 0..MaxCount /\ Get(vc, k) \in Nat
           /\ k \in DOMAIN vc => k \in ActorId /\ Get(vc, k) = vc[k]
           /\ k \notin DOMAIN vc => Get(vc, k) = 0
  BY WireClockIs, MaxCountAssumption DEF Get

LEMMA StampIs ==
    ASSUME NEW vc \in WireClock
    PROVE  /\ Stamp(vc, ActorId) \in [ActorId -> Nat] /\ DOMAIN Stamp(vc, ActorId) = ActorId
           /\ \A k \in ActorId : Stamp(vc, ActorId)[k] = Get(vc, k)
  BY GetType DEF Stamp

----------------------------------------------------------------------------
(* The order *)

\* Keys outside both clocks are zero in both, so looking at the keys the code
\* visits is looking at all actors.
LEMMA OrderOnKeys ==
    ASSUME NEW a \in WireClock, NEW b \in WireClock
    PROVE  /\ (\A k \in DOMAIN a \cup DOMAIN b : Get(a, k) <= Get(b, k))
                <=> Leq(Stamp(a, ActorId), Stamp(b, ActorId))
           /\ (\E k \in DOMAIN a \cup DOMAIN b : Get(a, k) < Get(b, k))
                <=> ~Leq(Stamp(b, ActorId), Stamp(a, ActorId))
<1>1. \A k : Get(a, k) \in Nat /\ Get(b, k) \in Nat
  BY GetType
<1>2. \A k \in ActorId : k \notin DOMAIN a \cup DOMAIN b => Get(a, k) = 0 /\ Get(b, k) = 0
  BY GetType
<1>3. DOMAIN a \cup DOMAIN b \subseteq ActorId
  BY WireClockIs
<1>4. /\ Leq(Stamp(a, ActorId), Stamp(b, ActorId)) <=> \A k \in ActorId : Get(a, k) <= Get(b, k)
      /\ Leq(Stamp(b, ActorId), Stamp(a, ActorId)) <=> \A k \in ActorId : Get(b, k) <= Get(a, k)
  BY StampIs DEF Leq
<1>5. (\A k \in DOMAIN a \cup DOMAIN b : Get(a, k) <= Get(b, k))
        <=> \A k \in ActorId : Get(a, k) <= Get(b, k)
  BY <1>1, <1>2, <1>3
<1>6. (\E k \in DOMAIN a \cup DOMAIN b : Get(a, k) < Get(b, k))
        <=> ~\A k \in ActorId : Get(b, k) <= Get(a, k)
  BY <1>1, <1>2, <1>3
<1> QED BY <1>4, <1>5, <1>6

LEMMA StampsEqual ==
    ASSUME NEW a \in WireClock, NEW b \in WireClock
    PROVE  Stamp(a, ActorId) = Stamp(b, ActorId)
             <=> /\ Leq(Stamp(a, ActorId), Stamp(b, ActorId))
                 /\ Leq(Stamp(b, ActorId), Stamp(a, ActorId))
<1> DEFINE s == Stamp(a, ActorId)
           t == Stamp(b, ActorId)
<1>1. s \in [ActorId -> Nat] /\ t \in [ActorId -> Nat]
  BY StampIs
<1> HIDE DEF s, t
<1>2. Leq(s, t) /\ Leq(t, s) <=> \A k \in ActorId : s[k] = t[k]
  BY <1>1 DEF Leq
<1>3. s = t <=> \A k \in ActorId : s[k] = t[k]
  BY <1>1
<1> QED BY <1>2, <1>3 DEF s, t

LEMMA CmpIsProduct ==
    ASSUME NEW a \in WireClock, NEW b \in WireClock
    PROVE  /\ HappensBefore(a, b) <=> Less(Stamp(a, ActorId), Stamp(b, ActorId))
           /\ HbStrict(a, b) <=> Less(Stamp(a, ActorId), Stamp(b, ActorId))
           /\ ClockEq(a, b) <=> Stamp(a, ActorId) = Stamp(b, ActorId)
           /\ Concurrent(a, b) <=> /\ ~Leq(Stamp(a, ActorId), Stamp(b, ActorId))
                                   /\ ~Leq(Stamp(b, ActorId), Stamp(a, ActorId))
<1> DEFINE keys == DOMAIN a \cup DOMAIN b
           le   == Leq(Stamp(a, ActorId), Stamp(b, ActorId))
           ge   == Leq(Stamp(b, ActorId), Stamp(a, ActorId))
           sawLess    == \E k \in keys : Get(a, k) < Get(b, k)
           sawGreater == \E k \in keys : Get(a, k) > Get(b, k)
<1>1. \A k : Get(a, k) \in Nat /\ Get(b, k) \in Nat
  BY GetType
<1>2. (sawLess <=> ~ge) /\ (sawGreater <=> ~le)
  <2>1. sawLess <=> ~ge
    BY OrderOnKeys
  <2>2. (\E k \in DOMAIN b \cup DOMAIN a : Get(b, k) < Get(a, k)) <=> ~le
    BY OrderOnKeys
  <2>3. sawGreater <=> \E k \in DOMAIN b \cup DOMAIN a : Get(b, k) < Get(a, k)
    BY <1>1
  <2> QED BY <2>1, <2>2, <2>3
<1>3. (\A k \in keys : Get(a, k) <= Get(b, k)) <=> le
  BY OrderOnKeys
<1>4. (\A k \in keys : Get(a, k) = Get(b, k)) <=> le /\ ge
  <2>1. (\A k \in DOMAIN b \cup DOMAIN a : Get(b, k) <= Get(a, k)) <=> ge
    BY OrderOnKeys
  <2> QED BY <1>1, <1>3, <2>1
<1>5. Less(Stamp(a, ActorId), Stamp(b, ActorId)) <=> le /\ ~ge
  BY StampsEqual DEF Less
<1>6. PartialCmp(a, b) = CASE sawLess /\ sawGreater   -> "none"
                           [] sawLess /\ ~sawGreater  -> "less"
                           [] ~sawLess /\ sawGreater  -> "greater"
                           [] ~sawLess /\ ~sawGreater -> "equal"
  BY DEF PartialCmp
<1> HIDE DEF le, ge, sawLess, sawGreater
<1>7. PartialCmp(a, b) = "less" <=> sawLess /\ ~sawGreater
  BY <1>6
<1>8. PartialCmp(a, b) = "none" <=> sawLess /\ sawGreater
  BY <1>6
<1>9. HappensBefore(a, b) <=> Less(Stamp(a, ActorId), Stamp(b, ActorId))
  BY <1>2, <1>5, <1>7 DEF HappensBefore
<1>10. Concurrent(a, b) <=> ~le /\ ~ge
  BY <1>2, <1>8 DEF Concurrent
<1>11. HbStrict(a, b) <=> Less(Stamp(a, ActorId), Stamp(b, ActorId))
  BY <1>2, <1>3, <1>5 DEF HbStrict, sawLess
<1>12. ClockEq(a, b) <=> Stamp(a, ActorId) = Stamp(b, ActorId)
  BY <1>4, StampsEqual DEF ClockEq, le, ge
<1> QED BY <1>9, <1>10, <1>11, <1>12 DEF le, ge

----------------------------------------------------------------------------
(* The operations *)

LEMMA SetKeeps ==
    ASSUME NEW vc \in WireClock, NEW k \in ActorId, NEW v \in 0..MaxCount
    PROVE  SetEntry(vc, k, v) \in WireClock /\ (Canonical(vc) => Canonical(SetEntry(vc, k, v)))
<1>1. CASE v = 0
  BY <1>1, WireClockIs DEF SetEntry, Without, Canonical
<1>2. CASE v # 0
  <2> DEFINE r == [j \in DOMAIN vc \cup {k} |-> IF j = k THEN v ELSE vc[j]]
  <2>1. \A j \in DOMAIN vc : j \in ActorId /\ vc[j] \in 0..MaxCount
    BY WireClockIs
  <2>2. DOMAIN r \subseteq ActorId /\ r \in [DOMAIN r -> 0..MaxCount]
    BY <2>1
  <2>3. SetEntry(vc, k, v) = r
    BY <1>2 DEF SetEntry
  <2> QED BY <1>2, <2>2, <2>3, WireClockIs DEF Canonical
<1> QED BY <1>1, <1>2

LEMMA IncrementKeeps ==
    ASSUME NEW vc \in WireClock, NEW k \in ActorId, Get(vc, k) < MaxCount
    PROVE  Increment(vc, k) \in WireClock /\ (Canonical(vc) => Canonical(Increment(vc, k)))
<1> DEFINE r == [j \in DOMAIN vc \cup {k} |-> IF j = k THEN Get(vc, k) + 1 ELSE vc[j]]
<1>1. \A j \in DOMAIN vc : j \in ActorId /\ vc[j] \in 0..MaxCount
  BY WireClockIs
<1>2. Get(vc, k) + 1 \in 0..MaxCount /\ Get(vc, k) + 1 # 0
  BY GetType, MaxCountAssumption
<1>3. DOMAIN r \subseteq ActorId /\ r \in [DOMAIN r -> 0..MaxCount]
  BY <1>1, <1>2
<1> QED BY <1>2, <1>3, WireClockIs DEF Increment, Canonical

\* Merging takes the maximum of each counter, whatever keys are stored.
LEMMA MergeGets ==
    ASSUME NEW a \in WireClock, NEW b \in WireClock
    PROVE  /\ Merge(a, b) \in WireClock
           /\ Canonical(a) => Canonical(Merge(a, b))
           /\ \A k : Get(Merge(a, b), k) = Larger(Get(a, k), Get(b, k))
<1> DEFINE top(k) == Larger(Get(a, k), Get(b, k))
           kept   == {k \in DOMAIN a \cup DOMAIN b : k \in DOMAIN b => top(k) # 0}
<1>1. Merge(a, b) = [k \in kept |-> top(k)]
  BY DEF Merge
<1>2. \A k : top(k) \in 0..MaxCount
  BY GetType DEF Larger
<1>3. kept \subseteq ActorId
  BY WireClockIs
<1>4. Merge(a, b) \in WireClock
  BY <1>1, <1>2, <1>3, WireClockIs
<1>5. ASSUME Canonical(a), NEW k \in kept PROVE top(k) # 0
  <2>1. CASE k \in DOMAIN b
    BY <2>1
  <2>2. CASE k \notin DOMAIN b
    <3>1. k \in DOMAIN a /\ Get(a, k) # 0 /\ Get(b, k) = 0 /\ Get(a, k) \in Nat
      BY <1>5, <2>2, GetType DEF Canonical
    <3> QED BY <3>1 DEF Larger
  <2> QED BY <2>1, <2>2
<1>6. ASSUME NEW k PROVE Get(Merge(a, b), k) = top(k)
  <2>1. CASE k \in kept
    BY <1>1, <2>1 DEF Get
  <2>2. CASE k \notin kept
    <3>1. top(k) = 0
      <4>1. CASE k \in DOMAIN a \cup DOMAIN b
        BY <2>2, <4>1
      <4>2. CASE k \notin DOMAIN a \cup DOMAIN b
        BY <4>2, GetType DEF Larger
      <4> QED BY <4>1, <4>2
    <3> QED BY <1>1, <2>2, <3>1 DEF Get
  <2> QED BY <2>1, <2>2
<1> QED BY <1>1, <1>4, <1>5, <1>6 DEF Canonical

LEMMA ReloadKeeps ==
    ASSUME NEW vc \in WireClock
    PROVE  VclockFrom(vc) \in WireClock /\ Canonical(VclockFrom(vc))
  BY WireClockIs DEF VclockFrom, Canonical

----------------------------------------------------------------------------
(* The theorems *)

ClockInv == TypeOK /\ Canonical(local)

LEMMA ClockInvInit == Init => ClockInv
<1>1. EmptyClock \in WireClock /\ Canonical(EmptyClock)
  BY WireClockIs DEF EmptyClock, Canonical
<1> QED BY <1>1 DEF Init, ClockInv, TypeOK

LEMMA ClockInvNext == ClockInv /\ [Next]_vars => ClockInv'
<1> SUFFICES ASSUME ClockInv, [Next]_vars PROVE ClockInv'
  OBVIOUS
<1>1. local \in WireClock /\ wire \in WireClock /\ Canonical(local)
  BY DEF ClockInv, TypeOK
<1>2. ASSUME NEW k \in ActorId, NEW v \in 0..MaxCount, Set(k, v) PROVE ClockInv'
  BY <1>1, <1>2, SetKeeps DEF Set, ClockInv, TypeOK
<1>3. ASSUME NEW k \in ActorId, IncrementLocal(k) PROVE ClockInv'
  BY <1>1, <1>3, IncrementKeeps DEF IncrementLocal, ClockInv, TypeOK
<1>4. CASE MergeWire
  BY <1>1, <1>4, MergeGets DEF MergeWire, ClockInv, TypeOK
<1>5. CASE Reload
  BY <1>1, <1>5, ReloadKeeps DEF Reload, ClockInv, TypeOK
<1>6. CASE UNCHANGED vars
  BY <1>1, <1>6 DEF vars, ClockInv, TypeOK
<1> QED BY <1>2, <1>3, <1>4, <1>5, <1>6 DEF Next

\* The operations keep clocks clocks: partial maps with counters in range.
THEOREM ClockTypeCorrect == Spec => []TypeOK
<1>1. ClockInv => TypeOK
  BY DEF ClockInv
<1> QED BY <1>1, ClockInvInit, ClockInvNext, PTL DEF Spec

\* A clock built by set, increment, merge and from the wire never stores a
\* zero, so equal clocks have equal wire forms.
THEOREM WireFormIsCanonicalHolds == Spec => []WireFormIsCanonical
<1>1. ClockInv => WireFormIsCanonical
  BY DEF ClockInv, WireFormIsCanonical
<1> QED BY <1>1, ClockInvInit, ClockInvNext, PTL DEF Spec

\* partial_cmp with its two flags, and eq, are the product order on total
\* stamps, whatever zero entries the clock from the wire carries.
THEOREM OrderIsProductHolds == Spec => []OrderIsProduct
<1>1. ClockInv => OrderIsProduct
  BY CmpIsProduct DEF ClockInv, TypeOK, OrderIsProduct, LocalStamp, WireStamp
<1> QED BY <1>1, ClockInvInit, ClockInvNext, PTL DEF Spec

\* replay's hb_strict and the clock's happens_before are the same relation.
THEOREM ReplayOrderAgreesHolds == Spec => []ReplayOrderAgrees
<1>1. ClockInv => ReplayOrderAgrees
  BY CmpIsProduct DEF ClockInv, TypeOK, ReplayOrderAgrees
<1> QED BY <1>1, ClockInvInit, ClockInvNext, PTL DEF Spec

\* merge yields the least upper bound: nothing either clock knew is forgotten,
\* and nothing is claimed that neither knew.
THEOREM MergeIsLeastUpperBoundHolds == Spec => MergeIsLeastUpperBound
<1>1. ASSUME ClockInv, MergeWire
      PROVE  /\ Leq(LocalStamp, LocalStamp')
             /\ Leq(WireStamp, LocalStamp')
             /\ \A s \in [ActorId -> 0..MaxCount] :
                  Leq(LocalStamp, s) /\ Leq(WireStamp, s) => Leq(LocalStamp', s)
  <2>1. local \in WireClock /\ wire \in WireClock /\ local' = Merge(local, wire)
    BY <1>1 DEF ClockInv, TypeOK, MergeWire
  <2>2. PICK m \in WireClock : m = local'
    BY <2>1, MergeGets
  <2>3. \A k \in ActorId : /\ Get(m, k) = Larger(Get(local, k), Get(wire, k))
                           /\ Get(local, k) \in Nat /\ Get(wire, k) \in Nat
    BY <2>1, <2>2, MergeGets, GetType
  <2>4. /\ LocalStamp' = Stamp(m, ActorId)
        /\ \A k \in ActorId : /\ LocalStamp[k] = Get(local, k) /\ WireStamp[k] = Get(wire, k)
                              /\ Stamp(m, ActorId)[k] = Get(m, k)
        /\ DOMAIN LocalStamp = ActorId /\ DOMAIN WireStamp = ActorId
        /\ DOMAIN Stamp(m, ActorId) = ActorId
    BY <2>1, <2>2, StampIs DEF LocalStamp, WireStamp
  <2>5. Leq(LocalStamp, LocalStamp') /\ Leq(WireStamp, LocalStamp')
    BY <2>3, <2>4 DEF Leq, Larger
  <2>6. ASSUME NEW s \in [ActorId -> 0..MaxCount], Leq(LocalStamp, s), Leq(WireStamp, s)
        PROVE  Leq(LocalStamp', s)
    BY <2>3, <2>4, <2>6 DEF Leq, Larger
  <2> QED BY <2>5, <2>6
<1>2. ClockInv /\ [Next]_vars
        => [MergeWire => /\ Leq(LocalStamp, LocalStamp')
                         /\ Leq(WireStamp, LocalStamp')
                         /\ \A s \in [ActorId -> 0..MaxCount] :
                              Leq(LocalStamp, s) /\ Leq(WireStamp, s) => Leq(LocalStamp', s)]_vars
  BY <1>1
<1> QED BY <1>2, ClockInvInit, ClockInvNext, PTL DEF Spec, MergeIsLeastUpperBound
=============================================================================
