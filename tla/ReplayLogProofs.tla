-------------------------- MODULE ReplayLogProofs --------------------------
(***************************************************************************)
(* replay_log on its own, for every log it may be handed: its in-degrees   *)
(* never underflow, what it schedules respects the edges, and once the     *)
(* clocks of a log have been validated it always schedules all of it.      *)
(***************************************************************************)
EXTENDS ReplayLog, FiniteSetTheorems, WellFoundedInduction, TLAPS

kahn == <<log, kahnVars, phase>>

\* replay_log is handed a sequence, of whatever events.
IsLog == Len(log) \in Nat /\ DOMAIN log = 1..Len(log)

ReplayLogSpec ==
    /\ IsLog /\ phase = "build" /\ KahnInit
    /\ [][ReplayLogStep]_kahn

(***************************************************************************)
(* Why it works: an in-degree counts the edges from events not yet         *)
(* scheduled, so an event whose in-degree is zero has all its causes       *)
(* behind it, and only such events are in the heap.                        *)
(***************************************************************************)
Scheduled == {order[k] : k \in DOMAIN order}
Causes(j) == {e \in edges : Into(e) = j /\ From(e) \notin Scheduled}
Between(i, j) == {e \in edges : From(e) = i /\ Into(e) = j}

Draining == phase \in {"drain", "timeline", "Cycle"}

Kinds == {"program", "message"}

Shapes ==
    /\ IsLog
    /\ edges \in SUBSET ((Nodes \X Nodes) \X Kinds)
    /\ order \in Seq(Nodes)
    /\ heap \in SUBSET Nodes

Counted ==
    IF Draining
    THEN /\ indeg \in [Nodes -> Nat]
         /\ \A j \in Nodes : indeg[j] = Cardinality(Causes(j))
         /\ \A j \in heap : j \notin Scheduled /\ indeg[j] = 0
    ELSE order = <<>>

Complete == phase = "timeline" => Len(order) = Len(log)

KahnInv == Shapes /\ Counted /\ CausesFirst /\ Complete

----------------------------------------------------------------------------

LEMMA EdgesFinite ==
    ASSUME Shapes
    PROVE  IsFiniteSet(edges)
<1>1. IsFiniteSet(Nodes)
  <2>1. Nodes = 1..Len(log) /\ Len(log) \in Nat
    BY DEF Shapes, IsLog, Nodes
  <2> QED BY <2>1, FS_Interval
<1>2. IsFiniteSet(Nodes \X Nodes)
  BY <1>1, FS_Product
<1>3. IsFiniteSet({"program"}) /\ IsFiniteSet({"message"})
  BY FS_Singleton
<1>4. IsFiniteSet(Kinds)
  <2>1. Kinds = {"program"} \cup {"message"}
    BY DEF Kinds
  <2> QED BY <1>3, <2>1, FS_Union
<1>5. IsFiniteSet((Nodes \X Nodes) \X Kinds)
  BY <1>2, <1>4, FS_Product
<1> QED BY <1>5, FS_Subset DEF Shapes, IsLog

LEMMA DirectEdgesType ==
    DirectEdges(log) \in SUBSET ((Nodes \X Nodes) \X Kinds)
<1>1. ProgramEdges(log) \subseteq Nodes \X Nodes /\ MessageEdges(log) \subseteq Nodes \X Nodes
  BY DEF ProgramEdges, MessageEdges, Pairs, Nodes
<1> QED BY <1>1 DEF DirectEdges, Kinds

\* A scheduled event has no causes ahead of it.
LEMMA NoCauseAhead ==
    ASSUME Shapes, CausesFirst, NEW j \in Scheduled
    PROVE  Causes(j) = {}
<1>1. PICK k \in DOMAIN order : order[k] = j
  BY DEF Scheduled
<1>2. SUFFICES ASSUME NEW e \in edges, Into(e) = j
               PROVE  From(e) \in Scheduled
  BY DEF Causes
<1>3. PICK l \in 1..(k - 1) : order[l] = From(e)
  BY <1>1, <1>2 DEF CausesFirst
<1> QED
  <2>1. DOMAIN order = 1..Len(order) /\ Len(order) \in Nat
    BY DEF Shapes, IsLog
  <2>2. l \in DOMAIN order
    BY <1>1, <1>3, <2>1
  <2> QED BY <1>3, <2>2 DEF Scheduled

----------------------------------------------------------------------------

LEMMA KahnInvInit ==
    IsLog /\ phase = "build" /\ KahnInit => KahnInv
<1> SUFFICES ASSUME IsLog, phase = "build", KahnInit
             PROVE  KahnInv
  OBVIOUS
<1>1. Shapes
  BY DEF KahnInit, Shapes, IsLog
<1>2. Counted
  BY DEF KahnInit, Counted, Draining
<1>3. CausesFirst
  BY DEF KahnInit, CausesFirst
<1>4. Complete
  BY DEF Complete
<1> QED BY <1>1, <1>2, <1>3, <1>4 DEF KahnInv

LEMMA BuildKeeps ==
    ASSUME KahnInv, Build
    PROVE  KahnInv'
<1> USE DEF KahnInv
<1>0. phase = "build" /\ order = <<>> /\ order' = <<>> /\ log' = log /\ heap' = heap
  BY DEF Build, Counted, Draining
<1>1. edges' \in SUBSET ((Nodes \X Nodes) \X Kinds)
  BY DirectEdgesType DEF Build, Shapes, IsLog
<1>2. Shapes'
  BY <1>0, <1>1 DEF Shapes, IsLog, Nodes
<1>3. phase' \notin {"drain", "timeline", "Cycle"}
  BY DEF Build, BuildOk, BuildError, Enter
<1>4. Counted' /\ Complete'
  BY <1>0, <1>3 DEF Counted, Draining, Complete
<1>5. CausesFirst'
  BY <1>0 DEF CausesFirst
<1> QED BY <1>2, <1>4, <1>5

LEMMA ValidateKeeps ==
    ASSUME KahnInv, Validate
    PROVE  KahnInv'
<1> USE DEF KahnInv
<1>0. order = <<>> /\ UNCHANGED <<log, edges, heap, order>>
  BY DEF Validate, kahnVars, Counted, Draining
<1>1. phase' \notin {"drain", "timeline", "Cycle"}
  BY DEF Validate, Enter
<1>2. Shapes'
  BY <1>0 DEF Shapes, IsLog, Nodes
<1>3. Counted' /\ Complete'
  BY <1>0, <1>1 DEF Counted, Draining, Complete
<1>4. CausesFirst'
  BY <1>0 DEF CausesFirst
<1> QED BY <1>2, <1>3, <1>4

LEMMA LinearizeKeeps ==
    ASSUME KahnInv, Linearize
    PROVE  KahnInv'
<1> USE DEF KahnInv
<1>0. order = <<>> /\ UNCHANGED <<log, edges, order>> /\ phase' = "drain"
  BY DEF Linearize, Counted, Draining, Enter
<1>1. Nodes' = Nodes /\ Scheduled' = {}
  BY <1>0 DEF Nodes, Scheduled
<1>2. Shapes'
  BY <1>0, <1>1 DEF Shapes, IsLog, Linearize
<1>3. ASSUME NEW j \in Nodes
      PROVE  indeg'[j] = Cardinality(Causes(j)') /\ indeg'[j] \in Nat
  <2>1. Causes(j)' = {e \in edges : Into(e) = j}
    BY <1>0, <1>1 DEF Causes, Into, From
  <2>2. indeg'[j] = Cardinality({e \in edges : Into(e) = j})
    BY <1>3 DEF Linearize, InDegree
  <2>3. IsFiniteSet({e \in edges : Into(e) = j})
    BY EdgesFinite, FS_Subset
  <2> QED BY <2>1, <2>2, <2>3, FS_CardinalityType
<1>4. indeg' \in [Nodes -> Nat]
  BY <1>3 DEF Linearize
<1>5. \A j \in heap' : indeg'[j] = 0
  BY DEF Linearize
<1>6. Counted' /\ Complete'
  BY <1>0, <1>1, <1>3, <1>4, <1>5 DEF Counted, Draining, Complete
<1>7. CausesFirst'
  BY <1>0 DEF CausesFirst
<1> QED BY <1>2, <1>6, <1>7

LEMMA PopKeeps ==
    ASSUME KahnInv, Pop
    PROVE  KahnInv'
<1> USE DEF KahnInv
<1>0. Draining /\ UNCHANGED <<log, edges, phase>> /\ phase' = "drain"
  BY DEF Pop, Draining
<1>1. PICK i \in heap : /\ order' = Append(order, i)
                        /\ indeg' = Discount(i)
                        /\ heap' = (heap \ {i}) \cup Released(i)
  BY DEF Pop
<1>2. i \in Nodes /\ i \notin Scheduled /\ indeg[i] = 0 /\ Nodes' = Nodes
  BY <1>0, <1>1 DEF Counted, Shapes, IsLog, Nodes
<1>3. order \in Seq(Nodes) /\ order' \in Seq(Nodes) /\ Len(order') = Len(order) + 1
  BY <1>1, <1>2 DEF Shapes, IsLog
<1>4. /\ \A k \in DOMAIN order : k \in DOMAIN order' /\ order'[k] = order[k]
      /\ order'[Len(order) + 1] = i
      /\ DOMAIN order = 1..Len(order) /\ DOMAIN order' = 1..(Len(order) + 1)
  BY <1>1, <1>3
<1>5. Scheduled' = Scheduled \cup {i}
  BY <1>3, <1>4 DEF Scheduled
<1>6. ASSUME NEW j \in Nodes
      PROVE  /\ Causes(j)' = Causes(j) \ Between(i, j)
             /\ Between(i, j) \in SUBSET Causes(j)
             /\ IsFiniteSet(Causes(j))
  <2>1. IsFiniteSet(Causes(j))
    BY EdgesFinite, FS_Subset DEF Causes
  <2>2. Between(i, j) \in SUBSET Causes(j)
    BY <1>2 DEF Between, Causes
  <2>3. Causes(j)' = Causes(j) \ Between(i, j)
    BY <1>0, <1>5 DEF Causes, Between, From, Into
  <2> QED BY <2>1, <2>2, <2>3
<1>7. ASSUME NEW j \in Nodes
      PROVE  /\ indeg'[j] = Cardinality(Causes(j)')
             /\ indeg'[j] \in Nat
             /\ indeg'[j] = indeg[j] - EdgesBetween(i, j)
             /\ EdgesBetween(i, j) \in Nat
             /\ Causes(j) = {} => EdgesBetween(i, j) = 0
  <2>1. indeg'[j] = indeg[j] - EdgesBetween(i, j)
    BY <1>1, <1>7 DEF Discount
  <2>2. EdgesBetween(i, j) = Cardinality(Between(i, j))
    BY DEF EdgesBetween, Between
  <2>3. Causes(j) \cap Between(i, j) = Between(i, j)
    BY <1>6, <1>7
  <2>4. Cardinality(Causes(j)') = Cardinality(Causes(j)) - Cardinality(Between(i, j))
    BY <1>6, <1>7, <2>3, FS_Difference
  <2>5. IsFiniteSet(Causes(j)') /\ IsFiniteSet(Between(i, j))
    BY <1>6, <1>7, FS_Difference, FS_Subset
  <2>6. Cardinality(Causes(j)') \in Nat /\ Cardinality(Between(i, j)) \in Nat
    BY <2>5, FS_CardinalityType
  <2>7. indeg[j] = Cardinality(Causes(j))
    BY <1>0, <1>7 DEF Counted
  <2>8. Causes(j) = {} => Between(i, j) = {}
    BY <1>6, <1>7
  <2>9. Causes(j) = {} => EdgesBetween(i, j) = 0
    BY <2>2, <2>8, FS_EmptySet
  <2> QED BY <2>1, <2>2, <2>4, <2>6, <2>7, <2>9
<1>8. ASSUME NEW j \in heap'
      PROVE  j \in Nodes /\ j \notin Scheduled' /\ indeg'[j] = 0
  <2>1. CASE j \in heap \ {i}
    <3>1. j \in Nodes /\ j \notin Scheduled /\ indeg[j] = 0
      BY <1>0, <2>1 DEF Counted, Shapes, IsLog
    <3> QED BY <1>5, <1>7, <2>1, <3>1
  <2>2. CASE j \in Released(i)
    <3>1. j \in Nodes /\ EdgesBetween(i, j) > 0 /\ indeg'[j] = 0
      BY <1>1, <2>2 DEF Released
    <3>2. j \notin Scheduled
      BY <1>7, <3>1, NoCauseAhead
    <3>3. j # i
      <4>1. indeg[j] # 0
        BY <1>0, <1>7, <3>1 DEF Counted
      <4> QED BY <1>2, <4>1
    <3> QED BY <1>5, <3>1, <3>2, <3>3
  <2> QED BY <1>1, <2>1, <2>2
<1>9. Shapes'
  BY <1>0, <1>2, <1>3, <1>8 DEF Shapes, IsLog
<1>10. Counted'
  <2>1. indeg' \in [Nodes -> Nat]
    BY <1>1, <1>7 DEF Discount
  <2> QED BY <1>0, <1>2, <1>7, <1>8, <2>1 DEF Counted, Draining
<1>11. CausesFirst'
  <2>1. ASSUME NEW k \in DOMAIN order', NEW l \in DOMAIN order', order'[l] = order'[k]
        PROVE  l = k
    <3>1. \A m \in DOMAIN order : order[m] # i
      BY <1>2 DEF Scheduled
    <3>2. \A m \in DOMAIN order' : m \in DOMAIN order \/ m = Len(order) + 1
      BY <1>3, <1>4
    <3> QED BY <1>4, <2>1, <3>1, <3>2 DEF CausesFirst
  <2>2. ASSUME NEW k \in DOMAIN order', NEW e \in edges, Into(e) = order'[k]
        PROVE  \E l \in 1..(k - 1) : order'[l] = From(e)
    <3>1. CASE k \in DOMAIN order
      <4>1. PICK l \in 1..(k - 1) : order[l] = From(e)
        BY <1>4, <2>2, <3>1 DEF CausesFirst
      <4>2. l \in DOMAIN order
        BY <1>3, <1>4, <3>1
      <4> QED BY <1>4, <4>1, <4>2
    <3>2. CASE k = Len(order) + 1
      <4>1. Causes(i) = {}
        <5>1. Cardinality(Causes(i)) = 0
          BY <1>0, <1>2 DEF Counted
        <5> QED BY <1>2, <1>6, <5>1, FS_EmptySet
      <4>2. From(e) \in Scheduled
        BY <1>4, <2>2, <3>2, <4>1 DEF Causes
      <4>3. PICK l \in DOMAIN order : order[l] = From(e)
        BY <4>2 DEF Scheduled
      <4>4. l \in 1..(k - 1)
        BY <1>3, <1>4, <3>2
      <4> QED BY <1>4, <4>3, <4>4
    <3> QED BY <1>3, <1>4, <3>1, <3>2
  <2> QED BY <1>0, <2>1, <2>2 DEF CausesFirst, From, Into
<1>12. Complete'
  BY <1>0 DEF Complete
<1> QED BY <1>9, <1>10, <1>11, <1>12

LEMMA DrainedKeeps ==
    ASSUME KahnInv, Drained
    PROVE  KahnInv'
<1> USE DEF KahnInv
<1>0. /\ phase = "drain" /\ UNCHANGED <<log, edges, indeg, heap, order>>
      /\ phase' = IF Len(order) = Len(log) THEN "timeline" ELSE "Cycle"
  BY DEF Drained, kahnVars, Enter
<1>1. Shapes'
  BY <1>0 DEF Shapes, IsLog, Nodes
<1>2. Counted'
  <2>1. \A j \in Nodes : Causes(j)' = Causes(j)
    BY <1>0 DEF Causes, Scheduled, From, Into
  <2>2. Draining /\ Draining'
    BY <1>0 DEF Draining
  <2> QED BY <1>0, <2>1, <2>2 DEF Counted, Nodes, Scheduled
<1>3. CausesFirst'
  BY <1>0 DEF CausesFirst, From, Into
<1>4. Complete'
  BY <1>0 DEF Complete
<1> QED BY <1>1, <1>2, <1>3, <1>4

LEMMA KahnInvStep == KahnInv /\ [ReplayLogStep]_kahn => KahnInv'
<1> SUFFICES ASSUME KahnInv, [ReplayLogStep]_kahn
             PROVE  KahnInv'
  OBVIOUS
<1>1. CASE Build
  BY <1>1, BuildKeeps
<1>2. CASE Validate
  BY <1>2, ValidateKeeps
<1>3. CASE Linearize
  BY <1>3, LinearizeKeeps
<1>4. CASE Pop
  BY <1>4, PopKeeps
<1>5. CASE Drained
  BY <1>5, DrainedKeeps
<1>6. CASE UNCHANGED kahn
  <2>0. UNCHANGED <<log, edges, indeg, heap, order, phase>>
    BY <1>6 DEF kahn, kahnVars
  <2>1. Nodes' = Nodes /\ Scheduled' = Scheduled /\ Draining' = Draining
    BY <2>0 DEF Nodes, Scheduled, Draining
  <2>2. \A j : Causes(j)' = Causes(j)
    BY <2>0, <2>1 DEF Causes, From, Into
  <2>3. Shapes' /\ Complete'
    BY <2>0, <2>1 DEF KahnInv, Shapes, IsLog, Complete
  <2>4. Counted'
    BY <2>0, <2>1, <2>2 DEF KahnInv, Counted
  <2>5. CausesFirst'
    BY <2>0 DEF KahnInv, CausesFirst, From, Into
  <2> QED BY <2>3, <2>4, <2>5 DEF KahnInv
<1> QED BY <1>1, <1>2, <1>3, <1>4, <1>5, <1>6 DEF ReplayLogStep

\* The inductive invariant of the drain holds in every state of replay_log.
THEOREM KahnInvHolds == ReplayLogSpec => []KahnInv
  BY KahnInvInit, KahnInvStep, PTL DEF ReplayLogSpec

\* Whatever log linearize is given, it never schedules an event twice or
\* before one of its causes.
THEOREM CausesFirstHolds == ReplayLogSpec => []CausesFirst
<1>1. KahnInv => CausesFirst
  BY DEF KahnInv
<1> QED BY <1>1, KahnInvHolds, PTL

----------------------------------------------------------------------------
(***************************************************************************)
(* Why the drain never stalls: every unscheduled event without a cause     *)
(* ahead is in the heap, the edges follow the strict order of validated    *)
(* clocks, and a finite set of events has one that no other is before.     *)
(***************************************************************************)
NaturalClocks == \A i \in Nodes : \A k \in DOMAIN log[i].vclock : log[i].vclock[k] \in Nat

Checked ==
    /\ phase \in {"validate", "linearize", "drain"} => edges = DirectEdges(log)
    /\ phase \in {"linearize", "drain"} => Valid(log)

Ready == phase = "drain" => \A j \in Nodes \ Scheduled : indeg[j] = 0 => j \in heap

ProgressInv == Checked /\ Ready /\ NeverCycles

Earlier(i, j) == HbStrict(log[i].vclock, log[j].vclock)

\* A missing entry counts as zero, so keys outside both clocks never matter.
LEMMA GetIsNatural ==
    ASSUME NEW a, \A k \in DOMAIN a : a[k] \in Nat, NEW k
    PROVE  Get(a, k) \in Nat /\ (k \notin DOMAIN a => Get(a, k) = 0)
BY DEF Get

LEMMA HbIsOrder ==
    ASSUME NEW a, \A k \in DOMAIN a : a[k] \in Nat,
           NEW b, \A k \in DOMAIN b : b[k] \in Nat,
           NEW c, \A k \in DOMAIN c : c[k] \in Nat
    PROVE  /\ ~HbStrict(a, a)
           /\ HbStrict(a, b) /\ HbStrict(b, c) => HbStrict(a, c)
<1>0. \A k : Get(a, k) \in Nat /\ Get(b, k) \in Nat /\ Get(c, k) \in Nat
  BY GetIsNatural
<1>1. ~HbStrict(a, a)
  BY <1>0 DEF HbStrict
<1>2. ASSUME HbStrict(a, b), HbStrict(b, c)
      PROVE  HbStrict(a, c)
  <2>1. \A k : Get(a, k) <= Get(b, k)
    <3>1. \A k : k \notin DOMAIN a \cup DOMAIN b => Get(a, k) = 0 /\ Get(b, k) = 0
      BY GetIsNatural
    <3> QED BY <1>0, <1>2, <3>1 DEF HbStrict
  <2>2. \A k : Get(b, k) <= Get(c, k)
    <3>1. \A k : k \notin DOMAIN b \cup DOMAIN c => Get(b, k) = 0 /\ Get(c, k) = 0
      BY GetIsNatural
    <3> QED BY <1>0, <1>2, <3>1 DEF HbStrict
  <2>3. PICK k \in DOMAIN a \cup DOMAIN b : Get(a, k) < Get(b, k)
    BY <1>2 DEF HbStrict
  <2>4. Get(a, k) < Get(c, k)
    BY <1>0, <2>2, <2>3
  <2>5. k \in DOMAIN a \cup DOMAIN c
    BY <1>0, <2>4, GetIsNatural
  <2> QED BY <1>0, <2>1, <2>2, <2>4, <2>5 DEF HbStrict
<1> QED BY <1>1, <1>2

\* Among finitely many events there is one that none of the others is before.
LEMMA EarliestExists ==
    ASSUME NaturalClocks, IsLog,
           NEW S \in SUBSET Nodes, S # {}
    PROVE  \E m \in S : \A i \in S : ~Earlier(i, m)
<1> DEFINE Behind(j) == {i \in S : Earlier(i, j)}
           T == {Behind(j) : j \in S}
<1>1. IsFiniteSet(S)
  <2>1. Nodes = 1..Len(log) /\ Len(log) \in Nat
    BY DEF Nodes
  <2>2. IsFiniteSet(Nodes)
    BY <2>1, FS_Interval
  <2> QED BY <2>2, FS_Subset
<1>2. \A i, j, l \in S : ~Earlier(i, i) /\ (Earlier(i, j) /\ Earlier(j, l) => Earlier(i, l))
  <2>1. \A i \in S : \A k \in DOMAIN log[i].vclock : log[i].vclock[k] \in Nat
    BY DEF NaturalClocks, Nodes
  <2> QED BY <2>1, HbIsOrder DEF Earlier
<1>3. T \subseteq FiniteSubsetsOf(S) /\ T # {}
  <2>1. \A j \in S : Behind(j) \in SUBSET S /\ IsFiniteSet(Behind(j))
    BY <1>1, FS_Subset
  <2> QED BY <2>1 DEF FiniteSubsetsOf
<1>4. PICK B \in T : \A C \in T : <<C, B>> \notin StrictSubsetOrdering(S)
  <2> HIDE DEF T
  <2> QED BY <1>3, FS_StrictSubsetOrderingWellFounded, WFMin
<1>5. PICK m \in S : B = Behind(m)
  BY <1>4
<1>6. ASSUME NEW i \in S, Earlier(i, m)
      PROVE  FALSE
  <2>1. Behind(i) \subseteq Behind(m) /\ i \in Behind(m) /\ i \notin Behind(i)
    BY <1>2, <1>6
  <2>2. <<Behind(i), Behind(m)>> \in StrictSubsetOrdering(S)
    BY <2>1 DEF StrictSubsetOrdering
  <2> QED BY <1>4, <1>5, <1>6, <2>2
<1> QED BY <1>6

\* An edge of a validated log leads to a later clock.
LEMMA EdgesAscend ==
    ASSUME edges = DirectEdges(log), Valid(log), NEW e \in edges
    PROVE  Earlier(From(e), Into(e))
<1>1. e[1] \in Edges(log)
  BY DEF DirectEdges, Edges
<1> QED BY <1>1 DEF Valid, Earlier, From, Into

\* A schedule without repetitions that holds every event is as long as the log.
LEMMA ScheduleIsComplete ==
    ASSUME Shapes, CausesFirst, Scheduled = Nodes
    PROVE  Len(order) = Len(log)
<1>1. /\ Nodes = 1..Len(log) /\ DOMAIN order = 1..Len(order)
      /\ Len(log) \in Nat /\ Len(order) \in Nat
  BY DEF Shapes, IsLog, Nodes
<1>2. order \in Bijection(1..Len(order), 1..Len(log))
  <2>1. order \in [1..Len(order) -> 1..Len(log)]
    BY <1>1 DEF Shapes, IsLog
  <2>2. \A k, l \in 1..Len(order) : order[k] = order[l] => k = l
    BY <1>1 DEF CausesFirst
  <2>3. \A i \in 1..Len(log) : \E k \in 1..Len(order) : order[k] = i
    BY <1>1 DEF Scheduled
  <2> QED BY <2>1, <2>2, <2>3 DEF Bijection, Injection, Surjection, IsInjective
<1>3. /\ IsFiniteSet(1..Len(order)) /\ Cardinality(1..Len(order)) = Len(order)
      /\ Cardinality(1..Len(log)) = Len(log)
  <2>1. \A n \in Nat : IsFiniteSet(1..n) /\ Cardinality(1..n) = n
    BY FS_Interval
  <2> QED BY <1>1, <2>1
<1>4. ExistsBijection(1..Len(order), 1..Len(log))
  BY <1>2 DEF ExistsBijection
<1> QED BY <1>3, <1>4, FS_Bijection

LEMMA ProgressInit ==
    IsLog /\ phase = "build" /\ KahnInit => ProgressInv
BY DEF ProgressInv, Checked, Ready, NeverCycles

LEMMA PopProgress ==
    ASSUME KahnInv, ProgressInv, Pop
    PROVE  ProgressInv'
<1>0. phase = "drain" /\ UNCHANGED <<log, edges, phase>>
  BY DEF Pop
<1>1. Checked' /\ NeverCycles'
  BY <1>0 DEF ProgressInv, Checked, NeverCycles
<1>2. PICK i \in heap : /\ order' = Append(order, i)
                        /\ indeg' = Discount(i)
                        /\ heap' = (heap \ {i}) \cup Released(i)
  BY DEF Pop
<1>3. Scheduled' = Scheduled \cup {i}
  <2>1. order \in Seq(Nodes) /\ i \in Nodes
    BY <1>2 DEF KahnInv, Shapes, IsLog
  <2>2. /\ DOMAIN order = 1..Len(order) /\ DOMAIN order' = 1..(Len(order) + 1)
        /\ Len(order) \in Nat
        /\ \A k \in DOMAIN order : order'[k] = order[k]
        /\ order'[Len(order) + 1] = i
    BY <1>2, <2>1
  <2> QED BY <2>2 DEF Scheduled
<1>4. ASSUME NEW j \in Nodes \ Scheduled', indeg'[j] = 0
      PROVE  j \in heap'
  <2>1. j \notin Scheduled /\ j # i /\ indeg[j] \in Nat
    BY <1>0, <1>3, <1>4 DEF KahnInv, Counted, Draining
  <2>2. indeg'[j] = Discount(i)[j] /\ Discount(i)[j] = indeg[j] - EdgesBetween(i, j)
    BY <1>2, <1>4 DEF Discount
  <2>3. EdgesBetween(i, j) \in Nat
    <3>1. IsFiniteSet({e \in edges : From(e) = i /\ Into(e) = j})
      BY EdgesFinite, FS_Subset DEF KahnInv
    <3> QED BY <3>1, FS_CardinalityType DEF EdgesBetween
  <2>4. CASE EdgesBetween(i, j) = 0
    BY <1>0, <1>2, <1>4, <2>1, <2>2, <2>4 DEF ProgressInv, Ready
  <2>5. CASE EdgesBetween(i, j) > 0
    BY <1>2, <1>4, <2>2, <2>5 DEF Released
  <2> QED BY <2>3, <2>4, <2>5
<1>5. Ready'
  BY <1>0, <1>4 DEF Ready, Nodes
<1> QED BY <1>1, <1>5 DEF ProgressInv

\* The heap is empty only when everything is scheduled.
LEMMA DrainedMeansComplete ==
    ASSUME NaturalClocks, KahnInv, ProgressInv, Drained
    PROVE  Len(order) = Len(log)
<1>0. phase = "drain" /\ heap = {} /\ Draining
  BY DEF Drained, Draining
<1>1. Scheduled \subseteq Nodes
  BY DEF KahnInv, Shapes, IsLog, Scheduled
<1>2. SUFFICES ASSUME Nodes \ Scheduled # {}
               PROVE  FALSE
  <2>1. Scheduled = Nodes
    BY <1>1, <1>2
  <2> QED BY <2>1, ScheduleIsComplete DEF KahnInv
<1>3. PICK m \in Nodes \ Scheduled : \A i \in Nodes \ Scheduled : ~Earlier(i, m)
  <2>1. IsLog
    BY DEF KahnInv, Shapes, IsLog
  <2> QED BY <1>2, <2>1, EarliestExists
<1>4. Causes(m) # {}
  <2>1. indeg[m] # 0 /\ indeg[m] = Cardinality(Causes(m))
    BY <1>0, <1>3 DEF KahnInv, Counted, ProgressInv, Ready
  <2> QED BY <2>1, FS_EmptySet
<1>5. PICK e \in edges : Into(e) = m /\ From(e) \notin Scheduled
  BY <1>4 DEF Causes
<1>6. From(e) \in Nodes
  BY <1>5 DEF KahnInv, Shapes, IsLog, From
<1>7. Earlier(From(e), m)
  BY <1>0, <1>5, EdgesAscend DEF ProgressInv, Checked
<1> QED BY <1>3, <1>5, <1>6, <1>7

LEMMA ProgressStep ==
    ASSUME NaturalClocks, KahnInv, ProgressInv, [ReplayLogStep]_kahn
    PROVE  ProgressInv'
<1>1. CASE Build
  <2>1. phase = "build" /\ phase' \notin {"linearize", "drain", "Cycle"} /\ log' = log
    BY <1>1 DEF Build, BuildOk, BuildError, Enter
  <2>2. phase' = "validate" => edges' = DirectEdges(log)
    BY <1>1 DEF Build, BuildOk, BuildError, Enter
  <2> QED BY <2>1, <2>2 DEF ProgressInv, Checked, Ready, NeverCycles
<1>2. CASE Validate
  <2>1. /\ phase = "validate" /\ UNCHANGED <<log, edges>>
        /\ phase' = IF Valid(log) THEN "linearize" ELSE "Inconsistent"
    BY <1>2 DEF Validate, Enter, kahnVars
  <2> QED BY <2>1 DEF ProgressInv, Checked, Ready, NeverCycles
<1>3. CASE Linearize
  <2>1. /\ phase = "linearize" /\ phase' = "drain" /\ UNCHANGED <<log, edges, order>>
        /\ heap' = {i \in Nodes : indeg'[i] = 0}
    BY <1>3 DEF Linearize, Enter
  <2>2. Ready'
    BY <2>1 DEF Ready, Nodes
  <2> QED BY <2>1, <2>2 DEF ProgressInv, Checked, NeverCycles
<1>4. CASE Pop
  BY <1>4, PopProgress
<1>5. CASE Drained
  <2>1. phase' = "timeline"
    BY <1>5, DrainedMeansComplete DEF Drained, Enter
  <2> QED BY <2>1 DEF ProgressInv, Checked, Ready, NeverCycles
<1>6. CASE UNCHANGED kahn
  <2>1. UNCHANGED <<log, edges, indeg, heap, order, phase>>
    BY <1>6 DEF kahn, kahnVars
  <2> QED BY <2>1 DEF ProgressInv, Checked, Ready, NeverCycles, Nodes, Scheduled
<1> QED BY <1>1, <1>2, <1>3, <1>4, <1>5, <1>6 DEF ReplayLogStep

\* A log whose clocks validate accepts is always linearized whole: the Cycle
\* error of linearize cannot happen, whatever the stamps and names in the log.
THEOREM NeverCyclesHolds == ReplayLogSpec /\ NaturalClocks => []NeverCycles
<1>1. ProgressInv => NeverCycles
  BY DEF ProgressInv
<1>2. NaturalClocks /\ KahnInv /\ ProgressInv /\ [ReplayLogStep]_kahn => (NaturalClocks /\ ProgressInv)'
  <2> SUFFICES ASSUME NaturalClocks, KahnInv, ProgressInv, [ReplayLogStep]_kahn
               PROVE  NaturalClocks' /\ ProgressInv'
    OBVIOUS
  <2>1. log' = log
    BY DEF kahn, ReplayLogStep, Build, Validate, Linearize, Pop, Drained
  <2> QED BY <2>1, ProgressStep DEF NaturalClocks, Nodes
<1> QED BY <1>1, <1>2, ProgressInit, KahnInvHolds, PTL DEF ReplayLogSpec
=============================================================================
