----------------------------- MODULE ReplayLog -----------------------------
(***************************************************************************)
(* replay_log (lichtung-replay, engine.rs and extension.rs): from a log to *)
(* its canonical timeline.  The poset is built and validated, then Kahn's  *)
(* algorithm drains it, always the ready event with the smallest key.      *)
(* Nodes are the indices of the log.                                       *)
(***************************************************************************)
EXTENDS Poset, FiniteSets

CONSTANT Rank   \* per name: its place in the order of names

VARIABLES
    log,     \* the events handed to replay_log
    edges,   \* Poset::edges
    indeg,   \* per event: edges from events not yet scheduled
    heap,    \* the ready events
    order,   \* the schedule
    phase    \* where replay is

kahnVars == <<edges, indeg, heap, order>>

\* The errors of replay_log, by their names in error.rs.
Rejected == {"DuplicateSeq", "DuplicateEmit", "MissingEmit", "Inconsistent", "Cycle"}

\* `edges` is a Vec: when an actor receives next what it has just sent to
\* itself, a program edge and a message edge join the same two events.
DirectEdges(l) == (ProgramEdges(l) \X {"program"}) \cup (MessageEdges(l) \X {"message"})

From(e) == e[1][1]
Into(e) == e[1][2]

EdgesBetween(i, j) == Cardinality({e \in edges : From(e) = i /\ Into(e) = j})

Nodes == DOMAIN log

\* Mutant: ties are broken by the place in the log.
KeyByIndex(i) == <<log[i].lamport, 0, 0, i>>

Key(i) == <<log[i].lamport, Rank[log[i].actor], log[i].seq, i>>

Smaller(k, l) == \E n \in 1..Len(k) : k[n] < l[n] /\ \A m \in 1..(n - 1) : k[m] = l[m]

Enter(label) == phase' = label

KahnInit == edges = {} /\ indeg = <<>> /\ heap = {} /\ order = <<>>

----------------------------------------------------------------------------

BuildError ==
    CASE DuplicateSeq(log)  -> "DuplicateSeq"
      [] ~DuplicateSeq(log) /\ DuplicateEmit(log) -> "DuplicateEmit"
      [] ~DuplicateSeq(log) /\ ~DuplicateEmit(log) -> "MissingEmit"

Build ==
    /\ phase = "build"
    /\ IF BuildOk(log)
       THEN edges' = DirectEdges(log) /\ Enter("validate")
       ELSE Enter(BuildError) /\ UNCHANGED edges
    /\ UNCHANGED <<log, indeg, heap, order>>

Validate ==
    /\ phase = "validate"
    /\ Enter(IF Valid(log) THEN "linearize" ELSE "Inconsistent")
    /\ UNCHANGED <<log, kahnVars>>

\* Mutant: an event's causes are counted, not the edges from them.
InDegreeDistinct(j) == Cardinality({From(e) : e \in {f \in edges : Into(f) = j}})

InDegree(j) == Cardinality({e \in edges : Into(e) = j})

\* The tables of linearize: in-degrees, and the events that have none.
Linearize ==
    /\ phase = "linearize"
    /\ indeg' = [i \in Nodes |-> InDegree(i)]
    /\ heap' = {i \in Nodes : indeg'[i] = 0}
    /\ Enter("drain")
    /\ UNCHANGED <<log, edges, order>>

\* Mutant: two edges between the same events count once.
DiscountOnce(i) == [j \in Nodes |-> indeg[j] - (IF EdgesBetween(i, j) > 0 THEN 1 ELSE 0)]

Discount(i) == [j \in Nodes |-> indeg[j] - EdgesBetween(i, j)]

\* Mutant: a successor is ready as soon as one of its causes is scheduled.
ReleasedEager(i) == {j \in Nodes : EdgesBetween(i, j) > 0}

Released(i) == {j \in Nodes : EdgesBetween(i, j) > 0 /\ Discount(i)[j] = 0}

\* Schedule the smallest ready event and release those it was the last cause of.
Pop ==
    /\ phase = "drain"
    /\ \E i \in heap :
         /\ \A j \in heap \ {i} : Smaller(Key(i), Key(j))
         /\ order' = Append(order, i)
         /\ indeg' = Discount(i)
         /\ heap' = (heap \ {i}) \cup Released(i)
    /\ UNCHANGED <<log, edges, phase>>

Drained ==
    /\ phase = "drain"
    /\ heap = {}
    /\ Enter(IF Len(order) = Len(log) THEN "timeline" ELSE "Cycle")
    /\ UNCHANGED <<log, kahnVars>>

Timeline == [k \in DOMAIN order |-> log[order[k]]]

ReplayLogStep == Build \/ Validate \/ Linearize \/ Pop \/ Drained

----------------------------------------------------------------------------
(* Properties *)

\* However far the drain has got, no event is scheduled twice or before one
\* of its causes, whatever Lamport stamps the log carries: validate compares
\* only vector clocks, so only the in-degrees keep the order.
CausesFirst ==
    \A k \in DOMAIN order :
      /\ \A l \in DOMAIN order : order[l] = order[k] => l = k
      /\ \A e \in edges : Into(e) = order[k] => \E l \in 1..(k - 1) : order[l] = From(e)

\* A log that passed validate has strictly growing clocks along every edge,
\* so linearize never meets a cycle and schedules every event.
NeverCycles == phase # "Cycle"
=============================================================================
