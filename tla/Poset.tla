------------------------------- MODULE Poset -------------------------------
(***************************************************************************)
(* The happens-before poset lichtung-replay reconstructs from a recorded   *)
(* log (poset.rs), and reachability over it (engine.rs).  A log is a       *)
(* sequence of causal events in the order they were recorded; the nodes of *)
(* the poset are its indices.                                              *)
(***************************************************************************)
EXTENDS Naturals, Sequences, CausalClock, CausalEvent

\* An emit without a msg_id is never entered in the table of emits.
IsEmit(e) == e.op = "emit" /\ e.msg_id # None
IsRecv(e) == e.op = "recv"

----------------------------------------------------------------------------
(* Poset::build: the three ways it rejects a log ... *)

DuplicateSeq(log) ==
    \E i, j \in DOMAIN log :
        i # j /\ log[i].actor = log[j].actor /\ log[i].seq = log[j].seq

DuplicateEmit(log) ==
    \E i, j \in DOMAIN log :
        i # j /\ IsEmit(log[i]) /\ IsEmit(log[j]) /\ log[i].msg_id = log[j].msg_id

MissingEmit(log) ==
    \E i \in DOMAIN log :
        /\ IsRecv(log[i])
        /\ \A j \in DOMAIN log : IsEmit(log[j]) => log[j].msg_id # log[i].msg_id

BuildOk(log) == ~DuplicateSeq(log) /\ ~DuplicateEmit(log) /\ ~MissingEmit(log)

(* ... and the direct edges it reads off one it accepts. *)

Pairs(log) == (DOMAIN log) \X (DOMAIN log)

\* Consecutive events of one actor, by seq.
ProgramEdges(log) ==
    LET Precedes(i, j) == log[i].actor = log[j].actor /\ log[i].seq < log[j].seq
    IN  {e \in Pairs(log) :
            /\ Precedes(e[1], e[2])
            /\ ~\E k \in DOMAIN log : Precedes(e[1], k) /\ Precedes(k, e[2])}

MessageEdges(log) ==
    {e \in Pairs(log) : /\ IsEmit(log[e[1]])
                        /\ IsRecv(log[e[2]])
                        /\ log[e[1]].msg_id = log[e[2]].msg_id}

Edges(log) == ProgramEdges(log) \cup MessageEdges(log)

\* Poset::validate: every edge is reflected in the recorded clocks.
Valid(log) ==
    \A e \in Edges(log) : HbStrict(log[e[1]].vclock, log[e[2]].vclock)

----------------------------------------------------------------------------
(* concurrent_pairs: what each event reaches, one intermediate event at a  *)
(* time, and the pairs of events neither of which reaches the other.       *)

Reach(log) ==
    LET close[k \in 0..Len(log)] ==
            IF k = 0 THEN Edges(log)
            ELSE LET R      == close[k - 1]
                     before == {i \in DOMAIN log : <<i, k>> \in R}
                     after  == {j \in DOMAIN log : <<k, j>> \in R}
                 IN  R \cup (before \X after)
    IN  close[Len(log)]

ConcurrentPairs(log) ==
    LET R == Reach(log)
    IN  {e \in Pairs(log) : e[1] < e[2] /\ e \notin R /\ <<e[2], e[1]>> \notin R}
=============================================================================
