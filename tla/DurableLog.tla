----------------------------- MODULE DurableLog -----------------------------
(***************************************************************************)
(* What the log writer promises, without channel, buffer or lines: an      *)
(* append-only store behind what was accepted, which is complete if the    *)
(* writer reports success.                                                 *)
(***************************************************************************)
EXTENDS Naturals

VARIABLES accepted,   \* events the writer took responsibility for
          stored,     \* events that stand in the file as whole lines
          open,       \* may more events come?
          outcome     \* "running", "ok", "failed" or "crashed"

vars == <<accepted, stored, open, outcome>>

Init == accepted = 0 /\ stored = 0 /\ open = TRUE /\ outcome = "running"

Accept == /\ open
          /\ outcome = "running"
          /\ accepted' = accepted + 1
          /\ UNCHANGED <<stored, open, outcome>>

Close == open /\ open' = FALSE /\ UNCHANGED <<accepted, stored, outcome>>

\* Any number of accepted events is stored, in the order of acceptance.
Store == /\ outcome = "running"
         /\ stored < accepted
         /\ stored' \in (stored + 1)..accepted
         /\ UNCHANGED <<accepted, open, outcome>>

Succeed == /\ outcome = "running"
           /\ ~open
           /\ stored = accepted
           /\ outcome' = "ok"
           /\ UNCHANGED <<accepted, stored, open>>

\* A failing writer may still store some of what it holds; a crash stores nothing.
Fail == /\ outcome = "running"
        /\ stored' \in stored..accepted
        /\ outcome' = "failed"
        /\ UNCHANGED <<accepted, open>>

Crash == outcome = "running" /\ outcome' = "crashed" /\ UNCHANGED <<accepted, stored, open>>

Next == Accept \/ Close \/ Store \/ Succeed \/ Fail \/ Crash

Spec == Init /\ [][Next]_vars /\ WF_vars(Store) /\ WF_vars(Succeed)
=============================================================================
