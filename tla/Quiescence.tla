----------------------------- MODULE Quiescence -----------------------------
(***************************************************************************)
(* What run_until_quiescent promises, without tasks, counters or wake-ups: *)
(* work comes from outside while the system is open; afterwards only work  *)
(* begets work; and the system goes down exactly once, when none is left.  *)
(***************************************************************************)
EXTENDS Naturals

VARIABLES work,    \* messages in flight
          phase    \* "open", "driving" or "down"

vars == <<work, phase>>

TypeOK == work \in Nat /\ phase \in {"open", "driving", "down"}

Init == work = 0 /\ phase = "open"

Inject == phase = "open" /\ work' = work + 1 /\ UNCHANGED phase

Drive == phase = "open" /\ phase' = "driving" /\ UNCHANGED work

Spawn == work > 0 /\ work' = work + 1 /\ UNCHANGED phase

Finish == work > 0 /\ work' = work - 1 /\ UNCHANGED phase

Detect == phase = "driving" /\ work = 0 /\ phase' = "down" /\ UNCHANGED work

Next == Inject \/ Drive \/ Spawn \/ Finish \/ Detect

\* Work that is pending gets done, and its absence gets noticed.
Spec == Init /\ [][Next]_vars /\ WF_vars(Finish) /\ WF_vars(Drive) /\ WF_vars(Detect)
=============================================================================
