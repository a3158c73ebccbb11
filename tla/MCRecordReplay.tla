---- MODULE MCRecordReplay ----
(* Small instances of a recorded and replayed run. *)
EXTENDS RecordReplay, TLC

CONSTANTS a1, a2

Pair   == {a1, a2}
Nobody == {}
First  == {a1}
\* The name `world` sorts after those of the actors.
ByName == (a1 :> 1) @@ (a2 :> 2) @@ (World :> 3)
====
