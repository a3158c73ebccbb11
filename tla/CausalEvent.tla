---------------------------- MODULE CausalEvent ----------------------------
(***************************************************************************)
(* The records of the causal log (lichtung-log, lichtung-core/event.rs).   *)
(* The event id is the text "actor:seq" and carries nothing but those two  *)
(* fields, so it is left out; msg_id is the number inside "m<n>".  `value` *)
(* and `payload_hash` are None in every event the runtime builds.          *)
(***************************************************************************)
CONSTANT None   \* the absent msg_id, src or dst of a compute event

EmitEvent(actor, seq, env) ==
    [actor |-> actor, seq |-> seq, op |-> "emit",
     vclock |-> env.vclock, lamport |-> env.lamport,
     msg_id |-> env.msg_id, src |-> env.src, dst |-> env.dst]

\* The receiver's own name goes into dst, whatever the envelope says.
RecvEvent(actor, seq, clock, lamport, env) ==
    [actor |-> actor, seq |-> seq, op |-> "recv",
     vclock |-> clock, lamport |-> lamport,
     msg_id |-> env.msg_id, src |-> env.src, dst |-> actor]

ComputeEvent(actor, seq, clock, lamport) ==
    [actor |-> actor, seq |-> seq, op |-> "compute",
     vclock |-> clock, lamport |-> lamport,
     msg_id |-> None, src |-> None, dst |-> None]
=============================================================================
