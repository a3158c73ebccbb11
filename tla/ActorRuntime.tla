---------------------------- MODULE ActorRuntime ----------------------------
(***************************************************************************)
(* The production runtime (lichtung-prod with lichtung-core's Context):    *)
(* actor tasks, their mailboxes, the shared in-flight counter and Notify,  *)
(* the causal log channel, and the main task that injects origins, waits   *)
(* for quiescence and shuts the system down.                               *)
(*                                                                         *)
(* Tasks run in parallel, so every access to shared state is a step of its *)
(* own: a send is stamp, record, count, deliver; a decrement that reaches  *)
(* zero and the notify_one it triggers are two steps; so are the main      *)
(* task's test of the counter and its wait.  What a handler computes is    *)
(* left open: it may send to anyone and log compute events, up to the      *)
(* bounds, in any order.                                                   *)
(***************************************************************************)
EXTENDS Integers, Sequences, FiniteSets, CausalClock, CausalEvent

CONSTANTS
    Actor,          \* the actors spawned before the first origin
    World,          \* the synthetic sender of origins
    Starters,       \* actors whose started() sends or computes
    PanicStart,     \* actors whose started() may panic
    PanicHandle,    \* actors whose handle() may panic
    Mistyped,       \* actors reachable through an Addr of the wrong type
    WriterCanFail,  \* may the log writer stop on an I/O error?
    MaxMsgs,        \* bound: messages sent in a run
    MaxSeq,         \* bound: an actor at this seq logs no more compute events
    MaxOrigins      \* bound: calls of send_external

Node == Actor \cup {World}

ASSUME ActorAssumption == IsFiniteSet(Actor) /\ World \notin Actor

ASSUME ProgramAssumption ==
    /\ Starters \subseteq Actor
    /\ PanicStart \subseteq Actor
    /\ PanicHandle \subseteq Actor
    /\ Mistyped \subseteq Actor
    /\ WriterCanFail \in BOOLEAN

ASSUME BoundAssumption == MaxMsgs \in Nat /\ MaxSeq \in Nat /\ MaxOrigins \in Nat

VARIABLES
    clock, lamport, seq,   \* per actor: its stamps
    pc,                    \* per actor: where its task is
    handling,              \* per actor: is a counted message in its hands?
    out,                   \* per node: the envelope it is sending, or None
    mailbox,               \* per actor: queued envelopes
    msgId, inFlight,       \* SharedRuntime's atomics
    permit,                \* Notify's stored permit
    recorded,              \* the events the log channel accepted, in order
    writerUp,              \* does the channel still have its receiver?
    mpc,                   \* where the main task is
    aborted,               \* actors whose JoinHandle was aborted
    origins                \* calls of send_external so far

taskVars   == <<clock, lamport, seq>>
sharedVars == <<inFlight, permit>>
mainVars   == <<mpc, aborted, origins>>
logVars    == <<recorded, writerUp>>
vars == <<taskVars, pc, handling, out, mailbox, msgId, sharedVars, logVars, mainVars>>

(***************************************************************************)
(* pc of an actor task:                                                    *)
(*   unpolled      spawned, never polled                                   *)
(*   user          inside started() or handle()                            *)
(*   emit, count, deliver, undo, notifyUndo   inside Context::send         *)
(*   mistyped      the payload failed to downcast                          *)
(*   notifyDone    its last decrement reached zero, notify_one is due      *)
(*   loop          running, about to poll its mailbox                      *)
(*   parked        suspended in recv().await                               *)
(*   gone          the future was dropped (panicked or aborted)            *)
(***************************************************************************)
Sending   == {"emit", "count", "deliver", "undo", "notifyUndo"}
ActorPc   == Sending \cup
             {"unpolled", "user", "mistyped", "notifyDone", "loop", "parked", "gone"}
\* The main task after it has seen in_flight = 0.
Down      == {"shutdown", "closed"}
MainPc    == Down \cup {"setup", "record", "count", "deliver", "check", "await", "parked"}

VClock    == [Node -> Nat]
Envelope  == [vclock : VClock, lamport : Nat, msg_id : Nat, src : Node,
              dst : Actor, typed : BOOLEAN]
Event     == [actor : Node, seq : Nat, op : {"emit", "recv", "compute"},
              vclock : VClock, lamport : Nat, msg_id : Nat \cup {None},
              src : Node \cup {None}, dst : Actor \cup {None}]

\* None stands for Option::None: it is no envelope and no message id.
ASSUME NoneAssumption == None \notin Envelope
ASSUME NoIdAssumption == None \notin Nat

ZeroClock == [n \in Node |-> 0]

Gone(a) == pc[a] = "gone"

\* An Addr normally carries the receiver's message type; one minted at the
\* wrong type makes the receiver's downcast fail.
AddrTypes(to) == IF to \in Mistyped THEN BOOLEAN ELSE {TRUE}

Goto(a, label) == pc' = [pc EXCEPT ![a] = label]
MainGoto(label) == mpc' = label

Init ==
    /\ clock = [a \in Actor |-> ZeroClock]
    /\ lamport = [a \in Actor |-> 0]
    /\ seq = [a \in Actor |-> 0]
    /\ pc = [a \in Actor |-> "unpolled"]
    /\ handling = [a \in Actor |-> FALSE]
    /\ out = [n \in Node |-> None]
    /\ mailbox = [a \in Actor |-> <<>>]
    /\ msgId = 0
    /\ inFlight = 0
    /\ permit = FALSE
    /\ recorded = <<>>
    /\ writerUp = TRUE
    /\ mpc = "setup"
    /\ aborted = {}
    /\ origins = 0

----------------------------------------------------------------------------
(* SharedRuntime *)

\* A send on a channel without receiver returns an error that is ignored.
Record(ev) == /\ recorded' = IF writerUp THEN Append(recorded, ev) ELSE recorded
              /\ UNCHANGED writerUp

\* Mutant: the increment is missing.
IncForgotten == inFlight' = inFlight

IncInFlight == inFlight' = inFlight + 1

\* Mutant: the result of fetch_sub is taken for the new value.
DecTestsNewValue(a, zero, otherwise) ==
    /\ inFlight' = inFlight - 1
    /\ Goto(a, IF inFlight = 0 THEN zero ELSE otherwise)

\* fetch_sub; the task that takes the count to zero notifies in its next step.
DecInFlight(a, zero, otherwise) ==
    /\ inFlight' = inFlight - 1
    /\ Goto(a, IF inFlight = 1 THEN zero ELSE otherwise)

\* Mutant: notify_waiters, which stores nothing when nobody waits.
NotifyWaiters ==
    /\ mpc' = IF mpc = "parked" THEN "check" ELSE mpc
    /\ UNCHANGED permit

\* Notify::notify_one: wake the waiting main task, or store one permit.
NotifyOne ==
    IF mpc = "parked" THEN /\ MainGoto("check")
                           /\ UNCHANGED permit
                      ELSE /\ permit' = TRUE
                           /\ UNCHANGED mpc

----------------------------------------------------------------------------
(* The actor task *)

\* First poll.  The default started() does nothing.
Start(a) ==
    /\ pc[a] = "unpolled"
    /\ a \notin aborted
    /\ Goto(a, IF a \in Starters \cup PanicStart THEN "user" ELSE "loop")
    /\ UNCHANGED <<taskVars, handling, out, mailbox, msgId, sharedVars, logVars, mainVars>>

StartedReturns(a) ==
    /\ pc[a] = "user"
    /\ ~handling[a]
    /\ Goto(a, "loop")
    /\ UNCHANGED <<taskVars, handling, out, mailbox, msgId, sharedVars, logVars, mainVars>>

\* The task suspends when the mailbox is empty or its poll budget is used up.
Park(a) ==
    /\ pc[a] = "loop"
    /\ Goto(a, "parked")
    /\ UNCHANGED <<taskVars, handling, out, mailbox, msgId, sharedVars, logVars, mainVars>>

\* Take the next envelope, stamp and record the receipt, downcast the payload.
\* An abort stops a suspended task only: one that is running goes on until it
\* suspends.  Taking the envelope commutes with every step of the other tasks,
\* so it is one step with the record.
Recv(a) ==
    /\ pc[a] = "loop" \/ (pc[a] = "parked" /\ a \notin aborted)
    /\ mailbox[a] # <<>>
    /\ LET env == Head(mailbox[a])
           vc  == Bump(Join(clock[a], env.vclock), a)
           lam == Update(lamport[a], env.lamport)
       IN  /\ clock' = [clock EXCEPT ![a] = vc]
           /\ lamport' = [lamport EXCEPT ![a] = lam]
           /\ seq' = [seq EXCEPT ![a] = @ + 1]
           /\ Record(RecvEvent(a, seq[a] + 1, vc, lam, env))
           /\ Goto(a, IF env.typed THEN "user" ELSE "mistyped")
    /\ mailbox' = [mailbox EXCEPT ![a] = Tail(@)]
    /\ handling' = [handling EXCEPT ![a] = TRUE]
    /\ UNCHANGED <<out, msgId, sharedVars, mainVars>>

\* Mutant: the mistyped message is skipped without being accounted for.
SettleSkipsMistyped(a) ==
    /\ handling[a]
    /\ pc[a] \in {"user", "mistyped"}
    /\ handling' = [handling EXCEPT ![a] = FALSE]
    /\ IF pc[a] = "mistyped" THEN Goto(a, "loop") /\ UNCHANGED inFlight
                             ELSE DecInFlight(a, "notifyDone", "loop")
    /\ UNCHANGED <<taskVars, out, mailbox, msgId, permit, logVars, mainVars>>

\* handle() returned, or the message was skipped as mistyped.
Settle(a) ==
    /\ handling[a]
    /\ pc[a] \in {"user", "mistyped"}
    /\ handling' = [handling EXCEPT ![a] = FALSE]
    /\ DecInFlight(a, "notifyDone", "loop")
    /\ UNCHANGED <<taskVars, out, mailbox, msgId, permit, logVars, mainVars>>

NotifyDone(a) ==
    /\ pc[a] = "notifyDone"
    /\ NotifyOne
    /\ Goto(a, "loop")
    /\ UNCHANGED <<taskVars, handling, out, mailbox, msgId, inFlight, logVars, aborted, origins>>

\* A panic unwinds the task: its future, mailbox and message are dropped, and
\* no decrement runs.
Panic(a) ==
    /\ pc[a] = "user"
    /\ a \in (IF handling[a] THEN PanicHandle ELSE PanicStart)
    /\ Goto(a, "gone")
    /\ handling' = [handling EXCEPT ![a] = FALSE]
    /\ mailbox' = [mailbox EXCEPT ![a] = <<>>]
    /\ UNCHANGED <<taskVars, out, msgId, sharedVars, logVars, mainVars>>

\* An aborted task is dropped instead of being polled again.
Cancel(a) ==
    /\ a \in aborted
    /\ pc[a] \in {"unpolled", "parked"}
    /\ Goto(a, "gone")
    /\ mailbox' = [mailbox EXCEPT ![a] = <<>>]
    /\ UNCHANGED <<taskVars, handling, out, msgId, sharedVars, logVars, mainVars>>

----------------------------------------------------------------------------
(* Context, as started() or handle() of actor a calls it *)

\* User code runs: inside handle(), or inside a started() that does something.
InUserCode(a) == pc[a] = "user" /\ (handling[a] \/ a \in Starters)

Compute(a) ==
    /\ InUserCode(a)
    /\ seq[a] < MaxSeq
    /\ LET vc  == Bump(clock[a], a)
           lam == Tick(lamport[a])
       IN  /\ clock' = [clock EXCEPT ![a] = vc]
           /\ lamport' = [lamport EXCEPT ![a] = lam]
           /\ Record(ComputeEvent(a, seq[a] + 1, vc, lam))
    /\ seq' = [seq EXCEPT ![a] = @ + 1]
    /\ UNCHANGED <<pc, handling, out, mailbox, msgId, sharedVars, mainVars>>

\* Mutant: the clock is copied into the envelope before it is incremented.
SendStampStale(a, to) ==
    /\ InUserCode(a)
    /\ msgId < MaxMsgs
    /\ msgId' = msgId + 1
    /\ clock' = [clock EXCEPT ![a] = Bump(@, a)]
    /\ lamport' = [lamport EXCEPT ![a] = Tick(@)]
    /\ seq' = [seq EXCEPT ![a] = @ + 1]
    /\ \E typed \in AddrTypes(to) :
         out' = [out EXCEPT ![a] = [vclock |-> clock[a], lamport |-> Tick(lamport[a]),
                                    msg_id |-> msgId + 1,
                                    src |-> a, dst |-> to, typed |-> typed]]
    /\ Goto(a, "emit")
    /\ UNCHANGED <<handling, mailbox, sharedVars, logVars, mainVars>>

\* Advance the stamps, draw the next msg_id, build the envelope.
SendStamp(a, to) ==
    /\ InUserCode(a)
    /\ msgId < MaxMsgs
    /\ msgId' = msgId + 1
    /\ clock' = [clock EXCEPT ![a] = Bump(@, a)]
    /\ lamport' = [lamport EXCEPT ![a] = Tick(@)]
    /\ seq' = [seq EXCEPT ![a] = @ + 1]
    /\ \E typed \in AddrTypes(to) :
         out' = [out EXCEPT ![a] = [vclock |-> Bump(clock[a], a),
                                    lamport |-> Tick(lamport[a]),
                                    msg_id |-> msgId + 1,
                                    src |-> a, dst |-> to, typed |-> typed]]
    /\ Goto(a, "emit")
    /\ UNCHANGED <<handling, mailbox, sharedVars, logVars, mainVars>>

\* Mutant: the message is delivered without having been counted.
SendRecordUncounted(a) ==
    /\ pc[a] = "emit"
    /\ Record(EmitEvent(a, seq[a], out[a]))
    /\ Goto(a, "deliver")
    /\ UNCHANGED <<taskVars, handling, out, mailbox, msgId, sharedVars, mainVars>>

SendRecord(a) ==
    /\ pc[a] = "emit"
    /\ Record(EmitEvent(a, seq[a], out[a]))
    /\ Goto(a, "count")
    /\ UNCHANGED <<taskVars, handling, out, mailbox, msgId, sharedVars, mainVars>>

SendCount(a) ==
    /\ pc[a] = "count"
    /\ IncInFlight
    /\ Goto(a, "deliver")
    /\ UNCHANGED <<taskVars, handling, out, mailbox, msgId, permit, logVars, mainVars>>

\* Mutant: the newest message is handled first.
SendDeliverLifo(a) ==
    /\ pc[a] = "deliver"
    /\ ~Gone(out[a].dst)
    /\ mailbox' = [mailbox EXCEPT ![out[a].dst] = <<out[a]>> \o @]
    /\ out' = [out EXCEPT ![a] = None]
    /\ Goto(a, "user")
    /\ UNCHANGED <<taskVars, handling, msgId, sharedVars, logVars, mainVars>>

\* An envelope for a dropped mailbox comes back as an error.
SendDeliver(a) ==
    /\ pc[a] = "deliver"
    /\ LET to == out[a].dst
       IN  IF Gone(to)
           THEN Goto(a, "undo") /\ UNCHANGED <<mailbox, out>>
           ELSE /\ mailbox' = [mailbox EXCEPT ![to] = Append(@, out[a])]
                /\ out' = [out EXCEPT ![a] = None]
                /\ Goto(a, "user")
    /\ UNCHANGED <<taskVars, handling, msgId, sharedVars, logVars, mainVars>>

\* Mutant: the error of a closed mailbox is ignored.
SendUndoForgotten(a) ==
    /\ pc[a] = "undo"
    /\ Goto(a, "user")
    /\ out' = [out EXCEPT ![a] = None]
    /\ UNCHANGED <<taskVars, handling, mailbox, msgId, sharedVars, logVars, mainVars>>

SendUndo(a) ==
    /\ pc[a] = "undo"
    /\ DecInFlight(a, "notifyUndo", "user")
    /\ out' = [out EXCEPT ![a] = None]
    /\ UNCHANGED <<taskVars, handling, mailbox, msgId, permit, logVars, mainVars>>

NotifyUndo(a) ==
    /\ pc[a] = "notifyUndo"
    /\ NotifyOne
    /\ Goto(a, "user")
    /\ UNCHANGED <<taskVars, handling, out, mailbox, msgId, inFlight, logVars, aborted, origins>>

----------------------------------------------------------------------------
(* The main task *)

\* send_external: every call starts from a fresh clock, so every origin is
\* stamped {world: 1}, Lamport 1, seq 1.
ExternalStamp(to) ==
    /\ mpc = "setup"
    /\ origins < MaxOrigins
    /\ msgId < MaxMsgs
    /\ msgId' = msgId + 1
    /\ origins' = origins + 1
    /\ \E typed \in AddrTypes(to) :
         out' = [out EXCEPT ![World] = [vclock |-> Bump(ZeroClock, World),
                                        lamport |-> 1, msg_id |-> msgId + 1,
                                        src |-> World, dst |-> to, typed |-> typed]]
    /\ MainGoto("record")
    /\ UNCHANGED <<taskVars, pc, handling, mailbox, sharedVars, logVars, aborted>>

ExternalRecord ==
    /\ mpc = "record"
    /\ Record(EmitEvent(World, 1, out[World]))
    /\ MainGoto("count")
    /\ UNCHANGED <<taskVars, pc, handling, out, mailbox, msgId, sharedVars, aborted, origins>>

ExternalCount ==
    /\ mpc = "count"
    /\ IncInFlight
    /\ MainGoto("deliver")
    /\ UNCHANGED <<taskVars, pc, handling, out, mailbox, msgId, permit, logVars, aborted, origins>>

\* `let _ = to.deliver(env)`: a returned envelope is dropped.
ExternalDeliver ==
    /\ mpc = "deliver"
    /\ LET to == out[World].dst
       IN  mailbox' = IF Gone(to) THEN mailbox
                      ELSE [mailbox EXCEPT ![to] = Append(@, out[World])]
    /\ out' = [out EXCEPT ![World] = None]
    /\ MainGoto("setup")
    /\ UNCHANGED <<taskVars, pc, handling, msgId, sharedVars, logVars, aborted, origins>>

RunUntilQuiescent ==
    /\ mpc = "setup"
    /\ MainGoto("check")
    /\ UNCHANGED <<taskVars, pc, handling, out, mailbox, msgId, sharedVars, logVars, aborted, origins>>

\* Mutant: the last message in flight is taken for none.
CheckAtMostOne ==
    /\ mpc = "check"
    /\ MainGoto(IF inFlight <= 1 THEN "shutdown" ELSE "await")
    /\ UNCHANGED <<taskVars, pc, handling, out, mailbox, msgId, sharedVars, logVars, aborted, origins>>

Check ==
    /\ mpc = "check"
    /\ MainGoto(IF inFlight = 0 THEN "shutdown" ELSE "await")
    /\ UNCHANGED <<taskVars, pc, handling, out, mailbox, msgId, sharedVars, logVars, aborted, origins>>

\* Mutant: a wake-up is trusted without testing the counter again.
AwaitWithoutRecheck ==
    /\ mpc = "await"
    /\ permit' = FALSE
    /\ MainGoto(IF permit THEN "shutdown" ELSE "parked")
    /\ UNCHANGED <<taskVars, pc, handling, out, mailbox, msgId, inFlight, logVars, aborted, origins>>

\* First poll of `notified`: consume a stored permit, or wait for a notify.
Await ==
    /\ mpc = "await"
    /\ permit' = FALSE
    /\ MainGoto(IF permit THEN "check" ELSE "parked")
    /\ UNCHANGED <<taskVars, pc, handling, out, mailbox, msgId, inFlight, logVars, aborted, origins>>

\* The two loops over the handles: abort every task ...
Abort(a) ==
    /\ mpc = "shutdown"
    /\ a \notin aborted
    /\ aborted' = aborted \cup {a}
    /\ UNCHANGED <<taskVars, pc, handling, out, mailbox, msgId, sharedVars, logVars, mpc, origins>>

\* Mutant: the event channel is closed without joining the tasks.
CloseUnjoined ==
    /\ mpc = "shutdown"
    /\ aborted = Actor
    /\ MainGoto("closed")
    /\ UNCHANGED <<taskVars, pc, handling, out, mailbox, msgId, sharedVars, logVars, aborted, origins>>

\* ... then await every one, which drops the futures with their share of the
\* runtime.  Dropping the last share closes the event channel.
Close ==
    /\ mpc = "shutdown"
    /\ aborted = Actor
    /\ \A a \in Actor : Gone(a)
    /\ MainGoto("closed")
    /\ UNCHANGED <<taskVars, pc, handling, out, mailbox, msgId, sharedVars, logVars, aborted, origins>>

----------------------------------------------------------------------------
(* The environment: the writer task stops on an I/O error and drops its end *)
(* of the channel.                                                          *)
WriterFails ==
    /\ WriterCanFail
    /\ writerUp
    /\ writerUp' = FALSE
    /\ UNCHANGED <<taskVars, pc, handling, out, mailbox, msgId, sharedVars, recorded, mainVars>>

Done == mpc = "closed" /\ UNCHANGED vars

Task(a) ==
    \/ Start(a) \/ StartedReturns(a) \/ Park(a) \/ Recv(a) \/ Settle(a) \/ NotifyDone(a)
    \/ Compute(a) \/ \E to \in Actor : SendStamp(a, to)
    \/ SendRecord(a) \/ SendCount(a) \/ SendDeliver(a) \/ SendUndo(a) \/ NotifyUndo(a)
    \/ Cancel(a)

Main ==
    \/ \E to \in Actor : ExternalStamp(to)
    \/ ExternalRecord \/ ExternalCount \/ ExternalDeliver
    \/ RunUntilQuiescent \/ Check \/ Await
    \/ \E a \in Actor : Abort(a)
    \/ Close

Next == \/ \E a \in Actor : Task(a) \/ Panic(a)
        \/ Main
        \/ WriterFails
        \/ Done

Spec == Init /\ [][Next]_vars

\* tokio polls a woken task again; user code returns.
FairSpec == Spec /\ WF_vars(Main) /\ \A a \in Actor : WF_vars(Task(a))
=============================================================================
