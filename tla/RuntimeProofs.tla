---------------------------- MODULE RuntimeProofs ----------------------------
(***************************************************************************)
(* Machine-checked facts about ActorRuntime, for every set of actors and   *)
(* every value of the other constants.                                     *)
(***************************************************************************)
EXTENDS RuntimeProperties, FiniteSetTheorems, TLAPS

----------------------------------------------------------------------------
(* Stamps *)

LEMMA BumpType ==
    ASSUME NEW s \in VClock, NEW n \in Node
    PROVE  Bump(s, n) \in VClock
  BY DEF Bump, VClock

LEMMA JoinType ==
    ASSUME NEW s \in VClock, NEW t \in VClock
    PROVE  Join(s, t) \in VClock
  BY DEF Join, Larger, VClock

LEMMA EventTypes ==
    ASSUME NEW n \in Node, NEW k \in Nat, NEW vc \in VClock, NEW l \in Nat,
           NEW env \in Envelope
    PROVE  /\ EmitEvent(n, k, env) \in Event
           /\ n \in Actor => RecvEvent(n, k, vc, l, env) \in Event
           /\ ComputeEvent(n, k, vc, l) \in Event
  BY DEF EmitEvent, RecvEvent, ComputeEvent, Event, Envelope, Node

----------------------------------------------------------------------------
(* Types.  Typing is TypeOK with the counter only known to be an integer: *)
(* that it never goes negative is a fact about accounting.                  *)

Typing == TaskTypes /\ MessageTypes /\ ControlTypes /\ inFlight \in Int

\* Where a task is tells what it holds.
Shape ==
    /\ \A a \in Actor :
         /\ pc[a] \in {"emit", "count", "deliver", "undo"} => out[a] \in Envelope
         /\ handling[a] => pc[a] \in Sending \cup {"user", "mistyped"}
         /\ pc[a] = "mistyped" => handling[a]
         /\ Gone(a) => mailbox[a] = <<>>
    /\ mpc \in {"record", "count", "deliver"} => out[World] \in Envelope

TypeInv == Typing /\ Shape

LEMMA TypeInvInit == Init => TypeInv
<1> SUFFICES ASSUME Init PROVE TypeInv
  OBVIOUS
<1>1. ZeroClock \in VClock
  BY DEF ZeroClock, VClock
<1>2. TaskTypes
  BY <1>1 DEF Init, TaskTypes, ActorPc
<1>3. MessageTypes
  BY DEF Init, MessageTypes
<1>4. ControlTypes /\ inFlight \in Int
  <2>1. permit \in BOOLEAN /\ writerUp \in BOOLEAN
    BY DEF Init
  <2>2. mpc \in MainPc /\ aborted \subseteq Actor
    BY DEF Init, MainPc
  <2>3. origins \in Nat /\ inFlight \in Int
    BY DEF Init
  <2> QED BY <2>1, <2>2, <2>3 DEF ControlTypes
<1>5. Shape
  BY DEF Init, Shape, Gone
<1> QED BY <1>2, <1>3, <1>4, <1>5 DEF TypeInv, Typing

USE DEF taskVars, sharedVars, mainVars, logVars, Goto, MainGoto

LEMMA RecordType ==
    ASSUME TypeInv, NEW ev \in Event, Record(ev)
    PROVE  recorded' \in Seq(Event) /\ writerUp' \in BOOLEAN
  BY DEF TypeInv, Typing, MessageTypes, ControlTypes, Record

LEMMA TypeInvRecv ==
    ASSUME TypeInv, NEW a \in Actor, Recv(a)
    PROVE  TypeInv'
<1> DEFINE env == Head(mailbox[a])
           vc  == Bump(Join(clock[a], env.vclock), a)
           lam == Update(lamport[a], env.lamport)
<1>1. env \in Envelope /\ Tail(mailbox[a]) \in Seq(Envelope)
  BY DEF TypeInv, Typing, MessageTypes, Recv
<1>2. vc \in VClock /\ lam \in Nat
  <2>1. env.vclock \in VClock /\ env.lamport \in Nat
    BY <1>1 DEF Envelope
  <2>2. clock[a] \in VClock /\ lamport[a] \in Nat /\ a \in Node
    BY DEF TypeInv, Typing, TaskTypes, Node
  <2> QED BY <2>1, <2>2, BumpType, JoinType DEF Update, Larger
<1>3. seq[a] + 1 \in Nat
  BY DEF TypeInv, Typing, TaskTypes
<1>4. RecvEvent(a, seq[a] + 1, vc, lam, env) \in Event
  BY <1>1, <1>2, <1>3, EventTypes DEF Node
<1>5. recorded' \in Seq(Event) /\ writerUp' \in BOOLEAN
  BY <1>4, RecordType DEF Recv
<1>6. TaskTypes'
  BY <1>2, <1>3 DEF TypeInv, Typing, TaskTypes, Recv, ActorPc
<1>7. MessageTypes'
  BY <1>1, <1>5 DEF TypeInv, Typing, MessageTypes, Recv
<1>8. ControlTypes' /\ inFlight' \in Int
  BY <1>5 DEF TypeInv, Typing, ControlTypes, Recv
<1>9. Shape'
  BY DEF TypeInv, Typing, TaskTypes, MessageTypes, Shape, Recv, Gone, Sending
<1> QED BY <1>6, <1>7, <1>8, <1>9 DEF TypeInv, Typing

LEMMA TypeInvCompute ==
    ASSUME TypeInv, NEW a \in Actor, Compute(a)
    PROVE  TypeInv'
<1> DEFINE vc  == Bump(clock[a], a)
           lam == Tick(lamport[a])
<1>1. a \in Node /\ vc \in VClock /\ lam \in Nat /\ seq[a] + 1 \in Nat
  BY BumpType DEF TypeInv, Typing, TaskTypes, Node, Tick
<1>2. recorded' \in Seq(Event) /\ writerUp' \in BOOLEAN
  <2>1. ComputeEvent(a, seq[a] + 1, vc, lam) \in Event
    BY <1>1 DEF ComputeEvent, Event
  <2> QED BY <2>1, RecordType DEF Compute
<1>3. TaskTypes'
  BY <1>1 DEF TypeInv, Typing, TaskTypes, Compute
<1>4. MessageTypes' /\ ControlTypes' /\ inFlight' \in Int
  BY <1>2 DEF TypeInv, Typing, MessageTypes, ControlTypes, Compute
<1>5. Shape'
  BY DEF TypeInv, Shape, Compute, Gone
<1> QED BY <1>3, <1>4, <1>5 DEF TypeInv, Typing

LEMMA TypeInvSendStamp ==
    ASSUME TypeInv, NEW a \in Actor, NEW to \in Actor, SendStamp(a, to)
    PROVE  TypeInv'
<1> DEFINE vc  == Bump(clock[a], a)
           lam == Tick(lamport[a])
<1>1. a \in Node /\ vc \in VClock /\ lam \in Nat /\ seq[a] + 1 \in Nat /\ msgId + 1 \in Nat
  BY BumpType DEF TypeInv, Typing, TaskTypes, MessageTypes, Node, Tick
<1>2. PICK typed \in AddrTypes(to) :
        out' = [out EXCEPT ![a] = [vclock |-> vc, lamport |-> lam, msg_id |-> msgId + 1,
                                   src |-> a, dst |-> to, typed |-> typed]]
  BY DEF SendStamp
<1>3. typed \in BOOLEAN
  BY DEF AddrTypes
<1>4. [vclock |-> vc, lamport |-> lam, msg_id |-> msgId + 1,
       src |-> a, dst |-> to, typed |-> typed] \in Envelope
  BY <1>1, <1>3 DEF Envelope
<1>5. TaskTypes'
  BY <1>1 DEF TypeInv, Typing, TaskTypes, SendStamp, ActorPc, Sending
<1>6. MessageTypes' /\ ControlTypes' /\ inFlight' \in Int
  BY <1>1, <1>2, <1>4 DEF TypeInv, Typing, MessageTypes, ControlTypes, SendStamp
<1>7. Shape'
  BY <1>1, <1>2, <1>4, ActorAssumption
     DEF TypeInv, Typing, TaskTypes, MessageTypes, Shape, SendStamp, InUserCode, Gone, Sending, Node
<1> QED BY <1>5, <1>6, <1>7 DEF TypeInv, Typing

LEMMA TypeInvExternalStamp ==
    ASSUME TypeInv, NEW to \in Actor, ExternalStamp(to)
    PROVE  TypeInv'
<1> DEFINE vc == Bump(ZeroClock, World)
<1>1. World \in Node /\ vc \in VClock /\ msgId + 1 \in Nat
  <2>1. ZeroClock \in VClock
    BY DEF ZeroClock, VClock
  <2> QED BY <2>1, BumpType DEF TypeInv, Typing, MessageTypes, Node
<1>2. PICK typed \in AddrTypes(to) :
        out' = [out EXCEPT ![World] = [vclock |-> vc, lamport |-> 1, msg_id |-> msgId + 1,
                                       src |-> World, dst |-> to, typed |-> typed]]
  BY DEF ExternalStamp
<1>3. typed \in BOOLEAN
  BY DEF AddrTypes
<1>4. [vclock |-> vc, lamport |-> 1, msg_id |-> msgId + 1,
       src |-> World, dst |-> to, typed |-> typed] \in Envelope
  BY <1>1, <1>3 DEF Envelope
<1>5. TaskTypes' /\ MessageTypes' /\ ControlTypes' /\ inFlight' \in Int
  BY <1>1, <1>2, <1>4
     DEF TypeInv, Typing, TaskTypes, MessageTypes, ControlTypes, ExternalStamp, MainPc
<1>6. Shape'
  BY <1>1, <1>2, <1>4, ActorAssumption
     DEF TypeInv, Typing, MessageTypes, Shape, ExternalStamp, Gone, Node
<1> QED BY <1>5, <1>6 DEF TypeInv, Typing

LEMMA TypeInvSendRecord ==
    ASSUME TypeInv, NEW a \in Actor, SendRecord(a)
    PROVE  TypeInv'
<1>1. recorded' \in Seq(Event) /\ writerUp' \in BOOLEAN
  <2>1. out[a] \in Envelope /\ a \in Node /\ seq[a] \in Nat /\ out[a].vclock \in VClock
    BY DEF TypeInv, Typing, TaskTypes, Shape, SendRecord, Node, Envelope
  <2>2. EmitEvent(a, seq[a], out[a]) \in Event
    BY <2>1 DEF EmitEvent, Event, Envelope
  <2> QED BY <2>2, RecordType DEF SendRecord
<1>2. Typing'
  BY <1>1 DEF TypeInv, Typing, TaskTypes, MessageTypes, ControlTypes, SendRecord, ActorPc, Sending
<1>3. Shape'
  BY DEF TypeInv, Typing, TaskTypes, Shape, SendRecord, Gone, Sending
<1> QED BY <1>2, <1>3 DEF TypeInv

LEMMA TypeInvExternalRecord ==
    ASSUME TypeInv, ExternalRecord
    PROVE  TypeInv'
<1>1. recorded' \in Seq(Event) /\ writerUp' \in BOOLEAN
  <2>1. out[World] \in Envelope /\ World \in Node
    BY DEF TypeInv, Shape, ExternalRecord, Node
  <2>2. EmitEvent(World, 1, out[World]) \in Event
    BY <2>1 DEF EmitEvent, Event, Envelope
  <2> QED BY <2>2, RecordType DEF ExternalRecord
<1>2. Typing'
  BY <1>1 DEF TypeInv, Typing, TaskTypes, MessageTypes, ControlTypes, ExternalRecord, MainPc
<1>3. Shape'
  BY DEF TypeInv, Shape, ExternalRecord, Gone
<1> QED BY <1>2, <1>3 DEF TypeInv

LEMMA TypeInvDeliver ==
    ASSUME TypeInv
    PROVE  /\ \A a \in Actor : SendDeliver(a) => TypeInv'
           /\ ExternalDeliver => TypeInv'
<1>1. ASSUME NEW a \in Actor, SendDeliver(a) PROVE TypeInv'
  <2>1. out[a] \in Envelope /\ out[a].dst \in Actor
    BY <1>1 DEF TypeInv, Shape, SendDeliver, Envelope
  <2>2. mailbox' \in [Actor -> Seq(Envelope)] /\ out' \in [Node -> Envelope \cup {None}]
    <3>1. Append(mailbox[out[a].dst], out[a]) \in Seq(Envelope)
      BY <2>1 DEF TypeInv, Typing, MessageTypes
    <3> QED BY <1>1, <2>1, <3>1 DEF TypeInv, Typing, MessageTypes, SendDeliver
  <2>3. Typing'
    BY <1>1, <2>2
       DEF TypeInv, Typing, TaskTypes, MessageTypes, ControlTypes, SendDeliver, ActorPc, Sending, Node
  <2>4. Shape'
    <3>1. CASE Gone(out[a].dst)
      BY <1>1, <2>1, <3>1 DEF TypeInv, Typing, TaskTypes, Shape, SendDeliver, Gone, Sending
    <3>2. CASE ~Gone(out[a].dst)
      <4>1. /\ mailbox' = [mailbox EXCEPT ![out[a].dst] = Append(@, out[a])]
            /\ out' = [out EXCEPT ![a] = None]
            /\ pc' = [pc EXCEPT ![a] = "user"]
            /\ UNCHANGED <<mpc, handling>>
        BY <1>1, <3>2 DEF SendDeliver
      <4>2. pc[a] = "deliver" /\ a # World
        BY <1>1, ActorAssumption DEF SendDeliver
      <4> QED BY <2>1, <3>2, <4>1, <4>2
              DEF TypeInv, Typing, TaskTypes, MessageTypes, Shape, Gone, Sending
    <3> QED BY <3>1, <3>2
  <2> QED BY <2>3, <2>4 DEF TypeInv
<1>2. ASSUME ExternalDeliver PROVE TypeInv'
  <2>1. out[World] \in Envelope /\ out[World].dst \in Actor
    BY <1>2 DEF TypeInv, Shape, ExternalDeliver, Envelope
  <2>2. mailbox' \in [Actor -> Seq(Envelope)]
    BY <1>2, <2>1 DEF TypeInv, Typing, MessageTypes, ExternalDeliver
  <2>3. Typing'
    BY <1>2, <2>2
       DEF TypeInv, Typing, TaskTypes, MessageTypes, ControlTypes, ExternalDeliver, MainPc
  <2>4. Shape'
    BY <1>2, <2>1, ActorAssumption
       DEF TypeInv, Typing, MessageTypes, Shape, ExternalDeliver, Gone, Node
  <2> QED BY <2>3, <2>4 DEF TypeInv
<1> QED BY <1>1, <1>2

\* The steps that neither stamp, record nor enqueue.
LEMMA TypeInvTask ==
    ASSUME TypeInv, NEW a \in Actor
    PROVE  /\ Start(a) => TypeInv'
           /\ StartedReturns(a) => TypeInv'
           /\ Park(a) => TypeInv'
           /\ Settle(a) => TypeInv'
           /\ NotifyDone(a) => TypeInv'
           /\ Panic(a) => TypeInv'
           /\ Cancel(a) => TypeInv'
           /\ SendCount(a) => TypeInv'
           /\ SendUndo(a) => TypeInv'
           /\ NotifyUndo(a) => TypeInv'
<1>1. ASSUME Start(a) PROVE TypeInv'
  <2>1. Typing'
    BY <1>1 DEF TypeInv, Typing, TaskTypes, MessageTypes, ControlTypes, Shape, Start, ActorPc, Sending
  <2>2. Shape'
    BY <1>1, ActorAssumption DEF TypeInv, Typing, TaskTypes, MessageTypes, Shape, Start, Gone, Sending, Node
  <2> QED BY <2>1, <2>2 DEF TypeInv
<1>2. ASSUME StartedReturns(a) PROVE TypeInv'
  <2>1. Typing'
    BY <1>2 DEF TypeInv, Typing, TaskTypes, MessageTypes, ControlTypes, Shape, StartedReturns, ActorPc, Sending
  <2>2. Shape'
    BY <1>2, ActorAssumption DEF TypeInv, Typing, TaskTypes, MessageTypes, Shape, StartedReturns, Gone, Sending, Node
  <2> QED BY <2>1, <2>2 DEF TypeInv
<1>3. ASSUME Park(a) PROVE TypeInv'
  <2>1. Typing'
    BY <1>3 DEF TypeInv, Typing, TaskTypes, MessageTypes, ControlTypes, Shape, Park, ActorPc, Sending
  <2>2. Shape'
    BY <1>3, ActorAssumption DEF TypeInv, Typing, TaskTypes, MessageTypes, Shape, Park, Gone, Sending, Node
  <2> QED BY <2>1, <2>2 DEF TypeInv
<1>4. ASSUME Settle(a) PROVE TypeInv'
  <2>1. Typing'
    BY <1>4 DEF TypeInv, Typing, TaskTypes, MessageTypes, ControlTypes, Shape, Settle, DecInFlight, ActorPc, Sending
  <2>2. Shape'
    BY <1>4, ActorAssumption DEF TypeInv, Typing, TaskTypes, MessageTypes, Shape, Settle, DecInFlight, Gone, Sending, Node
  <2> QED BY <2>1, <2>2 DEF TypeInv
<1>5. ASSUME NotifyDone(a) PROVE TypeInv'
  <2>1. Typing'
    BY <1>5 DEF TypeInv, Typing, TaskTypes, MessageTypes, ControlTypes, Shape, NotifyDone, NotifyOne, MainPc, ActorPc, Sending
  <2>2. Shape'
    BY <1>5, ActorAssumption DEF TypeInv, Typing, TaskTypes, MessageTypes, Shape, NotifyDone, NotifyOne, MainPc, Gone, Sending, Node
  <2> QED BY <2>1, <2>2 DEF TypeInv
<1>6. ASSUME Panic(a) PROVE TypeInv'
  <2>1. Typing'
    BY <1>6 DEF TypeInv, Typing, TaskTypes, MessageTypes, ControlTypes, Shape, Panic, ActorPc, Sending
  <2>2. Shape'
    BY <1>6, ActorAssumption DEF TypeInv, Typing, TaskTypes, MessageTypes, Shape, Panic, Gone, Sending, Node
  <2> QED BY <2>1, <2>2 DEF TypeInv
<1>7. ASSUME Cancel(a) PROVE TypeInv'
  <2>1. Typing'
    BY <1>7 DEF TypeInv, Typing, TaskTypes, MessageTypes, ControlTypes, Shape, Cancel, ActorPc, Sending
  <2>2. Shape'
    BY <1>7, ActorAssumption DEF TypeInv, Typing, TaskTypes, MessageTypes, Shape, Cancel, Gone, Sending, Node
  <2> QED BY <2>1, <2>2 DEF TypeInv
<1>8. ASSUME SendCount(a) PROVE TypeInv'
  <2>1. Typing'
    BY <1>8 DEF TypeInv, Typing, TaskTypes, MessageTypes, ControlTypes, Shape, SendCount, IncInFlight, ActorPc, Sending
  <2>2. Shape'
    BY <1>8, ActorAssumption DEF TypeInv, Typing, TaskTypes, MessageTypes, Shape, SendCount, IncInFlight, Gone, Sending, Node
  <2> QED BY <2>1, <2>2 DEF TypeInv
<1>9. ASSUME SendUndo(a) PROVE TypeInv'
  <2>1. Typing'
    <3>1. TaskTypes'
      BY <1>9 DEF TypeInv, Typing, TaskTypes, SendUndo, DecInFlight, ActorPc, Sending
    <3>2. MessageTypes'
      BY <1>9 DEF TypeInv, Typing, MessageTypes, SendUndo
    <3>3. ControlTypes' /\ inFlight' \in Int
      BY <1>9 DEF TypeInv, Typing, ControlTypes, SendUndo, DecInFlight
    <3> QED BY <3>1, <3>2, <3>3 DEF Typing
  <2>2. Shape'
    BY <1>9, ActorAssumption DEF TypeInv, Typing, TaskTypes, MessageTypes, Shape, SendUndo, DecInFlight, Gone, Sending, Node
  <2> QED BY <2>1, <2>2 DEF TypeInv
<1>10. ASSUME NotifyUndo(a) PROVE TypeInv'
  <2>1. Typing'
    BY <1>10 DEF TypeInv, Typing, TaskTypes, MessageTypes, ControlTypes, Shape, NotifyUndo, NotifyOne, MainPc, ActorPc, Sending
  <2>2. Shape'
    BY <1>10, ActorAssumption DEF TypeInv, Typing, TaskTypes, MessageTypes, Shape, NotifyUndo, NotifyOne, MainPc, Gone, Sending, Node
  <2> QED BY <2>1, <2>2 DEF TypeInv
<1> QED BY <1>1, <1>2, <1>3, <1>4, <1>5, <1>6, <1>7, <1>8, <1>9, <1>10

LEMMA TypeInvMain ==
    ASSUME TypeInv
    PROVE  /\ ExternalCount => TypeInv'
           /\ RunUntilQuiescent => TypeInv'
           /\ Check => TypeInv'
           /\ Await => TypeInv'
           /\ Close => TypeInv'
           /\ WriterFails => TypeInv'
           /\ \A a \in Actor : Abort(a) => TypeInv'
           /\ UNCHANGED vars => TypeInv'
<1>1. ASSUME ExternalCount PROVE TypeInv'
  <2>1. Typing'
    BY <1>1 DEF TypeInv, Typing, TaskTypes, MessageTypes, ControlTypes, ExternalCount, IncInFlight, MainPc, Down
  <2>2. Shape'
    BY <1>1 DEF TypeInv, Shape, ExternalCount, IncInFlight, Gone
  <2> QED BY <2>1, <2>2 DEF TypeInv
<1>2. ASSUME RunUntilQuiescent PROVE TypeInv'
  <2>1. Typing'
    BY <1>2 DEF TypeInv, Typing, TaskTypes, MessageTypes, ControlTypes, RunUntilQuiescent, MainPc, Down
  <2>2. Shape'
    BY <1>2 DEF TypeInv, Shape, RunUntilQuiescent, Gone
  <2> QED BY <2>1, <2>2 DEF TypeInv
<1>3. ASSUME Check PROVE TypeInv'
  <2>1. Typing'
    BY <1>3 DEF TypeInv, Typing, TaskTypes, MessageTypes, ControlTypes, Check, MainPc, Down
  <2>2. Shape'
    BY <1>3 DEF TypeInv, Shape, Check, Gone
  <2> QED BY <2>1, <2>2 DEF TypeInv
<1>4. ASSUME Await PROVE TypeInv'
  <2>1. Typing'
    BY <1>4 DEF TypeInv, Typing, TaskTypes, MessageTypes, ControlTypes, Await, MainPc, Down
  <2>2. Shape'
    BY <1>4 DEF TypeInv, Shape, Await, Gone
  <2> QED BY <2>1, <2>2 DEF TypeInv
<1>5. ASSUME Close PROVE TypeInv'
  <2>1. Typing'
    BY <1>5 DEF TypeInv, Typing, TaskTypes, MessageTypes, ControlTypes, Close, MainPc, Down
  <2>2. Shape'
    BY <1>5 DEF TypeInv, Shape, Close, Gone
  <2> QED BY <2>1, <2>2 DEF TypeInv
<1>6. ASSUME WriterFails PROVE TypeInv'
  <2>1. Typing'
    BY <1>6 DEF TypeInv, Typing, TaskTypes, MessageTypes, ControlTypes, WriterFails, MainPc, Down
  <2>2. Shape'
    BY <1>6 DEF TypeInv, Shape, WriterFails, Gone
  <2> QED BY <2>1, <2>2 DEF TypeInv
<1>7. ASSUME NEW a \in Actor, Abort(a) PROVE TypeInv'
  BY <1>7 DEF TypeInv, Typing, TaskTypes, MessageTypes, ControlTypes, Shape, Abort, Gone
<1>8. ASSUME UNCHANGED vars PROVE TypeInv'
  BY <1>8 DEF TypeInv, Typing, TaskTypes, MessageTypes, ControlTypes, Shape, vars, Gone
<1> QED BY <1>1, <1>2, <1>3, <1>4, <1>5, <1>6, <1>7, <1>8

LEMMA TypeInvNext == TypeInv /\ [Next]_vars => TypeInv'
<1> SUFFICES ASSUME TypeInv, [Next]_vars PROVE TypeInv'
  OBVIOUS
<1>1. ASSUME NEW a \in Actor, Task(a) PROVE TypeInv'
  BY <1>1, TypeInvTask, TypeInvRecv, TypeInvCompute, TypeInvSendStamp, TypeInvSendRecord,
     TypeInvDeliver DEF Task
<1>2. ASSUME NEW a \in Actor, Panic(a) PROVE TypeInv'
  BY <1>2, TypeInvTask
<1>3. ASSUME Main PROVE TypeInv'
  BY <1>3, TypeInvMain, TypeInvExternalStamp, TypeInvExternalRecord, TypeInvDeliver DEF Main
<1>4. ASSUME WriterFails \/ Done \/ UNCHANGED vars PROVE TypeInv'
  BY <1>4, TypeInvMain DEF Done
<1> QED BY <1>1, <1>2, <1>3, <1>4 DEF Next

\* Every variable keeps its type, the counter being an integer, and where a
\* task is tells what it holds (actor_loop, Context::send, send_external).
THEOREM TypingHolds == Spec => []TypeInv
  BY TypeInvInit, TypeInvNext, PTL DEF Spec

----------------------------------------------------------------------------
(* Accounting.  What a step may do to the messages in flight, as facts about *)
(* a finite set S of tokens, the set T after the step, and a counter n.      *)

LEMMA TokensStay ==
    ASSUME NEW S, NEW T, IsFiniteSet(S), T \subseteq S, NEW n \in Int, n >= Cardinality(S)
    PROVE  IsFiniteSet(T) /\ n >= Cardinality(T)
<1>1. IsFiniteSet(T) /\ Cardinality(T) <= Cardinality(S)
  BY FS_Subset
<1>2. Cardinality(T) \in Nat /\ Cardinality(S) \in Nat
  BY <1>1, FS_CardinalityType
<1> QED BY <1>1, <1>2

LEMMA TokenAdded ==
    ASSUME NEW S, NEW T, NEW t, IsFiniteSet(S), T \subseteq S \cup {t},
           NEW n \in Int, n >= Cardinality(S)
    PROVE  IsFiniteSet(T) /\ n + 1 >= Cardinality(T)
<1>1. /\ IsFiniteSet(S \cup {t})
      /\ Cardinality(S \cup {t}) = IF t \in S THEN Cardinality(S) ELSE Cardinality(S) + 1
  BY FS_AddElement
<1>2. Cardinality(S) \in Nat /\ Cardinality(S \cup {t}) \in Nat
  BY <1>1, FS_CardinalityType
<1> QED BY <1>1, <1>2, TokensStay

LEMMA TokenRemoved ==
    ASSUME NEW S, NEW T, NEW t \in S, IsFiniteSet(S), T \subseteq S \ {t},
           NEW n \in Int, n >= Cardinality(S)
    PROVE  IsFiniteSet(T) /\ n - 1 >= Cardinality(T)
<1>1. /\ IsFiniteSet(S \ {t})
      /\ Cardinality(S \ {t}) = Cardinality(S) - 1
  BY FS_RemoveElement
<1>2. Cardinality(S) \in Nat /\ Cardinality(S \ {t}) \in Nat
  BY <1>1, FS_CardinalityType
<1> QED BY <1>1, <1>2, TokensStay

LEMMA TokenMoved ==
    ASSUME NEW S, NEW T, NEW t \in S, NEW u, IsFiniteSet(S), T \subseteq (S \ {t}) \cup {u},
           NEW n \in Int, n >= Cardinality(S)
    PROVE  IsFiniteSet(T) /\ n >= Cardinality(T)
<1> DEFINE U == S \ {t}
           m == n - 1
<1>1. IsFiniteSet(U) /\ m >= Cardinality(U) /\ m \in Int
  BY TokenRemoved
<1>2. T \subseteq U \cup {u}
  OBVIOUS
<1> HIDE DEF U, m
<1>3. IsFiniteSet(T) /\ m + 1 >= Cardinality(T)
  BY <1>1, <1>2, TokenAdded
<1> QED BY <1>3 DEF m

Accounts == IsFiniteSet(Outstanding) /\ inFlight >= Cardinality(Outstanding)

LEMMA AccountsInit == Init => Accounts
<1> SUFFICES ASSUME Init PROVE Accounts
  OBVIOUS
<1>1. Outstanding = {}
  BY DEF Init, Outstanding, Queued, InHand, InTransit, Delivering, Node
<1> QED BY <1>1, FS_EmptySet DEF Init, Accounts

\* The same four changes, as steps of the system.
LEMMA AccountsKept ==
    ASSUME Accounts, inFlight \in Int, Outstanding' \subseteq Outstanding, UNCHANGED inFlight
    PROVE  Accounts'
  BY TokensStay DEF Accounts

LEMMA AccountsUp ==
    ASSUME Accounts, inFlight \in Int, NEW t, Outstanding' \subseteq Outstanding \cup {t},
           inFlight' = inFlight + 1
    PROVE  Accounts'
  BY TokenAdded DEF Accounts

LEMMA AccountsDown ==
    ASSUME Accounts, inFlight \in Int, NEW t \in Outstanding,
           Outstanding' \subseteq Outstanding \ {t}, inFlight' = inFlight - 1
    PROVE  Accounts'
  BY TokenRemoved DEF Accounts

LEMMA AccountsMoved ==
    ASSUME Accounts, inFlight \in Int, NEW t \in Outstanding, NEW u,
           Outstanding' \subseteq (Outstanding \ {t}) \cup {u}, UNCHANGED inFlight
    PROVE  Accounts'
  BY TokenMoved DEF Accounts

LEMMA AccountsRecv ==
    ASSUME TypeInv, Accounts, NEW a \in Actor, Recv(a)
    PROVE  Accounts'
<1> DEFINE last == <<"queued", a, Len(mailbox[a])>>
<1>1. mailbox[a] \in Seq(Envelope) /\ mailbox[a] # <<>>
  BY DEF TypeInv, Typing, MessageTypes, Recv
<1>2. last \in Outstanding
  <2>1. Len(mailbox[a]) \in DOMAIN mailbox[a]
    BY <1>1
  <2> QED BY <2>1 DEF Outstanding, Queued
<1>3. /\ DOMAIN mailbox'[a] = 1..(Len(mailbox[a]) - 1)
      /\ DOMAIN mailbox[a] = 1..Len(mailbox[a])
  BY <1>1 DEF TypeInv, Typing, MessageTypes, Recv
<1>4. Queued' \subseteq Queued \ {last}
  BY <1>1, <1>3 DEF TypeInv, Typing, MessageTypes, Recv, Queued
<1>5. InHand' \subseteq InHand \cup {<<"handled", a, 0>>}
  BY DEF TypeInv, Typing, TaskTypes, Recv, InHand
<1>6. InTransit' \subseteq InTransit
  BY DEF TypeInv, Typing, TaskTypes, Recv, InTransit, Delivering, Node
<1>7. last \notin InHand /\ last \notin InTransit
  BY DEF InHand, InTransit
<1> HIDE DEF last
<1>8. Outstanding' \subseteq (Outstanding \ {last}) \cup {<<"handled", a, 0>>}
  BY <1>4, <1>5, <1>6, <1>7 DEF Outstanding
<1>9. inFlight \in Int /\ UNCHANGED inFlight
  BY DEF TypeInv, Typing, Recv
<1> QED BY <1>2, <1>8, <1>9, AccountsMoved

LEMMA AccountsDeliver ==
    ASSUME TypeInv, Accounts
    PROVE  /\ \A a \in Actor : SendDeliver(a) => Accounts'
           /\ ExternalDeliver => Accounts'
<1> DEFINE NewQueued(to) == <<"queued", to, Len(mailbox[to]) + 1>>
           Enqueue(to, env) == mailbox' = [mailbox EXCEPT ![to] = Append(@, env)]
           Sent(n) == <<"sent", n, 0>>
<1>1. inFlight \in Int
  BY DEF TypeInv, Typing
<1>2. ASSUME NEW to \in Actor, NEW env, Enqueue(to, env)
      PROVE  Queued' \subseteq Queued \cup {NewQueued(to)}
  <2>1. \A a \in Actor : DOMAIN mailbox[a] = 1..Len(mailbox[a])
    BY DEF TypeInv, Typing, MessageTypes
  <2>2. DOMAIN mailbox'[to] = 1..(Len(mailbox[to]) + 1)
    BY <1>2 DEF TypeInv, Typing, MessageTypes
  <2>3. \A a \in Actor : a # to => mailbox'[a] = mailbox[a]
    BY <1>2 DEF TypeInv, Typing, MessageTypes
  <2>4. Len(mailbox[to]) \in Nat
    BY DEF TypeInv, Typing, MessageTypes
  <2>5. 1..(Len(mailbox[to]) + 1) = 1..Len(mailbox[to]) \cup {Len(mailbox[to]) + 1}
    BY <2>4
  <2> QED BY <2>1, <2>2, <2>3, <2>5 DEF Queued
<1>3. \A n : Sent(n) \notin Queued /\ Sent(n) \notin InHand
  BY DEF Queued, InHand
<1>4. ASSUME NEW a \in Actor, SendDeliver(a), Gone(out[a].dst) PROVE Accounts'
  <2>1. UNCHANGED <<mailbox, handling, mpc, inFlight>> /\ pc' = [pc EXCEPT ![a] = "undo"]
        /\ pc[a] = "deliver"
    BY <1>4 DEF SendDeliver
  <2>2. Outstanding' \subseteq Outstanding
    BY <2>1 DEF TypeInv, Typing, TaskTypes, Outstanding, Queued, InHand, InTransit, Delivering, Node
  <2> QED BY <1>1, <2>1, <2>2, AccountsKept
<1>5. ASSUME NEW a \in Actor, SendDeliver(a), ~Gone(out[a].dst) PROVE Accounts'
  <2> DEFINE to == out[a].dst
  <2>1. /\ Enqueue(to, out[a])
        /\ UNCHANGED <<handling, mpc, inFlight>>
        /\ pc' = [pc EXCEPT ![a] = "user"]
        /\ pc[a] = "deliver"
    BY <1>5 DEF SendDeliver
  <2>2. to \in Actor /\ a \in Node /\ a # World
    BY <1>5, <2>1, ActorAssumption DEF TypeInv, Shape, Envelope, Node
  <2> HIDE DEF to
  <2>3. Queued' \subseteq Queued \cup {NewQueued(to)}
    BY <1>2, <2>1, <2>2
  <2>4. InHand' \subseteq InHand
    BY <2>1 DEF InHand
  <2>5. InTransit' \subseteq InTransit \ {Sent(a)}
    BY <2>1, <2>2 DEF TypeInv, Typing, TaskTypes, InTransit, Delivering, Node
  <2>6. Sent(a) \in Outstanding
    BY <2>1, <2>2 DEF Outstanding, InTransit, Delivering
  <2>7. Outstanding' \subseteq (Outstanding \ {Sent(a)}) \cup {NewQueued(to)}
    BY <1>3, <2>3, <2>4, <2>5 DEF Outstanding
  <2> QED BY <1>1, <2>1, <2>6, <2>7, AccountsMoved
<1>6. ASSUME ExternalDeliver PROVE Accounts'
  <2> DEFINE to == out[World].dst
  <2>1. /\ mailbox' = mailbox \/ Enqueue(to, out[World])
        /\ UNCHANGED <<handling, pc, inFlight>>
        /\ mpc = "deliver" /\ mpc' = "setup"
    BY <1>6 DEF ExternalDeliver
  <2>2. to \in Actor /\ World \in Node /\ World \notin Actor
    BY <2>1, ActorAssumption DEF TypeInv, Shape, Envelope, Node
  <2> HIDE DEF to
  <2>3. Queued' \subseteq Queued \cup {NewQueued(to)}
    <3>1. CASE mailbox' = mailbox
      BY <3>1 DEF Queued
    <3> QED BY <1>2, <2>1, <2>2, <3>1
  <2>4. InHand' \subseteq InHand
    BY <2>1 DEF InHand
  <2>5. InTransit' \subseteq InTransit \ {Sent(World)}
    BY <2>1, <2>2 DEF InTransit, Delivering, Node
  <2>6. Sent(World) \in Outstanding
    BY <2>1, <2>2 DEF Outstanding, InTransit, Delivering
  <2>7. Outstanding' \subseteq (Outstanding \ {Sent(World)}) \cup {NewQueued(to)}
    BY <1>3, <2>3, <2>4, <2>5 DEF Outstanding
  <2> QED BY <1>1, <2>1, <2>6, <2>7, AccountsMoved
<1> QED BY <1>4, <1>5, <1>6

\* The steps that raise or lower the counter.
LEMMA AccountsCounted ==
    ASSUME TypeInv, Accounts
    PROVE  /\ \A a \in Actor : SendCount(a) \/ SendUndo(a) \/ Settle(a) => Accounts'
           /\ ExternalCount => Accounts'
<1>1. inFlight \in Int /\ World \notin Actor
  BY ActorAssumption DEF TypeInv, Typing
<1>2. ASSUME NEW a \in Actor, SendCount(a) PROVE Accounts'
  <2>1. /\ UNCHANGED <<mailbox, handling, mpc>> /\ inFlight' = inFlight + 1
        /\ pc' = [pc EXCEPT ![a] = "deliver"]
    BY <1>2 DEF SendCount, IncInFlight
  <2>2. Outstanding' \subseteq Outstanding \cup {<<"sent", a, 0>>}
    BY <1>1, <2>1 DEF TypeInv, Typing, TaskTypes, Outstanding, Queued, InHand, InTransit, Delivering, Node
  <2> QED BY <1>1, <2>1, <2>2, AccountsUp
<1>3. ASSUME NEW a \in Actor, SendUndo(a) PROVE Accounts'
  <2> DEFINE token == <<"sent", a, 0>>
  <2>1. /\ UNCHANGED <<mailbox, handling, mpc>> /\ inFlight' = inFlight - 1
        /\ pc[a] = "undo" /\ pc' \in {[pc EXCEPT ![a] = "notifyUndo"], [pc EXCEPT ![a] = "user"]}
    BY <1>3 DEF SendUndo, DecInFlight
  <2>2. Outstanding' \subseteq Outstanding \ {token} /\ token \in Outstanding
    BY <1>1, <2>1 DEF TypeInv, Typing, TaskTypes, Outstanding, Queued, InHand, InTransit, Delivering, Node
  <2> QED BY <1>1, <2>1, <2>2, AccountsDown
<1>4. ASSUME NEW a \in Actor, Settle(a) PROVE Accounts'
  <2> DEFINE token == <<"handled", a, 0>>
  <2>1. /\ UNCHANGED <<mailbox, mpc>> /\ inFlight' = inFlight - 1
        /\ handling[a] /\ handling' = [handling EXCEPT ![a] = FALSE]
        /\ pc' \in {[pc EXCEPT ![a] = "notifyDone"], [pc EXCEPT ![a] = "loop"]}
    BY <1>4 DEF Settle, DecInFlight
  <2>2. Outstanding' \subseteq Outstanding \ {token} /\ token \in Outstanding
    BY <1>1, <2>1 DEF TypeInv, Typing, TaskTypes, Outstanding, Queued, InHand, InTransit, Delivering, Node
  <2> QED BY <1>1, <2>1, <2>2, AccountsDown
<1>5. ASSUME ExternalCount PROVE Accounts'
  <2>1. UNCHANGED <<mailbox, handling, pc>> /\ inFlight' = inFlight + 1
    BY <1>5 DEF ExternalCount, IncInFlight
  <2>2. Outstanding' \subseteq Outstanding \cup {<<"sent", World, 0>>}
    BY <1>1, <2>1 DEF TypeInv, Typing, TaskTypes, Outstanding, Queued, InHand, InTransit, Delivering, Node
  <2> QED BY <1>1, <2>1, <2>2, AccountsUp
<1> QED BY <1>2, <1>3, <1>4, <1>5

\* A task that is dropped takes messages with it and leaves the counter alone.
LEMMA TokensDropped ==
    ASSUME TypeInv, NEW a \in Actor, Panic(a) \/ Cancel(a)
    PROVE  Outstanding' \subseteq Outstanding /\ UNCHANGED inFlight
<1>1. /\ UNCHANGED <<mpc, inFlight>> /\ pc' = [pc EXCEPT ![a] = "gone"]
      /\ handling' \in {handling, [handling EXCEPT ![a] = FALSE]}
      /\ mailbox' = [mailbox EXCEPT ![a] = <<>>]
  BY DEF Panic, Cancel
<1>2. Queued' \subseteq Queued
  BY <1>1 DEF TypeInv, Typing, MessageTypes, Queued
<1>3. InHand' \subseteq InHand /\ InTransit' \subseteq InTransit
  BY <1>1 DEF TypeInv, Typing, TaskTypes, InHand, InTransit, Delivering, Node
<1> QED BY <1>1, <1>2, <1>3 DEF Outstanding

\* Every other step of a task or of the main task moves no message.
LEMMA TokensIdle ==
    ASSUME TypeInv
    PROVE  /\ \A a \in Actor :
                 \/ Start(a) \/ StartedReturns(a) \/ Park(a) \/ NotifyDone(a) \/ Compute(a)
                 \/ SendRecord(a) \/ NotifyUndo(a) \/ \E to \in Actor : SendStamp(a, to)
                 => Outstanding' \subseteq Outstanding /\ UNCHANGED inFlight
           /\ \/ \E to \in Actor : ExternalStamp(to)
              \/ ExternalRecord \/ RunUntilQuiescent \/ Check \/ Await \/ Close
              \/ \E a \in Actor : Abort(a)
              \/ WriterFails \/ UNCHANGED vars
              => Outstanding' \subseteq Outstanding /\ UNCHANGED inFlight
<1>1. ASSUME NEW a \in Actor, NEW label \in ActorPc \ {"deliver", "undo"},
             pc' \in {pc, [pc EXCEPT ![a] = label]},
             mpc' = mpc \/ (mpc = "parked" /\ mpc' = "check"),
             UNCHANGED <<mailbox, handling, inFlight>>
      PROVE  Outstanding' \subseteq Outstanding /\ UNCHANGED inFlight
  BY <1>1 DEF TypeInv, Typing, TaskTypes, Outstanding, Queued, InHand, InTransit, Delivering, Node
<1>2. ASSUME NEW label \in MainPc \ {"deliver"}, mpc' \in {mpc, label},
             UNCHANGED <<pc, mailbox, handling, inFlight>>
      PROVE  Outstanding' \subseteq Outstanding /\ UNCHANGED inFlight
  BY <1>2 DEF TypeInv, Typing, TaskTypes, Outstanding, Queued, InHand, InTransit, Delivering, Node
<1>3. ASSUME NEW a \in Actor,
             \/ Start(a) \/ StartedReturns(a) \/ Park(a) \/ NotifyDone(a) \/ Compute(a)
             \/ SendRecord(a) \/ NotifyUndo(a) \/ \E to \in Actor : SendStamp(a, to)
      PROVE  Outstanding' \subseteq Outstanding /\ UNCHANGED inFlight
  <2>1. \E label \in ActorPc \ {"deliver", "undo"} : pc' \in {pc, [pc EXCEPT ![a] = label]}
    BY <1>3 DEF Start, StartedReturns, Park, NotifyDone, Compute, SendRecord, NotifyUndo,
                SendStamp, ActorPc, Sending
  <2>2. mpc' = mpc \/ (mpc = "parked" /\ mpc' = "check")
    BY <1>3 DEF Start, StartedReturns, Park, NotifyDone, Compute, SendRecord, NotifyUndo,
                SendStamp, NotifyOne
  <2>3. UNCHANGED <<mailbox, handling, inFlight>>
    BY <1>3 DEF Start, StartedReturns, Park, NotifyDone, Compute, SendRecord, NotifyUndo, SendStamp
  <2> QED BY <1>1, <2>1, <2>2, <2>3
<1>4. ASSUME \/ \E to \in Actor : ExternalStamp(to)
             \/ ExternalRecord \/ RunUntilQuiescent \/ Check \/ Await \/ Close
             \/ \E a \in Actor : Abort(a)
             \/ WriterFails \/ UNCHANGED vars
      PROVE  Outstanding' \subseteq Outstanding /\ UNCHANGED inFlight
  <2>1. \E label \in MainPc \ {"deliver"} : mpc' \in {mpc, label}
    BY <1>4 DEF ExternalStamp, ExternalRecord, RunUntilQuiescent, Check, Await, Close, Abort,
                WriterFails, vars, MainPc, Down
  <2>2. UNCHANGED <<pc, mailbox, handling, inFlight>>
    BY <1>4 DEF ExternalStamp, ExternalRecord, RunUntilQuiescent, Check, Await, Close, Abort,
                WriterFails, vars
  <2> QED BY <1>2, <2>1, <2>2
<1> QED BY <1>3, <1>4

LEMMA AccountsNext == TypeInv /\ Accounts /\ [Next]_vars => Accounts'
<1> SUFFICES ASSUME TypeInv, Accounts, [Next]_vars PROVE Accounts'
  OBVIOUS
<1>0. inFlight \in Int
  BY DEF TypeInv, Typing
<1>1. ASSUME NEW a \in Actor, Task(a) PROVE Accounts'
  BY <1>0, <1>1, AccountsRecv, AccountsDeliver, AccountsCounted, TokensDropped, TokensIdle,
     AccountsKept DEF Task
<1>2. ASSUME NEW a \in Actor, Panic(a) PROVE Accounts'
  BY <1>0, <1>2, TokensDropped, AccountsKept
<1>3. ASSUME Main PROVE Accounts'
  BY <1>0, <1>3, AccountsDeliver, AccountsCounted, TokensIdle, AccountsKept DEF Main
<1>4. ASSUME WriterFails \/ Done \/ UNCHANGED vars PROVE Accounts'
  BY <1>0, <1>4, TokensIdle, AccountsKept DEF Done
<1> QED BY <1>1, <1>2, <1>3, <1>4 DEF Next

\* The in-flight counter never falls below the messages really in flight, so
\* run_until_quiescent cannot see a transient zero (ProdDispatch::deliver
\* counts before it delivers; actor_loop discounts after handling).  It holds
\* for every program, with panics, aborts and closed mailboxes.
THEOREM NeverUndercountsHolds == Spec => []NeverUndercounts
<1>1. Init => TypeInv /\ Accounts
  BY TypeInvInit, AccountsInit
<1>2. TypeInv /\ Accounts /\ [Next]_vars => (TypeInv /\ Accounts)'
  BY TypeInvNext, AccountsNext
<1>3. Accounts => NeverUndercounts
  BY DEF Accounts, NeverUndercounts
<1> QED BY <1>1, <1>2, <1>3, PTL DEF Spec

\* Every variable keeps its type; in particular the unsigned counter never
\* wraps below zero (AtomicUsize::fetch_sub).
THEOREM TypeCorrect == Spec => []TypeOK
<1>1. TypeInv /\ Accounts => TypeOK
  <2> SUFFICES ASSUME TypeInv, Accounts PROVE inFlight \in Nat
    BY DEF TypeInv, Typing, TypeOK
  <2>1. Cardinality(Outstanding) \in Nat
    BY FS_CardinalityType DEF Accounts
  <2> QED BY <2>1 DEF TypeInv, Typing, Accounts
<1>2. Init => TypeInv /\ Accounts
  BY TypeInvInit, AccountsInit
<1>3. TypeInv /\ Accounts /\ [Next]_vars => (TypeInv /\ Accounts)'
  BY TypeInvNext, AccountsNext
<1> QED BY <1>1, <1>2, <1>3, PTL DEF Spec

----------------------------------------------------------------------------
(* Wake-ups.  NoLostWakeup is inductive by itself: a step that takes the    *)
(* counter to zero leaves its task due to notify, and a due notification    *)
(* reaches the main task or the stored permit.                              *)

Due == \E a \in Actor : pc[a] \in {"notifyDone", "notifyUndo"}

WakeInv ==
    /\ inFlight = 0 /\ mpc = "await"  => permit \/ Due
    /\ inFlight = 0 /\ mpc = "parked" => Due

\* The steps of a task or of the writer that leave the counter, the main task,
\* the permit and every due notification alone.
LEMMA WakeKept ==
    ASSUME WakeInv, UNCHANGED <<inFlight, mpc, permit>>,
           \A a \in Actor : pc[a] \in {"notifyDone", "notifyUndo"} => pc'[a] = pc[a]
    PROVE  WakeInv'
  BY DEF WakeInv, Due

LEMMA WakeTask ==
    ASSUME TypeInv, Accounts, WakeInv, NEW a \in Actor, Task(a)
    PROVE  WakeInv'
<1>1. pc \in [Actor -> ActorPc] /\ inFlight \in Int
  BY DEF TypeInv, Typing, TaskTypes
<1>2. CASE \/ Start(a) \/ StartedReturns(a) \/ Park(a) \/ Recv(a) \/ Compute(a)
           \/ SendRecord(a) \/ SendDeliver(a) \/ Cancel(a)
           \/ \E to \in Actor : SendStamp(a, to)
  BY <1>1, <1>2, WakeKept
     DEF Start, StartedReturns, Park, Recv, Compute, SendRecord, SendDeliver, Cancel, SendStamp,
         InUserCode
<1>3. CASE Settle(a) \/ SendUndo(a)
  <2>1. /\ UNCHANGED <<mpc, permit>>
        /\ inFlight' = inFlight - 1
        /\ inFlight = 1 => pc'[a] \in {"notifyDone", "notifyUndo"}
    BY <1>1, <1>3 DEF Settle, SendUndo, DecInFlight
  <2> QED BY <1>1, <2>1 DEF WakeInv, Due
<1>4. CASE SendCount(a)
  <2>1. inFlight' = inFlight + 1 /\ inFlight' # 0
    <3>1. inFlight >= 0
      BY <1>1, FS_CardinalityType DEF Accounts
    <3> QED BY <1>1, <1>4, <3>1 DEF SendCount, IncInFlight
  <2> QED BY <2>1 DEF WakeInv
<1>5. CASE NotifyDone(a) \/ NotifyUndo(a)
  BY <1>5 DEF NotifyDone, NotifyUndo, NotifyOne, WakeInv
<1> QED BY <1>2, <1>3, <1>4, <1>5 DEF Task

LEMMA WakeMain ==
    ASSUME TypeInv, WakeInv, Main
    PROVE  WakeInv'
<1>1. CASE Check
  BY <1>1 DEF Check, WakeInv
<1>2. CASE Await
  <2>1. UNCHANGED <<pc, inFlight>> /\ mpc = "await"
    BY <1>2 DEF Await
  <2>2. CASE permit
    BY <1>2, <2>2 DEF Await, WakeInv
  <2>3. CASE ~permit
    BY <1>2, <2>1, <2>3 DEF Await, WakeInv, Due
  <2> QED BY <2>2, <2>3
<1>3. CASE \/ ExternalRecord \/ ExternalCount \/ ExternalDeliver \/ RunUntilQuiescent \/ Close
           \/ \E to \in Actor : ExternalStamp(to)
           \/ \E a \in Actor : Abort(a)
  <2>1. mpc' \notin {"await", "parked"}
    BY <1>3 DEF ExternalRecord, ExternalCount, ExternalDeliver, RunUntilQuiescent, Close,
                ExternalStamp, Abort
  <2> QED BY <2>1 DEF WakeInv
<1> QED BY <1>1, <1>2, <1>3 DEF Main

LEMMA WakeNext == TypeInv /\ Accounts /\ WakeInv /\ [Next]_vars => WakeInv'
<1> SUFFICES ASSUME TypeInv, Accounts, WakeInv, [Next]_vars PROVE WakeInv'
  OBVIOUS
<1>1. ASSUME NEW a \in Actor, Panic(a) PROVE WakeInv'
  BY <1>1, WakeKept DEF Panic, TypeInv, Typing, TaskTypes
<1>2. ASSUME WriterFails \/ Done \/ UNCHANGED vars PROVE WakeInv'
  BY <1>2, WakeKept DEF WriterFails, Done, vars
<1> QED BY <1>1, <1>2, WakeTask, WakeMain DEF Next

\* No interleaving of fetch_sub, notify_one, the test of the counter and the
\* poll of `notified` leaves the main task waiting at zero with nobody left
\* to wake it.  It holds for every program, panics included.
THEOREM NoLostWakeupHolds == Spec => []NoLostWakeup
<1>1. Init => TypeInv /\ Accounts /\ WakeInv
  BY TypeInvInit, AccountsInit DEF Init, WakeInv
<1>2. TypeInv /\ Accounts /\ WakeInv /\ [Next]_vars => (TypeInv /\ Accounts /\ WakeInv)'
  BY TypeInvNext, AccountsNext, WakeNext
<1>3. WakeInv => NoLostWakeup
  BY DEF WakeInv, Due, NoLostWakeup
<1> QED BY <1>1, <1>2, <1>3, PTL DEF Spec

----------------------------------------------------------------------------
(* Shutdown.  When started() sends nothing, only a handler can send, and the *)
(* message in its hands keeps the counter above zero until it is done.       *)

HandlersSend == \A a \in Actor : pc[a] \in Sending => handling[a]

LEMMA HandlersSendInit == Init => HandlersSend
  BY DEF Init, HandlersSend, Sending

LEMMA HandlersSendNext ==
    ASSUME Starters = {}, TypeInv, HandlersSend, [Next]_vars
    PROVE  HandlersSend'
<1>1. pc \in [Actor -> ActorPc] /\ handling \in [Actor -> BOOLEAN]
  BY DEF TypeInv, Typing, TaskTypes
<1>2. ASSUME NEW a \in Actor, Task(a) PROVE HandlersSend'
  <2>1. CASE Settle(a)
    BY <1>1, <2>1 DEF Settle, DecInFlight, HandlersSend, Sending
  <2>2. CASE \E to \in Actor : SendStamp(a, to)
    BY <1>1, <2>2 DEF SendStamp, InUserCode, HandlersSend, Sending
  <2>3. CASE Recv(a)
    BY <1>1, <2>3 DEF Recv, HandlersSend, Sending
  <2>4. CASE \/ Start(a) \/ StartedReturns(a) \/ Park(a) \/ NotifyDone(a) \/ Compute(a)
             \/ Cancel(a)
    BY <1>1, <2>4 DEF Start, StartedReturns, Park, NotifyDone, Compute, Cancel, HandlersSend, Sending
  <2>5. CASE SendRecord(a) \/ SendCount(a) \/ SendDeliver(a) \/ SendUndo(a) \/ NotifyUndo(a)
    BY <1>1, <2>5 DEF SendRecord, SendCount, SendDeliver, SendUndo, NotifyUndo, DecInFlight,
                      HandlersSend, Sending
  <2> QED BY <1>2, <2>1, <2>2, <2>3, <2>4, <2>5 DEF Task
<1>3. ASSUME NEW a \in Actor, Panic(a) PROVE HandlersSend'
  BY <1>1, <1>3 DEF Panic, HandlersSend, Sending
<1>4. ASSUME Main \/ WriterFails \/ Done \/ UNCHANGED vars PROVE HandlersSend'
  <2>1. UNCHANGED <<pc, handling>>
    BY <1>4 DEF Main, ExternalStamp, ExternalRecord, ExternalCount, ExternalDeliver,
                RunUntilQuiescent, Check, Await, Abort, Close, WriterFails, Done, vars
  <2> QED BY <2>1 DEF HandlersSend
<1> QED BY <1>2, <1>3, <1>4 DEF Next

LEMMA QuietInit == Init => QuiescentShutdown
  BY DEF Init, QuiescentShutdown, Down

\* With nothing in flight no task can receive, settle or send.
LEMMA QuietTask ==
    ASSUME TypeInv, HandlersSend, Outstanding = {}, NEW a \in Actor, Task(a), Starters = {}
    PROVE  Outstanding' = {}
<1>1. ~handling[a] /\ pc[a] \notin Sending
  <2>1. ASSUME handling[a] PROVE <<"handled", a, 0>> \in Outstanding
    BY <2>1 DEF Outstanding, InHand
  <2> QED BY <2>1 DEF HandlersSend
<1>2. mailbox[a] = <<>>
  <2>1. ASSUME NEW i \in DOMAIN mailbox[a] PROVE <<"queued", a, i>> \in Outstanding
    BY <2>1 DEF Outstanding, Queued
  <2>2. mailbox[a] \in Seq(Envelope)
    BY DEF TypeInv, Typing, MessageTypes
  <2>3. Len(mailbox[a]) = 0
    <3>1. Len(mailbox[a]) \in Nat /\ DOMAIN mailbox[a] = 1..Len(mailbox[a])
      BY <2>2
    <3>2. 1 \notin DOMAIN mailbox[a]
      BY <2>1
    <3> QED BY <3>1, <3>2
  <2> QED BY <2>2, <2>3
<1>3. Start(a) \/ StartedReturns(a) \/ Park(a) \/ NotifyDone(a) \/ Cancel(a)
  BY <1>1, <1>2 DEF Task, Recv, Settle, Compute, InUserCode, SendStamp, SendRecord, SendCount,
                    SendDeliver, SendUndo, NotifyUndo, Sending
<1> QED BY <1>3, TokensIdle, TokensDropped

LEMMA QuietNext ==
    ASSUME Starters = {}, TypeInv, Accounts, HandlersSend, QuiescentShutdown, [Next]_vars
    PROVE  QuiescentShutdown'
<1>1. ASSUME NEW a \in Actor, Task(a) PROVE QuiescentShutdown'
  <2>1. mpc' \in Down => mpc \in Down
    BY <1>1 DEF Task, Start, StartedReturns, Park, Recv, Settle, NotifyDone, Compute, SendStamp,
                SendRecord, SendCount, SendDeliver, SendUndo, NotifyUndo, Cancel, NotifyOne, Down
  <2> QED BY <1>1, <2>1, QuietTask DEF QuiescentShutdown
<1>2. ASSUME NEW a \in Actor, Panic(a) PROVE QuiescentShutdown'
  <2>1. mpc' = mpc
    BY <1>2 DEF Panic
  <2> QED BY <1>2, <2>1, TokensDropped DEF QuiescentShutdown
<1>3. ASSUME Check PROVE QuiescentShutdown'
  <2>1. mpc' \in Down => inFlight = 0
    BY <1>3 DEF Check, Down
  <2>2. ASSUME inFlight = 0 PROVE Outstanding = {}
    <3>1. Cardinality(Outstanding) = 0
      BY <2>2, FS_CardinalityType DEF Accounts
    <3> QED BY <3>1, FS_EmptySet DEF Accounts
  <2>3. Outstanding' \subseteq Outstanding
    BY <1>3, TokensIdle
  <2> QED BY <2>1, <2>2, <2>3 DEF QuiescentShutdown
<1>4. ASSUME Close \/ \E a \in Actor : Abort(a) PROVE QuiescentShutdown'
  <2>1. mpc \in Down
    BY <1>4 DEF Close, Abort, Down
  <2> QED BY <1>4, <2>1, TokensIdle DEF QuiescentShutdown
<1>5. ASSUME \/ \E to \in Actor : ExternalStamp(to)
             \/ ExternalRecord \/ ExternalCount \/ ExternalDeliver
             \/ RunUntilQuiescent \/ Await
      PROVE  QuiescentShutdown'
  <2>1. mpc' \notin Down
    BY <1>5 DEF ExternalStamp, ExternalRecord, ExternalCount, ExternalDeliver,
                RunUntilQuiescent, Await, Down
  <2> QED BY <2>1 DEF QuiescentShutdown
<1>6. ASSUME WriterFails \/ Done \/ UNCHANGED vars PROVE QuiescentShutdown'
  <2>1. mpc' = mpc
    BY <1>6 DEF WriterFails, Done, vars
  <2> QED BY <1>6, <2>1, TokensIdle DEF QuiescentShutdown, Done
<1> QED BY <1>1, <1>2, <1>3, <1>4, <1>5, <1>6 DEF Next, Main

\* "Drive to quiescence (no messages in flight), then shut down cleanly": the
\* loop of run_until_quiescent is left only when no message is queued, being
\* handled or being sent, and none appears afterwards.  It needs that no
\* started() sends; panics and refused deliveries do no harm to it.
THEOREM QuiescentShutdownHolds ==
    ASSUME Starters = {}
    PROVE  Spec => []QuiescentShutdown
<1>1. Init => TypeInv /\ Accounts /\ HandlersSend /\ QuiescentShutdown
  BY TypeInvInit, AccountsInit, HandlersSendInit, QuietInit
<1>2. TypeInv /\ Accounts /\ HandlersSend /\ QuiescentShutdown /\ [Next]_vars
        => (TypeInv /\ Accounts /\ HandlersSend /\ QuiescentShutdown)'
  BY TypeInvNext, AccountsNext, HandlersSendNext, QuietNext
<1> QED BY <1>1, <1>2, PTL DEF Spec

----------------------------------------------------------------------------
(* Clocks.  NoClockAhead is inductive: counters only grow, so a stamp that   *)
(* was grounded stays so, and every new stamp is made from grounded ones.    *)

LEMMA GroundedGrows ==
    ASSUME NEW s \in [Actor -> Nat], NEW t \in [Actor -> Nat],
           \A a \in Actor : s[a] <= t[a],
           NEW vc \in VClock, Grounded(vc, s)
    PROVE  Grounded(vc, t)
  BY DEF Grounded, Node, VClock

LEMMA GroundedBump ==
    ASSUME NEW s \in [Actor -> Nat], NEW a \in Actor, NEW vc \in VClock,
           Grounded(vc, s), vc[a] = s[a]
    PROVE  /\ Grounded(Bump(vc, a), [s EXCEPT ![a] = @ + 1])
           /\ Bump(vc, a)[a] = s[a] + 1
  BY ActorAssumption DEF Grounded, Bump, Node, VClock

LEMMA GroundedJoin ==
    ASSUME NEW s \in [Actor -> Nat], NEW a \in Actor, NEW vc \in VClock, NEW wc \in VClock,
           Grounded(vc, s), Grounded(wc, s), vc[a] = s[a]
    PROVE  Grounded(Join(vc, wc), s) /\ Join(vc, wc)[a] = s[a]
  BY ActorAssumption DEF Grounded, Join, Larger, Node, VClock

\* Steps that advance no counter and at most move envelopes.
LEMMA GroundedMoved ==
    ASSUME NoClockAhead, UNCHANGED <<clock, seq>>,
           \A a \in Actor : \A i \in DOMAIN mailbox'[a] :
             \/ \E j \in DOMAIN mailbox[a] : mailbox'[a][i] = mailbox[a][j]
             \/ \E n \in Node : out[n] # None /\ mailbox'[a][i] = out[n],
           \A n \in Node : out'[n] \in {out[n], None}
    PROVE  NoClockAhead'
  BY DEF NoClockAhead

\* A step of actor a that advances its own clock and seq together.
LEMMA GroundedStep ==
    ASSUME TypeInv, NoClockAhead, NEW a \in Actor, NEW vc \in VClock,
           Grounded(vc, seq), vc[a] = seq[a],
           clock' = [clock EXCEPT ![a] = Bump(vc, a)],
           seq' = [seq EXCEPT ![a] = @ + 1],
           \A b \in Actor : \A i \in DOMAIN mailbox'[b] :
             \E j \in DOMAIN mailbox[b] : mailbox'[b][i] = mailbox[b][j],
           \A n \in Node : \/ out'[n] = out[n]
                           \/ out'[n].vclock = Bump(vc, a)
    PROVE  NoClockAhead'
<1>1. /\ seq \in [Actor -> Nat] /\ seq' \in [Actor -> Nat]
      /\ \A b \in Actor : seq[b] <= seq'[b]
      /\ \A b \in Actor : clock[b] \in VClock
      /\ \A b \in Actor : \A i \in DOMAIN mailbox[b] : mailbox[b][i].vclock \in VClock
      /\ \A n \in Node : out[n] # None => out[n].vclock \in VClock
  <2>1. seq \in [Actor -> Nat] /\ clock \in [Actor -> VClock]
    BY DEF TypeInv, Typing, TaskTypes
  <2>2. seq' \in [Actor -> Nat] /\ \A b \in Actor : seq[b] <= seq'[b]
    BY <2>1
  <2>3. ASSUME NEW b \in Actor, NEW i \in DOMAIN mailbox[b] PROVE mailbox[b][i].vclock \in VClock
    <3>1. mailbox[b][i] \in Envelope
      BY <2>3 DEF TypeInv, Typing, MessageTypes
    <3> QED BY <3>1 DEF Envelope
  <2>4. ASSUME NEW n \in Node, out[n] # None PROVE out[n].vclock \in VClock
    BY <2>4 DEF TypeInv, Typing, MessageTypes, Envelope
  <2> QED BY <2>1, <2>2, <2>3, <2>4
<1>2. Grounded(Bump(vc, a), seq') /\ Bump(vc, a)[a] = seq'[a]
  <2>1. seq'[a] = seq[a] + 1
    BY <1>1
  <2>2. Grounded(Bump(vc, a), [seq EXCEPT ![a] = @ + 1]) /\ Bump(vc, a)[a] = seq[a] + 1
    BY <1>1, GroundedBump
  <2> QED BY <2>1, <2>2
<1>3. \A b \in Actor : Grounded(clock[b], seq')
  BY <1>1, GroundedGrows DEF NoClockAhead
<1>4. \A b \in Actor : Grounded(clock'[b], seq') /\ clock'[b][b] = seq'[b]
  BY <1>1, <1>2, <1>3 DEF NoClockAhead, TypeInv, Typing, TaskTypes
<1>5. \A b \in Actor : \A i \in DOMAIN mailbox'[b] : Grounded(mailbox'[b][i].vclock, seq')
  <2> TAKE b \in Actor
  <2> TAKE i \in DOMAIN mailbox'[b]
  <2>1. PICK j \in DOMAIN mailbox[b] : mailbox'[b][i] = mailbox[b][j]
    OBVIOUS
  <2>2. Grounded(mailbox[b][j].vclock, seq) /\ mailbox[b][j].vclock \in VClock
    BY <1>1 DEF NoClockAhead
  <2> QED BY <1>1, <2>1, <2>2, GroundedGrows
<1>6. \A n \in Node : out'[n] # None => Grounded(out'[n].vclock, seq')
  BY <1>1, <1>2, GroundedGrows DEF NoClockAhead
<1> QED BY <1>4, <1>5, <1>6 DEF NoClockAhead

LEMMA GroundedTask ==
    ASSUME TypeInv, NoClockAhead, NEW a \in Actor, Task(a) \/ Panic(a)
    PROVE  NoClockAhead'
<1>1. /\ clock[a] \in VClock /\ Grounded(clock[a], seq) /\ clock[a][a] = seq[a]
      /\ seq \in [Actor -> Nat] /\ out \in [Node -> Envelope \cup {None}]
      /\ mailbox \in [Actor -> Seq(Envelope)] /\ a \in Node
  BY DEF TypeInv, Typing, TaskTypes, MessageTypes, NoClockAhead, Node
<1>2. CASE Compute(a)
  <2>1. /\ clock' = [clock EXCEPT ![a] = Bump(clock[a], a)]
        /\ seq' = [seq EXCEPT ![a] = @ + 1]
        /\ UNCHANGED <<mailbox, out>>
    BY <1>2 DEF Compute
  <2> QED BY <1>1, <2>1, GroundedStep
<1>3. CASE \E to \in Actor : SendStamp(a, to)
  <2>1. /\ clock' = [clock EXCEPT ![a] = Bump(clock[a], a)]
        /\ seq' = [seq EXCEPT ![a] = @ + 1]
        /\ UNCHANGED mailbox
        /\ \E e : e.vclock = Bump(clock[a], a) /\ out' = [out EXCEPT ![a] = e]
    BY <1>1, <1>3 DEF SendStamp, TypeInv, Typing, TaskTypes
  <2>2. \A n \in Node : out'[n] = out[n] \/ out'[n].vclock = Bump(clock[a], a)
    BY <1>1, <2>1
  <2> QED BY <1>1, <2>1, <2>2, GroundedStep
<1>4. CASE Recv(a)
  <2> DEFINE env == Head(mailbox[a])
             vc  == Join(clock[a], env.vclock)
  <2>1. /\ mailbox[a] # <<>>
        /\ clock' = [clock EXCEPT ![a] = Bump(vc, a)]
        /\ seq' = [seq EXCEPT ![a] = @ + 1]
        /\ mailbox' = [mailbox EXCEPT ![a] = Tail(@)]
        /\ UNCHANGED out
    BY <1>4 DEF Recv
  <2>2. /\ env = mailbox[a][1] /\ 1 \in DOMAIN mailbox[a] /\ env \in Envelope
        /\ \A i \in DOMAIN Tail(mailbox[a]) :
             i + 1 \in DOMAIN mailbox[a] /\ Tail(mailbox[a])[i] = mailbox[a][i + 1]
    BY <1>1, <2>1
  <2>3. env.vclock \in VClock /\ Grounded(env.vclock, seq)
    BY <2>2 DEF Envelope, NoClockAhead
  <2>4. vc \in VClock /\ Grounded(vc, seq) /\ vc[a] = seq[a]
    BY <1>1, <2>3, JoinType, GroundedJoin
  <2>5. \A b \in Actor : \A i \in DOMAIN mailbox'[b] :
          \E j \in DOMAIN mailbox[b] : mailbox'[b][i] = mailbox[b][j]
    BY <1>1, <2>1, <2>2
  <2> HIDE DEF vc
  <2> QED BY <1>1, <2>1, <2>4, <2>5, GroundedStep
<1>5. CASE SendDeliver(a)
  <2>1. out[a] \in Envelope /\ out[a] # None /\ out[a].dst \in Actor
    BY <1>5, NoneAssumption DEF SendDeliver, TypeInv, Shape, Envelope
  <2>2. CASE Gone(out[a].dst)
    BY <1>5, <2>2, GroundedMoved DEF SendDeliver
  <2>3. CASE ~Gone(out[a].dst)
    <3>1. /\ mailbox' = [mailbox EXCEPT ![out[a].dst] = Append(@, out[a])]
          /\ out' = [out EXCEPT ![a] = None]
          /\ UNCHANGED <<clock, seq>>
      BY <1>5, <2>3 DEF SendDeliver
    <3>2. \A b \in Actor : \A i \in DOMAIN mailbox'[b] :
             \/ \E j \in DOMAIN mailbox[b] : mailbox'[b][i] = mailbox[b][j]
             \/ \E n \in Node : out[n] # None /\ mailbox'[b][i] = out[n]
      BY <1>1, <2>1, <3>1
    <3>3. \A n \in Node : out'[n] \in {out[n], None}
      BY <1>1, <3>1
    <3> QED BY <3>1, <3>2, <3>3, GroundedMoved
  <2> QED BY <2>2, <2>3
<1>6. CASE Panic(a) \/ Cancel(a)
  <2>1. UNCHANGED <<clock, seq, out>> /\ mailbox' = [mailbox EXCEPT ![a] = <<>>]
    BY <1>6 DEF Panic, Cancel
  <2>2. \A b \in Actor : \A i \in DOMAIN mailbox'[b] :
          \E j \in DOMAIN mailbox[b] : mailbox'[b][i] = mailbox[b][j]
    BY <1>1, <2>1
  <2> QED BY <2>1, <2>2, GroundedMoved
<1>7. CASE SendUndo(a)
  <2>1. UNCHANGED <<clock, seq, mailbox>> /\ out' = [out EXCEPT ![a] = None]
    BY <1>7 DEF SendUndo
  <2> QED BY <1>1, <2>1, GroundedMoved
<1>8. CASE \/ Start(a) \/ StartedReturns(a) \/ Park(a) \/ Settle(a) \/ NotifyDone(a)
           \/ SendRecord(a) \/ SendCount(a) \/ NotifyUndo(a)
  <2>1. UNCHANGED <<clock, seq, mailbox, out>>
    BY <1>8 DEF Start, StartedReturns, Park, Settle, NotifyDone, SendRecord, SendCount, NotifyUndo
  <2> QED BY <2>1, GroundedMoved
<1> QED BY <1>2, <1>3, <1>4, <1>5, <1>6, <1>7, <1>8 DEF Task

LEMMA GroundedMain ==
    ASSUME TypeInv, NoClockAhead, Main \/ WriterFails \/ Done \/ UNCHANGED vars
    PROVE  NoClockAhead'
<1>1. /\ out \in [Node -> Envelope \cup {None}] /\ mailbox \in [Actor -> Seq(Envelope)]
      /\ World \in Node /\ seq \in [Actor -> Nat]
  BY DEF TypeInv, Typing, TaskTypes, MessageTypes, Node
<1>2. CASE \E to \in Actor : ExternalStamp(to)
  <2>1. /\ UNCHANGED <<clock, seq, mailbox>>
        /\ \E e : e.vclock = Bump(ZeroClock, World) /\ out' = [out EXCEPT ![World] = e]
    BY <1>2 DEF ExternalStamp
  <2>2. Grounded(Bump(ZeroClock, World), seq)
    BY <1>1 DEF Grounded, Bump, ZeroClock, Node
  <2>3. \A n \in Node : out'[n] # None => Grounded(out'[n].vclock, seq)
    BY <1>1, <2>1, <2>2 DEF NoClockAhead
  <2> QED BY <2>1, <2>3 DEF NoClockAhead
<1>3. CASE ExternalDeliver
  <2>1. out[World] \in Envelope /\ out[World] # None /\ out[World].dst \in Actor
    BY <1>3, NoneAssumption DEF ExternalDeliver, TypeInv, Shape, Envelope
  <2>2. /\ mailbox' \in {mailbox, [mailbox EXCEPT ![out[World].dst] = Append(@, out[World])]}
        /\ out' = [out EXCEPT ![World] = None]
        /\ UNCHANGED <<clock, seq>>
    BY <1>3 DEF ExternalDeliver
  <2>3. \A b \in Actor : \A i \in DOMAIN mailbox'[b] :
           \/ \E j \in DOMAIN mailbox[b] : mailbox'[b][i] = mailbox[b][j]
           \/ \E n \in Node : out[n] # None /\ mailbox'[b][i] = out[n]
    <3>1. CASE mailbox' = mailbox
      BY <3>1
    <3>2. CASE mailbox' = [mailbox EXCEPT ![out[World].dst] = Append(@, out[World])]
      BY <1>1, <2>1, <3>2
    <3> QED BY <2>2, <3>1, <3>2
  <2>4. \A n \in Node : out'[n] \in {out[n], None}
    BY <1>1, <2>2
  <2> QED BY <2>2, <2>3, <2>4, GroundedMoved
<1>4. CASE \/ ExternalRecord \/ ExternalCount \/ RunUntilQuiescent \/ Check \/ Await \/ Close
           \/ \E a \in Actor : Abort(a)
           \/ WriterFails \/ Done \/ UNCHANGED vars
  <2>1. UNCHANGED <<clock, seq, mailbox, out>>
    BY <1>4 DEF ExternalRecord, ExternalCount, RunUntilQuiescent, Check, Await, Close, Abort,
                WriterFails, Done, vars
  <2> QED BY <2>1, GroundedMoved
<1> QED BY <1>2, <1>3, <1>4 DEF Main

LEMMA GroundedInit == Init => NoClockAhead
  BY DEF Init, NoClockAhead, Grounded, ZeroClock, Node

\* No stamp is invented: a clock, wherever it is, never counts more events of
\* an actor than that actor has performed, and an actor's own entry is its
\* seq.  This is half of the exact embedding: V(e) <= V(f) cannot hold for an
\* e that the history of f does not contain.
THEOREM NoClockAheadHolds == Spec => []NoClockAhead
<1>1. Init => TypeInv /\ NoClockAhead
  BY TypeInvInit, GroundedInit
<1>2. TypeInv /\ NoClockAhead /\ [Next]_vars => (TypeInv /\ NoClockAhead)'
  BY TypeInvNext, GroundedTask, GroundedMain DEF Next
<1> QED BY <1>1, <1>2, PTL DEF Spec

----------------------------------------------------------------------------
(* The counter is not too small; here is why it is not too large, and so     *)
(* why the runtime, when nobody panics, takes steps of the abstract detector *)
(* Quiescence.  Each step is followed by the tokens it must keep.            *)

NoneGone   == \A a \in Actor : ~Gone(a)
Covered == inFlight <= Cardinality(Outstanding)

LEMMA CoveredKept ==
    ASSUME Accounts, Accounts', Covered, inFlight \in Int, inFlight' \in Int,
           Outstanding \subseteq Outstanding', UNCHANGED inFlight
    PROVE  Covered'
<1>1. IsFiniteSet(Outstanding')
  BY DEF Accounts
<1>2. IsFiniteSet(Outstanding) /\ Cardinality(Outstanding) <= Cardinality(Outstanding')
  BY <1>1, FS_Subset
<1>3. Cardinality(Outstanding) \in Nat /\ Cardinality(Outstanding') \in Nat
  BY <1>1, <1>2, FS_CardinalityType
<1> QED BY <1>2, <1>3 DEF Covered

LEMMA CoveredUp ==
    ASSUME Accounts, Accounts', Covered, inFlight \in Int, inFlight' \in Int,
           NEW t, t \notin Outstanding, Outstanding \cup {t} \subseteq Outstanding',
           inFlight' = inFlight + 1
    PROVE  Covered'
<1>1. IsFiniteSet(Outstanding) /\ IsFiniteSet(Outstanding')
  BY DEF Accounts
<1>2. /\ IsFiniteSet(Outstanding \cup {t})
      /\ Cardinality(Outstanding \cup {t}) = Cardinality(Outstanding) + 1
  BY <1>1, FS_AddElement
<1>3. Cardinality(Outstanding \cup {t}) <= Cardinality(Outstanding')
  BY <1>1, FS_Subset
<1>4. Cardinality(Outstanding) \in Nat /\ Cardinality(Outstanding') \in Nat
  BY <1>1, FS_CardinalityType
<1> QED BY <1>2, <1>3, <1>4 DEF Covered

LEMMA CoveredDown ==
    ASSUME Accounts, Accounts', Covered, inFlight \in Int, inFlight' \in Int,
           NEW t \in Outstanding, Outstanding \ {t} \subseteq Outstanding',
           inFlight' = inFlight - 1
    PROVE  Covered'
<1>1. IsFiniteSet(Outstanding) /\ IsFiniteSet(Outstanding')
  BY DEF Accounts
<1>2. /\ IsFiniteSet(Outstanding \ {t})
      /\ Cardinality(Outstanding \ {t}) = Cardinality(Outstanding) - 1
  BY <1>1, FS_RemoveElement
<1>3. Cardinality(Outstanding \ {t}) <= Cardinality(Outstanding')
  BY <1>1, FS_Subset
<1>4. Cardinality(Outstanding) \in Nat /\ Cardinality(Outstanding') \in Nat
  BY <1>1, FS_CardinalityType
<1> QED BY <1>2, <1>3, <1>4 DEF Covered

LEMMA CoveredMoved ==
    ASSUME Accounts, Accounts', Covered, inFlight \in Int, inFlight' \in Int,
           NEW t \in Outstanding, NEW u, u \notin Outstanding,
           (Outstanding \ {t}) \cup {u} \subseteq Outstanding', UNCHANGED inFlight
    PROVE  Covered'
<1>1. IsFiniteSet(Outstanding) /\ IsFiniteSet(Outstanding')
  BY DEF Accounts
<1>2. /\ IsFiniteSet(Outstanding \ {t})
      /\ Cardinality(Outstanding \ {t}) = Cardinality(Outstanding) - 1
  BY <1>1, FS_RemoveElement
<1>3. /\ IsFiniteSet((Outstanding \ {t}) \cup {u})
      /\ Cardinality((Outstanding \ {t}) \cup {u}) = Cardinality(Outstanding \ {t}) + 1
  BY <1>2, FS_AddElement
<1>4. Cardinality((Outstanding \ {t}) \cup {u}) <= Cardinality(Outstanding')
  BY <1>1, FS_Subset
<1>5. Cardinality(Outstanding) \in Nat /\ Cardinality(Outstanding') \in Nat
  BY <1>1, FS_CardinalityType
<1> QED BY <1>2, <1>3, <1>4, <1>5 DEF Covered

----------------------------------------------------------------------------
(* The steps *)

LEMMA CoveredRecv ==
    ASSUME TypeInv, TypeInv', Accounts, Accounts', Covered, NEW a \in Actor, Recv(a)
    PROVE  Covered'
<1> DEFINE last == <<"queued", a, Len(mailbox[a])>>
           hand == <<"handled", a, 0>>
<1>1. /\ mailbox[a] \in Seq(Envelope) /\ mailbox[a] # <<>>
      /\ mailbox' = [mailbox EXCEPT ![a] = Tail(@)] /\ mailbox \in [Actor -> Seq(Envelope)]
      /\ handling' = [handling EXCEPT ![a] = TRUE] /\ handling \in [Actor -> BOOLEAN]
      /\ pc[a] \in {"loop", "parked"} /\ UNCHANGED <<inFlight, mpc>>
      /\ \E label \in {"user", "mistyped"} : pc' = [pc EXCEPT ![a] = label]
      /\ pc \in [Actor -> ActorPc] /\ inFlight \in Int /\ inFlight' \in Int
      /\ World \notin Actor
  BY ActorAssumption DEF TypeInv, Typing, TaskTypes, MessageTypes, Recv
<1>2. DOMAIN mailbox'[a] = 1..(Len(mailbox[a]) - 1) /\ DOMAIN mailbox[a] = 1..Len(mailbox[a])
      /\ Len(mailbox[a]) \in Nat \ {0}
  BY <1>1
<1>3. last \in Outstanding
  BY <1>2 DEF Outstanding, Queued
<1>4. hand \notin Outstanding
  <2>1. ~handling[a]
    BY <1>1 DEF TypeInv, Shape, Sending
  <2> QED BY <2>1 DEF Outstanding, Queued, InHand, InTransit
<1>5. Queued \ {last} \subseteq Queued'
  <2> SUFFICES ASSUME NEW b \in Actor, NEW i \in DOMAIN mailbox[b], <<"queued", b, i>> # last
               PROVE  i \in DOMAIN mailbox'[b]
    BY DEF Queued
  <2>1. CASE b = a
    BY <1>2, <2>1
  <2>2. CASE b # a
    BY <1>1, <2>2
  <2> QED BY <2>1, <2>2
<1>6. InHand \cup {hand} \subseteq InHand'
  BY <1>1 DEF InHand
<1>7. InTransit \subseteq InTransit'
  BY <1>1 DEF InTransit, Delivering, Node
<1> HIDE DEF last, hand
<1>8. (Outstanding \ {last}) \cup {hand} \subseteq Outstanding'
  BY <1>5, <1>6, <1>7 DEF Outstanding
<1> QED BY <1>1, <1>3, <1>4, <1>8, CoveredMoved

\* A message for a mailbox that is still there moves from hand to queue.
LEMMA CoveredDeliver ==
    ASSUME TypeInv, TypeInv', Accounts, Accounts', Covered, NEW n \in Node, NEW to \in Actor,
           NEW env, mailbox' = [mailbox EXCEPT ![to] = Append(@, env)],
           UNCHANGED <<handling, inFlight>>, Delivering(n),
           \A m \in Node : m # n => Delivering(m)' = Delivering(m)
    PROVE  Covered'
<1> DEFINE last == <<"queued", to, Len(mailbox[to]) + 1>>
           sent == <<"sent", n, 0>>
<1>1. mailbox \in [Actor -> Seq(Envelope)] /\ inFlight \in Int /\ inFlight' \in Int
  BY DEF TypeInv, Typing, MessageTypes
<1>2. /\ Len(mailbox[to]) \in Nat /\ DOMAIN mailbox[to] = 1..Len(mailbox[to])
      /\ DOMAIN mailbox'[to] = 1..(Len(mailbox[to]) + 1)
      /\ \A b \in Actor : b # to => mailbox'[b] = mailbox[b]
  <2>1. Len(mailbox[to]) \in Nat /\ DOMAIN mailbox[to] = 1..Len(mailbox[to])
    BY <1>1
  <2> QED BY <1>1, <2>1
<1>3. sent \in Outstanding
  BY DEF Outstanding, InTransit
<1>4. last \notin Outstanding
  <2>1. Len(mailbox[to]) + 1 \notin DOMAIN mailbox[to]
    BY <1>2
  <2> QED BY <2>1 DEF Outstanding, Queued, InHand, InTransit
<1>5. Queued \cup {last} \subseteq Queued'
  <2>1. ASSUME NEW b \in Actor, NEW i \in DOMAIN mailbox[b] PROVE i \in DOMAIN mailbox'[b]
    BY <1>2
  <2>2. last \in Queued'
    BY <1>2 DEF Queued
  <2> QED BY <2>1, <2>2 DEF Queued
<1>6. InHand \subseteq InHand' /\ InTransit \ {sent} \subseteq InTransit'
  BY DEF InHand, InTransit
<1> HIDE DEF last, sent
<1>7. (Outstanding \ {sent}) \cup {last} \subseteq Outstanding'
  BY <1>5, <1>6 DEF Outstanding
<1> QED BY <1>1, <1>3, <1>4, <1>7, CoveredMoved

LEMMA CoveredCounted ==
    ASSUME TypeInv, TypeInv', Accounts, Accounts', Covered
    PROVE  /\ \A a \in Actor : SendCount(a) \/ SendUndo(a) \/ Settle(a) => Covered'
           /\ ExternalCount => Covered'
<1>1. /\ inFlight \in Int /\ inFlight' \in Int /\ World \notin Actor
      /\ pc \in [Actor -> ActorPc] /\ handling \in [Actor -> BOOLEAN]
  BY ActorAssumption DEF TypeInv, Typing, TaskTypes
<1>2. ASSUME NEW a \in Actor, SendCount(a) PROVE Covered'
  <2> DEFINE token == <<"sent", a, 0>>
  <2>1. /\ UNCHANGED <<mailbox, handling, mpc>> /\ inFlight' = inFlight + 1
        /\ pc[a] = "count" /\ pc' = [pc EXCEPT ![a] = "deliver"]
    BY <1>2 DEF SendCount, IncInFlight
  <2>2. token \notin Outstanding /\ Outstanding \cup {token} \subseteq Outstanding'
    BY <1>1, <2>1 DEF Outstanding, Queued, InHand, InTransit, Delivering, Node
  <2> QED BY <1>1, <2>1, <2>2, CoveredUp
<1>3. ASSUME NEW a \in Actor, SendUndo(a) PROVE Covered'
  <2> DEFINE token == <<"sent", a, 0>>
  <2>1. /\ UNCHANGED <<mailbox, handling, mpc>> /\ inFlight' = inFlight - 1
        /\ pc[a] = "undo" /\ pc' \in {[pc EXCEPT ![a] = "notifyUndo"], [pc EXCEPT ![a] = "user"]}
    BY <1>3 DEF SendUndo, DecInFlight
  <2>2. token \in Outstanding /\ Outstanding \ {token} \subseteq Outstanding'
    BY <1>1, <2>1 DEF Outstanding, Queued, InHand, InTransit, Delivering, Node
  <2> QED BY <1>1, <2>1, <2>2, CoveredDown
<1>4. ASSUME NEW a \in Actor, Settle(a) PROVE Covered'
  <2> DEFINE token == <<"handled", a, 0>>
  <2>1. /\ UNCHANGED <<mailbox, mpc>> /\ inFlight' = inFlight - 1
        /\ handling[a] /\ handling' = [handling EXCEPT ![a] = FALSE]
        /\ pc[a] \in {"user", "mistyped"}
        /\ pc' \in {[pc EXCEPT ![a] = "notifyDone"], [pc EXCEPT ![a] = "loop"]}
    BY <1>4 DEF Settle, DecInFlight
  <2>2. token \in Outstanding /\ Outstanding \ {token} \subseteq Outstanding'
    BY <1>1, <2>1 DEF Outstanding, Queued, InHand, InTransit, Delivering, Node
  <2> QED BY <1>1, <2>1, <2>2, CoveredDown
<1>5. ASSUME ExternalCount PROVE Covered'
  <2> DEFINE token == <<"sent", World, 0>>
  <2>1. /\ UNCHANGED <<mailbox, handling, pc>> /\ inFlight' = inFlight + 1
        /\ mpc = "count" /\ mpc' = "deliver"
    BY <1>5 DEF ExternalCount, IncInFlight
  <2>2. token \notin Outstanding /\ Outstanding \cup {token} \subseteq Outstanding'
    BY <1>1, <2>1 DEF Outstanding, Queued, InHand, InTransit, Delivering, Node
  <2> QED BY <1>1, <2>1, <2>2, CoveredUp
<1> QED BY <1>2, <1>3, <1>4, <1>5

\* The other steps that leave a task alive move no message.
LEMMA CoveredIdle ==
    ASSUME TypeInv
    PROVE  /\ \A a \in Actor :
                 \/ Start(a) \/ StartedReturns(a) \/ Park(a) \/ NotifyDone(a) \/ Compute(a)
                 \/ SendRecord(a) \/ NotifyUndo(a) \/ \E to \in Actor : SendStamp(a, to)
                 => Outstanding \subseteq Outstanding' /\ UNCHANGED inFlight
           /\ \/ \E to \in Actor : ExternalStamp(to)
              \/ ExternalRecord \/ RunUntilQuiescent \/ Check \/ Await \/ Close
              \/ \E a \in Actor : Abort(a)
              \/ WriterFails \/ UNCHANGED vars
              => Outstanding \subseteq Outstanding' /\ UNCHANGED inFlight
<1>0. pc \in [Actor -> ActorPc] /\ World \notin Actor
  BY ActorAssumption DEF TypeInv, Typing, TaskTypes
<1>1. ASSUME NEW a \in Actor, pc[a] \notin {"deliver", "undo"},
             \A b \in Actor : b # a => pc'[b] = pc[b],
             mpc' = mpc \/ mpc = "parked",
             UNCHANGED <<mailbox, handling, inFlight>>
      PROVE  Outstanding \subseteq Outstanding' /\ UNCHANGED inFlight
  BY <1>0, <1>1 DEF Outstanding, Queued, InHand, InTransit, Delivering, Node
<1>2. ASSUME mpc' = mpc \/ mpc # "deliver", UNCHANGED <<pc, mailbox, handling, inFlight>>
      PROVE  Outstanding \subseteq Outstanding' /\ UNCHANGED inFlight
  BY <1>0, <1>2 DEF Outstanding, Queued, InHand, InTransit, Delivering, Node
<1>3. ASSUME NEW a \in Actor,
             \/ Start(a) \/ StartedReturns(a) \/ Park(a) \/ NotifyDone(a) \/ Compute(a)
             \/ SendRecord(a) \/ NotifyUndo(a) \/ \E to \in Actor : SendStamp(a, to)
      PROVE  Outstanding \subseteq Outstanding' /\ UNCHANGED inFlight
  <2>1. pc[a] \notin {"deliver", "undo"} /\ \A b \in Actor : b # a => pc'[b] = pc[b]
    BY <1>0, <1>3 DEF Start, StartedReturns, Park, NotifyDone, Compute, SendRecord, NotifyUndo,
                SendStamp, InUserCode
  <2>2. mpc' = mpc \/ mpc = "parked"
    BY <1>3 DEF Start, StartedReturns, Park, NotifyDone, Compute, SendRecord, NotifyUndo,
                SendStamp, NotifyOne
  <2>3. UNCHANGED <<mailbox, handling, inFlight>>
    BY <1>3 DEF Start, StartedReturns, Park, NotifyDone, Compute, SendRecord, NotifyUndo, SendStamp
  <2> QED BY <1>1, <2>1, <2>2, <2>3
<1>4. ASSUME \/ \E to \in Actor : ExternalStamp(to)
             \/ ExternalRecord \/ RunUntilQuiescent \/ Check \/ Await \/ Close
             \/ \E a \in Actor : Abort(a)
             \/ WriterFails \/ UNCHANGED vars
      PROVE  Outstanding \subseteq Outstanding' /\ UNCHANGED inFlight
  <2>1. mpc' = mpc \/ mpc # "deliver"
    BY <1>4 DEF ExternalStamp, ExternalRecord, RunUntilQuiescent, Check, Await, Close, Abort,
                WriterFails, vars
  <2>2. UNCHANGED <<pc, mailbox, handling, inFlight>>
    BY <1>4 DEF ExternalStamp, ExternalRecord, RunUntilQuiescent, Check, Await, Close, Abort,
                WriterFails, vars
  <2> QED BY <1>2, <2>1, <2>2
<1> QED BY <1>3, <1>4

\* A task that is gone stays gone.
LEMMA AliveBefore ==
    ASSUME TypeInv, [Next]_vars, NoneGone'
    PROVE  NoneGone
<1> SUFFICES ASSUME NEW b \in Actor, pc[b] = "gone" PROVE pc'[b] = "gone"
  BY DEF NoneGone, Gone
<1>1. pc \in [Actor -> ActorPc] /\ ~handling[b]
  BY DEF TypeInv, Typing, TaskTypes, Shape, Sending
<1>2. ASSUME NEW a \in Actor, Task(a) PROVE pc'[b] = "gone"
  <2>1. a # b
    BY <1>1, <1>2 DEF Task, Start, StartedReturns, Park, Recv, Settle, NotifyDone, Compute, SendStamp,
         InUserCode, SendRecord, SendCount, SendDeliver, SendUndo, NotifyUndo, Cancel
  <2> QED BY <1>1, <1>2, <2>1 DEF Task, Start, StartedReturns, Park, Recv, Settle, NotifyDone,
         Compute, SendStamp, SendRecord, SendCount, SendDeliver, SendUndo, NotifyUndo, Cancel,
         DecInFlight
<1>3. ASSUME NEW a \in Actor, Panic(a) PROVE pc'[b] = "gone"
  BY <1>1, <1>3 DEF Panic
<1>4. ASSUME Main \/ WriterFails \/ Done \/ UNCHANGED vars PROVE pc'[b] = "gone"
  BY <1>4 DEF Main, ExternalStamp, ExternalRecord, ExternalCount, ExternalDeliver,
         RunUntilQuiescent, Check, Await, Abort, Close, WriterFails, Done, vars
<1> QED BY <1>2, <1>3, <1>4 DEF Next

LEMMA CoveredTask ==
    ASSUME TypeInv, TypeInv', Accounts, Accounts', Covered, NoneGone, NoneGone',
           NEW a \in Actor, Task(a) \/ Panic(a)
    PROVE  Covered'
<1>1. /\ pc \in [Actor -> ActorPc] /\ inFlight \in Int /\ inFlight' \in Int
      /\ World \notin Actor /\ a \in Node
  BY ActorAssumption DEF TypeInv, Typing, TaskTypes, Node
<1>2. CASE Panic(a) \/ Cancel(a)
  BY <1>1, <1>2 DEF Panic, Cancel, NoneGone, Gone
<1>3. CASE SendDeliver(a)
  <2>1. PICK to \in Actor : to = out[a].dst
    BY <1>3 DEF SendDeliver, TypeInv, Shape, Envelope
  <2>2. /\ mailbox' = [mailbox EXCEPT ![to] = Append(@, out[a])]
        /\ UNCHANGED <<handling, inFlight, mpc>>
        /\ pc[a] = "deliver" /\ pc' = [pc EXCEPT ![a] = "user"]
    BY <1>3, <2>1 DEF SendDeliver, NoneGone
  <2>3. Delivering(a) /\ \A m \in Node : m # a => Delivering(m)' = Delivering(m)
    BY <1>1, <2>2 DEF Delivering, Node
  <2> QED BY <1>1, <2>2, <2>3, CoveredDeliver
<1> QED BY <1>1, <1>2, <1>3, CoveredRecv, CoveredCounted, CoveredIdle, CoveredKept DEF Task

LEMMA CoveredMain ==
    ASSUME TypeInv, TypeInv', Accounts, Accounts', Covered, NoneGone,
           Main \/ WriterFails \/ Done \/ UNCHANGED vars
    PROVE  Covered'
<1>1. /\ inFlight \in Int /\ inFlight' \in Int /\ World \notin Actor /\ World \in Node
  BY ActorAssumption DEF TypeInv, Typing, Node
<1>2. CASE ExternalDeliver
  <2>1. PICK to \in Actor : to = out[World].dst
    BY <1>2 DEF ExternalDeliver, TypeInv, Shape, Envelope
  <2>2. /\ mailbox' = [mailbox EXCEPT ![to] = Append(@, out[World])]
        /\ UNCHANGED <<handling, inFlight, pc>> /\ mpc = "deliver"
    BY <1>2, <2>1 DEF ExternalDeliver, NoneGone
  <2>3. Delivering(World) /\ \A m \in Node : m # World => Delivering(m)' = Delivering(m)
    BY <2>2 DEF Delivering
  <2> QED BY <1>1, <2>2, <2>3, CoveredDeliver
<1> QED BY <1>1, <1>2, CoveredCounted, CoveredIdle, CoveredKept DEF Main, Done

LEMMA CoveredNext ==
    ASSUME TypeInv, Accounts, NoneGone => Covered, [Next]_vars
    PROVE  (NoneGone => Covered)'
<1> SUFFICES ASSUME NoneGone' PROVE Covered'
  OBVIOUS
<1>1. NoneGone /\ Covered /\ TypeInv' /\ Accounts'
  BY AliveBefore, TypeInvNext, AccountsNext
<1> QED BY <1>1, CoveredTask, CoveredMain DEF Next

LEMMA CoveredInit == Init => Covered
<1> SUFFICES ASSUME Init PROVE Covered
  OBVIOUS
<1>1. Outstanding = {}
  BY DEF Init, Outstanding, Queued, InHand, InTransit, Delivering, Node
<1> QED BY <1>1, FS_EmptySet DEF Init, Covered

LEMMA ExactIs ==
    ASSUME TypeInv, Accounts
    PROVE  Covered <=> inFlight = Cardinality(Outstanding)
<1>1. Cardinality(Outstanding) \in Nat /\ inFlight \in Int
  BY FS_CardinalityType DEF Accounts, TypeInv, Typing
<1> QED BY <1>1 DEF Covered, Accounts

\* While no task has been dropped the counter is the number of messages in
\* flight: each path through send, handle and the mistyped message gives back
\* exactly what it took.
THEOREM ExactWhileAliveHolds == Spec => []ExactWhileAlive
<1>1. Init => TypeInv /\ Accounts /\ (NoneGone => Covered)
  BY TypeInvInit, AccountsInit, CoveredInit
<1>2. TypeInv /\ Accounts /\ (NoneGone => Covered) /\ [Next]_vars
        => (TypeInv /\ Accounts /\ (NoneGone => Covered))'
  BY TypeInvNext, AccountsNext, CoveredNext
<1>3. TypeInv /\ Accounts /\ (NoneGone => Covered) => ExactWhileAlive
  BY ExactIs DEF ExactWhileAlive, NoneGone
<1> QED BY <1>1, <1>2, <1>3, PTL DEF Spec

----------------------------------------------------------------------------
(* The refinement.  Without panics a task is dropped only when the system    *)
(* is down, and then nothing is in flight: the counter is exact throughout,  *)
(* so that what it does is what the work of the detector does.               *)

Quiet == Starters = {} /\ PanicStart = {} /\ PanicHandle = {}

Orderly == (~NoneGone \/ aborted # {}) => mpc \in Down

LEMMA OrderlyNext ==
    ASSUME Quiet, TypeInv, Orderly, [Next]_vars
    PROVE  Orderly'
<1>1. pc \in [Actor -> ActorPc]
  BY DEF TypeInv, Typing, TaskTypes
<1>2. ASSUME NEW a \in Actor, Task(a) PROVE Orderly'
  <2>1. UNCHANGED aborted /\ (mpc \in Down => mpc' = mpc)
    BY <1>2 DEF Task, Start, StartedReturns, Park, Recv, Settle, NotifyDone, Compute, SendStamp,
         SendRecord, SendCount, SendDeliver, SendUndo, NotifyUndo, Cancel, NotifyOne, Down
  <2>2. CASE Cancel(a)
    BY <2>1, <2>2 DEF Cancel, Orderly
  <2>3. CASE ~Cancel(a)
    <3>1. NoneGone => NoneGone'
      BY <1>1, <1>2, <2>3 DEF Task, Start, StartedReturns, Park, Recv, Settle, NotifyDone, Compute,
           SendStamp, SendRecord, SendCount, SendDeliver, SendUndo, NotifyUndo, DecInFlight,
           NoneGone, Gone
    <3> QED BY <2>1, <3>1 DEF Orderly
  <2> QED BY <2>2, <2>3
<1>3. ASSUME NEW a \in Actor, Panic(a) PROVE FALSE
  BY <1>3 DEF Panic, Quiet
<1>4. ASSUME Main \/ WriterFails \/ Done \/ UNCHANGED vars PROVE Orderly'
  BY <1>4 DEF Main, ExternalStamp, ExternalRecord, ExternalCount, ExternalDeliver,
         RunUntilQuiescent, Check, Await, Abort, Close, WriterFails, Done, vars,
         Orderly, NoneGone, Gone, Down
<1> QED BY <1>2, <1>3, <1>4 DEF Next

RefInv == /\ TypeInv /\ Accounts /\ HandlersSend /\ QuiescentShutdown
          /\ Orderly /\ Covered

LEMMA RefInvInit == Init => RefInv
<1>1. Init => Orderly
  BY DEF Init, Orderly, NoneGone, Gone
<1> QED BY <1>1, TypeInvInit, AccountsInit, HandlersSendInit, QuietInit, CoveredInit DEF RefInv

LEMMA RefInvNext ==
    ASSUME Quiet, RefInv, [Next]_vars
    PROVE  RefInv'
<1>1. TypeInv' /\ Accounts' /\ HandlersSend' /\ QuiescentShutdown' /\ Orderly'
  BY TypeInvNext, AccountsNext, HandlersSendNext, QuietNext, OrderlyNext DEF RefInv, Quiet
<1>2. ASSUME NoneGone' PROVE Covered'
  BY <1>2, CoveredNext DEF RefInv
<1>3. ASSUME ~NoneGone' PROVE Covered'
  <2>1. mpc' \in Down /\ Outstanding' = {}
    BY <1>1, <1>3 DEF Orderly, QuiescentShutdown
  <2>2. inFlight = 0 /\ inFlight' = inFlight
    <3>1. mpc \in Down
      <4>1. ASSUME NEW a \in Actor, Task(a) PROVE mpc \in Down
        BY <2>1, <4>1 DEF Task, Start, StartedReturns, Park, Recv, Settle, NotifyDone, Compute,
             SendStamp, SendRecord, SendCount, SendDeliver, SendUndo, NotifyUndo, Cancel,
             NotifyOne, Down
      <4>2. ASSUME NEW a \in Actor, Panic(a) PROVE FALSE
        BY <4>2 DEF Panic, Quiet
      <4>3. ASSUME Main \/ WriterFails \/ Done \/ UNCHANGED vars PROVE mpc \in Down
        <5>1. UNCHANGED pc
          BY <4>3 DEF Main, ExternalStamp, ExternalRecord, ExternalCount, ExternalDeliver,
               RunUntilQuiescent, Check, Await, Abort, Close, WriterFails, Done, vars
        <5> QED BY <1>3, <5>1 DEF RefInv, Orderly, NoneGone, Gone
      <4> QED BY <4>1, <4>2, <4>3 DEF Next
    <3>2. Outstanding = {} /\ inFlight = 0
      <4>1. Outstanding = {}
        BY <3>1 DEF RefInv, QuiescentShutdown
      <4>2. inFlight = Cardinality(Outstanding)
        BY ExactIs DEF RefInv
      <4> QED BY <4>1, <4>2, FS_EmptySet
    <3>3. \A a \in Actor : ~handling[a] /\ pc[a] \notin Sending
      <4>1. ASSUME NEW a \in Actor, handling[a] PROVE <<"handled", a, 0>> \in Outstanding
        BY <4>1 DEF Outstanding, InHand
      <4> QED BY <3>2, <4>1 DEF RefInv, HandlersSend
    <3>4. ASSUME NEW a \in Actor, Task(a) PROVE inFlight' = inFlight
      BY <3>3, <3>4 DEF Task, Start, StartedReturns, Park, Recv, Settle, NotifyDone, Compute,
           SendStamp, SendRecord, SendCount, SendDeliver, SendUndo, NotifyUndo, Cancel, Sending
    <3>5. ASSUME Main \/ WriterFails \/ Done \/ UNCHANGED vars PROVE inFlight' = inFlight
      BY <3>1, <3>5 DEF Main, ExternalStamp, ExternalRecord, ExternalCount, ExternalDeliver,
           RunUntilQuiescent, Check, Await, Abort, Close, WriterFails, Done, vars, Down
    <3>6. ASSUME NEW a \in Actor, Panic(a) PROVE inFlight' = inFlight
      BY <3>6 DEF Panic
    <3> QED BY <3>2, <3>4, <3>5, <3>6 DEF Next
  <2>3. inFlight' = 0 /\ Cardinality(Outstanding') = 0
    BY <2>1, <2>2, FS_EmptySet
  <2> QED BY <2>3 DEF Covered
<1>4. Covered'
  BY <1>2, <1>3
<1> QED BY <1>1, <1>4 DEF RefInv

LEMMA RefInvExact == RefInv => inFlight = Cardinality(Outstanding)
  BY ExactIs DEF RefInv

Phase == CASE mpc \in {"setup", "record", "count", "deliver"} -> "open"
           [] mpc \in {"check", "await", "parked"}             -> "driving"
           [] mpc \in Down                                    -> "down"

\* The steps of the detector, said of the counter.
DetectorStep ==
    \/ Phase = "open" /\ inFlight' = inFlight + 1 /\ UNCHANGED Phase
    \/ Phase = "open" /\ Phase' = "driving" /\ UNCHANGED inFlight
    \/ inFlight > 0 /\ inFlight' \in {inFlight + 1, inFlight - 1} /\ UNCHANGED Phase
    \/ Phase = "driving" /\ inFlight = 0 /\ Phase' = "down" /\ UNCHANGED inFlight
    \/ UNCHANGED inFlight /\ UNCHANGED Phase

\* A handler that sends or settles has a message of its own in flight.
LEMMA HandlingCounts ==
    ASSUME RefInv, NEW a \in Actor, handling[a]
    PROVE  inFlight > 0
<1>1. <<"handled", a, 0>> \in Outstanding
  BY DEF Outstanding, InHand
<1>2. inFlight = Cardinality(Outstanding) /\ IsFiniteSet(Outstanding) /\ inFlight \in Int
  BY RefInvExact DEF RefInv, Accounts, TypeInv, Typing
<1>3. Cardinality(Outstanding) \in Nat /\ Cardinality(Outstanding) # 0
  BY <1>1, <1>2, FS_CardinalityType, FS_EmptySet
<1> QED BY <1>2, <1>3

LEMMA StepTask ==
    ASSUME Quiet, RefInv, NEW a \in Actor, Task(a)
    PROVE  DetectorStep
<1>1. UNCHANGED Phase
  <2>1. mpc' = mpc \/ (mpc = "parked" /\ mpc' = "check")
    BY DEF Task, Start, StartedReturns, Park, Recv, Settle, NotifyDone, Compute, SendStamp,
         SendRecord, SendCount, SendDeliver, SendUndo, NotifyUndo, Cancel, NotifyOne
  <2> QED BY <2>1 DEF Phase, Down
<1>2. CASE SendCount(a) \/ SendUndo(a) \/ Settle(a)
  <2>1. handling[a]
    BY <1>2 DEF SendCount, SendUndo, Settle, RefInv, HandlersSend, Sending
  <2>2. inFlight' \in {inFlight + 1, inFlight - 1}
    BY <1>2 DEF SendCount, SendUndo, Settle, IncInFlight, DecInFlight
  <2> QED BY <1>1, <2>1, <2>2, HandlingCounts DEF DetectorStep
<1>3. CASE ~(SendCount(a) \/ SendUndo(a) \/ Settle(a))
  <2>1. UNCHANGED inFlight
    BY <1>3 DEF Task, Start, StartedReturns, Park, Recv, NotifyDone, Compute, SendStamp,
         SendRecord, SendDeliver, NotifyUndo, Cancel
  <2> QED BY <1>1, <2>1 DEF DetectorStep
<1> QED BY <1>2, <1>3

LEMMA StepMain ==
    ASSUME Main \/ WriterFails \/ Done \/ UNCHANGED vars
    PROVE  DetectorStep
<1>1. CASE ExternalCount
  BY <1>1 DEF ExternalCount, IncInFlight, DetectorStep, Phase, Down
<1>2. CASE RunUntilQuiescent
  BY <1>2 DEF RunUntilQuiescent, DetectorStep, Phase, Down
<1>3. CASE Check
  BY <1>3 DEF Check, DetectorStep, Phase, Down
<1>4. ASSUME \/ \E to \in Actor : ExternalStamp(to)
             \/ ExternalRecord \/ ExternalDeliver \/ Await \/ Close
             \/ \E a \in Actor : Abort(a)
             \/ WriterFails \/ UNCHANGED vars
      PROVE  UNCHANGED inFlight /\ UNCHANGED Phase
  BY <1>4 DEF ExternalStamp, ExternalRecord, ExternalDeliver, Await, Close, Abort, WriterFails,
       vars, Phase, Down
<1> QED BY <1>1, <1>2, <1>3, <1>4 DEF Main, Done, DetectorStep

\* Every step of the runtime is a step or a stutter of the abstract detector,
\* read on the messages really in flight.
LEMMA StepRefines ==
    ASSUME Quiet, RefInv, RefInv', [Next]_vars
    PROVE  [Detector!Next]_(Detector!vars)
<1>1. DetectorStep
  <2>1. ASSUME NEW a \in Actor PROVE ~Panic(a)
    BY DEF Panic, Quiet
  <2> QED BY <2>1, StepTask, StepMain DEF Next
<1>2. inFlight = Cardinality(Outstanding) /\ inFlight' = Cardinality(Outstanding')
  <2>1. Cardinality(Outstanding') \in Nat /\ inFlight' \in Int
    BY FS_CardinalityType DEF RefInv, Accounts, TypeInv, Typing
  <2> QED BY <2>1, RefInvExact DEF RefInv, Covered, Accounts
<1> QED BY <1>1, <1>2 DEF DetectorStep, Phase, Detector!Next, Detector!vars, Detector!Inject,
      Detector!Drive, Detector!Spawn, Detector!Finish, Detector!Detect

LEMMA InitRefines == Init => Detector!Init
<1> SUFFICES ASSUME Init PROVE Detector!Init
  OBVIOUS
<1>1. Outstanding = {}
  BY DEF Init, Outstanding, Queued, InHand, InTransit, Delivering, Node
<1>2. Cardinality(Outstanding) = 0
  BY <1>1, FS_EmptySet
<1>3. mpc = "setup"
  BY DEF Init
<1> QED BY <1>2, <1>3 DEF Detector!Init, Down

\* The runtime implements the detector's initial states and steps: the counter
\* and the Notify announce quiescence only when no message is in flight, and
\* no message comes from nowhere once the origins are in.
THEOREM RefinesQuiescence ==
    ASSUME Quiet
    PROVE  Spec => Detector!Init /\ [][Detector!Next]_(Detector!vars)
<1>1. RefInv /\ [Next]_vars => RefInv'
  BY RefInvNext
<1>2. RefInv /\ RefInv' /\ [Next]_vars => [Detector!Next]_(Detector!vars)
  BY StepRefines
<1> QED BY <1>1, <1>2, RefInvInit, InitRefines, PTL DEF Spec
=============================================================================
