------------------------------ MODULE LogProofs ------------------------------
(***************************************************************************)
(* Machine-checked facts about the log that ActorRuntime records, for      *)
(* every set of actors and every value of the other constants: each prefix *)
(* is causally closed, lichtung-replay accepts it, and its vector clocks   *)
(* embed its happens-before order exactly.  Then how messages, sends and   *)
(* runs end: messages of one sender to one receiver are received in order; *)
(* when the event channel is closed every message of the log was received, *)
(* if the log writer lasts and user code neither panics nor sends before   *)
(* its actor is counted; without these hypotheses, a closed run is over    *)
(* and no send leaks a count.                                              *)
(***************************************************************************)
EXTENDS RuntimeProofs, WellFoundedInduction

USE DEF taskVars, sharedVars, mainVars, logVars, Goto, MainGoto

----------------------------------------------------------------------------
(* Who is about to record an emit, and which envelopes have had theirs      *)
(* recorded: those in mailboxes and those whose sender is past that point.  *)

ToRecord(n) == IF n = World THEN mpc = "record" ELSE pc[n] = "emit"

PastRecord(n) == IF n = World THEN mpc \in {"count", "deliver"}
                              ELSE pc[n] \in {"count", "deliver", "undo"}

Boxed  == UNION {{mailbox[a][i] : i \in DOMAIN mailbox[a]} : a \in Actor}
Posted == Boxed \cup {out[n] : n \in {m \in Node : PastRecord(m)}}

\* The steps of an actor that the log channel has been told of.
Reported(a) == IF ToRecord(a) THEN seq[a] - 1 ELSE seq[a]

(***************************************************************************)
(* What the log and the tasks have to do with each other at every moment.  *)
(* Ordered: an actor's events stand in seq order, under growing clocks that *)
(* it has not outrun.  FreshIds: a message id is recorded once.  Linked: an   *)
(* envelope on its way has its emit in the log.  Numbered: no event of an  *)
(* actor is missing.  The last two hold until the log writer stops.        *)
(***************************************************************************)
Ordered ==
    \A a \in Actor : \A i \in EventsOf(a) :
      /\ recorded[i].seq <= Reported(a)
      /\ recorded[i].vclock[a] = recorded[i].seq
      /\ Leq(recorded[i].vclock, clock[a])
      /\ \A j \in EventsOf(a) : i < j => /\ recorded[i].seq < recorded[j].seq
                                         /\ Leq(recorded[i].vclock, recorded[j].vclock)

Holding == \A a \in Actor : ToRecord(a) => out[a].vclock = clock[a]

FreshIds ==
    /\ \A i \in DOMAIN recorded : IsEmit(recorded[i]) => recorded[i].msg_id <= msgId
    /\ \A i, j \in DOMAIN recorded :
         IsEmit(recorded[i]) /\ IsEmit(recorded[j]) /\ recorded[i].msg_id = recorded[j].msg_id
           => i = j
    /\ \A n \in Node : ToRecord(n) =>
         /\ out[n].msg_id <= msgId
         /\ \A i \in DOMAIN recorded : IsEmit(recorded[i]) => recorded[i].msg_id # out[n].msg_id
         /\ \A m \in Node : ToRecord(m) /\ m # n => out[m].msg_id # out[n].msg_id

EmitOf(i, env) ==
    /\ IsEmit(recorded[i])
    /\ recorded[i].msg_id = env.msg_id
    /\ recorded[i].vclock = env.vclock
    /\ recorded[i].lamport = env.lamport
    /\ recorded[i].src = env.src
    /\ recorded[i].dst = env.dst

Linked == writerUp => \A env \in Posted : \E i \in DOMAIN recorded : EmitOf(i, env)

Numbered == writerUp => \A a \in Actor : Cardinality(EventsOf(a)) = Reported(a)

LogInv == Ordered /\ Holding /\ FreshIds /\ Linked /\ Numbered /\ CausallyClosed

----------------------------------------------------------------------------
(* Clocks *)

LEMMA LeqTransitive ==
    ASSUME NEW r \in VClock, NEW s \in VClock, NEW t \in VClock, Leq(r, s), Leq(s, t)
    PROVE  Leq(r, t)
  BY DEF Leq, VClock

LEMMA LeqReflexive == \A s \in VClock : Leq(s, s)
  BY DEF Leq, VClock

LEMMA BumpGrows ==
    ASSUME NEW s \in VClock, NEW n \in Node
    PROVE  Leq(s, Bump(s, n)) /\ Bump(s, n)[n] = s[n] + 1
  BY DEF Leq, Bump, VClock

LEMMA JoinGrows ==
    ASSUME NEW s \in VClock, NEW t \in VClock
    PROVE  Leq(s, Join(s, t)) /\ Leq(t, Join(s, t))
  BY DEF Leq, Join, Larger, VClock

\* The stamp of a receipt is later than the stamp of its message.
LEMMA ReceiptIsLater ==
    ASSUME NEW s \in VClock, NEW t \in VClock, NEW n \in Node
    PROVE  Less(t, Bump(Join(s, t), n)) /\ Leq(s, Bump(Join(s, t), n))
<1>1. Join(s, t) \in VClock /\ Bump(Join(s, t), n) \in VClock
  BY JoinType, BumpType
<1>2. Leq(t, Bump(Join(s, t), n)) /\ Leq(s, Bump(Join(s, t), n))
  BY <1>1, JoinGrows, BumpGrows, LeqTransitive
<1>3. t[n] # Bump(Join(s, t), n)[n]
  <2>1. t[n] <= Join(s, t)[n] /\ t[n] \in Nat /\ Join(s, t)[n] \in Nat
    BY <1>1, JoinGrows DEF Leq, VClock
  <2> QED BY <1>1, <2>1, BumpGrows
<1> QED BY <1>2, <1>3 DEF Less

----------------------------------------------------------------------------
(* What the steps do, as far as the log is concerned. *)

\* Steps that neither stamp nor record.
Unlogged ==
    /\ UNCHANGED <<clock, seq, msgId, recorded>>
    /\ writerUp' => writerUp
    /\ \A n \in Node : ToRecord(n)' = ToRecord(n) /\ (ToRecord(n) => out'[n] = out[n])
    /\ Posted' \subseteq Posted

\* A mailbox that only loses envelopes, or gains one that is posted already.
LEMMA BoxedKept ==
    ASSUME \A a \in Actor : \A i \in DOMAIN mailbox'[a] :
             \/ \E j \in DOMAIN mailbox[a] : mailbox'[a][i] = mailbox[a][j]
             \/ mailbox'[a][i] \in Posted,
           \A n \in Node : PastRecord(n)' => PastRecord(n) /\ out'[n] = out[n]
    PROVE  Posted' \subseteq Posted
<1>1. Boxed' \subseteq Posted
  BY DEF Boxed, Posted
<1>2. {out[n] : n \in {m \in Node : PastRecord(m)}}' \subseteq {out[n] : n \in {m \in Node : PastRecord(m)}}
  OBVIOUS
<1> QED BY <1>1, <1>2 DEF Posted

LEMMA SilentTask ==
    ASSUME TypeInv, NEW a \in Actor,
           \/ Start(a) \/ StartedReturns(a) \/ Park(a) \/ Settle(a) \/ NotifyDone(a)
           \/ SendCount(a) \/ SendDeliver(a) \/ SendUndo(a) \/ NotifyUndo(a)
           \/ Cancel(a) \/ Panic(a)
    PROVE  Unlogged
<1>1. /\ pc \in [Actor -> ActorPc] /\ out \in [Node -> Envelope \cup {None}]
      /\ mailbox \in [Actor -> Seq(Envelope)] /\ World \notin Actor
      /\ a \in Node /\ a # World /\ Actor \subseteq Node
      /\ \A n \in Node : n # World => n \in Actor
  BY ActorAssumption DEF TypeInv, Typing, TaskTypes, MessageTypes, Node
<1>2. UNCHANGED <<clock, seq, msgId, recorded, writerUp>>
  BY DEF Start, StartedReturns, Park, Settle, NotifyDone, SendCount, SendDeliver, SendUndo,
         NotifyUndo, Cancel, Panic
<1>3. /\ pc[a] # "emit" /\ pc'[a] # "emit" /\ \A b \in Actor : b # a => pc'[b] = pc[b]
      /\ mpc' = mpc \/ (mpc = "parked" /\ mpc' = "check")
  BY <1>1 DEF Start, StartedReturns, Park, Settle, NotifyDone, SendCount, SendDeliver, SendUndo,
         NotifyUndo, Cancel, Panic, DecInFlight, NotifyOne
<1>4. \A n \in Node : n # a => out'[n] = out[n]
  BY <1>1 DEF Start, StartedReturns, Park, Settle, NotifyDone, SendCount, SendDeliver, SendUndo,
         NotifyUndo, Cancel, Panic
<1>5. \A n \in Node : ToRecord(n)' = ToRecord(n) /\ (ToRecord(n) => out'[n] = out[n])
  BY <1>1, <1>3, <1>4 DEF ToRecord
<1>6. \A n \in Node : PastRecord(n)' => PastRecord(n) /\ out'[n] = out[n]
  <2>1. PastRecord(a)' => PastRecord(a) /\ out'[a] = out[a]
    BY <1>1 DEF PastRecord, Start, StartedReturns, Park, Settle, NotifyDone, SendCount,
         SendDeliver, SendUndo, NotifyUndo, Cancel, Panic, DecInFlight
  <2>2. ASSUME NEW n \in Node, n # a
        PROVE  PastRecord(n)' = PastRecord(n) /\ out'[n] = out[n]
    BY <1>1, <1>3, <1>4, <2>2 DEF PastRecord
  <2> QED BY <2>1, <2>2
<1>7. \A b \in Actor : \A i \in DOMAIN mailbox'[b] :
             \/ \E j \in DOMAIN mailbox[b] : mailbox'[b][i] = mailbox[b][j]
             \/ mailbox'[b][i] \in Posted
  <2>1. CASE SendDeliver(a) /\ ~Gone(out[a].dst)
    <3>1. out[a] \in Posted
      BY <1>1, <2>1 DEF SendDeliver, Posted, PastRecord
    <3>2. /\ out[a] \in Envelope /\ out[a].dst \in Actor
          /\ mailbox' = [mailbox EXCEPT ![out[a].dst] = Append(@, out[a])]
      BY <2>1 DEF SendDeliver, TypeInv, Shape, Envelope
    <3> QED BY <1>1, <3>1, <3>2
  <2>2. CASE Cancel(a) \/ Panic(a)
    <3>1. mailbox'[a] = <<>> /\ \A b \in Actor : b # a => mailbox'[b] = mailbox[b]
      BY <1>1, <2>2 DEF Cancel, Panic
    <3>2. \A b \in Actor : mailbox'[b] = <<>> \/ mailbox'[b] = mailbox[b]
      BY <3>1
    <3>3. \A b \in Actor : \A i \in DOMAIN mailbox'[b] : mailbox'[b] = mailbox[b]
      BY <3>2
    <3> QED BY <3>3
  <2>3. CASE mailbox' = mailbox
    BY <2>3
  <2>4. CASE \/ Start(a) \/ StartedReturns(a) \/ Park(a) \/ Settle(a) \/ NotifyDone(a)
             \/ SendCount(a) \/ SendUndo(a) \/ NotifyUndo(a)
    <3>1. mailbox' = mailbox
      BY <2>4 DEF Start, StartedReturns, Park, Settle, NotifyDone, SendCount, SendUndo, NotifyUndo
    <3> QED BY <2>3, <3>1
  <2>5. CASE SendDeliver(a) /\ Gone(out[a].dst)
    <3>1. mailbox' = mailbox
      BY <2>5 DEF SendDeliver
    <3> QED BY <2>3, <3>1
  <2> QED BY <2>1, <2>2, <2>4, <2>5
<1> QED BY <1>2, <1>5, <1>6, <1>7, BoxedKept DEF Unlogged

LEMMA SilentMain ==
    ASSUME TypeInv,
           \/ ExternalCount \/ ExternalDeliver \/ RunUntilQuiescent \/ Check \/ Await
           \/ (\E a \in Actor : Abort(a)) \/ Close \/ WriterFails \/ Done \/ UNCHANGED vars
    PROVE  Unlogged
<1>1. /\ out \in [Node -> Envelope \cup {None}] /\ mailbox \in [Actor -> Seq(Envelope)]
      /\ World \notin Actor /\ World \in Node /\ \A n \in Node : n # World => n \in Actor
  BY ActorAssumption DEF TypeInv, Typing, TaskTypes, MessageTypes, Node
<1>2. UNCHANGED <<clock, seq, msgId, recorded, pc>> /\ (writerUp' => writerUp)
  BY DEF ExternalCount, ExternalDeliver, RunUntilQuiescent, Check, Await, Abort, Close,
         WriterFails, Done, vars
<1>3. (mpc # "record" /\ mpc' # "record") \/ (mpc' = mpc /\ out' = out)
  BY DEF ExternalCount, ExternalDeliver, RunUntilQuiescent, Check, Await, Abort, Close,
         WriterFails, Done, vars
<1>4. \A n \in Node : n # World => out'[n] = out[n]
  BY <1>1 DEF ExternalCount, ExternalDeliver, RunUntilQuiescent, Check, Await, Abort, Close,
         WriterFails, Done, vars
<1>5. \A n \in Node : ToRecord(n)' = ToRecord(n) /\ (ToRecord(n) => out'[n] = out[n])
  BY <1>1, <1>2, <1>3, <1>4 DEF ToRecord
<1>6. \A n \in Node : PastRecord(n)' => PastRecord(n) /\ out'[n] = out[n]
  <2>1. PastRecord(World)' => PastRecord(World) /\ out'[World] = out[World]
    BY <1>1 DEF PastRecord, ExternalCount, ExternalDeliver, RunUntilQuiescent, Check, Await, Abort,
         Close, WriterFails, Done, vars
  <2>2. ASSUME NEW n \in Node, n # World
        PROVE  PastRecord(n)' = PastRecord(n) /\ out'[n] = out[n]
    BY <1>2, <1>4, <2>2 DEF PastRecord
  <2> QED BY <2>1, <2>2
<1>7. \A b \in Actor : \A i \in DOMAIN mailbox'[b] :
             \/ \E j \in DOMAIN mailbox[b] : mailbox'[b][i] = mailbox[b][j]
             \/ mailbox'[b][i] \in Posted
  <2>1. CASE ExternalDeliver /\ ~Gone(out[World].dst)
    <3>1. out[World] \in Posted
      BY <1>1, <2>1 DEF ExternalDeliver, Posted, PastRecord
    <3>2. /\ out[World] \in Envelope /\ out[World].dst \in Actor
          /\ mailbox' = [mailbox EXCEPT ![out[World].dst] = Append(@, out[World])]
      BY <2>1 DEF ExternalDeliver, TypeInv, Shape, Envelope
    <3> QED BY <1>1, <3>1, <3>2
  <2>2. CASE mailbox' = mailbox
    BY <2>2
  <2> QED BY <2>1, <2>2
          DEF ExternalCount, ExternalDeliver, RunUntilQuiescent, Check, Await, Abort, Close,
              WriterFails, Done, vars
<1> QED BY <1>2, <1>5, <1>6, <1>7, BoxedKept DEF Unlogged

----------------------------------------------------------------------------
(* Recording *)

LEMMA RecordCases ==
    ASSUME TypeInv, NEW ev, Record(ev)
    PROVE  /\ writerUp' = writerUp
           /\ writerUp => recorded' = Append(recorded, ev)
           /\ ~writerUp => recorded' = recorded
  BY DEF Record

LEMMA AppendFacts ==
    ASSUME TypeInv, NEW ev, recorded' = Append(recorded, ev)
    PROVE  /\ Len(recorded) \in Nat
           /\ DOMAIN recorded = 1..Len(recorded)
           /\ DOMAIN recorded' = 1..(Len(recorded) + 1)
           /\ \A i \in DOMAIN recorded : i \in DOMAIN recorded' /\ recorded'[i] = recorded[i]
           /\ recorded'[Len(recorded) + 1] = ev
           /\ \A i \in DOMAIN recorded' : i \in DOMAIN recorded \/ i = Len(recorded) + 1
<1>1. recorded \in Seq(Event)
  BY DEF TypeInv, Typing, MessageTypes
<1>2. /\ Len(recorded) \in Nat
      /\ DOMAIN recorded = 1..Len(recorded)
  BY <1>1
<1>3. /\ DOMAIN recorded' = 1..(Len(recorded) + 1)
      /\ \A i \in DOMAIN recorded : recorded'[i] = recorded[i]
      /\ recorded'[Len(recorded) + 1] = ev
  BY <1>1, <1>2
<1> QED BY <1>2, <1>3

LEMMA RecordedTypes ==
    ASSUME TypeInv, NEW i \in DOMAIN recorded
    PROVE  /\ recorded[i] \in Event
           /\ recorded[i].vclock \in VClock /\ recorded[i].seq \in Nat
           /\ recorded[i].actor \in Node
<1>1. recorded[i] \in Event
  BY DEF TypeInv, Typing, MessageTypes
<1> QED BY <1>1 DEF Event

LEMMA ReportedType ==
    ASSUME TypeInv, NEW a \in Actor
    PROVE  Reported(a) \in Int /\ seq[a] \in Nat /\ clock[a] \in VClock
  BY DEF TypeInv, Typing, TaskTypes, Reported

\* What was in order stays so while clocks and counters grow ...
LEMMA OrderedKept ==
    ASSUME TypeInv, TypeInv', Ordered, UNCHANGED recorded,
           \A a \in Actor : Leq(clock[a], clock'[a]) /\ Reported(a) <= Reported(a)'
    PROVE  Ordered'
<1> SUFFICES ASSUME NEW a \in Actor, NEW i \in EventsOf(a)
             PROVE  recorded[i].seq <= Reported(a)' /\ Leq(recorded[i].vclock, clock'[a])
  BY DEF Ordered, EventsOf
<1>1. i \in DOMAIN recorded /\ recorded[i].seq <= Reported(a) /\ Leq(recorded[i].vclock, clock[a])
  BY DEF Ordered, EventsOf
<1>2. recorded[i].seq \in Nat /\ recorded[i].vclock \in VClock
  BY <1>1, RecordedTypes
<1>3. Reported(a) \in Int /\ Reported(a)' \in Int /\ clock[a] \in VClock /\ clock'[a] \in VClock
  <2>1. Reported(a)' \in Int /\ clock'[a] \in VClock
    BY DEF TypeInv, Typing, TaskTypes, Reported
  <2> QED BY <2>1, ReportedType
<1> QED BY <1>1, <1>2, <1>3, LeqTransitive

\* ... and the next event of an actor comes after all it has recorded.
LEMMA OrderedAppend ==
    ASSUME TypeInv, TypeInv', Ordered, NEW ev, recorded' = Append(recorded, ev),
           \A b \in Actor : Leq(clock[b], clock'[b]) /\ Reported(b) <= Reported(b)',
           ev.actor \in Actor =>
             /\ ev.vclock = clock'[ev.actor] /\ ev.vclock[ev.actor] = ev.seq
             /\ Reported(ev.actor) < ev.seq /\ ev.seq <= Reported(ev.actor)'
    PROVE  Ordered'
<1> DEFINE last == Len(recorded) + 1
<1>1. /\ last \in Nat /\ last \notin DOMAIN recorded
      /\ \A i \in DOMAIN recorded : i < last /\ i \in DOMAIN recorded' /\ recorded'[i] = recorded[i]
      /\ recorded'[last] = ev
      /\ \A i \in DOMAIN recorded' : i \in DOMAIN recorded \/ i = last
      /\ DOMAIN recorded \subseteq Nat
  BY AppendFacts
<1> HIDE DEF last
<1>2. \A a \in Actor : \A i \in EventsOf(a)' : i \in EventsOf(a) \/ (i = last /\ ev.actor = a)
  BY <1>1 DEF EventsOf
<1>3. \A a \in Actor : /\ Reported(a) \in Int /\ Reported(a)' \in Int
                       /\ clock[a] \in VClock /\ clock'[a] \in VClock
  <2>1. \A a \in Actor : Reported(a)' \in Int /\ clock'[a] \in VClock
    BY DEF TypeInv, Typing, TaskTypes, Reported
  <2> QED BY <2>1, ReportedType
<1>4. ASSUME NEW a \in Actor, NEW i \in EventsOf(a)
      PROVE  /\ recorded'[i] = recorded[i] /\ i < last
             /\ recorded[i].seq \in Nat /\ recorded[i].vclock \in VClock
             /\ recorded[i].seq <= Reported(a) /\ recorded[i].seq <= Reported(a)'
             /\ Leq(recorded[i].vclock, clock'[a])
  <2>1. i \in DOMAIN recorded /\ recorded[i].seq <= Reported(a) /\ Leq(recorded[i].vclock, clock[a])
    BY DEF Ordered, EventsOf
  <2>2. recorded[i].seq \in Nat /\ recorded[i].vclock \in VClock
    BY <2>1, RecordedTypes
  <2> QED BY <1>1, <1>3, <2>1, <2>2, LeqTransitive
<1>5. ASSUME NEW a \in Actor, NEW i \in EventsOf(a)'
      PROVE  /\ recorded'[i].seq <= Reported(a)'
             /\ recorded'[i].vclock[a] = recorded'[i].seq
             /\ Leq(recorded'[i].vclock, clock'[a])
             /\ \A j \in EventsOf(a)' : i < j => /\ recorded'[i].seq < recorded'[j].seq
                                                 /\ Leq(recorded'[i].vclock, recorded'[j].vclock)
  <2>1. CASE i \in EventsOf(a)
    <3>1. ASSUME NEW j \in EventsOf(a)', i < j
          PROVE  recorded'[i].seq < recorded'[j].seq /\ Leq(recorded'[i].vclock, recorded'[j].vclock)
      <4>1. CASE j \in EventsOf(a)
        BY <1>4, <2>1, <3>1, <4>1 DEF Ordered
      <4>2. CASE j = last /\ ev.actor = a
        <5>1. ev.seq \in Int
          <6>1. ev.vclock[a] \in Nat
            BY <1>3, <4>2 DEF VClock, Node
          <6> QED BY <4>2, <6>1
        <5>2. recorded'[i] = recorded[i] /\ recorded'[j] = ev /\ a = ev.actor
          BY <1>1, <1>4, <2>1, <4>2
        <5>3. /\ recorded[i].seq \in Nat /\ recorded[i].seq <= Reported(a)
              /\ Leq(recorded[i].vclock, clock'[a])
          BY <1>4, <2>1
        <5>4. Reported(a) \in Int /\ Reported(a) < ev.seq /\ ev.vclock = clock'[a]
          BY <1>3, <5>2
        <5>5. recorded[i].seq < ev.seq
          BY <5>1, <5>3, <5>4
        <5> QED BY <5>2, <5>3, <5>4, <5>5
      <4> QED BY <1>2, <4>1, <4>2
    <3> QED BY <1>4, <2>1, <3>1 DEF Ordered
  <2>2. CASE i = last /\ ev.actor = a
    <3>1. Leq(ev.vclock, clock'[a])
      BY <1>3, <2>2, LeqReflexive
    <3>2. \A j \in EventsOf(a)' : ~(i < j)
      BY <1>1, <1>2, <1>4, <2>2
    <3> QED BY <1>1, <2>2, <3>1, <3>2
  <2> QED BY <1>2, <2>1, <2>2, <1>5
<1> QED BY <1>5 DEF Ordered

LEMMA EventsOfFinite ==
    ASSUME TypeInv, NEW a \in Actor
    PROVE  IsFiniteSet(EventsOf(a)) /\ EventsOf(a) \subseteq DOMAIN recorded
<1>1. /\ Len(recorded) \in Nat /\ DOMAIN recorded = 1..Len(recorded)
      /\ EventsOf(a) \subseteq 1..Len(recorded)
  BY DEF TypeInv, Typing, MessageTypes, EventsOf
<1>2. IsFiniteSet(1..Len(recorded))
  BY <1>1, FS_Interval
<1> QED BY <1>1, <1>2, FS_Subset

LEMMA EventsOfAppend ==
    ASSUME TypeInv, NEW ev, recorded' = Append(recorded, ev), NEW a \in Actor
    PROVE  EventsOf(a)' = IF ev.actor = a THEN EventsOf(a) \cup {Len(recorded) + 1} ELSE EventsOf(a)
<1> DEFINE last == Len(recorded) + 1
<1>1. /\ \A i \in DOMAIN recorded : i \in DOMAIN recorded' /\ recorded'[i] = recorded[i]
      /\ recorded'[last] = ev /\ last \in DOMAIN recorded'
      /\ \A i \in DOMAIN recorded' : i \in DOMAIN recorded \/ i = last
  BY AppendFacts
<1> HIDE DEF last
<1>2. \A i : i \in EventsOf(a)' <=> i \in EventsOf(a) \/ (i = last /\ ev.actor = a)
  BY <1>1 DEF EventsOf
<1> QED BY <1>2 DEF last

\* No event of an actor is missing: the channel is told of each step.
LEMMA NumberedAppend ==
    ASSUME TypeInv, Numbered, writerUp, NEW ev, recorded' = Append(recorded, ev),
           \A b \in Actor : Reported(b)' = IF b = ev.actor THEN Reported(b) + 1 ELSE Reported(b)
    PROVE  Numbered'
<1> SUFFICES ASSUME NEW a \in Actor PROVE Cardinality(EventsOf(a)') = Reported(a)'
  BY DEF Numbered
<1> DEFINE last == Len(recorded) + 1
<1>1. Cardinality(EventsOf(a)) = Reported(a) /\ IsFiniteSet(EventsOf(a))
  BY EventsOfFinite DEF Numbered
<1>2. last \notin EventsOf(a)
  <2>1. last \notin DOMAIN recorded
    BY AppendFacts
  <2> QED BY <2>1, EventsOfFinite
<1> HIDE DEF last
<1>3. Cardinality(EventsOf(a) \cup {last}) = Cardinality(EventsOf(a)) + 1
  BY <1>1, <1>2, FS_AddElement
<1>4. CASE ev.actor = a
  <2>1. EventsOf(a)' = EventsOf(a) \cup {last}
    BY <1>4, EventsOfAppend DEF last
  <2> QED BY <1>1, <1>3, <1>4, <2>1
<1>5. CASE ev.actor # a
  <2>1. EventsOf(a)' = EventsOf(a)
    BY <1>5, EventsOfAppend
  <2> QED BY <1>1, <1>5, <2>1
<1> QED BY <1>4, <1>5

\* A receipt whose emit is in the log keeps the log causally closed.
LEMMA ClosedAppend ==
    ASSUME TypeInv, CausallyClosed, writerUp', Numbered', NEW ev,
           recorded' = Append(recorded, ev),
           ev.actor \in Actor => ev.seq = Reported(ev.actor)',
           IsRecv(ev) => \E i \in DOMAIN recorded :
                           /\ IsEmit(recorded[i])
                           /\ recorded[i].msg_id = ev.msg_id
                           /\ Less(recorded[i].vclock, ev.vclock)
                           /\ recorded[i].lamport < ev.lamport
    PROVE  CausallyClosed'
<1> DEFINE last == Len(recorded) + 1
<1>1. /\ last \in Nat /\ DOMAIN recorded = 1..(last - 1) /\ DOMAIN recorded' = 1..last
      /\ \A i \in DOMAIN recorded : i \in DOMAIN recorded' /\ recorded'[i] = recorded[i]
      /\ recorded'[last] = ev
      /\ \A i \in DOMAIN recorded' : i \in DOMAIN recorded \/ i = last
  BY AppendFacts
<1>2. \A a \in Actor : EventsOf(a)' = IF ev.actor = a THEN EventsOf(a) \cup {last} ELSE EventsOf(a)
  BY EventsOfAppend
<1> HIDE DEF last
<1>3. ASSUME NEW j \in DOMAIN recorded', IsRecv(recorded'[j])
      PROVE  \E i \in 1..(j - 1) : /\ IsEmit(recorded'[i])
                                   /\ recorded'[i].msg_id = recorded'[j].msg_id
                                   /\ Less(recorded'[i].vclock, recorded'[j].vclock)
                                   /\ recorded'[i].lamport < recorded'[j].lamport
  <2>1. CASE j = last
    <3>1. PICK i \in DOMAIN recorded : /\ IsEmit(recorded[i])
                                       /\ recorded[i].msg_id = ev.msg_id
                                       /\ Less(recorded[i].vclock, ev.vclock)
                                       /\ recorded[i].lamport < ev.lamport
      BY <1>1, <1>3, <2>1
    <3>2. i \in 1..(j - 1) /\ recorded'[i] = recorded[i] /\ recorded'[j] = ev
      BY <1>1, <2>1, <3>1
    <3> QED BY <3>1, <3>2
  <2>2. CASE j \in DOMAIN recorded
    <3>1. recorded'[j] = recorded[j]
      BY <1>1, <2>2
    <3>2. PICK i \in 1..(j - 1) : /\ IsEmit(recorded[i])
                                  /\ recorded[i].msg_id = recorded[j].msg_id
                                  /\ Less(recorded[i].vclock, recorded[j].vclock)
                                  /\ recorded[i].lamport < recorded[j].lamport
      BY <1>3, <2>2, <3>1 DEF CausallyClosed
    <3>3. recorded'[i] = recorded[i]
      <4>1. i \in DOMAIN recorded
        BY <1>1, <2>2, <3>2
      <4> QED BY <1>1, <4>1
    <3> QED BY <3>1, <3>2, <3>3
  <2> QED BY <1>1, <1>3, <2>1, <2>2
<1>4. ASSUME NEW a \in Actor, NEW j \in EventsOf(a)'
      PROVE  recorded'[j].seq = Cardinality({i \in EventsOf(a)' : i <= j})
  <2>0. EventsOf(a) \subseteq DOMAIN recorded
    BY EventsOfFinite
  <2>1. CASE j \in EventsOf(a)
    <3>1. {i \in EventsOf(a)' : i <= j} = {i \in EventsOf(a) : i <= j}
      <4>1. j <= last - 1 /\ j \in Nat
        BY <1>1, <2>0, <2>1
      <4>2. ~(last <= j)
        BY <1>1, <4>1
      <4> QED BY <1>2, <4>2
    <3>2. recorded[j].seq = Cardinality({i \in EventsOf(a) : i <= j})
      BY <2>1 DEF CausallyClosed
    <3>3. recorded'[j] = recorded[j]
      BY <1>1, <2>0, <2>1
    <3> QED BY <3>1, <3>2, <3>3
  <2>2. CASE j = last /\ ev.actor = a
    <3>1. \A i \in EventsOf(a)' : i <= last
      <4>1. \A i \in DOMAIN recorded : i <= last
        BY <1>1
      <4>2. last <= last
        BY <1>1
      <4> QED BY <1>2, <2>0, <4>1, <4>2
    <3>2. {i \in EventsOf(a)' : i <= j} = EventsOf(a)'
      BY <2>2, <3>1
    <3>3. recorded'[j].seq = Reported(a)' /\ Reported(a)' = Cardinality(EventsOf(a)')
      BY <1>1, <2>2 DEF Numbered
    <3> QED BY <3>2, <3>3
  <2> QED BY <1>2, <1>4, <2>1, <2>2
<1> QED BY <1>3, <1>4 DEF CausallyClosed

\* The emits that are in the log stay there, and the new one is found.
LEMMA LinkedAppend ==
    ASSUME TypeInv, Linked, writerUp, NEW ev, recorded' = Append(recorded, ev),
           \A env \in Posted' : \/ env \in Posted
                                \/ /\ IsEmit(ev) /\ ev.msg_id = env.msg_id
                                   /\ ev.vclock = env.vclock /\ ev.lamport = env.lamport
                                   /\ ev.src = env.src /\ ev.dst = env.dst
    PROVE  Linked'
<1> SUFFICES ASSUME NEW env \in Posted'
             PROVE  \E i \in DOMAIN recorded' : /\ IsEmit(recorded'[i])
                                                /\ recorded'[i].msg_id = env.msg_id
                                                /\ recorded'[i].vclock = env.vclock
                                                /\ recorded'[i].lamport = env.lamport
                                                /\ recorded'[i].src = env.src
                                                /\ recorded'[i].dst = env.dst
  BY DEF Linked, EmitOf
<1>1. /\ \A i \in DOMAIN recorded : i \in DOMAIN recorded' /\ recorded'[i] = recorded[i]
      /\ recorded'[Len(recorded) + 1] = ev /\ Len(recorded) + 1 \in DOMAIN recorded'
  BY AppendFacts
<1>2. CASE env \in Posted
  <2>1. PICK i \in DOMAIN recorded : EmitOf(i, env)
    BY <1>2 DEF Linked
  <2> QED BY <1>1, <2>1 DEF EmitOf
<1>3. CASE env \notin Posted
  BY <1>1, <1>3
<1> QED BY <1>2, <1>3

----------------------------------------------------------------------------
(* Message ids *)

LEMMA EmitIds ==
    ASSUME TypeInv
    PROVE  /\ msgId \in Nat
           /\ \A i \in DOMAIN recorded : IsEmit(recorded[i]) => recorded[i].msg_id \in Nat
           /\ \A n \in Node : ToRecord(n) => out[n] \in Envelope /\ out[n].msg_id \in Nat
<1>1. msgId \in Nat
  BY DEF TypeInv, Typing, MessageTypes
<1>2. ASSUME NEW i \in DOMAIN recorded, IsEmit(recorded[i]) PROVE recorded[i].msg_id \in Nat
  BY <1>2, RecordedTypes DEF Event, IsEmit
<1>3. ASSUME NEW n \in Node, ToRecord(n) PROVE out[n] \in Envelope /\ out[n].msg_id \in Nat
  <2>1. out[n] \in Envelope
    BY <1>3 DEF TypeInv, Shape, ToRecord, Node
  <2> QED BY <2>1 DEF Envelope
<1> QED BY <1>1, <1>2, <1>3

\* Steps that record no emit and draw no id.
LEMMA FreshKept ==
    ASSUME FreshIds, UNCHANGED msgId,
           \A i \in DOMAIN recorded' : IsEmit(recorded'[i]) =>
             i \in DOMAIN recorded /\ recorded'[i] = recorded[i],
           \A n \in Node : ToRecord(n)' => ToRecord(n) /\ out'[n] = out[n]
    PROVE  FreshIds'
  BY DEF FreshIds

\* An id that has just been drawn is larger than all others.
LEMMA FreshStamp ==
    ASSUME TypeInv, FreshIds, UNCHANGED recorded, msgId' = msgId + 1, NEW n \in Node,
           out'[n].msg_id = msgId + 1,
           \A m \in Node : m # n => ToRecord(m)' = ToRecord(m) /\ out'[m] = out[m]
    PROVE  FreshIds'
<1>1. \A i \in DOMAIN recorded : IsEmit(recorded[i]) =>
        recorded[i].msg_id \in Nat /\ recorded[i].msg_id <= msgId
  BY EmitIds DEF FreshIds
<1>2. \A m \in Node : m # n /\ ToRecord(m) => out[m].msg_id \in Nat /\ out[m].msg_id <= msgId
  BY EmitIds DEF FreshIds
<1>3. msgId \in Nat
  BY EmitIds
<1>4. \A i \in DOMAIN recorded' : IsEmit(recorded'[i]) => recorded'[i].msg_id <= msgId'
  BY <1>1, <1>3
<1>5. \A i, j \in DOMAIN recorded' :
         IsEmit(recorded'[i]) /\ IsEmit(recorded'[j]) /\ recorded'[i].msg_id = recorded'[j].msg_id
           => i = j
  BY DEF FreshIds
<1>6. ASSUME NEW m \in Node, ToRecord(m)'
      PROVE  /\ out'[m].msg_id <= msgId'
             /\ \A i \in DOMAIN recorded' : IsEmit(recorded'[i]) => recorded'[i].msg_id # out'[m].msg_id
             /\ \A k \in Node : ToRecord(k)' /\ k # m => out'[k].msg_id # out'[m].msg_id
  <2>1. CASE m = n
    <3>1. \A k \in Node : ToRecord(k)' /\ k # m => out'[k].msg_id # out'[m].msg_id
      BY <1>2, <1>3, <2>1
    <3>2. \A i \in DOMAIN recorded' : IsEmit(recorded'[i]) => recorded'[i].msg_id # out'[m].msg_id
      BY <1>1, <1>3, <2>1
    <3> QED BY <1>3, <2>1, <3>1, <3>2
  <2>2. CASE m # n
    <3>1. ToRecord(m) /\ out'[m] = out[m]
      BY <1>6, <2>2
    <3>2. out[m].msg_id \in Nat /\ out[m].msg_id <= msgId
      BY <1>2, <2>2, <3>1
    <3>3. \A i \in DOMAIN recorded' : IsEmit(recorded'[i]) => recorded'[i].msg_id # out'[m].msg_id
      BY <3>1 DEF FreshIds
    <3>4. ASSUME NEW k \in Node, ToRecord(k)', k # m PROVE out'[k].msg_id # out'[m].msg_id
      <4>1. CASE k = n
        BY <1>3, <3>1, <3>2, <4>1
      <4>2. CASE k # n
        BY <3>1, <3>4, <4>2 DEF FreshIds
      <4> QED BY <4>1, <4>2
    <3> QED BY <1>3, <3>1, <3>2, <3>3, <3>4
  <2> QED BY <2>1, <2>2
<1> QED BY <1>4, <1>5, <1>6 DEF FreshIds

\* A sender records its own id, which is in no other hand.
LEMMA FreshRecord ==
    ASSUME TypeInv, FreshIds, NEW n \in Node, ToRecord(n), UNCHANGED <<msgId, out>>,
           NEW ev, ev.msg_id = out[n].msg_id,
           recorded' \in {recorded, Append(recorded, ev)},
           \A m \in Node : ToRecord(m)' => ToRecord(m) /\ m # n
    PROVE  FreshIds'
<1>1. CASE recorded' = recorded
  BY <1>1, FreshKept
<1>2. CASE recorded' = Append(recorded, ev)
  <2> DEFINE last == Len(recorded) + 1
  <2>1. /\ recorded'[last] = ev
        /\ \A i \in DOMAIN recorded' : i = last \/ (i \in DOMAIN recorded /\ recorded'[i] = recorded[i])
    BY <1>2, AppendFacts
  <2> HIDE DEF last
  <2>2. \A i \in DOMAIN recorded : IsEmit(recorded[i]) => recorded[i].msg_id # ev.msg_id
    BY DEF FreshIds
  <2>3. \A i \in DOMAIN recorded' : IsEmit(recorded'[i]) => recorded'[i].msg_id <= msgId'
    BY <2>1 DEF FreshIds
  <2>4. \A i, j \in DOMAIN recorded' :
           IsEmit(recorded'[i]) /\ IsEmit(recorded'[j]) /\ recorded'[i].msg_id = recorded'[j].msg_id
             => i = j
    BY <2>1, <2>2 DEF FreshIds
  <2>5. ASSUME NEW m \in Node, ToRecord(m)'
        PROVE  /\ out'[m].msg_id <= msgId'
               /\ \A i \in DOMAIN recorded' : IsEmit(recorded'[i]) => recorded'[i].msg_id # out'[m].msg_id
               /\ \A k \in Node : ToRecord(k)' /\ k # m => out'[k].msg_id # out'[m].msg_id
    <3>1. ToRecord(m) /\ m # n
      BY <2>5
    <3>2. out[m].msg_id # ev.msg_id
      BY <3>1 DEF FreshIds
    <3> QED BY <2>1, <3>1, <3>2 DEF FreshIds
  <2> QED BY <2>3, <2>4, <2>5 DEF FreshIds
<1> QED BY <1>1, <1>2

----------------------------------------------------------------------------
(* The steps *)

LEMMA LogInvSilent ==
    ASSUME TypeInv, TypeInv', LogInv, Unlogged
    PROVE  LogInv'
<1>1. UNCHANGED <<clock, seq, msgId, recorded>> /\ Posted' \subseteq Posted
  BY DEF Unlogged
<1>2. \A n \in Node : ToRecord(n)' = ToRecord(n) /\ (ToRecord(n) => out'[n] = out[n])
  BY DEF Unlogged
<1>3. \A a \in Actor : Reported(a)' = Reported(a) /\ a \in Node
  BY <1>1, <1>2 DEF Reported, Node
<1>4. Ordered'
  <2>1. \A a \in Actor : Leq(clock[a], clock'[a]) /\ Reported(a) <= Reported(a)'
    BY <1>1, <1>3, ReportedType, LeqReflexive
  <2> QED BY <1>1, <2>1, OrderedKept DEF LogInv
<1>5. Holding'
  BY <1>1, <1>2, <1>3 DEF LogInv, Holding
<1>6. FreshIds'
  BY <1>1, <1>2, FreshKept DEF LogInv
<1>7. Linked'
  BY <1>1 DEF LogInv, Linked, EmitOf, Unlogged
<1>8. Numbered'
  BY <1>1, <1>3 DEF LogInv, Numbered, EventsOf, Unlogged
<1>9. CausallyClosed'
  BY <1>1 DEF LogInv, CausallyClosed, EventsOf
<1> QED BY <1>4, <1>5, <1>6, <1>7, <1>8, <1>9 DEF LogInv

\* An actor performs and reports a step that is no send.
LEMMA LogInvPerform ==
    ASSUME TypeInv, TypeInv', LogInv, NEW a \in Actor, NEW ev, Record(ev),
           ev.actor = a, ev.seq = seq[a] + 1, ev.vclock = clock'[a], ev.vclock[a] = ev.seq,
           ~IsEmit(ev),
           writerUp /\ IsRecv(ev) =>
             \E i \in DOMAIN recorded :
               /\ IsEmit(recorded[i])
               /\ recorded[i].msg_id = ev.msg_id
               /\ Less(recorded[i].vclock, ev.vclock)
               /\ recorded[i].lamport < ev.lamport,
           seq' = [seq EXCEPT ![a] = @ + 1],
           Leq(clock[a], clock'[a]), \A b \in Actor : b # a => clock'[b] = clock[b],
           UNCHANGED <<msgId, out>>, Posted' \subseteq Posted,
           ~ToRecord(a), \A n \in Node : ToRecord(n)' = ToRecord(n)
    PROVE  LogInv'
<1>1. /\ writerUp' = writerUp
      /\ writerUp => recorded' = Append(recorded, ev)
      /\ ~writerUp => recorded' = recorded
  BY RecordCases
<1>2. \A b \in Actor : Reported(b)' = IF b = a THEN Reported(b) + 1 ELSE Reported(b)
  <2>1. seq \in [Actor -> Nat]
    BY DEF TypeInv, Typing, TaskTypes
  <2> QED BY <2>1 DEF Reported, Node
<1>3. \A b \in Actor : Leq(clock[b], clock'[b]) /\ Reported(b) <= Reported(b)'
  BY <1>2, ReportedType, LeqReflexive
<1>4. Reported(a) < ev.seq /\ ev.seq = Reported(a)' /\ ev.seq <= Reported(a)'
  <2>1. Reported(a) = seq[a] /\ seq[a] \in Nat
    BY ReportedType DEF Reported
  <2> QED BY <1>2, <2>1
<1>5. Holding'
  BY DEF LogInv, Holding, Node
<1>6. CASE writerUp
  <2>1. recorded' = Append(recorded, ev)
    BY <1>1, <1>6
  <2>2. Ordered'
    BY <1>3, <1>4, <2>1, OrderedAppend DEF LogInv
  <2>3. FreshIds'
    <3>1. \A i \in DOMAIN recorded' : IsEmit(recorded'[i]) =>
             i \in DOMAIN recorded /\ recorded'[i] = recorded[i]
      BY <2>1, AppendFacts
    <3> QED BY <3>1, FreshKept DEF LogInv
  <2>4. Linked'
    BY <1>6, <2>1, LinkedAppend DEF LogInv
  <2>5. Numbered'
    BY <1>2, <1>6, <2>1, NumberedAppend DEF LogInv
  <2>6. CausallyClosed'
    BY <1>1, <1>4, <1>6, <2>1, <2>5, ClosedAppend DEF LogInv
  <2> QED BY <1>5, <2>2, <2>3, <2>4, <2>5, <2>6 DEF LogInv
<1>7. CASE ~writerUp
  <2>1. UNCHANGED <<recorded, writerUp>>
    BY <1>1, <1>7
  <2>2. Ordered'
    BY <1>3, <2>1, OrderedKept DEF LogInv
  <2>3. FreshIds'
    BY <2>1, FreshKept DEF LogInv
  <2>4. CausallyClosed'
    BY <2>1 DEF LogInv, CausallyClosed, EventsOf
  <2> QED BY <1>5, <1>7, <2>1, <2>2, <2>3, <2>4 DEF LogInv, Linked, Numbered
<1> QED BY <1>6, <1>7

\* A sender, which may be the main task, reports the emit it has stamped.
LEMMA LogInvReport ==
    ASSUME TypeInv, TypeInv', LogInv, NEW n \in Node, NEW k, NEW ev,
           Record(ev), ev = EmitEvent(n, k, out[n]),
           n \in Actor => k = seq[n] /\ clock[n][n] = seq[n],
           UNCHANGED <<clock, seq, msgId, out>>, Posted' \subseteq Posted \cup {out[n]},
           ToRecord(n), \A m \in Node : ToRecord(m)' = (ToRecord(m) /\ m # n)
    PROVE  LogInv'
<1>0. /\ ev.actor = n /\ ev.seq = k /\ ev.vclock = out[n].vclock
      /\ ev.lamport = out[n].lamport /\ ev.msg_id = out[n].msg_id
      /\ ev.src = out[n].src /\ ev.dst = out[n].dst
      /\ IsEmit(ev) /\ ~IsRecv(ev)
  <2>1. out[n].msg_id # None
    BY EmitIds, NoIdAssumption
  <2> QED BY <2>1 DEF EmitEvent, IsEmit, IsRecv
<1>1. /\ writerUp' = writerUp
      /\ writerUp => recorded' = Append(recorded, ev)
      /\ ~writerUp => recorded' = recorded
  BY RecordCases
<1>2. \A b \in Actor : Reported(b)' = IF b = ev.actor THEN Reported(b) + 1 ELSE Reported(b)
  <2> TAKE b \in Actor
  <2>1. seq[b] \in Nat /\ seq' = seq /\ b \in Node
    BY ReportedType DEF Node
  <2>2. CASE b = n
    <3>1. ToRecord(b) /\ ~ToRecord(b)'
      BY <2>1, <2>2
    <3>2. Reported(b) = seq[b] - 1 /\ Reported(b)' = seq'[b]
      BY <3>1 DEF Reported
    <3>3. ev.actor = b /\ seq[b] = (seq[b] - 1) + 1
      BY <1>0, <2>1, <2>2
    <3> QED BY <2>1, <3>2, <3>3
  <2>3. CASE b # n
    <3>1. ToRecord(b)' = ToRecord(b)
      BY <2>1, <2>3 DEF ToRecord
    <3> QED BY <1>0, <2>1, <2>3, <3>1 DEF Reported
  <2> QED BY <2>2, <2>3
<1>3. \A b \in Actor : Leq(clock[b], clock'[b]) /\ Reported(b) <= Reported(b)'
  BY <1>2, ReportedType, LeqReflexive
<1>4. ev.actor \in Actor =>
        /\ ev.vclock = clock'[ev.actor] /\ ev.vclock[ev.actor] = ev.seq
        /\ Reported(ev.actor) < ev.seq /\ ev.seq = Reported(ev.actor)' /\ ev.seq <= Reported(ev.actor)'
  <2> SUFFICES ASSUME n \in Actor
               PROVE  /\ ev.vclock = clock'[n] /\ ev.vclock[n] = ev.seq
                      /\ Reported(n) < ev.seq /\ ev.seq = Reported(n)' /\ ev.seq <= Reported(n)'
    BY <1>0
  <2>1. ev.vclock = clock[n]
    BY <1>0 DEF LogInv, Holding
  <2>2. Reported(n) = seq[n] - 1 /\ seq[n] \in Nat
    BY ReportedType DEF Reported
  <2> QED BY <1>0, <1>2, <2>1, <2>2
<1>5. Holding'
  BY DEF LogInv, Holding, Node
<1>6. FreshIds'
  <2>1. recorded' \in {recorded, Append(recorded, ev)}
    BY <1>1
  <2> QED BY <1>0, <2>1, FreshRecord DEF LogInv
<1>7. CASE writerUp
  <2>1. recorded' = Append(recorded, ev)
    BY <1>1, <1>7
  <2>2. Ordered'
    BY <1>3, <1>4, <2>1, OrderedAppend DEF LogInv
  <2>3. Linked'
    BY <1>0, <1>7, <2>1, LinkedAppend DEF LogInv
  <2>4. Numbered'
    BY <1>2, <1>7, <2>1, NumberedAppend DEF LogInv
  <2>5. CausallyClosed'
    BY <1>0, <1>1, <1>4, <1>7, <2>1, <2>4, ClosedAppend DEF LogInv
  <2> QED BY <1>5, <1>6, <2>2, <2>3, <2>4, <2>5 DEF LogInv
<1>8. CASE ~writerUp
  <2>1. UNCHANGED <<recorded, writerUp>>
    BY <1>1, <1>8
  <2>2. Ordered'
    BY <1>3, <2>1, OrderedKept DEF LogInv
  <2>3. CausallyClosed'
    BY <2>1 DEF LogInv, CausallyClosed, EventsOf
  <2> QED BY <1>5, <1>6, <1>8, <2>1, <2>2, <2>3 DEF LogInv, Linked, Numbered
<1> QED BY <1>7, <1>8

\* A sender stamps an envelope and has not reported it yet.
LEMMA LogInvStamp ==
    ASSUME TypeInv, TypeInv', LogInv, NEW n \in Node, UNCHANGED <<recorded, writerUp>>,
           msgId' = msgId + 1, out'[n].msg_id = msgId + 1,
           n \in Actor => out'[n].vclock = clock'[n] /\ Leq(clock[n], clock'[n]),
           \A a \in Actor : a # n => clock'[a] = clock[a],
           \A a \in Actor : Reported(a)' = Reported(a),
           \A m \in Node : m # n => ToRecord(m)' = ToRecord(m) /\ out'[m] = out[m],
           Posted' \subseteq Posted
    PROVE  LogInv'
<1>1. Ordered'
  <2>1. \A a \in Actor : Leq(clock[a], clock'[a]) /\ Reported(a) <= Reported(a)'
    BY ReportedType, LeqReflexive
  <2> QED BY <2>1, OrderedKept DEF LogInv
<1>2. Holding'
  BY DEF LogInv, Holding, Node
<1>3. FreshIds'
  BY FreshStamp DEF LogInv
<1>4. Linked'
  BY DEF LogInv, Linked, EmitOf
<1>5. Numbered'
  BY DEF LogInv, Numbered, EventsOf
<1>6. CausallyClosed'
  BY DEF LogInv, CausallyClosed, EventsOf
<1> QED BY <1>1, <1>2, <1>3, <1>4, <1>5, <1>6 DEF LogInv

\* A receipt follows its emit, in the log and in the clocks.
LEMMA LogInvRecv ==
    ASSUME TypeInv, TypeInv', NoClockAhead, LogInv, NEW a \in Actor, Recv(a)
    PROVE  LogInv'
<1> DEFINE env == Head(mailbox[a])
<1>1. PICK e, vc, lam :
        /\ e = env
        /\ vc = Bump(Join(clock[a], e.vclock), a)
        /\ lam = Update(lamport[a], e.lamport)
        /\ clock' = [clock EXCEPT ![a] = vc]
        /\ seq' = [seq EXCEPT ![a] = @ + 1]
        /\ Record(RecvEvent(a, seq[a] + 1, vc, lam, e))
        /\ mailbox[a] # <<>> /\ mailbox' = [mailbox EXCEPT ![a] = Tail(@)]
        /\ pc' = [pc EXCEPT ![a] = IF e.typed THEN "user" ELSE "mistyped"]
        /\ pc[a] \in {"loop", "parked"}
        /\ UNCHANGED <<out, msgId, sharedVars, mainVars>>
  BY DEF Recv
<1>2. PICK ev : ev = RecvEvent(a, seq[a] + 1, vc, lam, e)
  OBVIOUS
<1>3. /\ clock \in [Actor -> VClock] /\ seq \in [Actor -> Nat] /\ lamport[a] \in Nat
      /\ mailbox \in [Actor -> Seq(Envelope)] /\ pc \in [Actor -> ActorPc]
      /\ World \notin Actor /\ a \in Node /\ clock[a][a] = seq[a]
      /\ \A n \in Node : n # World => n \in Actor
  BY ActorAssumption DEF TypeInv, Typing, TaskTypes, MessageTypes, NoClockAhead, Node
<1>4. /\ e = mailbox[a][1] /\ 1 \in DOMAIN mailbox[a] /\ e \in Envelope
      /\ \A i \in DOMAIN Tail(mailbox[a]) :
           i + 1 \in DOMAIN mailbox[a] /\ Tail(mailbox[a])[i] = mailbox[a][i + 1]
  BY <1>1, <1>3
<1>5. e.vclock \in VClock /\ e.lamport \in Nat /\ e \in Posted
  BY <1>4 DEF Envelope, Posted, Boxed
<1>6. Less(e.vclock, vc) /\ Leq(clock[a], vc) /\ e.lamport < lam /\ vc[a] = seq[a] + 1
  <2>1. Less(e.vclock, vc) /\ Leq(clock[a], vc)
    BY <1>1, <1>3, <1>5, ReceiptIsLater
  <2>2. e.lamport < lam
    BY <1>1, <1>3, <1>5 DEF Update, Larger
  <2>3. Join(clock[a], e.vclock)[a] = seq[a]
    <3>1. e.vclock[a] <= seq[a]
      <4>1. Grounded(e.vclock, seq)
        BY <1>4 DEF NoClockAhead
      <4> QED BY <1>3, <4>1 DEF Grounded
    <3>2. clock[a] \in [Node -> Nat] /\ e.vclock[a] \in Nat
      BY <1>3, <1>5 DEF VClock
    <3>3. Join(clock[a], e.vclock)[a] = Larger(clock[a][a], e.vclock[a])
      BY <1>3, <3>2 DEF Join
    <3> QED BY <1>3, <3>1, <3>2, <3>3 DEF Larger
  <2>4. vc[a] = seq[a] + 1
    BY <1>1, <1>3, <1>5, <2>3, JoinType, BumpGrows
  <2> QED BY <2>1, <2>2, <2>4
<1>7. /\ ev.actor = a /\ ev.seq = seq[a] + 1 /\ ev.vclock = vc /\ ev.lamport = lam
      /\ ev.msg_id = e.msg_id /\ ~IsEmit(ev)
  BY <1>2 DEF RecvEvent, IsEmit
<1>8. writerUp => \E i \in DOMAIN recorded : /\ IsEmit(recorded[i])
                                             /\ recorded[i].msg_id = ev.msg_id
                                             /\ Less(recorded[i].vclock, ev.vclock)
                                             /\ recorded[i].lamport < ev.lamport
  <2> HAVE writerUp
  <2>1. PICK i \in DOMAIN recorded : EmitOf(i, e)
    BY <1>5 DEF LogInv, Linked
  <2> QED BY <1>6, <1>7, <2>1 DEF EmitOf
<1>9. ~ToRecord(a) /\ \A n \in Node : ToRecord(n)' = ToRecord(n)
  <2>1. /\ pc'[a] # "emit" /\ pc[a] # "emit" /\ mpc' = mpc /\ a # World
        /\ \A b \in Actor : b # a => pc'[b] = pc[b]
    BY <1>1, <1>3
  <2> QED BY <1>3, <2>1 DEF ToRecord
<1>10. Posted' \subseteq Posted
  <2>1. \A b \in Actor : \A i \in DOMAIN mailbox'[b] :
          \E j \in DOMAIN mailbox[b] : mailbox'[b][i] = mailbox[b][j]
    BY <1>1, <1>3, <1>4
  <2>2. \A n \in Node : PastRecord(n)' => PastRecord(n) /\ out'[n] = out[n]
    BY <1>1, <1>3 DEF PastRecord
  <2> QED BY <2>1, <2>2, BoxedKept
<1>11. clock'[a] = vc /\ \A b \in Actor : b # a => clock'[b] = clock[b]
  BY <1>1, <1>3
<1> QED BY <1>1, <1>2, <1>6, <1>7, <1>8, <1>9, <1>10, <1>11, LogInvPerform

LEMMA LogInvCompute ==
    ASSUME TypeInv, TypeInv', NoClockAhead, LogInv, NEW a \in Actor, Compute(a)
    PROVE  LogInv'
<1>1. PICK vc, lam :
        /\ vc = Bump(clock[a], a)
        /\ clock' = [clock EXCEPT ![a] = vc]
        /\ seq' = [seq EXCEPT ![a] = @ + 1]
        /\ Record(ComputeEvent(a, seq[a] + 1, vc, lam))
        /\ pc[a] = "user"
        /\ UNCHANGED <<pc, handling, out, mailbox, msgId, sharedVars, mainVars>>
  BY DEF Compute, InUserCode
<1>2. PICK ev : ev = ComputeEvent(a, seq[a] + 1, vc, lam)
  OBVIOUS
<1>3. clock \in [Actor -> VClock] /\ a \in Node /\ clock[a][a] = seq[a] /\ World \notin Actor
  BY ActorAssumption DEF TypeInv, Typing, TaskTypes, NoClockAhead, Node
<1>4. Leq(clock[a], vc) /\ vc[a] = seq[a] + 1
  BY <1>1, <1>3, BumpGrows
<1>5. /\ ev.actor = a /\ ev.seq = seq[a] + 1 /\ ev.vclock = vc /\ ~IsEmit(ev) /\ ~IsRecv(ev)
  BY <1>2 DEF ComputeEvent, IsEmit, IsRecv
<1>6. ~ToRecord(a) /\ (\A n \in Node : ToRecord(n)' = ToRecord(n)) /\ Posted' \subseteq Posted
  BY <1>1, <1>3 DEF ToRecord, Posted, Boxed, PastRecord
<1>7. clock'[a] = vc /\ \A b \in Actor : b # a => clock'[b] = clock[b]
  BY <1>1, <1>3
<1> QED BY <1>1, <1>2, <1>4, <1>5, <1>6, <1>7, LogInvPerform

LEMMA LogInvSend ==
    ASSUME TypeInv, TypeInv', NoClockAhead, LogInv, NEW a \in Actor,
           SendRecord(a) \/ \E to \in Actor : SendStamp(a, to)
    PROVE  LogInv'
<1>1. /\ clock \in [Actor -> VClock] /\ seq \in [Actor -> Nat] /\ pc \in [Actor -> ActorPc]
      /\ out \in [Node -> Envelope \cup {None}]
      /\ a \in Node /\ clock[a][a] = seq[a] /\ a # World
      /\ \A n \in Node : n # World => n \in Actor
  BY ActorAssumption DEF TypeInv, Typing, TaskTypes, MessageTypes, NoClockAhead, Node
<1>2. CASE SendRecord(a)
  <2>1. PICK ev : ev = EmitEvent(a, seq[a], out[a])
    OBVIOUS
  <2>2. /\ pc[a] = "emit" /\ pc' = [pc EXCEPT ![a] = "count"] /\ Record(ev)
        /\ UNCHANGED <<taskVars, handling, out, mailbox, msgId, sharedVars, mainVars>>
    BY <1>2, <2>1 DEF SendRecord
  <2>3. ToRecord(a) /\ \A n \in Node : ToRecord(n)' = (ToRecord(n) /\ n # a)
    BY <1>1, <2>2 DEF ToRecord
  <2>4. Posted' \subseteq Posted \cup {out[a]}
    <3>1. \A n \in Node : PastRecord(n)' => PastRecord(n) \/ n = a
      BY <1>1, <2>2 DEF PastRecord
    <3> QED BY <2>2, <3>1 DEF Posted, Boxed
  <2> QED BY <1>1, <2>1, <2>2, <2>3, <2>4, LogInvReport
<1>3. CASE \E to \in Actor : SendStamp(a, to)
  <2>1. PICK e, vc : /\ vc = Bump(clock[a], a)
                     /\ e.vclock = vc /\ e.msg_id = msgId + 1
                     /\ out' = [out EXCEPT ![a] = e]
                     /\ clock' = [clock EXCEPT ![a] = vc]
                     /\ seq' = [seq EXCEPT ![a] = @ + 1]
                     /\ msgId' = msgId + 1
                     /\ pc[a] = "user" /\ pc' = [pc EXCEPT ![a] = "emit"]
                     /\ UNCHANGED <<handling, mailbox, sharedVars, logVars, mainVars>>
    BY <1>1, <1>3 DEF SendStamp, InUserCode
  <2>2. out'[a] = e /\ clock'[a] = vc /\ Leq(clock[a], vc)
    BY <1>1, <2>1, BumpGrows
  <2>3. \A n \in Node : n # a => ToRecord(n)' = ToRecord(n) /\ out'[n] = out[n]
    BY <1>1, <2>1 DEF ToRecord
  <2>4. \A b \in Actor : b # a => clock'[b] = clock[b]
    BY <1>1, <2>1
  <2>5. \A b \in Actor : Reported(b)' = Reported(b)
    <3> TAKE b \in Actor
    <3>1. CASE b = a
      <4>1. ~ToRecord(b) /\ ToRecord(b)' /\ seq'[b] = seq[b] + 1 /\ seq[b] \in Nat
        BY <1>1, <2>1, <3>1 DEF ToRecord
      <4>2. Reported(b)' = seq'[b] - 1 /\ Reported(b) = seq[b]
        BY <4>1 DEF Reported
      <4> QED BY <4>1, <4>2
    <3>2. CASE b # a
      BY <1>1, <2>1, <2>3, <3>2 DEF Reported, Node
    <3> QED BY <3>1, <3>2
  <2>6. Posted' \subseteq Posted
    <3>1. \A n \in Node : PastRecord(n)' => PastRecord(n) /\ out'[n] = out[n]
      BY <1>1, <2>1 DEF PastRecord
    <3> QED BY <2>1, <3>1 DEF Posted, Boxed
  <2> QED BY <1>1, <2>1, <2>2, <2>3, <2>4, <2>5, <2>6, LogInvStamp
<1> QED BY <1>2, <1>3

LEMMA LogInvExternal ==
    ASSUME TypeInv, TypeInv', LogInv, ExternalRecord \/ \E to \in Actor : ExternalStamp(to)
    PROVE  LogInv'
<1>1. /\ clock \in [Actor -> VClock] /\ out \in [Node -> Envelope \cup {None}]
      /\ World \in Node /\ World \notin Actor
  BY ActorAssumption DEF TypeInv, Typing, TaskTypes, MessageTypes, Node
<1>2. CASE ExternalRecord
  <2>1. PICK ev : ev = EmitEvent(World, 1, out[World])
    OBVIOUS
  <2>2. /\ mpc = "record" /\ mpc' = "count" /\ Record(ev)
        /\ UNCHANGED <<taskVars, pc, handling, out, mailbox, msgId, sharedVars, aborted, origins>>
    BY <1>2, <2>1 DEF ExternalRecord
  <2>3. ToRecord(World) /\ \A n \in Node : ToRecord(n)' = (ToRecord(n) /\ n # World)
    BY <2>2 DEF ToRecord
  <2>4. Posted' \subseteq Posted \cup {out[World]}
    <3>1. \A n \in Node : PastRecord(n)' => PastRecord(n) \/ n = World
      BY <2>2 DEF PastRecord
    <3> QED BY <2>2, <3>1 DEF Posted, Boxed
  <2> QED BY <1>1, <2>1, <2>2, <2>3, <2>4, LogInvReport
<1>3. CASE \E to \in Actor : ExternalStamp(to)
  <2>1. PICK e : /\ e.msg_id = msgId + 1
                 /\ out' = [out EXCEPT ![World] = e]
                 /\ msgId' = msgId + 1
                 /\ mpc = "setup" /\ mpc' = "record"
                 /\ UNCHANGED <<taskVars, pc, handling, mailbox, sharedVars, logVars, aborted>>
    BY <1>3 DEF ExternalStamp
  <2>2. out'[World] = e
    BY <1>1, <2>1
  <2>3. \A n \in Node : n # World => ToRecord(n)' = ToRecord(n) /\ out'[n] = out[n]
    BY <1>1, <2>1 DEF ToRecord
  <2>4. \A b \in Actor : Reported(b)' = Reported(b)
    BY <1>1, <2>1, <2>3 DEF Reported, Node
  <2>5. Posted' \subseteq Posted
    <3>1. \A n \in Node : PastRecord(n)' => PastRecord(n) /\ out'[n] = out[n]
      BY <1>1, <2>1 DEF PastRecord
    <3> QED BY <2>1, <3>1 DEF Posted, Boxed
  <2> QED BY <1>1, <2>1, <2>2, <2>3, <2>4, <2>5, LogInvStamp
<1> QED BY <1>2, <1>3

LEMMA LogInvInit == Init => LogInv
<1> SUFFICES ASSUME Init PROVE LogInv
  OBVIOUS
<1>1. recorded = <<>> /\ DOMAIN recorded = {} /\ \A a \in Actor : EventsOf(a) = {}
  BY DEF Init, EventsOf
<1>2. World \notin Actor /\ \A n \in Node : ~ToRecord(n) /\ ~PastRecord(n)
  BY ActorAssumption DEF Init, ToRecord, PastRecord, Node
<1>3. Posted = {}
  BY <1>2 DEF Init, Posted, Boxed
<1>4. \A a \in Actor : Reported(a) = 0
  BY <1>2 DEF Init, Reported, Node
<1>5. Ordered /\ CausallyClosed /\ FreshIds
  BY <1>1, <1>2 DEF Ordered, CausallyClosed, FreshIds
<1>6. Holding
  BY <1>2 DEF Holding, Node
<1>7. Linked /\ Numbered
  BY <1>1, <1>3, <1>4, FS_EmptySet DEF Linked, Numbered
<1> QED BY <1>5, <1>6, <1>7 DEF LogInv

LEMMA LogInvNext == TypeInv /\ NoClockAhead /\ LogInv /\ [Next]_vars => LogInv'
<1> SUFFICES ASSUME TypeInv, NoClockAhead, LogInv, [Next]_vars PROVE LogInv'
  OBVIOUS
<1>1. TypeInv'
  BY TypeInvNext
<1>2. ASSUME NEW a \in Actor, Task(a) \/ Panic(a) PROVE LogInv'
  BY <1>1, <1>2, SilentTask, LogInvSilent, LogInvRecv, LogInvCompute, LogInvSend DEF Task
<1>3. ASSUME Main PROVE LogInv'
  BY <1>1, <1>3, SilentMain, LogInvSilent, LogInvExternal DEF Main
<1>4. ASSUME WriterFails \/ Done \/ UNCHANGED vars PROVE LogInv'
  BY <1>1, <1>4, SilentMain, LogInvSilent
<1> QED BY <1>2, <1>3, <1>4 DEF Next

\* Every prefix of the log is causally closed, whichever way the tasks
\* interleave and whenever the writer stops: Context::send reports the emit
\* before the envelope is counted or delivered, so the receipt, which joins
\* the envelope's clock, finds it in the log; and each actor reports its own
\* steps in order.
THEOREM CausallyClosedHolds == Spec => []CausallyClosed
<1>1. Init => TypeInv /\ NoClockAhead /\ LogInv
  BY TypeInvInit, GroundedInit, LogInvInit
<1>2. TypeInv /\ NoClockAhead /\ LogInv /\ [Next]_vars => (TypeInv /\ NoClockAhead /\ LogInv)'
  BY TypeInvNext, GroundedTask, GroundedMain, LogInvNext DEF Next
<1>3. LogInv => CausallyClosed
  BY DEF LogInv
<1> QED BY <1>1, <1>2, <1>3, PTL DEF Spec

----------------------------------------------------------------------------
(* What replay accepts.  Origins all carry the coordinates <<World, 1>>, so  *)
(* a log is sure to be accepted when it holds at most one of them.           *)

OriginAt(i) == recorded[i].actor = World

Worldly ==
    /\ origins <= MaxOrigins
    /\ mpc = "record" => origins >= 1 /\ \A i \in DOMAIN recorded : ~OriginAt(i)
    /\ \A i \in DOMAIN recorded : OriginAt(i) => origins >= 1
    /\ \A i, j \in DOMAIN recorded : OriginAt(i) /\ OriginAt(j) => i = j

LEMMA WorldlyInit == Init => Worldly
  BY BoundAssumption DEF Init, Worldly

LEMMA WorldlyKept ==
    ASSUME Worldly, UNCHANGED origins, mpc' = "record" => mpc = "record",
           \A i \in DOMAIN recorded' : recorded'[i].actor = World =>
             i \in DOMAIN recorded /\ recorded'[i] = recorded[i]
    PROVE  Worldly'
  BY DEF Worldly, OriginAt

\* What an actor records is no origin.
LEMMA WorldlyRecord ==
    ASSUME TypeInv, Worldly, NEW ev, Record(ev), ev.actor # World, UNCHANGED <<origins, mpc>>
    PROVE  Worldly'
<1>1. CASE writerUp
  <2>1. recorded' = Append(recorded, ev)
    BY <1>1 DEF Record
  <2>2. \A i \in DOMAIN recorded' : recorded'[i].actor = World =>
          i \in DOMAIN recorded /\ recorded'[i] = recorded[i]
    BY <2>1, AppendFacts
  <2> QED BY <2>2, WorldlyKept
<1>2. CASE ~writerUp
  BY <1>2, WorldlyKept DEF Record
<1> QED BY <1>1, <1>2

LEMMA WorldlyTask ==
    ASSUME TypeInv, Worldly, NEW a \in Actor, Task(a) \/ Panic(a)
    PROVE  Worldly'
<1>1. a # World
  BY ActorAssumption
<1>2. CASE Recv(a)
  <2>1. PICK ev : Record(ev) /\ ev.actor = a
    BY <1>2 DEF Recv, RecvEvent
  <2> QED BY <1>1, <1>2, <2>1, WorldlyRecord DEF Recv
<1>3. CASE Compute(a)
  <2>1. PICK ev : Record(ev) /\ ev.actor = a
    BY <1>3 DEF Compute, ComputeEvent
  <2> QED BY <1>1, <1>3, <2>1, WorldlyRecord DEF Compute
<1>4. CASE SendRecord(a)
  <2>1. PICK ev : Record(ev) /\ ev.actor = a
    BY <1>4 DEF SendRecord, EmitEvent
  <2> QED BY <1>1, <1>4, <2>1, WorldlyRecord DEF SendRecord
<1>5. CASE \/ Start(a) \/ StartedReturns(a) \/ Park(a) \/ Settle(a) \/ NotifyDone(a)
           \/ SendCount(a) \/ SendDeliver(a) \/ SendUndo(a) \/ NotifyUndo(a)
           \/ Cancel(a) \/ Panic(a) \/ \E to \in Actor : SendStamp(a, to)
  <2>1. UNCHANGED <<recorded, origins>> /\ (mpc' = "record" => mpc = "record")
    BY <1>5 DEF Start, StartedReturns, Park, Settle, NotifyDone, SendCount, SendDeliver, SendUndo,
                NotifyUndo, Cancel, Panic, SendStamp, NotifyOne
  <2> QED BY <2>1, WorldlyKept
<1> QED BY <1>2, <1>3, <1>4, <1>5 DEF Task

LEMMA WorldlyMain ==
    ASSUME MaxOrigins <= 1, TypeInv, Worldly, Main \/ WriterFails \/ Done \/ UNCHANGED vars
    PROVE  Worldly'
<1>1. CASE \E to \in Actor : ExternalStamp(to)
  <2>1. /\ origins < MaxOrigins /\ origins' = origins + 1 /\ UNCHANGED recorded
        /\ origins \in Nat /\ MaxOrigins \in Nat
    BY <1>1, BoundAssumption DEF ExternalStamp, TypeInv, Typing, ControlTypes
  <2>2. origins = 0 /\ origins' = 1 /\ origins' <= MaxOrigins
    BY <2>1
  <2>3. \A i \in DOMAIN recorded : ~OriginAt(i)
    BY <2>2 DEF Worldly
  <2> QED BY <2>1, <2>2, <2>3 DEF Worldly, OriginAt
<1>2. CASE ExternalRecord
  <2>1. PICK ev : Record(ev)
    BY <1>2 DEF ExternalRecord
  <2>2. /\ mpc = "record" /\ mpc' = "count" /\ UNCHANGED origins
        /\ origins >= 1 /\ \A i \in DOMAIN recorded : ~OriginAt(i)
    BY <1>2 DEF ExternalRecord, Worldly
  <2>3. \A i \in DOMAIN recorded' : i \notin DOMAIN recorded => i = Len(recorded) + 1
    <3>1. CASE writerUp
      BY <2>1, <3>1, AppendFacts DEF Record
    <3>2. CASE ~writerUp
      BY <2>1, <3>2 DEF Record
    <3> QED BY <3>1, <3>2
  <2>4. \A i \in DOMAIN recorded : recorded'[i] = recorded[i]
    <3>1. CASE writerUp
      BY <2>1, <3>1, AppendFacts DEF Record
    <3>2. CASE ~writerUp
      BY <2>1, <3>2 DEF Record
    <3> QED BY <3>1, <3>2
  <2> QED BY <2>2, <2>3, <2>4 DEF Worldly, OriginAt
<1>3. CASE \/ ExternalCount \/ ExternalDeliver \/ RunUntilQuiescent \/ Check \/ Await \/ Close
           \/ \E a \in Actor : Abort(a)
           \/ WriterFails \/ Done \/ UNCHANGED vars
  <2>1. UNCHANGED <<recorded, origins>> /\ (mpc' = "record" => mpc = "record")
    BY <1>3 DEF ExternalCount, ExternalDeliver, RunUntilQuiescent, Check, Await, Close, Abort,
                WriterFails, Done, vars
  <2> QED BY <2>1, WorldlyKept
<1> QED BY <1>1, <1>2, <1>3 DEF Main

\* replay's order of wire clocks is the order of stamps.
LEMMA LessIsHbStrict ==
    ASSUME NEW s \in VClock, NEW t \in VClock, Less(s, t)
    PROVE  HbStrict(s, t)
<1>1. DOMAIN s = Node /\ DOMAIN t = Node
  BY DEF VClock
<1>2. \A k \in Node : Get(s, k) = s[k] /\ Get(t, k) = t[k] /\ s[k] \in Nat /\ t[k] \in Nat
  BY <1>1 DEF Get, VClock
<1>3. \A k \in Node : s[k] <= t[k]
  BY <1>1 DEF Less, Leq
<1>4. PICK k \in Node : s[k] # t[k]
  BY <1>1 DEF Less, VClock
<1>5. s[k] < t[k]
  BY <1>2, <1>3, <1>4
<1> QED BY <1>1, <1>2, <1>3, <1>5 DEF HbStrict

LEMMA AcceptsLog ==
    ASSUME TypeInv, LogInv, Worldly
    PROVE  ReplayAccepts
<1>1. DOMAIN recorded \subseteq Nat /\ \A n \in Node : n # World => n \in Actor
  <2>1. recorded \in Seq(Event)
    BY DEF TypeInv, Typing, MessageTypes
  <2> QED BY <2>1 DEF Node
<1>2. \A i \in DOMAIN recorded : /\ recorded[i].vclock \in VClock /\ recorded[i].seq \in Nat
                                 /\ recorded[i].actor \in Node
  BY RecordedTypes
<1>3. ASSUME NEW i \in DOMAIN recorded, NEW j \in DOMAIN recorded,
             recorded[i].actor = recorded[j].actor, i < j
      PROVE  recorded[i].seq < recorded[j].seq /\ Less(recorded[i].vclock, recorded[j].vclock)
  <2>1. CASE recorded[i].actor = World
    <3>1. i = j
      BY <1>3, <2>1 DEF Worldly, OriginAt
    <3> QED BY <1>1, <1>3, <3>1
  <2>2. CASE recorded[i].actor # World
    <3>1. PICK a \in Actor : recorded[i].actor = a
      BY <1>1, <1>2, <2>2
    <3>2. i \in EventsOf(a) /\ j \in EventsOf(a)
      BY <1>3, <3>1 DEF EventsOf
    <3>3. /\ recorded[i].seq < recorded[j].seq /\ Leq(recorded[i].vclock, recorded[j].vclock)
          /\ recorded[i].vclock[a] = recorded[i].seq /\ recorded[j].vclock[a] = recorded[j].seq
      BY <1>3, <3>2 DEF LogInv, Ordered
    <3> QED BY <1>2, <3>3 DEF Less
  <2> QED BY <2>1, <2>2
<1>4. ~DuplicateSeq(recorded)
  <2> SUFFICES ASSUME NEW i \in DOMAIN recorded, NEW j \in DOMAIN recorded, i # j,
                      recorded[i].actor = recorded[j].actor, recorded[i].seq = recorded[j].seq
               PROVE  FALSE
    BY DEF DuplicateSeq
  <2>1. i < j \/ j < i
    BY <1>1
  <2>2. recorded[i].seq < recorded[j].seq \/ recorded[j].seq < recorded[i].seq
    BY <1>3, <2>1
  <2> QED BY <1>2, <2>2
<1>5. ~DuplicateEmit(recorded)
  BY DEF LogInv, FreshIds, DuplicateEmit
<1>6. ASSUME NEW j \in DOMAIN recorded, IsRecv(recorded[j])
      PROVE  \E i \in DOMAIN recorded : /\ IsEmit(recorded[i])
                                        /\ recorded[i].msg_id = recorded[j].msg_id
                                        /\ Less(recorded[i].vclock, recorded[j].vclock)
  <2>1. PICK i \in 1..(j - 1) : /\ IsEmit(recorded[i])
                                /\ recorded[i].msg_id = recorded[j].msg_id
                                /\ Less(recorded[i].vclock, recorded[j].vclock)
    BY <1>6 DEF LogInv, CausallyClosed
  <2>2. i \in DOMAIN recorded
    BY <1>1 DEF TypeInv, Typing, MessageTypes
  <2> QED BY <2>1, <2>2
<1>7. ~MissingEmit(recorded)
  BY <1>6 DEF MissingEmit
<1>8. Valid(recorded)
  <2> SUFFICES ASSUME NEW e \in Edges(recorded)
               PROVE  HbStrict(recorded[e[1]].vclock, recorded[e[2]].vclock)
    BY DEF Valid
  <2>1. PICK i \in DOMAIN recorded, j \in DOMAIN recorded : e = <<i, j>>
    BY DEF Edges, ProgramEdges, MessageEdges, Pairs
  <2>2. CASE e \in ProgramEdges(recorded)
    <3>1. recorded[i].actor = recorded[j].actor /\ recorded[i].seq < recorded[j].seq
      BY <2>1, <2>2 DEF ProgramEdges
    <3>2. i < j \/ j < i \/ i = j
      BY <1>1
    <3>3. i < j
      BY <1>2, <1>3, <3>1, <3>2
    <3> QED BY <1>2, <1>3, <2>1, <3>1, <3>3, LessIsHbStrict
  <2>3. CASE e \in MessageEdges(recorded)
    <3>1. IsEmit(recorded[i]) /\ IsRecv(recorded[j]) /\ recorded[i].msg_id = recorded[j].msg_id
      BY <2>1, <2>3 DEF MessageEdges
    <3>2. PICK k \in DOMAIN recorded : /\ IsEmit(recorded[k])
                                       /\ recorded[k].msg_id = recorded[j].msg_id
                                       /\ Less(recorded[k].vclock, recorded[j].vclock)
      BY <1>6, <3>1
    <3>3. k = i
      BY <3>1, <3>2 DEF LogInv, FreshIds
    <3> QED BY <1>2, <2>1, <3>2, <3>3, LessIsHbStrict
  <2> QED BY <2>2, <2>3 DEF Edges
<1> QED BY <1>4, <1>5, <1>7, <1>8 DEF ReplayAccepts, BuildOk

\* With at most one origin, replay accepts every log and every prefix of one:
\* no coordinates and no message id occur twice, each receipt has its emit,
\* and the clocks confirm every edge.  Two origins collide in <<World, 1>>,
\* which the run two_origins shows.
THEOREM ReplayAcceptsHolds ==
    ASSUME MaxOrigins <= 1
    PROVE  Spec => []ReplayAccepts
<1>1. Init => TypeInv /\ NoClockAhead /\ LogInv /\ Worldly
  BY TypeInvInit, GroundedInit, LogInvInit, WorldlyInit
<1>2. TypeInv /\ NoClockAhead /\ LogInv /\ Worldly /\ [Next]_vars
        => (TypeInv /\ NoClockAhead /\ LogInv /\ Worldly)'
  BY TypeInvNext, GroundedTask, GroundedMain, LogInvNext, WorldlyTask, WorldlyMain DEF Next
<1>3. TypeInv /\ LogInv /\ Worldly => ReplayAccepts
  BY AcceptsLog
<1> QED BY <1>1, <1>2, <1>3, PTL DEF Spec

----------------------------------------------------------------------------
(* Three steps lead from here to the exact embedding: the log can be derived *)
(* again, event by event, from what it says itself; Reach is the least       *)
(* transitive relation that contains the edges; and so a clock that counts   *)
(* an event has been reached by it.                                          *)

(***************************************************************************)
(* The log can be computed again, event by event: an event of an actor is  *)
(* what its clocks, as its previous event left them, become in a step of   *)
(* its kind, and a receipt joins the clock of an emit earlier in the log.  *)
(***************************************************************************)
ZeroMemory == [vclock |-> ZeroClock, lamport |-> 0]

\* What actor a knows in log l after its s-th step.
Memory(l, a, s) ==
    IF s = 0 THEN {ZeroMemory}
    ELSE {[vclock |-> l[i].vclock, lamport |-> l[i].lamport] :
             i \in {k \in DOMAIN l : l[k].actor = a /\ l[k].seq = s}}

Meets(emit, ev) ==
    /\ IsEmit(emit)
    /\ emit.msg_id = ev.msg_id /\ emit.src = ev.src /\ emit.dst = ev.dst

\* ev is a step its actor takes from memory m, of events E before it.
Stepped(E, ev, m) ==
    \/ /\ ev.op \in {"compute", "emit"}
       /\ ev.op = "emit" => IsEmit(ev) /\ ev.src = ev.actor
       /\ ev.op = "compute" => ev.msg_id = None /\ ev.src = None /\ ev.dst = None
       /\ ev.vclock = Bump(m.vclock, ev.actor) /\ ev.lamport = Tick(m.lamport)
    \/ /\ ev.op = "recv" /\ ev.dst = ev.actor
       /\ \E e \in E :
            /\ Meets(e, ev)
            /\ ev.vclock = Bump(Join(m.vclock, e.vclock), ev.actor)
            /\ ev.lamport = Update(m.lamport, e.lamport)

StepFrom(l, j, m) == Stepped({l[i] : i \in 1..(j - 1)}, l[j], m)

IsOrigin(ev) ==
    /\ IsEmit(ev) /\ ev.seq = 1 /\ ev.src = World
    /\ ev.vclock = Bump(ZeroClock, World) /\ ev.lamport = 1

Derived(l, j) ==
    IF l[j].actor = World THEN IsOrigin(l[j])
    ELSE \E m \in Memory(l, l[j].actor, l[j].seq - 1) : StepFrom(l, j, m)

CaughtUp(a) ==
    \E m \in Memory(recorded, a, Reported(a)) :
      IF ToRecord(a) THEN clock[a] = Bump(m.vclock, a) /\ lamport[a] = Tick(m.lamport)
                     ELSE clock[a] = m.vclock /\ lamport[a] = m.lamport

InHandStamped ==
    /\ \A a \in Actor : ToRecord(a) =>
         out[a].src = a /\ out[a].vclock = clock[a] /\ out[a].lamport = lamport[a]
    /\ ToRecord(World) =>
         out[World].src = World /\ out[World].vclock = Bump(ZeroClock, World) /\ out[World].lamport = 1

Addressed == \A a \in Actor : \A i \in DOMAIN mailbox[a] : mailbox[a][i].dst = a

DeriveInv ==
    /\ \A j \in DOMAIN recorded : Derived(recorded, j)
    /\ writerUp => \A a \in Actor : CaughtUp(a)
    /\ InHandStamped
    /\ Addressed

----------------------------------------------------------------------------
(* A log that grows keeps what it derives *)

LEMMA LongerLog ==
    ASSUME NEW l \in Seq(Event), NEW ev
    PROVE  /\ Len(l) \in Nat /\ DOMAIN l = 1..Len(l)
           /\ DOMAIN Append(l, ev) = 1..(Len(l) + 1)
           /\ \A i \in DOMAIN l : i \in DOMAIN Append(l, ev) /\ Append(l, ev)[i] = l[i]
           /\ Append(l, ev)[Len(l) + 1] = ev
  OBVIOUS

LEMMA MemoryStays ==
    ASSUME NEW l \in Seq(Event), NEW ev, NEW a, NEW s, NEW m \in Memory(l, a, s)
    PROVE  m \in Memory(Append(l, ev), a, s)
<1>1. CASE s = 0
  BY <1>1 DEF Memory
<1>2. CASE s # 0
  <2>1. PICK i \in DOMAIN l : /\ l[i].actor = a /\ l[i].seq = s
                             /\ m = [vclock |-> l[i].vclock, lamport |-> l[i].lamport]
    BY <1>2 DEF Memory
  <2>2. i \in DOMAIN Append(l, ev) /\ Append(l, ev)[i] = l[i]
    BY LongerLog
  <2> QED BY <1>2, <2>1, <2>2 DEF Memory
<1> QED BY <1>1, <1>2

LEMMA MemoryOfLast ==
    ASSUME NEW l \in Seq(Event), NEW ev, ev.seq # 0
    PROVE  [vclock |-> ev.vclock, lamport |-> ev.lamport] \in Memory(Append(l, ev), ev.actor, ev.seq)
<1>1. Len(l) + 1 \in DOMAIN Append(l, ev) /\ Append(l, ev)[Len(l) + 1] = ev
  BY LongerLog
<1> QED BY <1>1 DEF Memory

LEMMA DerivedStays ==
    ASSUME NEW l \in Seq(Event), NEW ev, NEW j \in DOMAIN l, Derived(l, j)
    PROVE  Derived(Append(l, ev), j)
<1>0. PICK l2 : l2 = Append(l, ev)
  OBVIOUS
<1>1. /\ l2[j] = l[j] /\ \A i \in 1..(j - 1) : l2[i] = l[i]
  BY <1>0, LongerLog
<1>2. CASE l[j].actor = World
  BY <1>0, <1>1, <1>2 DEF Derived
<1>3. CASE l[j].actor # World
  <2>1. PICK m \in Memory(l, l[j].actor, l[j].seq - 1) : StepFrom(l, j, m)
    BY <1>3 DEF Derived
  <2>2. m \in Memory(l2, l[j].actor, l[j].seq - 1)
    BY <1>0, <2>1, MemoryStays
  <2>3. StepFrom(l2, j, m)
    BY <1>1, <2>1 DEF StepFrom, Stepped
  <2>4. l2[j].actor = l[j].actor /\ l2[j].seq = l[j].seq
    BY <1>1
  <2>5. Derived(l2, j)
    BY <1>3, <2>2, <2>3, <2>4 DEF Derived
  <2> QED BY <1>0, <2>5
<1> QED BY <1>2, <1>3

----------------------------------------------------------------------------
(* What the steps do to the four parts *)

MemoryOf(ev) == [vclock |-> ev.vclock, lamport |-> ev.lamport]

LEMMA TypedState ==
    ASSUME TypeInv
    PROVE  /\ clock \in [Actor -> VClock] /\ lamport \in [Actor -> Nat] /\ seq \in [Actor -> Nat]
           /\ pc \in [Actor -> ActorPc] /\ out \in [Node -> Envelope \cup {None}]
           /\ mailbox \in [Actor -> Seq(Envelope)] /\ recorded \in Seq(Event)
           /\ World \in Node /\ World \notin Actor /\ Actor \subseteq Node
           /\ \A n \in Node : n # World => n \in Actor
  BY ActorAssumption DEF TypeInv, Typing, TaskTypes, MessageTypes, Node

LEMMA DeriveInit == Init => DeriveInv
<1> SUFFICES ASSUME Init PROVE DeriveInv
  OBVIOUS
<1>1. World \notin Actor /\ \A n \in Node : ~ToRecord(n)
  BY ActorAssumption DEF Init, ToRecord, Node
<1>2. \A a \in Actor : Reported(a) = 0 /\ ~ToRecord(a)
  BY <1>1 DEF Init, Reported, Node
<1>3. \A a \in Actor : CaughtUp(a)
  <2> TAKE a \in Actor
  <2>1. Memory(recorded, a, Reported(a)) = {ZeroMemory}
    BY <1>2 DEF Memory
  <2>2. clock[a] = ZeroMemory.vclock /\ lamport[a] = ZeroMemory.lamport
    BY DEF Init, ZeroMemory
  <2> QED BY <1>2, <2>1, <2>2 DEF CaughtUp
<1>4. InHandStamped /\ Addressed
  BY <1>1, <1>2 DEF Init, InHandStamped, Addressed, Node
<1>5. DOMAIN recorded = {}
  BY DEF Init
<1> QED BY <1>3, <1>4, <1>5 DEF DeriveInv

\* Envelopes enter the mailbox they are addressed to, and nowhere else.
LEMMA AddressedNext ==
    ASSUME TypeInv, Addressed, [Next]_vars
    PROVE  Addressed'
<1>1. /\ mailbox \in [Actor -> Seq(Envelope)] /\ World \notin Actor
  BY TypedState
<1>2. CASE mailbox' = mailbox
  BY <1>2 DEF Addressed
<1>3. ASSUME NEW n, out[n] \in Envelope,
             mailbox' = [mailbox EXCEPT ![out[n].dst] = Append(@, out[n])]
      PROVE  Addressed'
  <2>1. out[n].dst \in Actor
    BY <1>3 DEF Envelope
  <2> QED BY <1>1, <1>3, <2>1 DEF Addressed
<1>4. ASSUME NEW a \in Actor, mailbox' = [mailbox EXCEPT ![a] = <<>>]
      PROVE  Addressed'
  BY <1>1, <1>4 DEF Addressed
<1>5. ASSUME NEW a \in Actor, mailbox[a] # <<>>, mailbox' = [mailbox EXCEPT ![a] = Tail(@)]
      PROVE  Addressed'
  <2>1. /\ mailbox'[a] = Tail(mailbox[a])
        /\ \A b \in Actor : b # a => mailbox'[b] = mailbox[b]
    BY <1>1, <1>5
  <2>2. \A i \in DOMAIN Tail(mailbox[a]) :
          i + 1 \in DOMAIN mailbox[a] /\ Tail(mailbox[a])[i] = mailbox[a][i + 1]
    BY <1>1, <1>5
  <2>3. \A b \in Actor : \A i \in DOMAIN mailbox'[b] : mailbox'[b][i].dst = b
    <3>0. \A i \in DOMAIN Tail(mailbox[a]) : Tail(mailbox[a])[i].dst = a
      BY <2>2 DEF Addressed
    <3> TAKE b \in Actor
    <3>1. CASE b = a
      <4>1. mailbox'[b] = Tail(mailbox[a])
        BY <2>1, <3>1
      <4> QED BY <3>0, <3>1, <4>1
    <3>2. CASE b # a
      BY <2>1, <3>2 DEF Addressed
    <3> QED BY <3>1, <3>2
  <2> QED BY <2>3 DEF Addressed
<1>6. ASSUME NEW a \in Actor, Task(a) \/ Panic(a) PROVE Addressed'
  <2>1. CASE SendDeliver(a) /\ ~Gone(out[a].dst)
    <3>1. out[a] \in Envelope /\ mailbox' = [mailbox EXCEPT ![out[a].dst] = Append(@, out[a])]
      BY <2>1 DEF SendDeliver, TypeInv, Shape
    <3> QED BY <1>3, <3>1
  <2>2. CASE Cancel(a) \/ Panic(a)
    BY <1>4, <2>2 DEF Cancel, Panic
  <2>3. CASE Recv(a)
    BY <1>5, <2>3 DEF Recv
  <2>4. CASE \/ Start(a) \/ StartedReturns(a) \/ Park(a) \/ Settle(a) \/ NotifyDone(a)
             \/ Compute(a) \/ \E to \in Actor : SendStamp(a, to)
             \/ SendRecord(a) \/ SendCount(a) \/ (SendDeliver(a) /\ Gone(out[a].dst))
             \/ SendUndo(a) \/ NotifyUndo(a)
    BY <1>2, <2>4 DEF Start, StartedReturns, Park, Settle, NotifyDone, Compute, SendStamp,
                      SendRecord, SendCount, SendDeliver, SendUndo, NotifyUndo
  <2> QED BY <1>6, <2>1, <2>2, <2>3, <2>4 DEF Task
<1>7. ASSUME Main \/ WriterFails \/ Done \/ UNCHANGED vars PROVE Addressed'
  <2>1. CASE ExternalDeliver /\ ~Gone(out[World].dst)
    <3>1. out[World] \in Envelope /\ mailbox' = [mailbox EXCEPT ![out[World].dst] = Append(@, out[World])]
      BY <2>1 DEF ExternalDeliver, TypeInv, Shape
    <3> QED BY <1>3, <3>1
  <2>2. CASE mailbox' = mailbox
    BY <1>2, <2>2
  <2> QED BY <1>7, <2>1, <2>2
          DEF Main, ExternalStamp, ExternalRecord, ExternalCount, ExternalDeliver, RunUntilQuiescent,
              Check, Await, Abort, Close, WriterFails, Done, vars
<1> QED BY <1>6, <1>7 DEF Next

\* Steps that neither stamp nor record, whatever else they do.
LEMMA DeriveKept ==
    ASSUME DeriveInv, Addressed', UNCHANGED <<clock, lamport, seq, recorded>>, writerUp' => writerUp,
           \A n \in Node : ToRecord(n)' = ToRecord(n) /\ (ToRecord(n) => out'[n] = out[n])
    PROVE  DeriveInv'
<1>1. \A a \in Actor : Reported(a)' = Reported(a) /\ ToRecord(a)' = ToRecord(a)
  BY DEF Reported, Node
<1>2. \A a \in Actor : CaughtUp(a) => CaughtUp(a)'
  BY <1>1 DEF CaughtUp
<1>3. InHandStamped'
  BY DEF DeriveInv, InHandStamped, Node
<1> QED BY <1>2, <1>3 DEF DeriveInv

\* An actor reports its next step.
LEMMA DeriveRecord ==
    ASSUME TypeInv, DeriveInv, Addressed', NEW a \in Actor, NEW ev, Record(ev),
           ev.actor = a, ev.seq = Reported(a) + 1,
           writerUp => \E m \in Memory(recorded, a, Reported(a)) :
                         StepFrom(Append(recorded, ev), Len(recorded) + 1, m),
           ~ToRecord(a)', clock'[a] = ev.vclock, lamport'[a] = ev.lamport, seq'[a] = ev.seq,
           \A b \in Actor : b # a =>
             clock'[b] = clock[b] /\ lamport'[b] = lamport[b] /\ seq'[b] = seq[b],
           \A n \in Node : n # a => ToRecord(n)' = ToRecord(n), UNCHANGED out
    PROVE  DeriveInv'
<1>1. /\ recorded \in Seq(Event) /\ World \notin Actor /\ World \in Node /\ Actor \subseteq Node
      /\ Reported(a) \in Int
  BY TypedState, ReportedType
<1>2. InHandStamped'
  BY <1>1 DEF DeriveInv, InHandStamped
<1>3. CASE writerUp
  <2>1. recorded' = Append(recorded, ev)
    BY <1>3 DEF Record
  <2>2. PICK m \in Memory(recorded, a, Reported(a)) : StepFrom(recorded', Len(recorded) + 1, m)
    BY <1>3, <2>1
  <2>3. Derived(recorded', Len(recorded) + 1)
    <3>1. recorded'[Len(recorded) + 1] = ev
      BY <1>1, <2>1, LongerLog
    <3>2. m \in Memory(recorded', a, Reported(a)) /\ ev.seq - 1 = Reported(a)
      BY <1>1, <2>1, MemoryStays
    <3> QED BY <1>1, <2>2, <3>1, <3>2 DEF Derived
  <2>4. \A j \in DOMAIN recorded' : Derived(recorded', j)
    <3> TAKE j \in DOMAIN recorded'
    <3>1. j \in DOMAIN recorded \/ j = Len(recorded) + 1
      BY <1>1, <2>1, LongerLog
    <3>2. CASE j \in DOMAIN recorded
      BY <1>1, <2>1, <3>2, DerivedStays DEF DeriveInv
    <3> QED BY <2>3, <3>1, <3>2
  <2>5. ASSUME NEW b \in Actor PROVE CaughtUp(b)'
    <3>1. CASE b = a
      <4>1. Reported(b)' = ev.seq
        BY <3>1 DEF Reported
      <4>2. CASE ev.seq # 0
        <5>1. MemoryOf(ev) \in Memory(recorded', a, ev.seq)
          BY <1>1, <2>1, <4>2, MemoryOfLast DEF MemoryOf
        <5>2. clock'[a] = MemoryOf(ev).vclock /\ lamport'[a] = MemoryOf(ev).lamport
          BY DEF MemoryOf
        <5> QED BY <3>1, <4>1, <5>1, <5>2 DEF CaughtUp
      <4>3. ev.seq # 0
        <5>1. Reported(a) \in Nat
          BY <2>2, RecordedTypes DEF Memory
        <5> QED BY <5>1
      <4> QED BY <4>2, <4>3
    <3>2. CASE b # a
      <4>1. ToRecord(b)' = ToRecord(b) /\ Reported(b)' = Reported(b)
        BY <1>1, <3>2 DEF Reported
      <4>2. PICK k \in Memory(recorded, b, Reported(b)) :
              IF ToRecord(b) THEN clock[b] = Bump(k.vclock, b) /\ lamport[b] = Tick(k.lamport)
                             ELSE clock[b] = k.vclock /\ lamport[b] = k.lamport
        BY <1>3 DEF DeriveInv, CaughtUp
      <4>3. k \in Memory(recorded', b, Reported(b))
        BY <1>1, <2>1, MemoryStays
      <4> QED BY <3>2, <4>1, <4>2, <4>3 DEF CaughtUp
    <3> QED BY <3>1, <3>2
  <2> QED BY <1>2, <2>4, <2>5 DEF DeriveInv
<1>4. CASE ~writerUp
  BY <1>2, <1>4 DEF DeriveInv, Record
<1> QED BY <1>3, <1>4

\* A sender stamps an envelope: it is one step ahead of its reports.
LEMMA DeriveStamp ==
    ASSUME TypeInv, DeriveInv, Addressed', NEW a \in Actor, NEW e, UNCHANGED <<recorded, writerUp>>,
           ~ToRecord(a), ToRecord(a)', seq'[a] = seq[a] + 1,
           clock'[a] = Bump(clock[a], a), lamport'[a] = Tick(lamport[a]),
           out'[a] = e, e.src = a, e.vclock = clock'[a], e.lamport = lamport'[a],
           \A b \in Actor : b # a =>
             clock'[b] = clock[b] /\ lamport'[b] = lamport[b] /\ seq'[b] = seq[b],
           \A n \in Node : n # a => ToRecord(n)' = ToRecord(n) /\ out'[n] = out[n]
    PROVE  DeriveInv'
<1>1. /\ World \notin Actor /\ World \in Node /\ Actor \subseteq Node /\ seq[a] \in Nat
  BY TypedState
<1>2. InHandStamped'
  <2>1. \A b \in Actor : b # a /\ ToRecord(b)' =>
          out'[b].src = b /\ out'[b].vclock = clock'[b] /\ out'[b].lamport = lamport'[b]
    BY <1>1 DEF DeriveInv, InHandStamped
  <2>2. ToRecord(World)' => /\ out'[World].src = World /\ out'[World].vclock = Bump(ZeroClock, World)
                            /\ out'[World].lamport = 1
    BY <1>1 DEF DeriveInv, InHandStamped
  <2> QED BY <2>1, <2>2 DEF InHandStamped
<1>3. ASSUME writerUp, NEW b \in Actor PROVE CaughtUp(b)'
  <2>1. PICK k \in Memory(recorded, b, Reported(b)) :
          IF ToRecord(b) THEN clock[b] = Bump(k.vclock, b) /\ lamport[b] = Tick(k.lamport)
                         ELSE clock[b] = k.vclock /\ lamport[b] = k.lamport
    BY <1>3 DEF DeriveInv, CaughtUp
  <2>2. Reported(b)' = Reported(b)
    <3>1. CASE b = a
      BY <1>1, <3>1 DEF Reported
    <3>2. CASE b # a
      BY <1>1, <3>2 DEF Reported
    <3> QED BY <3>1, <3>2
  <2>3. CASE b = a
    BY <2>1, <2>2, <2>3 DEF CaughtUp
  <2>4. CASE b # a
    <3>1. ToRecord(b)' = ToRecord(b) /\ clock'[b] = clock[b] /\ lamport'[b] = lamport[b]
      BY <1>1, <2>4
    <3> QED BY <2>1, <2>2, <3>1 DEF CaughtUp
  <2> QED BY <2>3, <2>4
<1> QED BY <1>2, <1>3 DEF DeriveInv

LEMMA DeriveRecv ==
    ASSUME TypeInv, LogInv, DeriveInv, Addressed', NEW a \in Actor, Recv(a)
    PROVE  DeriveInv'
<1> DEFINE env == Head(mailbox[a])
<1>1. PICK e, vc, lam :
        /\ e = env
        /\ vc = Bump(Join(clock[a], e.vclock), a)
        /\ lam = Update(lamport[a], e.lamport)
        /\ clock' = [clock EXCEPT ![a] = vc]
        /\ lamport' = [lamport EXCEPT ![a] = lam]
        /\ seq' = [seq EXCEPT ![a] = @ + 1]
        /\ Record(RecvEvent(a, seq[a] + 1, vc, lam, e))
        /\ mailbox[a] # <<>>
        /\ pc' = [pc EXCEPT ![a] = IF e.typed THEN "user" ELSE "mistyped"]
        /\ pc[a] \in {"loop", "parked"}
        /\ UNCHANGED <<out, msgId, sharedVars, mainVars>>
  BY DEF Recv
<1>2. PICK ev : ev = RecvEvent(a, seq[a] + 1, vc, lam, e)
  OBVIOUS
<1>3. /\ clock \in [Actor -> VClock] /\ seq \in [Actor -> Nat] /\ lamport \in [Actor -> Nat]
      /\ mailbox \in [Actor -> Seq(Envelope)] /\ pc \in [Actor -> ActorPc]
      /\ recorded \in Seq(Event) /\ Len(recorded) \in Nat /\ DOMAIN recorded = 1..Len(recorded)
      /\ World \notin Actor /\ a \in Node /\ \A n \in Node : n # World => n \in Actor
  BY TypedState
<1>4. e = mailbox[a][1] /\ 1 \in DOMAIN mailbox[a]
  BY <1>1, <1>3
<1>5. e.dst = a /\ e \in Posted
  BY <1>4 DEF DeriveInv, Addressed, Posted, Boxed
<1>6. /\ ev.actor = a /\ ev.seq = seq[a] + 1 /\ ev.vclock = vc /\ ev.lamport = lam
      /\ ev.msg_id = e.msg_id /\ ev.src = e.src /\ ev.dst = a /\ ev.op = "recv"
  BY <1>2 DEF RecvEvent
<1>7. ~ToRecord(a) /\ \A n \in Node : ToRecord(n)' = ToRecord(n)
  <2>1. /\ pc'[a] # "emit" /\ pc[a] # "emit" /\ mpc' = mpc /\ a # World
        /\ \A b \in Actor : b # a => pc'[b] = pc[b]
    BY <1>1, <1>3
  <2> QED BY <1>3, <2>1 DEF ToRecord
<1>8. Reported(a) = seq[a]
  BY <1>7 DEF Reported
<1>9. ASSUME writerUp
      PROVE  \E m \in Memory(recorded, a, Reported(a)) :
               StepFrom(Append(recorded, ev), Len(recorded) + 1, m)
  <2>1. PICK m \in Memory(recorded, a, Reported(a)) : clock[a] = m.vclock /\ lamport[a] = m.lamport
    BY <1>7, <1>9 DEF DeriveInv, CaughtUp
  <2>2. PICK i \in DOMAIN recorded : EmitOf(i, e)
    BY <1>5, <1>9 DEF LogInv, Linked
  <2>3. PICK l2 : l2 = Append(recorded, ev)
    OBVIOUS
  <2>4. l2[Len(recorded) + 1] = ev /\ l2[i] = recorded[i] /\ i \in 1..((Len(recorded) + 1) - 1)
    BY <1>3, <2>3, LongerLog
  <2>5. /\ Meets(l2[i], ev)
        /\ ev.vclock = Bump(Join(m.vclock, l2[i].vclock), ev.actor)
        /\ ev.lamport = Update(m.lamport, l2[i].lamport)
    BY <1>1, <1>5, <1>6, <2>1, <2>2, <2>4 DEF EmitOf, Meets
  <2>6. StepFrom(l2, Len(recorded) + 1, m)
    BY <1>6, <2>4, <2>5 DEF StepFrom, Stepped
  <2> QED BY <2>3, <2>6
<1>10. /\ clock'[a] = vc /\ lamport'[a] = lam /\ seq'[a] = seq[a] + 1
       /\ \A b \in Actor : b # a =>
            clock'[b] = clock[b] /\ lamport'[b] = lamport[b] /\ seq'[b] = seq[b]
  BY <1>1, <1>3
<1>11. ~ToRecord(a)' /\ UNCHANGED out /\ Record(ev)
  BY <1>1, <1>2, <1>3, <1>7
<1> QED BY <1>6, <1>7, <1>8, <1>9, <1>10, <1>11, DeriveRecord

LEMMA DeriveCompute ==
    ASSUME TypeInv, DeriveInv, Addressed', NEW a \in Actor, Compute(a)
    PROVE  DeriveInv'
<1>1. PICK vc, lam :
        /\ vc = Bump(clock[a], a)
        /\ lam = Tick(lamport[a])
        /\ clock' = [clock EXCEPT ![a] = vc]
        /\ lamport' = [lamport EXCEPT ![a] = lam]
        /\ seq' = [seq EXCEPT ![a] = @ + 1]
        /\ Record(ComputeEvent(a, seq[a] + 1, vc, lam))
        /\ pc[a] = "user"
        /\ UNCHANGED <<pc, handling, out, mailbox, msgId, sharedVars, mainVars>>
  BY DEF Compute, InUserCode
<1>2. PICK ev : ev = ComputeEvent(a, seq[a] + 1, vc, lam)
  OBVIOUS
<1>3. /\ clock \in [Actor -> VClock] /\ seq \in [Actor -> Nat] /\ lamport \in [Actor -> Nat]
      /\ recorded \in Seq(Event) /\ World \notin Actor /\ a \in Node
  BY TypedState
<1>4. /\ ev.actor = a /\ ev.seq = seq[a] + 1 /\ ev.vclock = vc /\ ev.lamport = lam
      /\ ev.msg_id = None /\ ev.src = None /\ ev.dst = None /\ ev.op = "compute"
  BY <1>2 DEF ComputeEvent
<1>5. ~ToRecord(a) /\ \A n \in Node : ToRecord(n)' = ToRecord(n)
  BY <1>1, <1>3 DEF ToRecord
<1>6. Reported(a) = seq[a]
  BY <1>5 DEF Reported
<1>7. ASSUME writerUp
      PROVE  \E m \in Memory(recorded, a, Reported(a)) :
               StepFrom(Append(recorded, ev), Len(recorded) + 1, m)
  <2>1. PICK m \in Memory(recorded, a, Reported(a)) : clock[a] = m.vclock /\ lamport[a] = m.lamport
    BY <1>5, <1>7 DEF DeriveInv, CaughtUp
  <2>2. Append(recorded, ev)[Len(recorded) + 1] = ev
    BY <1>3, LongerLog
  <2> QED BY <1>1, <1>4, <2>1, <2>2 DEF StepFrom, Stepped
<1>8. /\ clock'[a] = vc /\ lamport'[a] = lam /\ seq'[a] = seq[a] + 1
      /\ \A b \in Actor : b # a =>
           clock'[b] = clock[b] /\ lamport'[b] = lamport[b] /\ seq'[b] = seq[b]
  BY <1>1, <1>3
<1>9. ~ToRecord(a)' /\ UNCHANGED out /\ Record(ev)
  BY <1>1, <1>2, <1>3, <1>5
<1> QED BY <1>4, <1>5, <1>6, <1>7, <1>8, <1>9, DeriveRecord

LEMMA DeriveSend ==
    ASSUME TypeInv, DeriveInv, Addressed', NEW a \in Actor,
           SendRecord(a) \/ \E to \in Actor : SendStamp(a, to)
    PROVE  DeriveInv'
<1>1. /\ clock \in [Actor -> VClock] /\ seq \in [Actor -> Nat] /\ lamport \in [Actor -> Nat]
      /\ pc \in [Actor -> ActorPc] /\ out \in [Node -> Envelope \cup {None}]
      /\ recorded \in Seq(Event) /\ a \in Node /\ a # World
  BY TypedState
<1>2. CASE SendRecord(a)
  <2>1. PICK ev : ev = EmitEvent(a, seq[a], out[a])
    OBVIOUS
  <2>2. /\ pc[a] = "emit" /\ pc' = [pc EXCEPT ![a] = "count"] /\ Record(ev)
        /\ UNCHANGED <<taskVars, handling, out, mailbox, msgId, sharedVars, mainVars>>
    BY <1>2, <2>1 DEF SendRecord
  <2>3. ToRecord(a) /\ ~ToRecord(a)' /\ \A n \in Node : n # a => ToRecord(n)' = ToRecord(n)
    BY <1>1, <2>2 DEF ToRecord
  <2>4. /\ out[a].src = a /\ out[a].vclock = clock[a] /\ out[a].lamport = lamport[a]
        /\ out[a].msg_id # None
    <3>1. out[a].msg_id \in Nat
      BY <1>1, <2>3, EmitIds
    <3> QED BY <2>3, <3>1, NoIdAssumption DEF DeriveInv, InHandStamped
  <2>5. /\ ev.actor = a /\ ev.seq = seq[a] /\ ev.vclock = clock[a] /\ ev.lamport = lamport[a]
        /\ ev.src = a /\ ev.op = "emit" /\ IsEmit(ev)
    BY <2>1, <2>4 DEF EmitEvent, IsEmit
  <2>6. Reported(a) = seq[a] - 1 /\ seq[a] \in Nat
    BY <1>1, <2>3 DEF Reported
  <2>7. ASSUME writerUp
        PROVE  \E m \in Memory(recorded, a, Reported(a)) :
                 StepFrom(Append(recorded, ev), Len(recorded) + 1, m)
    <3>1. PICK m \in Memory(recorded, a, Reported(a)) :
            clock[a] = Bump(m.vclock, a) /\ lamport[a] = Tick(m.lamport)
      BY <2>3, <2>7 DEF DeriveInv, CaughtUp
    <3>2. Append(recorded, ev)[Len(recorded) + 1] = ev
      BY <1>1, LongerLog
    <3> QED BY <2>5, <3>1, <3>2 DEF StepFrom, Stepped
  <2>8. UNCHANGED <<clock, lamport, seq, out>>
    BY <2>2
  <2> QED BY <2>2, <2>3, <2>5, <2>6, <2>7, <2>8, DeriveRecord
<1>3. CASE \E to \in Actor : SendStamp(a, to)
  <2>1. PICK e : /\ e.vclock = Bump(clock[a], a) /\ e.lamport = Tick(lamport[a]) /\ e.src = a
                 /\ out' = [out EXCEPT ![a] = e]
                 /\ clock' = [clock EXCEPT ![a] = Bump(@, a)]
                 /\ lamport' = [lamport EXCEPT ![a] = Tick(@)]
                 /\ seq' = [seq EXCEPT ![a] = @ + 1]
                 /\ pc[a] = "user" /\ pc' = [pc EXCEPT ![a] = "emit"]
                 /\ UNCHANGED <<handling, mailbox, sharedVars, logVars, mainVars>>
    BY <1>3 DEF SendStamp, InUserCode
  <2>2. out'[a] = e /\ clock'[a] = Bump(clock[a], a) /\ lamport'[a] = Tick(lamport[a])
        /\ seq'[a] = seq[a] + 1
    BY <1>1, <2>1
  <2>3. \A n \in Node : n # a => ToRecord(n)' = ToRecord(n) /\ out'[n] = out[n]
    BY <1>1, <2>1 DEF ToRecord
  <2>4. ~ToRecord(a) /\ ToRecord(a)'
    BY <1>1, <2>1 DEF ToRecord
  <2>5. \A b \in Actor : b # a =>
          clock'[b] = clock[b] /\ lamport'[b] = lamport[b] /\ seq'[b] = seq[b]
    BY <1>1, <2>1
  <2> QED BY <2>1, <2>2, <2>3, <2>4, <2>5, DeriveStamp
<1> QED BY <1>2, <1>3

LEMMA DeriveExternal ==
    ASSUME TypeInv, DeriveInv, Addressed', ExternalRecord \/ \E to \in Actor : ExternalStamp(to)
    PROVE  DeriveInv'
<1>1. /\ out \in [Node -> Envelope \cup {None}] /\ recorded \in Seq(Event)
      /\ World \in Node /\ World \notin Actor /\ Actor \subseteq Node
  BY TypedState
<1>2. UNCHANGED <<clock, lamport, seq, writerUp>>
  BY DEF ExternalRecord, ExternalStamp, Record
<1>3. \A b \in Actor : ToRecord(b)' = ToRecord(b) /\ Reported(b)' = Reported(b)
  <2>1. UNCHANGED pc
    BY DEF ExternalRecord, ExternalStamp
  <2> QED BY <1>1, <1>2, <2>1 DEF ToRecord, Reported
<1>4. CASE ExternalRecord
  <2>1. PICK ev : ev = EmitEvent(World, 1, out[World])
    OBVIOUS
  <2>2. /\ mpc = "record" /\ mpc' = "count" /\ Record(ev) /\ UNCHANGED out
    BY <1>4, <2>1 DEF ExternalRecord
  <2>3. ToRecord(World) /\ ~ToRecord(World)'
    BY <2>2 DEF ToRecord
  <2>4. InHandStamped'
    BY <1>2, <1>3, <2>2, <2>3 DEF DeriveInv, InHandStamped
  <2>5. /\ ev.actor = World /\ IsOrigin(ev)
    <3>1. out[World].msg_id # None
      BY <1>1, <2>3, EmitIds, NoIdAssumption
    <3> QED BY <2>1, <2>3, <3>1 DEF DeriveInv, InHandStamped, EmitEvent, IsOrigin, IsEmit
  <2>6. CASE writerUp
    <3>1. recorded' = Append(recorded, ev)
      BY <2>2, <2>6 DEF Record
    <3>2. \A j \in DOMAIN recorded' : Derived(recorded', j)
      <4> TAKE j \in DOMAIN recorded'
      <4>1. j \in DOMAIN recorded \/ j = Len(recorded) + 1
        BY <1>1, <3>1, LongerLog
      <4>2. CASE j \in DOMAIN recorded
        BY <1>1, <3>1, <4>2, DerivedStays DEF DeriveInv
      <4>3. CASE j = Len(recorded) + 1
        <5>1. recorded'[j] = ev
          BY <1>1, <3>1, <4>3, LongerLog
        <5> QED BY <2>5, <5>1 DEF Derived
      <4> QED BY <4>1, <4>2, <4>3
    <3>3. ASSUME NEW b \in Actor PROVE CaughtUp(b)'
      <4>1. PICK k \in Memory(recorded, b, Reported(b)) :
              IF ToRecord(b) THEN clock[b] = Bump(k.vclock, b) /\ lamport[b] = Tick(k.lamport)
                             ELSE clock[b] = k.vclock /\ lamport[b] = k.lamport
        BY <2>6 DEF DeriveInv, CaughtUp
      <4>2. k \in Memory(recorded', b, Reported(b))
        BY <1>1, <3>1, MemoryStays
      <4> QED BY <1>2, <1>3, <4>1, <4>2 DEF CaughtUp
    <3> QED BY <2>4, <3>2, <3>3 DEF DeriveInv
  <2>7. CASE ~writerUp
    BY <1>2, <2>2, <2>4, <2>7 DEF DeriveInv, Record
  <2> QED BY <2>6, <2>7
<1>5. CASE \E to \in Actor : ExternalStamp(to)
  <2>1. PICK e : /\ e.src = World /\ e.vclock = Bump(ZeroClock, World) /\ e.lamport = 1
                 /\ out' = [out EXCEPT ![World] = e] /\ UNCHANGED recorded
    BY <1>5 DEF ExternalStamp
  <2>2. out'[World] = e /\ \A b \in Actor : out'[b] = out[b]
    BY <1>1, <2>1
  <2>3. InHandStamped'
    BY <1>2, <1>3, <2>1, <2>2 DEF DeriveInv, InHandStamped
  <2>4. \A b \in Actor : CaughtUp(b) => CaughtUp(b)'
    BY <1>2, <1>3, <2>1 DEF CaughtUp
  <2> QED BY <1>2, <2>1, <2>3, <2>4 DEF DeriveInv
<1> QED BY <1>4, <1>5

LEMMA DeriveNext == TypeInv /\ LogInv /\ DeriveInv /\ [Next]_vars => DeriveInv'
<1> SUFFICES ASSUME TypeInv, LogInv, DeriveInv, [Next]_vars PROVE DeriveInv'
  OBVIOUS
<1>1. Addressed'
  BY AddressedNext DEF DeriveInv
<1>2. ASSUME Unlogged, UNCHANGED lamport PROVE DeriveInv'
  BY <1>1, <1>2, DeriveKept DEF Unlogged
<1>3. ASSUME NEW a \in Actor, Task(a) \/ Panic(a) PROVE DeriveInv'
  <2>1. CASE \/ Start(a) \/ StartedReturns(a) \/ Park(a) \/ Settle(a) \/ NotifyDone(a)
             \/ SendCount(a) \/ SendDeliver(a) \/ SendUndo(a) \/ NotifyUndo(a)
             \/ Cancel(a) \/ Panic(a)
    <3>1. UNCHANGED lamport
      BY <2>1 DEF Start, StartedReturns, Park, Settle, NotifyDone, SendCount, SendDeliver, SendUndo,
                  NotifyUndo, Cancel, Panic
    <3> QED BY <1>2, <2>1, <3>1, SilentTask
  <2> QED BY <1>1, <1>3, <2>1, DeriveRecv, DeriveCompute, DeriveSend DEF Task
<1>4. ASSUME Main PROVE DeriveInv'
  <2>1. CASE \/ ExternalCount \/ ExternalDeliver \/ RunUntilQuiescent \/ Check \/ Await
             \/ (\E a \in Actor : Abort(a)) \/ Close
    <3>1. UNCHANGED lamport
      BY <2>1 DEF ExternalCount, ExternalDeliver, RunUntilQuiescent, Check, Await, Abort, Close
    <3> QED BY <1>2, <2>1, <3>1, SilentMain
  <2> QED BY <1>1, <1>4, <2>1, DeriveExternal DEF Main
<1>5. ASSUME WriterFails \/ Done \/ UNCHANGED vars PROVE DeriveInv'
  <2>1. UNCHANGED lamport
    BY <1>5 DEF WriterFails, Done, vars
  <2> QED BY <1>2, <1>5, <2>1, SilentMain
<1> QED BY <1>3, <1>4, <1>5 DEF Next

----------------------------------------------------------------------------
(* Reach takes one round per event; a proof about it is by the first round *)
(* that goes wrong.                                                         *)

\* A set of numbers has a least one.
LEMMA LeastNumber ==
    ASSUME NEW S \in SUBSET Nat, S # {}
    PROVE  \E m \in S : \A k \in S : m <= k
<1>1. IsWellFoundedOn(OpToRel(<, Nat), Nat)
  BY NatLessThanWellFounded
<1>2. PICK m \in S : \A k \in S : ~(<<k, m>> \in OpToRel(<, Nat))
  BY <1>1, WFMin
<1>3. \A k \in S : ~(k < m)
  BY <1>2 DEF OpToRel
<1> QED BY <1>3

Widen(log, R, k) ==
    R \cup ({i \in DOMAIN log : <<i, k>> \in R} \X {j \in DOMAIN log : <<k, j>> \in R})

Rounds(log, n, f) ==
    f = [k \in 0..n |-> IF k = 0 THEN Edges(log) ELSE Widen(log, f[k - 1], k)]

\* The recursion has a solution, so `close` is one.
LEMMA RoundsExist ==
    ASSUME NEW log, NEW n \in Nat
    PROVE  \E f : Rounds(log, n, f)
<1> DEFINE Bad == {m \in Nat : ~\E f : Rounds(log, m, f)}
<1> SUFFICES ASSUME Bad # {}
             PROVE  FALSE
  OBVIOUS
<1>1. PICK m \in Bad : \A k \in Bad : m <= k
  BY LeastNumber
<1>2. m # 0
  <2>1. Rounds(log, 0, [k \in 0..0 |-> Edges(log)])
    BY DEF Rounds
  <2> QED BY <1>1, <2>1
<1>3. m - 1 \in Nat /\ m - 1 \notin Bad
  BY <1>1, <1>2
<1>4. PICK f : Rounds(log, m - 1, f)
  BY <1>3
<1> DEFINE g == [k \in 0..m |-> IF k = m THEN Widen(log, f[m - 1], m) ELSE f[k]]
<1>5. DOMAIN f = 0..(m - 1) /\ \A k \in 0..(m - 1) : f[k] = IF k = 0 THEN Edges(log) ELSE Widen(log, f[k - 1], k)
  BY <1>4 DEF Rounds
<1>6. Rounds(log, m, g)
  <2>1. \A k \in 0..(m - 1) : g[k] = f[k]
    BY <1>1
  <2>2. g[m] = Widen(log, g[m - 1], m)
    BY <1>3, <2>1
  <2>3. \A k \in 0..m : g[k] = IF k = 0 THEN Edges(log) ELSE Widen(log, g[k - 1], k)
    <3> TAKE k \in 0..m
    <3>1. CASE k = m
      BY <1>2, <2>2, <3>1
    <3>2. CASE k # m
      <4>1. k \in 0..(m - 1) /\ (k # 0 => k - 1 \in 0..(m - 1))
        BY <1>3, <3>2
      <4> HIDE DEF g
      <4> QED BY <1>5, <2>1, <4>1
    <3> QED BY <3>1, <3>2
  <2>4. g = [k \in 0..m |-> g[k]]
    OBVIOUS
  <2> HIDE DEF g
  <2> QED BY <2>3, <2>4 DEF Rounds
<1> QED BY <1>1, <1>6

LEMMA ReachIsLastRound ==
    ASSUME NEW log, Len(log) \in Nat
    PROVE  \E f : Rounds(log, Len(log), f) /\ Reach(log) = f[Len(log)]
<1> DEFINE close == CHOOSE f : Rounds(log, Len(log), f)
<1>1. Rounds(log, Len(log), close)
  BY RoundsExist
<1>2. Reach(log) = close[Len(log)]
  BY DEF Reach, Rounds, Widen
<1> QED BY <1>1, <1>2

\* Round k makes R transitive over the events up to k.
Through(R, m) ==
    \A i, j : \A x \in 1..m : <<i, x>> \in R /\ <<x, j>> \in R => <<i, j>> \in R

LEMMA WidenThrough ==
    ASSUME NEW log, NEW k \in Nat \ {0}, k \in DOMAIN log, NEW R \in SUBSET Pairs(log), Through(R, k - 1)
    PROVE  Through(Widen(log, R, k), k) /\ Widen(log, R, k) \in SUBSET Pairs(log)
<1> DEFINE W == Widen(log, R, k)
           In(i, j) == <<i, j>> \in R
<1>1. \A i, j : <<i, j>> \in W <=> In(i, j) \/ (In(i, k) /\ In(k, j))
  BY DEF Widen, Pairs
<1>2. \A i, j : \A x \in 1..(k - 1) : In(i, x) /\ In(x, j) => In(i, j)
  BY DEF Through
<1>3. \A x \in 1..k : x = k \/ x \in 1..(k - 1)
  OBVIOUS
<1>4. Through(W, k)
  <2> SUFFICES ASSUME NEW i, NEW j, NEW x \in 1..k, <<i, x>> \in W, <<x, j>> \in W
               PROVE  <<i, j>> \in W
    BY DEF Through
  <2>1. CASE x = k
    <3>1. In(i, k) /\ In(k, j)
      BY <1>1, <2>1
    <3> QED BY <1>1, <3>1
  <2>2. CASE x \in 1..(k - 1)
    <3> HIDE DEF W, In
    <3> QED BY <1>1, <1>2, <2>2
  <2> QED BY <1>3, <2>1, <2>2
<1>5. W \in SUBSET Pairs(log)
  BY DEF Widen, Pairs
<1> QED BY <1>4, <1>5

LEMMA ReachTransitive ==
    ASSUME NEW S, NEW log \in Seq(S)
    PROVE  /\ Edges(log) \subseteq Reach(log) /\ Reach(log) \subseteq Pairs(log)
           /\ \A i, j, k : <<i, j>> \in Reach(log) /\ <<j, k>> \in Reach(log) => <<i, k>> \in Reach(log)
<1>1. Len(log) \in Nat /\ DOMAIN log = 1..Len(log)
  OBVIOUS
<1>2. PICK f : Rounds(log, Len(log), f) /\ Reach(log) = f[Len(log)]
  BY <1>1, ReachIsLastRound
<1>3. /\ f[0] = Edges(log)
      /\ \A k \in 1..Len(log) : f[k] = Widen(log, f[k - 1], k)
  BY <1>1, <1>2 DEF Rounds
<1> DEFINE Good(m) == /\ f[m] \in SUBSET Pairs(log) /\ Edges(log) \subseteq f[m]
                      /\ Through(f[m], m)
           Bad == {m \in 0..Len(log) : ~Good(m)}
<1>4. Good(0)
  <2>1. Edges(log) \subseteq Pairs(log)
    BY DEF Edges, ProgramEdges, MessageEdges
  <2> QED BY <1>3, <2>1 DEF Through
<1>5. ASSUME NEW m \in 1..Len(log), Good(m - 1)
      PROVE  Good(m)
  <2>1. m \in Nat \ {0} /\ m \in DOMAIN log /\ f[m] = Widen(log, f[m - 1], m)
    BY <1>1, <1>3
  <2>2. f[m - 1] \subseteq f[m]
    BY <2>1 DEF Widen
  <2> QED BY <1>5, <2>1, <2>2, WidenThrough
<1>6. Bad = {}
  <2> SUFFICES ASSUME Bad # {}
               PROVE  FALSE
    OBVIOUS
  <2>1. Bad \in SUBSET Nat
    BY <1>1
  <2>2. PICK m \in Bad : \A k \in Bad : m <= k
    BY <2>1, LeastNumber
  <2>3. m \in 1..Len(log) /\ m - 1 \in 0..Len(log) /\ ~(m <= m - 1)
    BY <1>1, <1>4, <2>2
  <2>4. Good(m - 1)
    BY <2>2, <2>3
  <2> QED BY <1>5, <2>2, <2>3, <2>4
<1>7. Good(Len(log))
  BY <1>1, <1>6
<1>8. \A i, j : <<i, j>> \in f[Len(log)] => i \in 1..Len(log) /\ j \in 1..Len(log)
  BY <1>1, <1>7 DEF Pairs
<1> HIDE DEF Good
<1>9. Good(Len(log)) => /\ Edges(log) \subseteq f[Len(log)] /\ f[Len(log)] \subseteq Pairs(log)
                        /\ Through(f[Len(log)], Len(log))
  BY DEF Good
<1> QED BY <1>2, <1>7, <1>8, <1>9 DEF Through

\* Reach finds no more than the edges imply.
LEMMA ReachWithin ==
    ASSUME NEW S, NEW log \in Seq(S), NEW T, Edges(log) \subseteq T,
           \A i, j, k : <<i, j>> \in T /\ <<j, k>> \in T => <<i, k>> \in T
    PROVE  Reach(log) \subseteq T
<1>1. Len(log) \in Nat /\ DOMAIN log = 1..Len(log)
  OBVIOUS
<1>2. PICK f : Rounds(log, Len(log), f) /\ Reach(log) = f[Len(log)]
  BY <1>1, ReachIsLastRound
<1>3. /\ f[0] = Edges(log)
      /\ \A k \in 1..Len(log) : f[k] = Widen(log, f[k - 1], k)
  BY <1>1, <1>2 DEF Rounds
<1> DEFINE Bad == {m \in 0..Len(log) : ~(f[m] \subseteq T)}
<1>4. Bad = {}
  <2> SUFFICES ASSUME Bad # {}
               PROVE  FALSE
    OBVIOUS
  <2>1. Bad \in SUBSET Nat
    BY <1>1
  <2>2. PICK m \in Bad : \A k \in Bad : m <= k
    BY <2>1, LeastNumber
  <2>3. m \in 1..Len(log) /\ m - 1 \in 0..Len(log) /\ ~(m <= m - 1)
    BY <1>1, <1>3, <2>2
  <2>4. f[m - 1] \subseteq T
    BY <2>2, <2>3
  <2>5. f[m] \subseteq T
    <3>1. f[m] = f[m - 1] \cup ({i \in DOMAIN log : <<i, m>> \in f[m - 1]} \X
                               {j \in DOMAIN log : <<m, j>> \in f[m - 1]})
      BY <1>3, <2>3 DEF Widen
    <3>2. ASSUME NEW i, NEW j, <<i, m>> \in f[m - 1], <<m, j>> \in f[m - 1]
          PROVE  <<i, j>> \in T
      <4>1. <<i, m>> \in T /\ <<m, j>> \in T
        BY <2>4, <3>2
      <4> QED BY <4>1
    <3> QED BY <2>4, <3>1, <3>2
  <2> QED BY <2>2, <2>5
<1> QED BY <1>1, <1>2, <1>4

----------------------------------------------------------------------------
(* A clock that counts an event has been reached by it *)

LEMMA EventNumbers ==
    ASSUME TypeInv, DeriveInv, NEW j \in DOMAIN recorded
    PROVE  recorded[j].seq \in Nat /\ recorded[j].seq >= 1
<1>1. recorded[j].seq \in Nat /\ Derived(recorded, j)
  BY RecordedTypes DEF DeriveInv
<1>2. CASE recorded[j].actor = World
  BY <1>1, <1>2 DEF Derived, IsOrigin
<1>3. CASE recorded[j].actor # World
  <2>1. PICK m : m \in Memory(recorded, recorded[j].actor, recorded[j].seq - 1)
    BY <1>1, <1>3 DEF Derived
  <2>2. recorded[j].seq - 1 = 0 \/ \E i \in DOMAIN recorded : recorded[i].seq = recorded[j].seq - 1
    BY <2>1 DEF Memory
  <2>3. recorded[j].seq - 1 \in Nat
    BY <2>2, RecordedTypes
  <2> QED BY <1>1, <2>3
<1> QED BY <1>2, <1>3

\* What an actor remembers is what its previous event left.
LEMMA PreviousEvent ==
    ASSUME TypeInv, LogInv, DeriveInv, NEW a \in Actor, NEW j \in EventsOf(a),
           NEW m \in Memory(recorded, a, recorded[j].seq - 1), recorded[j].seq # 1
    PROVE  \E p \in EventsOf(a) : /\ p < j /\ <<p, j>> \in Edges(recorded)
                                  /\ recorded[p].seq = recorded[j].seq - 1
                                  /\ m = MemoryOf(recorded[p])
<1>1. j \in DOMAIN recorded /\ recorded[j].actor = a /\ DOMAIN recorded \subseteq Nat
  BY TypedState DEF EventsOf
<1>2. recorded[j].seq \in Nat /\ \A k \in DOMAIN recorded : recorded[k].seq \in Nat
  BY <1>1, RecordedTypes
<1>3. PICK p \in DOMAIN recorded : /\ recorded[p].actor = a /\ recorded[p].seq = recorded[j].seq - 1
                                   /\ m = MemoryOf(recorded[p])
  BY <1>2 DEF Memory, MemoryOf
<1>4. p \in EventsOf(a)
  BY <1>3 DEF EventsOf
<1>5. p < j
  <2>1. j < p => recorded[j].seq < recorded[p].seq
    BY <1>4 DEF LogInv, Ordered
  <2>2. p # j /\ p \in Nat /\ j \in Nat
    BY <1>1, <1>2, <1>3
  <2> QED BY <1>2, <1>3, <2>1, <2>2
<1>6. <<p, j>> \in ProgramEdges(recorded)
  <2>1. ASSUME NEW k \in DOMAIN recorded, recorded[p].seq < recorded[k].seq,
               recorded[k].seq < recorded[j].seq
        PROVE  FALSE
    BY <1>2, <1>3, <2>1
  <2>2. recorded[p].seq < recorded[j].seq /\ recorded[p].actor = recorded[j].actor
    BY <1>1, <1>2, <1>3
  <2> QED BY <1>1, <1>3, <2>1, <2>2 DEF ProgramEdges, Pairs
<1> QED BY <1>3, <1>4, <1>5, <1>6 DEF Edges

\* Event j counts event i, of whatever actor.
Counts(j, i) == i # j /\ recorded[i].seq <= recorded[j].vclock[recorded[i].actor]

LEMMA CountedBefore ==
    ASSUME TypeInv, LogInv, Worldly, DeriveInv,
           NEW j \in DOMAIN recorded, NEW i \in DOMAIN recorded, Counts(j, i)
    PROVE  \E p \in DOMAIN recorded : /\ p < j /\ <<p, j>> \in Edges(recorded)
                                      /\ p = i \/ Counts(p, i)
<1> DEFINE n == recorded[i].actor
           s == recorded[i].seq
<1>1. /\ n \in Node /\ s \in Nat /\ s >= 1 /\ i # j /\ s <= recorded[j].vclock[n]
      /\ Derived(recorded, j) /\ DOMAIN recorded \subseteq Nat
  BY RecordedTypes, EventNumbers, TypedState DEF DeriveInv, Counts
<1>2. /\ \A k \in DOMAIN recorded : recorded[k].vclock \in [Node -> Nat] /\ recorded[k].seq \in Nat
      /\ recorded[j].actor \in Node
  BY RecordedTypes DEF VClock
<1>3. CASE recorded[j].actor = World
  <2>1. IsOrigin(recorded[j])
    BY <1>1, <1>3 DEF Derived
  <2>2. n = World
    BY <1>1, <2>1 DEF IsOrigin, Bump, ZeroClock
  <2>3. i = j
    BY <1>3, <2>2 DEF Worldly, OriginAt
  <2> QED BY <1>1, <2>3
<1>4. CASE recorded[j].actor # World
  <2>1. PICK a \in Actor : recorded[j].actor = a
    BY <1>2, <1>4, TypedState
  <2>2. PICK m \in Memory(recorded, a, recorded[j].seq - 1) : StepFrom(recorded, j, m)
    BY <1>1, <1>4, <2>1 DEF Derived
  <2>3. j \in EventsOf(a)
    BY <2>1 DEF EventsOf
  <2>4. CASE n = a
    <3>1. i \in EventsOf(a)
      BY <2>4 DEF EventsOf
    <3>2. recorded[j].vclock[a] = recorded[j].seq
      BY <2>3 DEF LogInv, Ordered
    <3>3. s < recorded[j].seq
      <4>1. j < i => recorded[j].seq < s
        BY <2>3, <3>1 DEF LogInv, Ordered
      <4>2. i < j => s < recorded[j].seq
        BY <2>3, <3>1 DEF LogInv, Ordered
      <4>3. i < j \/ j < i
        BY <1>1
      <4>4. s <= recorded[j].seq /\ recorded[j].seq \in Nat
        BY <1>1, <1>2, <2>4, <3>2
      <4> QED BY <1>1, <4>1, <4>2, <4>3, <4>4
    <3>4. recorded[j].seq # 1 /\ recorded[j].seq \in Nat
      BY <1>1, <1>2, <3>3
    <3>5. PICK p \in EventsOf(a) : /\ p < j /\ <<p, j>> \in Edges(recorded)
                                   /\ recorded[p].seq = recorded[j].seq - 1
      BY <2>2, <2>3, <3>4, PreviousEvent
    <3>6. recorded[p].vclock[a] = recorded[p].seq /\ p \in DOMAIN recorded
      BY DEF LogInv, Ordered, EventsOf
    <3>7. s <= recorded[p].vclock[n]
      BY <1>1, <2>4, <3>3, <3>4, <3>5, <3>6
    <3> QED BY <3>5, <3>6, <3>7 DEF Counts
  <2>5. CASE n # a
    <3>0. m.vclock \in [Node -> Nat]
      BY <1>2, <2>2 DEF Memory, ZeroMemory, ZeroClock
    <3>1. CASE s <= m.vclock[n]
      <4>1. recorded[j].seq # 1
        <5>1. SUFFICES ASSUME recorded[j].seq = 1 PROVE FALSE
          OBVIOUS
        <5>2. m = ZeroMemory
          BY <2>2, <5>1 DEF Memory
        <5>3. m.vclock[n] = 0
          BY <1>1, <5>2 DEF ZeroMemory, ZeroClock
        <5> QED BY <1>1, <3>1, <5>3
      <4>2. PICK p \in EventsOf(a) : /\ p < j /\ <<p, j>> \in Edges(recorded)
                                     /\ m = MemoryOf(recorded[p])
        BY <2>2, <2>3, <4>1, PreviousEvent
      <4>3. p \in DOMAIN recorded /\ recorded[p].actor = a /\ recorded[p].vclock = m.vclock
        BY <4>2 DEF EventsOf, MemoryOf
      <4> QED BY <2>5, <3>1, <4>2, <4>3 DEF Counts
    <3>2. CASE ~(s <= m.vclock[n])
      <4>1. CASE recorded[j].vclock = Bump(m.vclock, a)
        BY <1>1, <2>5, <3>0, <3>2, <4>1 DEF Bump
      <4>2. CASE /\ recorded[j].op = "recv"
                 /\ \E k \in 1..(j - 1) : /\ Meets(recorded[k], recorded[j])
                                          /\ recorded[j].vclock = Bump(Join(m.vclock, recorded[k].vclock), a)
        <5>1. PICK k \in 1..(j - 1) : /\ Meets(recorded[k], recorded[j])
                                      /\ recorded[j].vclock = Bump(Join(m.vclock, recorded[k].vclock), a)
          BY <4>2
        <5>2. k \in DOMAIN recorded /\ k < j
          BY TypedState
        <5>3. <<k, j>> \in Edges(recorded)
          BY <4>2, <5>1, <5>2 DEF Edges, MessageEdges, Pairs, Meets, IsRecv
        <5>4. recorded[j].vclock[n] = Larger(m.vclock[n], recorded[k].vclock[n])
          BY <1>1, <1>2, <2>5, <3>0, <5>1, <5>2 DEF Bump, Join
        <5>5. s <= recorded[k].vclock[n]
          BY <1>1, <3>2, <5>4 DEF Larger
        <5> QED BY <5>2, <5>3, <5>5 DEF Counts
      <4> QED BY <2>1, <2>2, <4>1, <4>2 DEF StepFrom, Stepped
    <3> QED BY <3>1, <3>2
  <2> QED BY <2>4, <2>5
<1> QED BY <1>3, <1>4

LEMMA CountedIsReached ==
    ASSUME TypeInv, LogInv, Worldly, DeriveInv
    PROVE  \A j, i \in DOMAIN recorded : Counts(j, i) => <<i, j>> \in Reach(recorded)
<1> DEFINE R == Reach(recorded)
           Bad == {j \in DOMAIN recorded : \E i \in DOMAIN recorded : Counts(j, i) /\ <<i, j>> \notin R}
<1>1. DOMAIN recorded \subseteq Nat /\ recorded \in Seq(Event)
  BY TypedState
<1>2. /\ Edges(recorded) \subseteq R
      /\ \A i, j, k : <<i, j>> \in R /\ <<j, k>> \in R => <<i, k>> \in R
  BY <1>1, ReachTransitive
<1> HIDE DEF R
<1>3. Bad = {}
  <2> SUFFICES ASSUME Bad # {}
               PROVE  FALSE
    OBVIOUS
  <2>1. PICK j \in Bad : \A k \in Bad : j <= k
    <3>1. Bad \in SUBSET Nat
      BY <1>1
    <3> QED BY <3>1, LeastNumber
  <2>2. PICK i \in DOMAIN recorded : Counts(j, i) /\ <<i, j>> \notin R
    BY <2>1
  <2>3. PICK p \in DOMAIN recorded : p < j /\ <<p, j>> \in Edges(recorded) /\ (p = i \/ Counts(p, i))
    BY <2>2, CountedBefore
  <2>4. ~(j <= p)
    <3>1. p \in Nat /\ j \in Nat
      BY <1>1
    <3> HIDE DEF Bad
    <3> QED BY <2>3, <3>1
  <2>5. p \notin Bad
    <3> HIDE DEF Bad
    <3> QED BY <2>1, <2>4
  <2>6. p = i \/ <<i, p>> \in R
    BY <2>3, <2>5
  <2> QED BY <1>2, <2>2, <2>3, <2>6
<1> QED BY <1>3 DEF R

----------------------------------------------------------------------------
(* The orders of wire clocks are the orders of stamps *)

LEMMA StampOrders ==
    ASSUME NEW s \in VClock, NEW t \in VClock
    PROVE  /\ HbStrict(s, t) <=> Less(s, t)
           /\ HappensBefore(s, t) <=> Less(s, t)
           /\ Concurrent(s, t) <=> s # t /\ ~Less(s, t) /\ ~Less(t, s)
<1>1. DOMAIN s = Node /\ DOMAIN t = Node
  BY DEF VClock
<1>2. \A k \in Node : Get(s, k) = s[k] /\ Get(t, k) = t[k] /\ s[k] \in Nat /\ t[k] \in Nat
  BY <1>1 DEF Get, VClock
<1>3. s = t <=> \A k \in Node : s[k] = t[k]
  BY <1>1 DEF VClock
<1> DEFINE Rises == \E k \in Node : s[k] < t[k]
           Falls == \E k \in Node : s[k] > t[k]
<1>4. Less(s, t) <=> Rises /\ ~Falls
  BY <1>1, <1>2, <1>3 DEF Less, Leq
<1>5. Less(t, s) <=> Falls /\ ~Rises
  BY <1>1, <1>2, <1>3 DEF Less, Leq
<1>6. s = t <=> ~Rises /\ ~Falls
  BY <1>2, <1>3
<1>7. /\ (\E k \in DOMAIN s \cup DOMAIN t : Get(s, k) < Get(t, k)) <=> Rises
      /\ (\E k \in DOMAIN s \cup DOMAIN t : Get(s, k) > Get(t, k)) <=> Falls
      /\ (\A k \in DOMAIN s \cup DOMAIN t : Get(s, k) <= Get(t, k)) <=> ~Falls
  BY <1>1, <1>2
<1> HIDE DEF Rises, Falls
<1>8. HbStrict(s, t) <=> Rises /\ ~Falls
  BY <1>7 DEF HbStrict
<1>9. /\ HappensBefore(s, t) <=> Rises /\ ~Falls
      /\ Concurrent(s, t) <=> Rises /\ Falls
  BY <1>7 DEF HappensBefore, Concurrent, PartialCmp
<1> QED BY <1>4, <1>5, <1>6, <1>8, <1>9

LEMMA LessTransitive ==
    ASSUME NEW r \in VClock, NEW s \in VClock, NEW t \in VClock, Less(r, s), Less(s, t)
    PROVE  Less(r, t) /\ ~Less(t, r)
<1>1. Leq(r, t)
  BY LeqTransitive DEF Less
<1>2. ASSUME \A k \in Node : t[k] <= r[k]
      PROVE  FALSE
  <2>1. \A k \in Node : r[k] <= s[k] /\ s[k] <= t[k] /\ r[k] \in Nat /\ s[k] \in Nat /\ t[k] \in Nat
    BY DEF Less, Leq, VClock
  <2>2. \A k \in Node : r[k] = s[k]
    BY <1>2, <2>1
  <2>3. r = s
    BY <2>2 DEF VClock
  <2> QED BY <2>3 DEF Less
<1>3. ~(\A k \in Node : t[k] <= r[k])
  BY <1>2
<1>4. ~Leq(t, r)
  BY <1>3 DEF Leq, VClock
<1>5. r # t
  BY <1>4, LeqReflexive
<1> QED BY <1>1, <1>4, <1>5 DEF Less

\* A chain of edges shows in the clocks.
LEMMA ReachedIsLess ==
    ASSUME TypeInv, LogInv, Worldly
    PROVE  \A i, j \in DOMAIN recorded :
             <<i, j>> \in Reach(recorded) => Less(recorded[i].vclock, recorded[j].vclock)
<1> DEFINE T == {e \in Pairs(recorded) : Less(recorded[e[1]].vclock, recorded[e[2]].vclock)}
<1>1. \A i \in DOMAIN recorded : recorded[i].vclock \in VClock
  BY RecordedTypes
<1>2. Edges(recorded) \subseteq T
  <2>1. Valid(recorded)
    BY AcceptsLog DEF ReplayAccepts
  <2>2. Edges(recorded) \subseteq Pairs(recorded)
    BY DEF Edges, ProgramEdges, MessageEdges
  <2>3. \A e \in Pairs(recorded) : HbStrict(recorded[e[1]].vclock, recorded[e[2]].vclock)
                                     => Less(recorded[e[1]].vclock, recorded[e[2]].vclock)
    BY <1>1, StampOrders DEF Pairs
  <2> QED BY <2>1, <2>2, <2>3 DEF Valid
<1>3. ASSUME NEW i, NEW j, NEW k, <<i, j>> \in T, <<j, k>> \in T
      PROVE  <<i, k>> \in T
  <2>1. /\ i \in DOMAIN recorded /\ j \in DOMAIN recorded /\ k \in DOMAIN recorded
        /\ Less(recorded[i].vclock, recorded[j].vclock) /\ Less(recorded[j].vclock, recorded[k].vclock)
    BY <1>3 DEF Pairs
  <2>2. Less(recorded[i].vclock, recorded[k].vclock)
    BY <1>1, <2>1, LessTransitive
  <2> QED BY <2>1, <2>2 DEF Pairs
<1>4. \A i, j : <<i, j>> \in T => Less(recorded[i].vclock, recorded[j].vclock)
  OBVIOUS
<1>5. recorded \in Seq(Event)
  BY TypedState
<1> HIDE DEF T
<1>6. Reach(recorded) \subseteq T
  BY <1>2, <1>3, <1>5, ReachWithin
<1> QED BY <1>4, <1>6

\* The clock of event i counts i, so a clock that dominates it does too.
LEMMA DominatesIsCounts ==
    ASSUME TypeInv, LogInv, DeriveInv, NEW i \in DOMAIN recorded, NEW j \in DOMAIN recorded, i # j,
           Leq(recorded[i].vclock, recorded[j].vclock)
    PROVE  Counts(j, i)
<1>1. /\ recorded[i].actor \in Node /\ recorded[i].seq \in Nat
      /\ recorded[i].vclock \in VClock /\ Derived(recorded, i)
  BY RecordedTypes DEF DeriveInv
<1>2. recorded[i].vclock[recorded[i].actor] <= recorded[j].vclock[recorded[i].actor]
  BY <1>1 DEF Leq, VClock
<1>3. CASE recorded[i].actor = World
  <2>1. IsOrigin(recorded[i])
    BY <1>1, <1>3 DEF Derived
  <2>2. recorded[i].vclock[World] = 1 /\ recorded[i].seq = 1
    BY <1>1, <1>3, <2>1 DEF IsOrigin, Bump, ZeroClock
  <2> QED BY <1>2, <1>3, <2>2 DEF Counts
<1>4. CASE recorded[i].actor # World
  <2>1. recorded[i].actor \in Actor
    BY <1>1, <1>4, TypedState
  <2>2. recorded[i].vclock[recorded[i].actor] = recorded[i].seq
    BY <2>1 DEF LogInv, Ordered, EventsOf
  <2> QED BY <1>2, <2>2 DEF Counts
<1> QED BY <1>3, <1>4

\* The clocks order two events exactly as the edges do, and tell any two
\* events apart.
LEMMA Embedding ==
    ASSUME TypeInv, LogInv, Worldly, DeriveInv,
           NEW i \in DOMAIN recorded, NEW j \in DOMAIN recorded
    PROVE  /\ <<i, j>> \in Reach(recorded) <=> Less(recorded[i].vclock, recorded[j].vclock)
           /\ i # j => recorded[i].vclock # recorded[j].vclock
<1>1. recorded[i].vclock \in VClock /\ recorded[j].vclock \in VClock
  BY RecordedTypes
<1>2. <<i, j>> \in Reach(recorded) => Less(recorded[i].vclock, recorded[j].vclock)
  BY ReachedIsLess
<1>3. ASSUME i # j, Leq(recorded[i].vclock, recorded[j].vclock)
      PROVE  <<i, j>> \in Reach(recorded)
  BY <1>3, DominatesIsCounts, CountedIsReached
<1>4. Less(recorded[i].vclock, recorded[j].vclock) => <<i, j>> \in Reach(recorded)
  BY <1>3 DEF Less
<1>5. i # j => recorded[i].vclock # recorded[j].vclock
  BY <1>1, <1>2, <1>3, LeqReflexive DEF Less
<1> QED BY <1>2, <1>4, <1>5

LEMMA EmbeddingIsExact ==
    ASSUME TypeInv, LogInv, Worldly, DeriveInv
    PROVE  ExactEmbedding
<1>1. \A i \in DOMAIN recorded : recorded[i].vclock \in VClock
  BY RecordedTypes
<1>2. DOMAIN recorded \subseteq Nat
  BY TypedState
<1>3. ASSUME NEW e \in Pairs(recorded)
      PROVE  /\ e \in Reach(recorded) <=> HappensBefore(recorded[e[1]].vclock, recorded[e[2]].vclock)
             /\ e[1] < e[2] =>
                  (/\ e \notin Reach(recorded) /\ <<e[2], e[1]>> \notin Reach(recorded))
                    <=> Concurrent(recorded[e[1]].vclock, recorded[e[2]].vclock)
  <2>1. PICK i \in DOMAIN recorded, j \in DOMAIN recorded : e = <<i, j>>
    BY DEF Pairs
  <2>2. e[1] = i /\ e[2] = j /\ (i < j => i # j)
    BY <1>2, <2>1
  <2>3. /\ <<i, j>> \in Reach(recorded) <=> Less(recorded[i].vclock, recorded[j].vclock)
        /\ <<j, i>> \in Reach(recorded) <=> Less(recorded[j].vclock, recorded[i].vclock)
        /\ i # j => recorded[i].vclock # recorded[j].vclock
    BY Embedding
  <2>4. /\ HappensBefore(recorded[i].vclock, recorded[j].vclock) <=> Less(recorded[i].vclock, recorded[j].vclock)
        /\ Concurrent(recorded[i].vclock, recorded[j].vclock)
             <=> /\ recorded[i].vclock # recorded[j].vclock
                 /\ ~Less(recorded[i].vclock, recorded[j].vclock)
                 /\ ~Less(recorded[j].vclock, recorded[i].vclock)
    BY <1>1, StampOrders
  <2> QED BY <2>1, <2>2, <2>3, <2>4
<1> QED BY <1>3 DEF ExactEmbedding, ConcurrentPairs

----------------------------------------------------------------------------

\* "The exact happens-before embedding" (README, engine.rs): with at most one
\* origin, in every log, finished or cut short, the clocks order two events
\* exactly when a chain of edges connects them, and what concurrent_pairs
\* returns are the pairs whose clocks are incomparable.
THEOREM ExactEmbeddingHolds ==
    ASSUME MaxOrigins <= 1
    PROVE  Spec => []ExactEmbedding
<1> DEFINE I == TypeInv /\ NoClockAhead /\ LogInv /\ Worldly /\ DeriveInv
<1>1. Init => I
  BY TypeInvInit, GroundedInit, LogInvInit, WorldlyInit, DeriveInit
<1>2. I /\ [Next]_vars => I'
  BY TypeInvNext, GroundedTask, GroundedMain, LogInvNext, WorldlyTask, WorldlyMain, DeriveNext DEF Next
<1>3. I => ExactEmbedding
  BY EmbeddingIsExact
<1> HIDE DEF I
<1> QED BY <1>1, <1>2, <1>3, PTL DEF Spec

----------------------------------------------------------------------------
(* Messages between one pair of actors.  The ids a node draws grow, and its  *)
(* envelopes pass through three places in order: its hands, the receiver's   *)
(* mailbox, the receiver's events.                                           *)

Carries(n) == ToRecord(n) \/ PastRecord(n)

Older(m, e) == m.src = e.src => m.msg_id < e.msg_id

Drawn(m) == m.msg_id \in Nat /\ m.msg_id <= msgId

CarriesNewest(m) == \A n \in Node : Carries(n) => Older(m, out[n])

Fifo ==
    /\ \A n \in Node : Carries(n) => out[n].src = n /\ Drawn(out[n])
    /\ \A b \in Actor : \A i \in DOMAIN mailbox[b] :
         /\ Drawn(mailbox[b][i]) /\ CarriesNewest(mailbox[b][i])
         /\ \A j \in DOMAIN mailbox[b] : i < j => Older(mailbox[b][i], mailbox[b][j])
    /\ \A k \in DOMAIN recorded : IsRecv(recorded[k]) =>
         /\ recorded[k].dst \in Actor /\ Drawn(recorded[k]) /\ CarriesNewest(recorded[k])
         /\ \A i \in DOMAIN mailbox[recorded[k].dst] :
              Older(recorded[k], mailbox[recorded[k].dst][i])
    /\ PairwiseFifo

LEMMA FifoInit == Init => Fifo
<1> SUFFICES ASSUME Init PROVE Fifo
  OBVIOUS
<1>1. World \notin Actor /\ \A n \in Node : ~Carries(n)
  BY ActorAssumption DEF Init, Carries, ToRecord, PastRecord, Node
<1>2. DOMAIN recorded = {} /\ \A b \in Actor : DOMAIN mailbox[b] = {}
  BY DEF Init
<1> QED BY <1>1, <1>2 DEF Fifo, PairwiseFifo

LEMMA FifoCarried ==
    ASSUME TypeInv, NEW n \in Node, Carries(n)
    PROVE  out[n] \in Envelope
  BY DEF TypeInv, Shape, Carries, ToRecord, PastRecord, Node

\* Steps that draw no id and receive nothing: a mailbox may be dropped whole.
LEMMA FifoKept ==
    ASSUME Fifo, UNCHANGED msgId,
           \A k \in DOMAIN recorded' : IsRecv(recorded'[k]) =>
             k \in DOMAIN recorded /\ recorded'[k] = recorded[k],
           \A b \in Actor : \A i \in DOMAIN mailbox'[b] : mailbox'[b] = mailbox[b],
           \A n \in Node : Carries(n)' => Carries(n) /\ out'[n] = out[n]
    PROVE  Fifo'
<1>1. \A n \in Node : Carries(n)' => out'[n].src = n /\ Drawn(out[n])' 
  BY DEF Fifo, Drawn
<1>2. \A m : CarriesNewest(m) => \A n \in Node : Carries(n)' => Older(m, out'[n])
  BY DEF CarriesNewest
<1>3. ASSUME NEW b \in Actor, NEW i \in DOMAIN mailbox'[b]
      PROVE  /\ Drawn(mailbox[b][i])'
             /\ \A n \in Node : Carries(n)' => Older(mailbox'[b][i], out'[n])
             /\ \A j \in DOMAIN mailbox'[b] : i < j => Older(mailbox'[b][i], mailbox'[b][j])
  <2>1. mailbox'[b] = mailbox[b]
    OBVIOUS
  <2> QED BY <1>2, <2>1 DEF Fifo, Drawn
<1>4. ASSUME NEW k \in DOMAIN recorded', IsRecv(recorded'[k])
      PROVE  /\ recorded'[k].dst \in Actor /\ Drawn(recorded[k])'
             /\ \A n \in Node : Carries(n)' => Older(recorded'[k], out'[n])
             /\ \A i \in DOMAIN mailbox'[recorded'[k].dst] :
                  Older(recorded'[k], mailbox'[recorded'[k].dst][i])
  <2>1. k \in DOMAIN recorded /\ recorded'[k] = recorded[k]
    BY <1>4
  <2>2. recorded[k].dst \in Actor /\ Drawn(recorded[k]) /\ CarriesNewest(recorded[k])
    BY <1>4, <2>1 DEF Fifo
  <2>3. ASSUME NEW i \in DOMAIN mailbox'[recorded[k].dst]
        PROVE  Older(recorded[k], mailbox'[recorded[k].dst][i])
    <3>1. mailbox'[recorded[k].dst] = mailbox[recorded[k].dst]
      BY <2>2
    <3> QED BY <1>4, <2>1, <3>1 DEF Fifo
  <2> QED BY <1>2, <2>1, <2>2, <2>3 DEF Drawn
<1>5. PairwiseFifo'
  BY DEF Fifo, PairwiseFifo
<1> QED BY <1>1, <1>3, <1>4, <1>5 DEF Fifo, CarriesNewest

\* A new envelope carries the largest id of all.
LEMMA FifoStamp ==
    ASSUME TypeInv, Fifo, NEW n \in Node, msgId' = msgId + 1,
           out'[n].src = n, out'[n].msg_id = msgId + 1,
           \A m \in Node : m # n => Carries(m)' = Carries(m) /\ out'[m] = out[m],
           UNCHANGED <<mailbox, recorded>>
    PROVE  Fifo'
<1>1. msgId \in Nat
  BY DEF TypeInv, Typing, MessageTypes
<1>2. \A m : Drawn(m) => m.msg_id \in Nat /\ m.msg_id <= msgId' /\ m.msg_id < out'[n].msg_id
  BY <1>1 DEF Drawn
<1>3. \A m : Drawn(m) /\ CarriesNewest(m) => \A k \in Node : Carries(k)' => Older(m, out'[k])
  BY <1>2 DEF CarriesNewest, Older
<1>4. \A k \in Node : Carries(k)' =>
        out'[k].src = k /\ out'[k].msg_id \in Nat /\ out'[k].msg_id <= msgId'
  <2> TAKE k \in Node
  <2>1. CASE k = n
    BY <1>1, <2>1
  <2>2. CASE k # n
    BY <1>2, <2>2 DEF Fifo
  <2> QED BY <2>1, <2>2
<1>5. \A b \in Actor : \A i \in DOMAIN mailbox'[b] :
         /\ mailbox'[b][i].msg_id \in Nat /\ mailbox'[b][i].msg_id <= msgId'
         /\ \A k \in Node : Carries(k)' => Older(mailbox'[b][i], out'[k])
         /\ \A j \in DOMAIN mailbox'[b] : i < j => Older(mailbox'[b][i], mailbox'[b][j])
  BY <1>2, <1>3 DEF Fifo
<1>6. \A k \in DOMAIN recorded' : IsRecv(recorded'[k]) =>
         /\ recorded'[k].dst \in Actor
         /\ recorded'[k].msg_id \in Nat /\ recorded'[k].msg_id <= msgId'
         /\ \A m \in Node : Carries(m)' => Older(recorded'[k], out'[m])
         /\ \A i \in DOMAIN mailbox'[recorded'[k].dst] :
              Older(recorded'[k], mailbox'[recorded'[k].dst][i])
  BY <1>2, <1>3 DEF Fifo
<1>7. PairwiseFifo'
  BY DEF Fifo, PairwiseFifo
<1>8. \A k \in Node : Carries(k)' => out'[k].src = k /\ Drawn(out[k])'
  BY <1>4 DEF Drawn
<1>9. \A b \in Actor : \A i \in DOMAIN mailbox'[b] :
         /\ Drawn(mailbox[b][i])' /\ CarriesNewest(mailbox[b][i])'
         /\ \A j \in DOMAIN mailbox'[b] : i < j => Older(mailbox'[b][i], mailbox'[b][j])
  BY <1>5 DEF CarriesNewest, Drawn
<1>10. \A k \in DOMAIN recorded' : IsRecv(recorded'[k]) =>
         /\ recorded'[k].dst \in Actor
         /\ Drawn(recorded[k])' /\ CarriesNewest(recorded[k])'
         /\ \A i \in DOMAIN mailbox'[recorded'[k].dst] :
              Older(recorded'[k], mailbox'[recorded'[k].dst][i])
  BY <1>6 DEF CarriesNewest, Drawn
<1> QED BY <1>7, <1>8, <1>9, <1>10 DEF Fifo, Older, IsRecv

\* A delivered envelope is the newest of its sender's in the mailbox.
LEMMA FifoDeliver ==
    ASSUME TypeInv, Fifo, NEW n \in Node, Carries(n), ~Carries(n)',
           \A m \in Node : m # n => Carries(m)' = Carries(m) /\ out'[m] = out[m],
           mailbox' = [mailbox EXCEPT ![out[n].dst] = Append(@, out[n])],
           UNCHANGED <<msgId, recorded>>
    PROVE  Fifo'
<1> DEFINE to   == out[n].dst
           last == Len(mailbox[to]) + 1
<1>1. PICK env : env = out[n]
  OBVIOUS
<1>2. env \in Envelope /\ env.dst = to /\ to \in Actor /\ env.src = n /\ Drawn(env)
  BY <1>1, FifoCarried DEF Envelope, Fifo
<1>3. /\ Len(mailbox[to]) \in Nat /\ DOMAIN mailbox[to] = 1..Len(mailbox[to])
      /\ mailbox'[to] = Append(mailbox[to], env)
      /\ \A b \in Actor : b # to => mailbox'[b] = mailbox[b]
  BY <1>1, <1>2 DEF TypeInv, Typing, MessageTypes
<1>4. /\ last \in Nat /\ mailbox'[to][last] = env
      /\ \A i \in DOMAIN mailbox[to] : i \in Nat /\ i < last /\ mailbox'[to][i] = mailbox[to][i]
      /\ \A i \in DOMAIN mailbox'[to] : i \in DOMAIN mailbox[to] \/ i = last
  <2>1. mailbox[to] \in Seq(Envelope)
    BY <1>2 DEF TypeInv, Typing, MessageTypes
  <2> QED BY <1>2, <1>3, <2>1
<1> HIDE DEF last, to
<1>5. \A b \in Actor : \A i \in DOMAIN mailbox'[b] :
        \/ i \in DOMAIN mailbox[b] /\ mailbox'[b][i] = mailbox[b][i]
        \/ b = to /\ i = last /\ mailbox'[b][i] = env
  BY <1>3, <1>4
<1>6. \A m : CarriesNewest(m) =>
        Older(m, env) /\ \A k \in Node : Carries(k)' => Older(m, out'[k])
  BY <1>1 DEF CarriesNewest
<1>7. \A k \in Node : Carries(k)' => k # n /\ out'[k].src = k /\ Drawn(out'[k]) /\ Older(env, out'[k])
  BY <1>2 DEF Fifo, Older
<1>8. \A m : Drawn(m)' <=> Drawn(m)
  BY DEF Drawn
<1>9. ASSUME NEW b \in Actor, NEW i \in DOMAIN mailbox'[b]
      PROVE  /\ Drawn(mailbox'[b][i])
             /\ \A k \in Node : Carries(k)' => Older(mailbox'[b][i], out'[k])
             /\ \A j \in DOMAIN mailbox'[b] : i < j => Older(mailbox'[b][i], mailbox'[b][j])
  <2>1. CASE i \in DOMAIN mailbox[b] /\ mailbox'[b][i] = mailbox[b][i]
    <3>1. /\ Drawn(mailbox[b][i]) /\ CarriesNewest(mailbox[b][i])
          /\ \A j \in DOMAIN mailbox[b] : i < j => Older(mailbox[b][i], mailbox[b][j])
      BY <2>1 DEF Fifo
    <3> QED BY <1>5, <1>6, <2>1, <3>1
  <2>2. CASE b = to /\ i = last /\ mailbox'[b][i] = env
    <3>1. \A j \in DOMAIN mailbox'[b] : ~(i < j)
      BY <1>4, <2>2
    <3> QED BY <1>2, <1>7, <2>2, <3>1
  <2> QED BY <1>5, <2>1, <2>2
<1>10. ASSUME NEW k \in DOMAIN recorded, IsRecv(recorded[k])
       PROVE  /\ recorded[k].dst \in Actor /\ Drawn(recorded[k])
              /\ \A m \in Node : Carries(m)' => Older(recorded[k], out'[m])
              /\ \A i \in DOMAIN mailbox'[recorded[k].dst] :
                   Older(recorded[k], mailbox'[recorded[k].dst][i])
  <2>1. /\ recorded[k].dst \in Actor /\ Drawn(recorded[k]) /\ CarriesNewest(recorded[k])
        /\ \A i \in DOMAIN mailbox[recorded[k].dst] :
             Older(recorded[k], mailbox[recorded[k].dst][i])
    BY <1>10 DEF Fifo
  <2>2. ASSUME NEW i \in DOMAIN mailbox'[recorded[k].dst]
        PROVE  Older(recorded[k], mailbox'[recorded[k].dst][i])
    BY <1>5, <1>6, <2>1
  <2> QED BY <1>6, <2>1, <2>2
<1>11. PairwiseFifo'
  BY DEF Fifo, PairwiseFifo
<1> QED BY <1>7, <1>8, <1>9, <1>10, <1>11 DEF Fifo, CarriesNewest

\* The oldest message of a mailbox is younger than all that were received.
LEMMA FifoRecv ==
    ASSUME TypeInv, Fifo, NEW a \in Actor, Recv(a)
    PROVE  Fifo'
<1>1. PICK e, vc, lam :
        /\ e = Head(mailbox[a])
        /\ Record(RecvEvent(a, seq[a] + 1, vc, lam, e))
        /\ mailbox[a] # <<>> /\ mailbox' = [mailbox EXCEPT ![a] = Tail(@)]
        /\ pc' = [pc EXCEPT ![a] = IF e.typed THEN "user" ELSE "mistyped"]
        /\ pc[a] \in {"loop", "parked"}
        /\ UNCHANGED <<out, msgId, sharedVars, mainVars>>
  BY DEF Recv
<1>2. PICK ev : ev = RecvEvent(a, seq[a] + 1, vc, lam, e)
  OBVIOUS
<1>3. ev.src = e.src /\ ev.msg_id = e.msg_id /\ ev.dst = a
  BY <1>2 DEF RecvEvent
<1>4. /\ mailbox \in [Actor -> Seq(Envelope)] /\ mailbox[a] \in Seq(Envelope)
      /\ pc \in [Actor -> ActorPc] /\ World \notin Actor
      /\ \A n \in Node : n # World => n \in Actor
  BY ActorAssumption DEF TypeInv, Typing, TaskTypes, MessageTypes, Node
<1>5. /\ e = mailbox[a][1] /\ 1 \in DOMAIN mailbox[a]
      /\ \A i \in DOMAIN Tail(mailbox[a]) :
           i + 1 \in DOMAIN mailbox[a] /\ Tail(mailbox[a])[i] = mailbox[a][i + 1] /\ i \in Nat /\ 1 < i + 1
  BY <1>1, <1>4
<1>6. /\ mailbox'[a] = Tail(mailbox[a])
      /\ \A b \in Actor : b # a => mailbox'[b] = mailbox[b]
  BY <1>1, <1>4
<1>7. \A n \in Node : Carries(n)' = Carries(n) /\ out'[n] = out[n]
  <2>1. /\ pc'[a] \in {"user", "mistyped"} /\ mpc' = mpc /\ a # World
        /\ \A b \in Actor : b # a => pc'[b] = pc[b]
    BY <1>1, <1>4
  <2> QED BY <1>1, <1>4, <2>1 DEF Carries, ToRecord, PastRecord
<1>8. (\A m : Drawn(m)' = Drawn(m)) /\ (\A m : CarriesNewest(m)' = CarriesNewest(m))
  BY <1>1, <1>7 DEF Drawn, CarriesNewest
<1>9. Drawn(e) /\ CarriesNewest(e) /\ \A j \in DOMAIN mailbox[a] : 1 < j => Older(e, mailbox[a][j])
  BY <1>5 DEF Fifo
<1>10. ASSUME NEW b \in Actor, NEW i \in DOMAIN mailbox'[b]
       PROVE  /\ Drawn(mailbox'[b][i]) /\ CarriesNewest(mailbox'[b][i])
              /\ \A j \in DOMAIN mailbox'[b] : i < j => Older(mailbox'[b][i], mailbox'[b][j])
  <2>1. CASE b = a
    <3>1. /\ i + 1 \in DOMAIN mailbox[a] /\ mailbox'[b][i] = mailbox[a][i + 1]
          /\ \A j \in DOMAIN mailbox'[b] : i < j =>
               /\ j + 1 \in DOMAIN mailbox[a] /\ mailbox'[b][j] = mailbox[a][j + 1] /\ i + 1 < j + 1
      <4>1. mailbox'[b] = Tail(mailbox[a])
        BY <1>6, <2>1
      <4>2. \A j \in DOMAIN mailbox'[b] :
              j \in Nat /\ j + 1 \in DOMAIN mailbox[a] /\ mailbox'[b][j] = mailbox[a][j + 1]
        BY <1>5, <4>1
      <4>3. \A j \in DOMAIN mailbox'[b] : i < j => i + 1 < j + 1
        BY <4>2
      <4> QED BY <4>2, <4>3
    <3>2. PICK k \in DOMAIN mailbox[a] : k = i + 1
      BY <3>1
    <3>3. /\ Drawn(mailbox[a][k]) /\ CarriesNewest(mailbox[a][k])
          /\ \A j \in DOMAIN mailbox[a] : k < j => Older(mailbox[a][k], mailbox[a][j])
      BY DEF Fifo
    <3> QED BY <3>1, <3>2, <3>3
  <2>2. CASE b # a
    BY <1>6, <2>2 DEF Fifo
  <2> QED BY <2>1, <2>2
<1>11. \A m : (\A i \in DOMAIN mailbox[a] : Older(m, mailbox[a][i]))
                => \A i \in DOMAIN mailbox'[a] : Older(m, mailbox'[a][i])
  BY <1>5, <1>6
<1>12. \A k \in DOMAIN recorded : IsRecv(recorded[k]) =>
         /\ recorded[k].dst \in Actor /\ Drawn(recorded[k]) /\ CarriesNewest(recorded[k])
         /\ \A i \in DOMAIN mailbox'[recorded[k].dst] :
              Older(recorded[k], mailbox'[recorded[k].dst][i])
  BY <1>6, <1>11 DEF Fifo
<1>13. CASE ~writerUp
  <2>1. recorded' = recorded
    BY <1>1, <1>13 DEF Record
  <2> QED BY <1>7, <1>8, <1>10, <1>12, <2>1 DEF Fifo, PairwiseFifo
<1>14. CASE writerUp
  <2> DEFINE last == Len(recorded) + 1
  <2>1. /\ last \in Nat /\ recorded'[last] = ev /\ DOMAIN recorded \subseteq Nat
        /\ \A i \in DOMAIN recorded : i < last
        /\ \A i \in DOMAIN recorded' : i = last \/ (i \in DOMAIN recorded /\ recorded'[i] = recorded[i])
    <3>1. recorded' = Append(recorded, ev)
      BY <1>1, <1>2, <1>14 DEF Record
    <3> QED BY <3>1, AppendFacts
  <2> HIDE DEF last
  <2>2. ev.dst \in Actor /\ Drawn(ev) /\ CarriesNewest(ev)
    BY <1>3, <1>9 DEF Drawn, CarriesNewest, Older
  <2>3. \A i \in DOMAIN mailbox'[a] : Older(ev, mailbox'[a][i])
    BY <1>3, <1>5, <1>6, <1>9 DEF Older
  <2>4. \A k \in DOMAIN recorded' : IsRecv(recorded'[k]) =>
          /\ recorded'[k].dst \in Actor /\ Drawn(recorded'[k]) /\ CarriesNewest(recorded'[k])
          /\ \A i \in DOMAIN mailbox'[recorded'[k].dst] :
               Older(recorded'[k], mailbox'[recorded'[k].dst][i])
    BY <1>3, <1>12, <2>1, <2>2, <2>3
  <2>5. PairwiseFifo'
    <3> SUFFICES ASSUME NEW i \in DOMAIN recorded', NEW j \in DOMAIN recorded', i < j,
                        IsRecv(recorded'[i]), IsRecv(recorded'[j]),
                        recorded'[i].src = recorded'[j].src, recorded'[i].dst = recorded'[j].dst
                 PROVE  recorded'[i].msg_id < recorded'[j].msg_id
      BY DEF PairwiseFifo
    <3>1. i \in DOMAIN recorded /\ recorded'[i] = recorded[i]
      BY <2>1
    <3>2. CASE j = last
      <4>1. recorded'[j] = ev /\ recorded[i].dst = a /\ recorded[i].src = e.src
        BY <1>3, <2>1, <3>1, <3>2
      <4>2. Older(recorded[i], e)
        BY <1>5, <3>1, <4>1 DEF Fifo
      <4> QED BY <1>3, <3>1, <4>1, <4>2 DEF Older
    <3>3. CASE j \in DOMAIN recorded /\ recorded'[j] = recorded[j]
      BY <3>1, <3>3 DEF Fifo, PairwiseFifo
    <3> QED BY <2>1, <3>2, <3>3
  <2> QED BY <1>7, <1>8, <1>10, <2>4, <2>5 DEF Fifo
<1> QED BY <1>13, <1>14

\* What is recorded in other steps is no receipt.
LEMMA NoReceipt ==
    ASSUME TypeInv, NEW ev, Record(ev), ~IsRecv(ev)
    PROVE  \A k \in DOMAIN recorded' : IsRecv(recorded'[k]) =>
             k \in DOMAIN recorded /\ recorded'[k] = recorded[k]
<1>1. CASE writerUp
  <2>1. recorded' = Append(recorded, ev)
    BY <1>1 DEF Record
  <2> QED BY <2>1, AppendFacts
<1>2. CASE ~writerUp
  BY <1>2 DEF Record
<1> QED BY <1>1, <1>2

LEMMA FifoTask ==
    ASSUME TypeInv, Fifo, NEW a \in Actor, Task(a) \/ Panic(a)
    PROVE  Fifo'
<1>1. /\ pc \in [Actor -> ActorPc] /\ out \in [Node -> Envelope \cup {None}]
      /\ mailbox \in [Actor -> Seq(Envelope)] /\ World \notin Actor
      /\ a \in Node /\ a # World
      /\ \A n \in Node : n # World => n \in Actor
  BY ActorAssumption DEF TypeInv, Typing, TaskTypes, MessageTypes, Node
<1>2. CASE Recv(a)
  BY <1>2, FifoRecv
<1>3. CASE \E to \in Actor : SendStamp(a, to)
  <2>1. PICK e : /\ e.src = a /\ e.msg_id = msgId + 1
                 /\ out' = [out EXCEPT ![a] = e] /\ msgId' = msgId + 1
                 /\ pc' = [pc EXCEPT ![a] = "emit"]
                 /\ UNCHANGED <<mailbox, recorded, mpc>>
    BY <1>3 DEF SendStamp
  <2>2. out'[a] = e /\ \A n \in Node : n # a => Carries(n)' = Carries(n) /\ out'[n] = out[n]
    BY <1>1, <2>1 DEF Carries, ToRecord, PastRecord
  <2> QED BY <1>1, <2>1, <2>2, FifoStamp
<1>4. CASE SendDeliver(a) /\ ~Gone(out[a].dst)
  <2>1. /\ pc[a] = "deliver" /\ pc' = [pc EXCEPT ![a] = "user"]
        /\ mailbox' = [mailbox EXCEPT ![out[a].dst] = Append(@, out[a])]
        /\ out' = [out EXCEPT ![a] = None]
        /\ UNCHANGED <<msgId, recorded, mpc>>
    BY <1>4 DEF SendDeliver
  <2>2. Carries(a) /\ ~Carries(a)'
    BY <1>1, <2>1 DEF Carries, ToRecord, PastRecord
  <2>3. \A n \in Node : n # a => Carries(n)' = Carries(n) /\ out'[n] = out[n]
    BY <1>1, <2>1 DEF Carries, ToRecord, PastRecord
  <2> QED BY <1>1, <2>1, <2>2, <2>3, FifoDeliver
<1>5. ASSUME \/ Compute(a) \/ SendRecord(a) \/ Start(a) \/ StartedReturns(a) \/ Park(a)
             \/ Settle(a) \/ NotifyDone(a) \/ SendCount(a) \/ SendUndo(a) \/ NotifyUndo(a)
             \/ Cancel(a) \/ Panic(a) \/ (SendDeliver(a) /\ Gone(out[a].dst))
      PROVE  Fifo'
  <2>1. \A k \in DOMAIN recorded' : IsRecv(recorded'[k]) =>
             k \in DOMAIN recorded /\ recorded'[k] = recorded[k]
    <3>1. CASE Compute(a) \/ SendRecord(a)
      <4>1. \E ev : Record(ev) /\ ~IsRecv(ev)
        BY <3>1 DEF Compute, SendRecord, ComputeEvent, EmitEvent, IsRecv
      <4> QED BY <4>1, NoReceipt
    <3>2. CASE recorded' = recorded
      BY <3>2
    <3> QED BY <1>5, <3>1, <3>2 DEF Start, StartedReturns, Park, Settle, NotifyDone, SendCount,
         SendUndo, NotifyUndo, Cancel, Panic, SendDeliver
  <2>2. UNCHANGED msgId /\ (mpc' = mpc \/ (mpc = "parked" /\ mpc' = "check"))
    BY <1>5 DEF Compute, SendRecord, Start, StartedReturns, Park, Settle, NotifyDone, SendCount,
         SendUndo, NotifyUndo, Cancel, Panic, SendDeliver, NotifyOne
  <2>3. \A b \in Actor : \A i \in DOMAIN mailbox'[b] : mailbox'[b] = mailbox[b]
    <3>1. CASE Cancel(a) \/ Panic(a)
      <4>1. mailbox' = [mailbox EXCEPT ![a] = <<>>]
        BY <3>1 DEF Cancel, Panic
      <4>2. \A b \in Actor : mailbox'[b] = <<>> \/ mailbox'[b] = mailbox[b]
        BY <1>1, <4>1
      <4> QED BY <4>2
    <3>2. CASE mailbox' = mailbox
      BY <3>2
    <3> QED BY <1>5, <3>1, <3>2 DEF Compute, SendRecord, Start, StartedReturns, Park, Settle,
         NotifyDone, SendCount, SendUndo, NotifyUndo, SendDeliver
  <2>4. (\A n \in Node : n # a => out'[n] = out[n]) /\ \A b \in Actor : b # a => pc'[b] = pc[b]
    BY <1>1, <1>5 DEF Compute, SendRecord, Start, StartedReturns, Park, Settle, NotifyDone,
         SendCount, SendUndo, NotifyUndo, Cancel, Panic, SendDeliver, DecInFlight
  <2>5. Carries(a)' => Carries(a) /\ out'[a] = out[a]
    BY <1>1, <1>5 DEF Compute, SendRecord, Start, StartedReturns, Park, Settle, NotifyDone,
         SendCount, SendUndo, NotifyUndo, Cancel, Panic, SendDeliver, DecInFlight,
         Carries, ToRecord, PastRecord
  <2>6. \A n \in Node : Carries(n)' => Carries(n) /\ out'[n] = out[n]
    <3>1. \A n \in Node : n # a => (Carries(n)' => Carries(n))
      BY <1>1, <2>2, <2>4 DEF Carries, ToRecord, PastRecord
    <3> QED BY <2>4, <2>5, <3>1
  <2> QED BY <2>1, <2>2, <2>3, <2>6, FifoKept
<1> QED BY <1>2, <1>3, <1>4, <1>5 DEF Task

LEMMA FifoMain ==
    ASSUME TypeInv, Fifo, Main \/ WriterFails \/ Done \/ UNCHANGED vars
    PROVE  Fifo'
<1>1. /\ out \in [Node -> Envelope \cup {None}] /\ World \in Node /\ World \notin Actor
      /\ mailbox \in [Actor -> Seq(Envelope)]
      /\ \A n \in Node : n # World => n \in Actor
  BY ActorAssumption DEF TypeInv, Typing, MessageTypes, Node
<1>2. CASE \E to \in Actor : ExternalStamp(to)
  <2>1. PICK e : /\ e.src = World /\ e.msg_id = msgId + 1
                 /\ out' = [out EXCEPT ![World] = e] /\ msgId' = msgId + 1
                 /\ UNCHANGED <<mailbox, recorded, pc>>
    BY <1>2 DEF ExternalStamp
  <2>2. out'[World] = e /\ \A n \in Node : n # World => Carries(n)' = Carries(n) /\ out'[n] = out[n]
    BY <1>1, <2>1 DEF Carries, ToRecord, PastRecord
  <2> QED BY <1>1, <2>1, <2>2, FifoStamp
<1>3. CASE ExternalDeliver /\ ~Gone(out[World].dst)
  <2>1. /\ mpc = "deliver" /\ mpc' = "setup"
        /\ mailbox' = [mailbox EXCEPT ![out[World].dst] = Append(@, out[World])]
        /\ out' = [out EXCEPT ![World] = None]
        /\ UNCHANGED <<msgId, recorded, pc>>
    BY <1>3 DEF ExternalDeliver
  <2>2. Carries(World) /\ ~Carries(World)'
    BY <2>1 DEF Carries, ToRecord, PastRecord
  <2>3. \A n \in Node : n # World => Carries(n)' = Carries(n) /\ out'[n] = out[n]
    BY <1>1, <2>1 DEF Carries, ToRecord, PastRecord
  <2> QED BY <1>1, <2>1, <2>2, <2>3, FifoDeliver
<1>4. ASSUME \/ ExternalRecord \/ ExternalCount \/ (ExternalDeliver /\ Gone(out[World].dst))
             \/ RunUntilQuiescent \/ Check \/ Await \/ (\E a \in Actor : Abort(a)) \/ Close
             \/ WriterFails \/ Done \/ UNCHANGED vars
      PROVE  Fifo'
  <2>1. \A k \in DOMAIN recorded' : IsRecv(recorded'[k]) =>
             k \in DOMAIN recorded /\ recorded'[k] = recorded[k]
    <3>1. CASE ExternalRecord
      <4>1. \E ev : Record(ev) /\ ~IsRecv(ev)
        BY <3>1 DEF ExternalRecord, EmitEvent, IsRecv
      <4> QED BY <4>1, NoReceipt
    <3>2. CASE recorded' = recorded
      BY <3>2
    <3> QED BY <1>4, <3>1, <3>2 DEF ExternalCount, ExternalDeliver, RunUntilQuiescent, Check,
         Await, Abort, Close, WriterFails, Done, vars
  <2>2. UNCHANGED <<msgId, mailbox, pc>>
    BY <1>4 DEF ExternalRecord, ExternalCount, ExternalDeliver, RunUntilQuiescent, Check, Await,
         Abort, Close, WriterFails, Done, vars
  <2>3. \A n \in Node : Carries(n)' => Carries(n) /\ out'[n] = out[n]
    <3>1. Carries(World)' => Carries(World) /\ out'[World] = out[World]
      BY <1>4 DEF ExternalRecord, ExternalCount, ExternalDeliver, RunUntilQuiescent, Check, Await,
           Abort, Close, WriterFails, Done, vars, Carries, ToRecord, PastRecord
    <3>2. \A n \in Node : n # World => out'[n] = out[n]
      BY <1>1, <1>4 DEF ExternalRecord, ExternalCount, ExternalDeliver, RunUntilQuiescent, Check,
           Await, Abort, Close, WriterFails, Done, vars
    <3>3. \A n \in Node : n # World => (Carries(n)' => Carries(n))
      BY <2>2 DEF Carries, ToRecord, PastRecord
    <3> QED BY <3>1, <3>2, <3>3
  <2> QED BY <2>1, <2>2, <2>3, FifoKept
<1> QED BY <1>2, <1>3, <1>4 DEF Main

\* Messages between one pair of actors are received in the order in which
\* they were sent, however the tasks interleave: a sender has one envelope in
\* its hands, delivers it before it stamps the next, and a mailbox is a queue.
\* It needs no assumption on who panics or is aborted.
THEOREM PairwiseFifoHolds == Spec => []PairwiseFifo
<1>1. Init => TypeInv /\ Fifo
  BY TypeInvInit, FifoInit
<1>2. TypeInv /\ Fifo /\ [Next]_vars => (TypeInv /\ Fifo)'
  BY TypeInvNext, FifoTask, FifoMain DEF Next
<1>3. Fifo => PairwiseFifo
  BY DEF Fifo
<1> QED BY <1>1, <1>2, <1>3, PTL DEF Spec

----------------------------------------------------------------------------
(* A message is known by its id and its receiver.  Announced by its emit, it *)
(* is in its sender's hands, then in the receiver's mailbox, then received.  *)

Announced == {<<recorded[i].msg_id, recorded[i].dst>> :
                i \in {k \in DOMAIN recorded : IsEmit(recorded[k])}}
Received  == {<<recorded[i].msg_id, recorded[i].dst>> :
                i \in {k \in DOMAIN recorded : IsRecv(recorded[k])}}
Carried   == {<<out[n].msg_id, out[n].dst>> : n \in {m \in Node : PastRecord(m)}}
Waiting   == UNION {{<<mailbox[b][k].msg_id, b>> : k \in DOMAIN mailbox[b]} : b \in Actor}

NoneMissing == Announced \subseteq Received \cup Carried \cup Waiting

\* No mailbox is closed as long as anybody may send to it.
NoneRefused == \A a \in Actor : pc[a] # "undo"

DeliveryInv == RefInv /\ writerUp /\ NoneRefused /\ NoneMissing

----------------------------------------------------------------------------
(* What a step does to the four sets *)

LEMMA NothingRecorded ==
    ASSUME UNCHANGED recorded
    PROVE  Announced' = Announced /\ Received' = Received
  BY DEF Announced, Received

LEMMA OneRecorded ==
    ASSUME TypeInv, writerUp, NEW ev, Record(ev)
    PROVE  /\ Received \subseteq Received'
           /\ IsRecv(ev) => <<ev.msg_id, ev.dst>> \in Received'
           /\ Announced' \subseteq Announced \cup {<<ev.msg_id, ev.dst>>}
           /\ ~IsEmit(ev) => Announced' \subseteq Announced
<1>1. recorded \in Seq(Event) /\ recorded' = Append(recorded, ev)
  BY DEF TypeInv, Typing, MessageTypes, ControlTypes, Record
<1>2. /\ Len(recorded) \in Nat /\ DOMAIN recorded = 1..Len(recorded)
      /\ DOMAIN recorded' = 1..(Len(recorded) + 1)
      /\ \A i \in 1..Len(recorded) : recorded'[i] = recorded[i]
      /\ recorded'[Len(recorded) + 1] = ev
  BY <1>1
<1>3. Received \subseteq Received'
  BY <1>2 DEF Received
<1>4. IsRecv(ev) => <<ev.msg_id, ev.dst>> \in Received'
  BY <1>2 DEF Received
<1>5. ASSUME NEW i \in DOMAIN recorded', IsEmit(recorded'[i])
      PROVE  \/ i \in DOMAIN recorded /\ recorded'[i] = recorded[i]
             \/ recorded'[i] = ev
  BY <1>2
<1>6. /\ Announced' \subseteq Announced \cup {<<ev.msg_id, ev.dst>>}
      /\ ~IsEmit(ev) => Announced' \subseteq Announced
  BY <1>5 DEF Announced
<1> QED BY <1>3, <1>4, <1>6

LEMMA StillCarried ==
    ASSUME \A n \in Node : PastRecord(n) => PastRecord(n)' /\ out'[n] = out[n]
    PROVE  Carried \subseteq Carried'
  BY DEF Carried

LEMMA StillWaiting ==
    ASSUME \A b \in Actor : mailbox'[b] = mailbox[b]
    PROVE  Waiting \subseteq Waiting'
  BY DEF Waiting

LEMMA OneTaken ==
    ASSUME TypeInv, NEW b \in Actor, mailbox[b] # <<>>,
           mailbox' = [mailbox EXCEPT ![b] = Tail(@)]
    PROVE  Waiting \subseteq Waiting' \cup {<<Head(mailbox[b]).msg_id, b>>}
<1>1. mailbox \in [Actor -> Seq(Envelope)]
  BY DEF TypeInv, Typing, MessageTypes
<1>2. /\ DOMAIN mailbox[b] = 1..Len(mailbox[b]) /\ Len(mailbox[b]) \in Nat \ {0}
      /\ DOMAIN mailbox'[b] = 1..(Len(mailbox[b]) - 1)
      /\ Head(mailbox[b]) = mailbox[b][1]
      /\ \A k \in 1..(Len(mailbox[b]) - 1) : mailbox'[b][k] = mailbox[b][k + 1]
  BY <1>1
<1>3. ASSUME NEW k \in DOMAIN mailbox[b], k # 1
      PROVE  k - 1 \in DOMAIN mailbox'[b] /\ mailbox[b][k] = mailbox'[b][k - 1]
  BY <1>2, <1>3
<1>4. ASSUME NEW c \in Actor, NEW k \in DOMAIN mailbox[c]
      PROVE  <<mailbox[c][k].msg_id, c>> \in Waiting' \cup {<<Head(mailbox[b]).msg_id, b>>}
  <2>1. CASE c = b /\ k = 1
    BY <1>2, <2>1
  <2>2. CASE c = b /\ k # 1
    <3>1. PICK i \in DOMAIN mailbox'[b] : mailbox[b][k] = mailbox'[b][i]
      BY <1>3, <2>2
    <3>2. <<mailbox'[b][i].msg_id, b>> \in Waiting'
      BY DEF Waiting
    <3> QED BY <2>2, <3>1, <3>2
  <2>3. CASE c # b
    <3>1. mailbox'[c] = mailbox[c]
      BY <1>1, <2>3
    <3>2. k \in DOMAIN mailbox'[c] /\ mailbox'[c][k].msg_id = mailbox[c][k].msg_id
      BY <3>1
    <3> QED BY <3>2 DEF Waiting
  <2> QED BY <2>1, <2>2, <2>3
<1> QED BY <1>4 DEF Waiting

LEMMA OneDelivered ==
    ASSUME TypeInv, NEW b \in Actor, NEW env, mailbox' = [mailbox EXCEPT ![b] = Append(@, env)]
    PROVE  Waiting \cup {<<env.msg_id, b>>} \subseteq Waiting'
<1>1. mailbox \in [Actor -> Seq(Envelope)]
  BY DEF TypeInv, Typing, MessageTypes
<1>2. /\ DOMAIN mailbox[b] = 1..Len(mailbox[b]) /\ Len(mailbox[b]) \in Nat
  BY <1>1
<1>3. /\ DOMAIN mailbox'[b] = 1..(Len(mailbox[b]) + 1)
      /\ mailbox'[b][Len(mailbox[b]) + 1] = env
      /\ \A k \in DOMAIN mailbox[b] : k \in DOMAIN mailbox'[b] /\ mailbox'[b][k] = mailbox[b][k]
  BY <1>1, <1>2
<1>4. ASSUME NEW c \in Actor, NEW k \in DOMAIN mailbox[c]
      PROVE  k \in DOMAIN mailbox'[c] /\ mailbox'[c][k] = mailbox[c][k]
  BY <1>1, <1>3
<1>5. <<env.msg_id, b>> \in Waiting'
  BY <1>2, <1>3 DEF Waiting
<1> QED BY <1>4, <1>5 DEF Waiting

----------------------------------------------------------------------------
(* Where nothing can be lost *)

LEMMA DownIsEmpty ==
    ASSUME RefInv, mpc \in Down
    PROVE  /\ \A a \in Actor : DOMAIN mailbox[a] = {} /\ ~handling[a] /\ pc[a] \notin Sending
           /\ Waiting = {}
<1>1. Outstanding = {}
  BY DEF RefInv, QuiescentShutdown
<1>2. \A a \in Actor : ~handling[a]
  BY <1>1 DEF Outstanding, InHand
<1>3. \A a \in Actor : pc[a] \notin Sending
  BY <1>2 DEF RefInv, HandlersSend
<1>4. ASSUME NEW a \in Actor PROVE DOMAIN mailbox[a] = {}
  <2>1. ASSUME NEW k \in DOMAIN mailbox[a] PROVE <<"queued", a, k>> \in Outstanding
    BY DEF Outstanding, Queued
  <2> QED BY <1>1, <2>1
<1> QED BY <1>2, <1>3, <1>4 DEF Waiting

LEMMA ReceiverIsThere ==
    ASSUME RefInv, NEW n \in Node, Delivering(n), NEW b \in Actor
    PROVE  ~Gone(b)
<1>1. Outstanding # {}
  BY DEF Outstanding, InTransit
<1>2. mpc \notin Down
  BY <1>1 DEF RefInv, QuiescentShutdown
<1> QED BY <1>2 DEF RefInv, Orderly, NoneGone

----------------------------------------------------------------------------
(* The steps *)

LEMMA MissingRecv ==
    ASSUME DeliveryInv, NEW a \in Actor, Recv(a)
    PROVE  NoneMissing'
<1> DEFINE env == Head(mailbox[a])
<1>1. TypeInv /\ NoneMissing /\ writerUp /\ World \notin Actor /\ pc \in [Actor -> ActorPc]
  BY ActorAssumption DEF DeliveryInv, RefInv, TypeInv, Typing, TaskTypes
<1>2. PICK ev : Record(ev) /\ ev.op = "recv" /\ ev.msg_id = env.msg_id /\ ev.dst = a
  BY DEF Recv, RecvEvent
<1>3. Announced' \subseteq Announced /\ Received \cup {<<env.msg_id, a>>} \subseteq Received'
  BY <1>1, <1>2, OneRecorded DEF IsEmit, IsRecv
<1>4. Waiting \subseteq Waiting' \cup {<<env.msg_id, a>>}
  BY <1>1, OneTaken DEF Recv
<1>5. Carried \subseteq Carried'
  <2>1. /\ \A b \in Actor : b # a => pc'[b] = pc[b]
        /\ pc[a] \in {"loop", "parked"} /\ UNCHANGED <<mpc, out>>
    BY <1>1 DEF Recv
  <2>2. \A n \in Node : PastRecord(n) => PastRecord(n)' /\ out'[n] = out[n]
    BY <1>1, <2>1 DEF PastRecord, Node
  <2> QED BY <2>2, StillCarried
<1> QED BY <1>1, <1>3, <1>4, <1>5 DEF NoneMissing

\* The emit is recorded by a task that then holds the envelope.
LEMMA MissingRecord ==
    ASSUME DeliveryInv, NEW n \in Node, NEW ev, Record(ev),
           ev.msg_id = out[n].msg_id, ev.dst = out[n].dst, UNCHANGED <<out, mailbox>>,
           PastRecord(n)', \A m \in Node : PastRecord(m) => PastRecord(m)'
    PROVE  NoneMissing'
<1>1. TypeInv /\ NoneMissing /\ writerUp
  BY DEF DeliveryInv, RefInv
<1>2. /\ Announced' \subseteq Announced \cup {<<out[n].msg_id, out[n].dst>>}
      /\ Received \subseteq Received'
  BY <1>1, OneRecorded
<1>3. <<out[n].msg_id, out[n].dst>> \in Carried'
  BY DEF Carried
<1>4. Carried \subseteq Carried' /\ Waiting \subseteq Waiting'
  BY StillCarried, StillWaiting
<1> QED BY <1>1, <1>2, <1>3, <1>4 DEF NoneMissing

LEMMA MissingDeliver ==
    ASSUME DeliveryInv, NEW n \in Node, NEW b \in Actor, out[n].dst = b,
           mailbox' = [mailbox EXCEPT ![b] = Append(@, out[n])], UNCHANGED recorded,
           \A m \in Node : m # n /\ PastRecord(m) => PastRecord(m)' /\ out'[m] = out[m]
    PROVE  NoneMissing'
<1>1. TypeInv /\ NoneMissing
  BY DEF DeliveryInv, RefInv
<1>2. Announced' = Announced /\ Received' = Received
  BY NothingRecorded
<1>3. Waiting \cup {<<out[n].msg_id, out[n].dst>>} \subseteq Waiting'
  BY <1>1, OneDelivered
<1>4. Carried \subseteq Carried' \cup {<<out[n].msg_id, out[n].dst>>}
  BY DEF Carried
<1> QED BY <1>1, <1>2, <1>3, <1>4 DEF NoneMissing

LEMMA MissingIdle ==
    ASSUME DeliveryInv,
           \/ UNCHANGED recorded
           \/ \E ev : Record(ev) /\ ~IsEmit(ev),
           \A b \in Actor : mailbox'[b] = mailbox[b],
           \A n \in Node : PastRecord(n) => PastRecord(n)' /\ out'[n] = out[n]
    PROVE  NoneMissing'
<1>1. TypeInv /\ NoneMissing /\ writerUp
  BY DEF DeliveryInv, RefInv
<1>2. Announced' \subseteq Announced /\ Received \subseteq Received'
  BY <1>1, NothingRecorded, OneRecorded
<1> QED BY <1>1, <1>2, StillCarried, StillWaiting DEF NoneMissing

----------------------------------------------------------------------------
(* All steps *)

LEMMA MissingTask ==
    ASSUME Quiet, DeliveryInv, NEW a \in Actor, Task(a)
    PROVE  NoneMissing' /\ NoneRefused'
<1>1. /\ TypeInv /\ RefInv /\ World \notin Actor /\ a \in Node /\ pc \in [Actor -> ActorPc]
      /\ pc[a] # "undo" /\ NoneRefused
  BY ActorAssumption DEF DeliveryInv, RefInv, TypeInv, Typing, TaskTypes, Node, NoneRefused
<1>2. ASSUME Recv(a) PROVE NoneMissing' /\ NoneRefused'
  BY <1>1, <1>2, MissingRecv DEF Recv, NoneRefused
<1>3. ASSUME SendRecord(a) PROVE NoneMissing' /\ NoneRefused'
  <2>1. /\ UNCHANGED <<out, mailbox, mpc>> /\ pc' = [pc EXCEPT ![a] = "count"]
        /\ pc[a] = "emit" /\ Record(EmitEvent(a, seq[a], out[a]))
    BY <1>3 DEF SendRecord
  <2>2. PastRecord(a)' /\ \A m \in Node : PastRecord(m) => PastRecord(m)'
    BY <1>1, <2>1 DEF PastRecord, Node
  <2>3. PICK ev : Record(ev) /\ ev.msg_id = out[a].msg_id /\ ev.dst = out[a].dst
    BY <2>1 DEF EmitEvent
  <2>4. NoneMissing'
    BY <1>1, <2>1, <2>2, <2>3, MissingRecord
  <2> QED BY <1>1, <2>1, <2>4 DEF NoneRefused
<1>4. ASSUME SendDeliver(a) PROVE NoneMissing' /\ NoneRefused'
  <2>1. pc[a] = "deliver" /\ out[a].dst \in Actor /\ Delivering(a)
    BY <1>1, <1>4 DEF SendDeliver, TypeInv, Shape, Envelope, Delivering
  <2>2. ~Gone(out[a].dst)
    BY <1>1, <2>1, ReceiverIsThere
  <2>3. /\ mailbox' = [mailbox EXCEPT ![out[a].dst] = Append(@, out[a])]
        /\ UNCHANGED <<recorded, mpc>>
        /\ out' = [out EXCEPT ![a] = None] /\ pc' = [pc EXCEPT ![a] = "user"]
    BY <1>4, <2>2 DEF SendDeliver
  <2>4. out \in [Node -> Envelope \cup {None}]
    BY <1>1 DEF TypeInv, Typing, MessageTypes
  <2>5. \A m \in Node : m # a /\ PastRecord(m) => PastRecord(m)' /\ out'[m] = out[m]
    BY <1>1, <2>3, <2>4 DEF PastRecord, Node
  <2>6. NoneMissing'
    BY <1>1, <2>1, <2>3, <2>5, MissingDeliver
  <2> QED BY <1>1, <2>3, <2>6 DEF NoneRefused
<1>5. ASSUME Cancel(a) PROVE NoneMissing' /\ NoneRefused'
  <2>1. mpc \in Down
    BY <1>1, <1>5 DEF Cancel, RefInv, Orderly
  <2>2. Waiting = {}
    BY <1>1, <2>1, DownIsEmpty
  <2>3. /\ UNCHANGED <<recorded, out, mpc>> /\ pc' = [pc EXCEPT ![a] = "gone"]
        /\ pc[a] \in {"unpolled", "parked"}
    BY <1>5 DEF Cancel
  <2>4. Carried \subseteq Carried'
    <3>1. \A n \in Node : PastRecord(n) => PastRecord(n)' /\ out'[n] = out[n]
      BY <1>1, <2>3 DEF PastRecord, Node
    <3> QED BY <3>1, StillCarried
  <2>5. Announced' = Announced /\ Received' = Received
    BY <2>3, NothingRecorded
  <2>6. NoneMissing'
    BY <2>2, <2>4, <2>5 DEF DeliveryInv, NoneMissing
  <2> QED BY <1>1, <2>3, <2>6 DEF NoneRefused
<1>6. ASSUME \/ Start(a) \/ StartedReturns(a) \/ Park(a) \/ Settle(a) \/ NotifyDone(a)
             \/ Compute(a) \/ SendCount(a) \/ NotifyUndo(a) \/ \E to \in Actor : SendStamp(a, to)
      PROVE  NoneMissing' /\ NoneRefused'
  <2>1. UNCHANGED recorded \/ \E ev : Record(ev) /\ ~IsEmit(ev)
    <3>1. CASE Compute(a)
      <4>1. PICK ev : Record(ev) /\ ev.op = "compute"
        BY <3>1 DEF Compute, ComputeEvent
      <4> QED BY <4>1 DEF IsEmit
    <3> QED BY <1>6, <3>1 DEF Start, StartedReturns, Park, Settle, NotifyDone, SendCount,
              NotifyUndo, SendStamp
  <2>2. UNCHANGED mailbox
    BY <1>6 DEF Start, StartedReturns, Park, Settle, NotifyDone, Compute, SendCount, NotifyUndo,
         SendStamp
  <2>3. /\ \A b \in Actor : b # a => pc'[b] = pc[b]
        /\ pc[a] = "count" => pc'[a] = "deliver"
        /\ pc'[a] # "undo"
    BY <1>1, <1>6 DEF Start, StartedReturns, Park, Settle, NotifyDone, Compute, SendCount,
         NotifyUndo, SendStamp, InUserCode, DecInFlight
  <2>4. mpc' = mpc \/ mpc = "parked"
    BY <1>6 DEF Start, StartedReturns, Park, Settle, NotifyDone, Compute, SendCount,
         NotifyUndo, SendStamp, NotifyOne
  <2>5. \A n \in Node : n # a \/ pc[a] = "count" => out'[n] = out[n]
    <3>1. out \in [Node -> Envelope \cup {None}]
      BY <1>1 DEF TypeInv, Typing, MessageTypes
    <3> QED BY <1>6, <3>1 DEF Start, StartedReturns, Park, Settle, NotifyDone, Compute, SendCount,
              NotifyUndo, SendStamp, InUserCode
  <2>6. pc[a] # "deliver"
    BY <1>6 DEF Start, StartedReturns, Park, Settle, NotifyDone, Compute, SendCount, NotifyUndo,
         SendStamp, InUserCode
  <2>7. \A n \in Node : PastRecord(n) => PastRecord(n)' /\ out'[n] = out[n]
    BY <1>1, <2>3, <2>4, <2>5, <2>6 DEF PastRecord, Node
  <2>8. NoneRefused'
    BY <1>1, <2>3 DEF NoneRefused
  <2> QED BY <2>1, <2>2, <2>7, <2>8, MissingIdle
<1>7. ~SendUndo(a)
  BY <1>1 DEF SendUndo
<1> QED BY <1>2, <1>3, <1>4, <1>5, <1>6, <1>7 DEF Task

LEMMA MissingMain ==
    ASSUME DeliveryInv, Main \/ Done \/ UNCHANGED vars
    PROVE  NoneMissing' /\ NoneRefused'
<1>1. /\ TypeInv /\ RefInv /\ World \notin Actor /\ World \in Node
      /\ out \in [Node -> Envelope \cup {None}] /\ NoneRefused
  BY ActorAssumption DEF DeliveryInv, RefInv, TypeInv, Typing, MessageTypes, Node
<1>2. UNCHANGED pc
  BY DEF Main, ExternalStamp, ExternalRecord, ExternalCount, ExternalDeliver, RunUntilQuiescent,
     Check, Await, Abort, Close, Done, vars
<1>3. NoneRefused'
  BY <1>1, <1>2 DEF NoneRefused
<1>4. ASSUME ExternalRecord PROVE NoneMissing'
  <2>1. /\ UNCHANGED <<out, mailbox, pc>> /\ mpc' = "count"
        /\ mpc = "record" /\ Record(EmitEvent(World, 1, out[World]))
    BY <1>4 DEF ExternalRecord
  <2>2. PastRecord(World)' /\ \A m \in Node : PastRecord(m) => PastRecord(m)'
    BY <1>1, <2>1 DEF PastRecord, Node
  <2>3. PICK ev : Record(ev) /\ ev.msg_id = out[World].msg_id /\ ev.dst = out[World].dst
    BY <2>1 DEF EmitEvent
  <2> QED BY <1>1, <2>1, <2>2, <2>3, MissingRecord
<1>5. ASSUME ExternalDeliver PROVE NoneMissing'
  <2>1. mpc = "deliver" /\ out[World].dst \in Actor /\ Delivering(World)
    BY <1>1, <1>5 DEF ExternalDeliver, TypeInv, Shape, Envelope, Delivering
  <2>2. ~Gone(out[World].dst)
    BY <1>1, <2>1, ReceiverIsThere
  <2>3. /\ mailbox' = [mailbox EXCEPT ![out[World].dst] = Append(@, out[World])]
        /\ UNCHANGED <<recorded, pc>> /\ out' = [out EXCEPT ![World] = None]
    BY <1>5, <2>2 DEF ExternalDeliver
  <2>4. \A m \in Node : m # World /\ PastRecord(m) => PastRecord(m)' /\ out'[m] = out[m]
    BY <1>1, <2>3 DEF PastRecord
  <2> QED BY <1>1, <2>1, <2>3, <2>4, MissingDeliver
<1>6. ASSUME ~ExternalRecord, ~ExternalDeliver PROVE NoneMissing'
  <2>1. UNCHANGED <<recorded, mailbox>>
    BY <1>6 DEF Main, ExternalStamp, ExternalCount, RunUntilQuiescent, Check, Await, Abort, Close,
         Done, vars
  <2>2. /\ \A n \in Node : n # World => out'[n] = out[n]
        /\ mpc \in {"count", "deliver"} => mpc' \in {"count", "deliver"} /\ out' = out
    BY <1>1, <1>6 DEF Main, ExternalStamp, ExternalCount, RunUntilQuiescent, Check, Await, Abort,
         Close, Done, vars
  <2>3. \A n \in Node : PastRecord(n) => PastRecord(n)' /\ out'[n] = out[n]
    BY <1>2, <2>2 DEF PastRecord
  <2> QED BY <2>1, <2>3, MissingIdle
<1> QED BY <1>3, <1>4, <1>5, <1>6

LEMMA DeliveryInvNext ==
    ASSUME Quiet, ~WriterCanFail, DeliveryInv, [Next]_vars
    PROVE  DeliveryInv'
<1>1. RefInv'
  BY RefInvNext DEF DeliveryInv
<1>2. \A a \in Actor : ~Panic(a)
  BY DEF Panic, Quiet
<1>3. ~WriterFails
  BY DEF WriterFails
<1>4. NoneMissing' /\ NoneRefused'
  BY <1>2, <1>3, MissingTask, MissingMain DEF Next
<1>5. writerUp'
  <2>1. writerUp
    BY DEF DeliveryInv
  <2>2. ASSUME NEW a \in Actor, Task(a) PROVE UNCHANGED writerUp
    BY <2>2 DEF Task, Start, StartedReturns, Park, Recv, Settle, NotifyDone, Compute, SendStamp,
         SendRecord, SendCount, SendDeliver, SendUndo, NotifyUndo, Cancel, Record
  <2>3. ASSUME Main \/ Done \/ UNCHANGED vars PROVE UNCHANGED writerUp
    BY <2>3 DEF Main, ExternalStamp, ExternalRecord, ExternalCount, ExternalDeliver,
         RunUntilQuiescent, Check, Await, Abort, Close, Done, vars, Record
  <2> QED BY <1>2, <1>3, <2>1, <2>2, <2>3 DEF Next
<1> QED BY <1>1, <1>4, <1>5 DEF DeliveryInv

LEMMA DeliveryInvInit == Init => DeliveryInv
<1>1. Init => NoneRefused /\ writerUp /\ Announced = {}
  BY DEF Init, NoneRefused, Announced
<1> QED BY <1>1, RefInvInit DEF DeliveryInv, NoneMissing

LEMMA NothingLeft ==
    ASSUME DeliveryInv, mpc = "closed"
    PROVE  Announced \subseteq Received
<1>1. RefInv /\ NoneMissing /\ mpc \in Down
  BY DEF DeliveryInv, Down
<1>2. Waiting = {} /\ \A a \in Actor : pc[a] \notin Sending
  BY <1>1, DownIsEmpty
<1>3. Carried = {}
  BY <1>2 DEF Carried, PastRecord, Node, Sending
<1> QED BY <1>1, <1>2, <1>3 DEF NoneMissing

\* When run_until_quiescent returns, every message in the log was received.
\* A message is counted until its receiver has handled it, so a counter of zero
\* leaves no message in a mailbox that the aborts then drop.
THEOREM DeliveredWhenClosedHolds ==
    ASSUME Quiet, ~WriterCanFail
    PROVE  Spec => []DeliveredWhenClosed
<1>1. DeliveryInv /\ [Next]_vars => DeliveryInv'
  BY DeliveryInvNext
<1>2. DeliveryInv => DeliveredWhenClosed
  <2> SUFFICES ASSUME DeliveryInv, mpc = "closed",
                      NEW i \in DOMAIN recorded, IsEmit(recorded[i])
               PROVE  \E j \in DOMAIN recorded : /\ IsRecv(recorded[j])
                                                 /\ recorded[j].msg_id = recorded[i].msg_id
                                                 /\ recorded[j].dst = recorded[i].dst
    BY DEF DeliveredWhenClosed
  <2>1. <<recorded[i].msg_id, recorded[i].dst>> \in Received
    BY NothingLeft DEF Announced
  <2> QED BY <2>1 DEF Received
<1> QED BY <1>1, <1>2, DeliveryInvInit, PTL DEF Spec

----------------------------------------------------------------------------
(* The end of a run, and of a send: with panics and a writer that stops. *)

Joined == mpc = "closed" => \A a \in Actor : Gone(a)

\* A task that is gone takes no step, and nobody takes one for it.
LEMMA GoneStays ==
    ASSUME TypeInv, [Next]_vars, NEW b \in Actor, Gone(b)
    PROVE  pc'[b] = pc[b] /\ seq'[b] = seq[b]
<1>1. /\ pc \in [Actor -> ActorPc] /\ seq \in [Actor -> Nat]
      /\ pc[b] = "gone" /\ ~handling[b]
  BY DEF TypeInv, Typing, TaskTypes, Shape, Sending, Gone
<1>2. ASSUME NEW a \in Actor, Task(a) PROVE pc'[b] = pc[b] /\ seq'[b] = seq[b]
  <2>1. a # b
    BY <1>1, <1>2 DEF Task, Start, StartedReturns, Park, Recv, Settle, NotifyDone, Compute, SendStamp,
         InUserCode, SendRecord, SendCount, SendDeliver, SendUndo, NotifyUndo, Cancel
  <2>2. pc'[b] = pc[b]
    BY <1>1, <1>2, <2>1 DEF Task, Start, StartedReturns, Park, Recv, Settle, NotifyDone,
         Compute, SendStamp, SendRecord, SendCount, SendDeliver, SendUndo, NotifyUndo, Cancel,
         DecInFlight
  <2>3. seq'[b] = seq[b]
    BY <1>1, <1>2, <2>1 DEF Task, Start, StartedReturns, Park, Recv, Settle, NotifyDone,
         Compute, SendStamp, SendRecord, SendCount, SendDeliver, SendUndo, NotifyUndo, Cancel
  <2> QED BY <2>2, <2>3
<1>3. ASSUME NEW a \in Actor, Panic(a) PROVE pc'[b] = pc[b] /\ seq'[b] = seq[b]
  BY <1>1, <1>3 DEF Panic
<1>4. ASSUME Main \/ WriterFails \/ Done \/ UNCHANGED vars
      PROVE  pc'[b] = pc[b] /\ seq'[b] = seq[b]
  BY <1>4 DEF Main, ExternalStamp, ExternalRecord, ExternalCount, ExternalDeliver,
         RunUntilQuiescent, Check, Await, Abort, Close, WriterFails, Done, vars
<1> QED BY <1>2, <1>3, <1>4 DEF Next

\* Once all are gone, what is left to the others records nothing.
LEMMA ClosedStays ==
    ASSUME TypeInv, Joined, [Next]_vars, mpc = "closed"
    PROVE  recorded' = recorded /\ mpc' = mpc
<1>1. \A a \in Actor : pc[a] = "gone" /\ ~handling[a]
  BY DEF Joined, Gone, TypeInv, Shape, Sending
<1>2. ASSUME NEW a \in Actor PROVE ~Task(a) /\ ~Panic(a)
  <2>1. pc[a] = "gone" /\ ~handling[a]
    BY <1>1
  <2> QED BY <2>1 DEF Task, Start, StartedReturns, Park, Recv, Settle, NotifyDone, Compute,
            SendStamp, InUserCode, SendRecord, SendCount, SendDeliver, SendUndo, NotifyUndo,
            Cancel, Panic
<1>3. ASSUME Main \/ WriterFails \/ Done \/ UNCHANGED vars
      PROVE  recorded' = recorded /\ mpc' = mpc
  BY <1>3 DEF Main, ExternalStamp, ExternalRecord, ExternalCount, ExternalDeliver,
         RunUntilQuiescent, Check, Await, Abort, Close, WriterFails, Done, vars
<1> QED BY <1>2, <1>3 DEF Next

LEMMA JoinedNext ==
    ASSUME TypeInv, Joined, [Next]_vars
    PROVE  Joined'
<1>1. ASSUME \A a \in Actor : Gone(a) PROVE \A a \in Actor : Gone(a)'
  BY <1>1, GoneStays DEF Gone
<1>2. ASSUME mpc' = "closed", mpc # "closed" PROVE \A a \in Actor : Gone(a)
  <2>1. ASSUME NEW a \in Actor, Task(a) \/ Panic(a) PROVE FALSE
    BY <1>2, <2>1 DEF Task, Start, StartedReturns, Park, Recv, Settle, NotifyDone, Compute,
         SendStamp, SendRecord, SendCount, SendDeliver, SendUndo, NotifyUndo, Cancel, NotifyOne,
         Panic
  <2>2. Close
    BY <1>2, <2>1 DEF Next, Main, ExternalStamp, ExternalRecord, ExternalCount, ExternalDeliver,
         RunUntilQuiescent, Check, Await, Abort, WriterFails, Done, vars
  <2> QED BY <2>2 DEF Close
<1> QED BY <1>1, <1>2 DEF Joined

\* The tasks are joined before the event channel is closed, so nothing is
\* recorded once the writer has seen its end.
THEOREM ClosedIsFinalHolds == Spec => ClosedIsFinal
<1>1. Init => TypeInv /\ Joined
  BY TypeInvInit DEF Init, Joined
<1>2. TypeInv /\ Joined /\ [Next]_vars => (TypeInv /\ Joined)'
  BY TypeInvNext, JoinedNext
<1>3. TypeInv /\ Joined /\ [Next]_vars
        => [ /\ mpc = "closed" => recorded' = recorded /\ mpc' = mpc
             /\ \A a \in Actor : Gone(a) => pc'[a] = pc[a] /\ seq'[a] = seq[a] ]_vars
  BY ClosedStays, GoneStays
<1> QED BY <1>1, <1>2, <1>3, PTL DEF Spec, ClosedIsFinal

LEMMA TaskSettlesUp ==
    ASSUME TypeInv, NEW a \in Actor, Task(a), NEW n \in Actor
    PROVE  SettlesUp(n)
<1>1. /\ out \in [Node -> Envelope \cup {None}] /\ a \in Node /\ n \in Node
      /\ mailbox \in [Actor -> Seq(Envelope)]
  BY DEF TypeInv, Typing, MessageTypes, Node
<1>2. CASE SendUndo(a)
  BY <1>2 DEF SendUndo, DecInFlight, SettlesUp
<1>3. CASE SendDeliver(a)
  <2>1. CASE Gone(out[a].dst)
    BY <1>3, <2>1 DEF SendDeliver, SettlesUp
  <2>2. CASE ~Gone(out[a].dst)
    <3>1. out[a].dst \in Actor /\ out[a] \in Envelope
      BY <1>3 DEF SendDeliver, TypeInv, Shape, Envelope
    <3>2. mailbox' = [mailbox EXCEPT ![out[a].dst] = Append(@, out[a])]
      BY <1>3, <2>2 DEF SendDeliver
    <3>3. mailbox[out[a].dst] \in Seq(Envelope)
          /\ mailbox'[out[a].dst] = Append(mailbox[out[a].dst], out[a])
      BY <1>1, <3>1, <3>2
    <3>4. Len(mailbox'[out[a].dst]) > Len(mailbox[out[a].dst])
      BY <3>3
    <3> QED BY <3>1, <3>4 DEF SettlesUp
  <2> QED BY <2>1, <2>2
<1>4. ASSUME NEW to \in Actor, SendStamp(a, to) PROVE SettlesUp(n)
  <2>1. PICK typed \in AddrTypes(to) :
          out' = [out EXCEPT ![a] = [vclock |-> Bump(clock[a], a), lamport |-> Tick(lamport[a]),
                                     msg_id |-> msgId + 1, src |-> a, dst |-> to, typed |-> typed]]
    BY <1>4 DEF SendStamp
  <2>2. out'[a] \in Envelope
    <3>1. clock[a] \in VClock /\ lamport[a] \in Nat /\ msgId \in Nat
      BY DEF TypeInv, Typing, TaskTypes, MessageTypes
    <3>2. Bump(clock[a], a) \in VClock
      BY <1>1, <3>1, BumpType
    <3>3. Tick(lamport[a]) \in Nat
      BY <3>1 DEF Tick
    <3>4. typed \in BOOLEAN
      BY DEF AddrTypes
    <3> QED BY <1>1, <2>1, <3>1, <3>2, <3>3, <3>4 DEF Envelope
  <2>3. n # a => out'[n] = out[n]
    BY <1>1, <2>1
  <2> QED BY <2>2, <2>3, NoneAssumption DEF SettlesUp
<1>5. ASSUME \/ Start(a) \/ StartedReturns(a) \/ Park(a) \/ Recv(a) \/ Settle(a) \/ NotifyDone(a)
             \/ Compute(a) \/ SendRecord(a) \/ SendCount(a) \/ NotifyUndo(a) \/ Cancel(a)
      PROVE  SettlesUp(n)
  <2>1. UNCHANGED out
    BY <1>5 DEF Start, StartedReturns, Park, Recv, Settle, NotifyDone, Compute, SendRecord,
         SendCount, NotifyUndo, Cancel
  <2> QED BY <2>1 DEF SettlesUp
<1> QED BY <1>2, <1>3, <1>4, <1>5 DEF Task

\* An actor's envelope leaves its hands into a mailbox or off the counter:
\* a send to a closed mailbox does not leak a count.  send_external does.
THEOREM SendersSettleUpHolds == Spec => SendersSettleUp
<1>1. ASSUME TypeInv, [Next]_vars, NEW n \in Actor PROVE SettlesUp(n)
  <2>1. ASSUME NEW a \in Actor, Panic(a) PROVE SettlesUp(n)
    BY <2>1 DEF Panic, SettlesUp
  <2>2. ASSUME Main \/ WriterFails \/ Done \/ UNCHANGED vars PROVE SettlesUp(n)
    <3>1. out \in [Node -> Envelope \cup {None}] /\ n \in Node /\ n # World
      BY <1>1, ActorAssumption DEF TypeInv, Typing, MessageTypes, Node
    <3>2. out'[n] = out[n]
      BY <2>2, <3>1 DEF Main, ExternalStamp, ExternalRecord, ExternalCount, ExternalDeliver,
           RunUntilQuiescent, Check, Await, Abort, Close, WriterFails, Done, vars
    <3> QED BY <3>2 DEF SettlesUp
  <2> QED BY <1>1, <2>1, <2>2, TaskSettlesUp DEF Next
<1>2. TypeInv /\ [Next]_vars => [\A a \in Actor : SettlesUp(a)]_vars
  BY <1>1
<1>3. TypeInv /\ [Next]_vars => TypeInv'
  BY TypeInvNext
<1> QED BY <1>2, <1>3, TypeInvInit, PTL DEF Spec, SendersSettleUp
=============================================================================
