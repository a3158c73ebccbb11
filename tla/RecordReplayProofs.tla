------------------------- MODULE RecordReplayProofs -------------------------
(***************************************************************************)
(* Machine-checked, for every set of actors and every log the runtime can  *)
(* leave: what a replay of it reports, and what it means when the replay   *)
(* reports nothing.                                                        *)
(***************************************************************************)
EXTENDS RecordReplay, LogProofs, ReplayLogProofs

USE DEF taskVars, sharedVars, mainVars, logVars

----------------------------------------------------------------------------
(* The recording, up to the moment its log is read                         *)

Recording == TypeInv /\ NoClockAhead /\ LogInv /\ DeriveInv /\ Fifo /\ Joined

NothingRead == log = <<>> /\ KahnInit /\ Replay!ReplayInit

\* The recording goes on until its log is read.
RecordInv == phase = "recording" => Recording /\ NothingRead

----------------------------------------------------------------------------
(* The log that is read                                                    *)

\* Whatever became of it, it is a sequence of events, and only actors receive.
ReadableLog(l) ==
    /\ l \in Seq(Event)
    /\ \A i \in DOMAIN l : IsRecv(l[i]) => l[i].actor \in Actor

EventsIn(l) == {l[i] : i \in DOMAIN l}

(***************************************************************************)
(* What is left of the facts about the recorded log when the places of the *)
(* events in it are forgotten: every event follows, in one step, from what *)
(* its actor remembers; the coordinates of an actor's events are its own;  *)
(* a message is sent once and received once.                               *)
(***************************************************************************)
Sound(l) ==
    /\ \A j \in DOMAIN l :
         IF l[j].actor = World THEN IsOrigin(l[j])
         ELSE \E m \in Memory(l, l[j].actor, l[j].seq - 1) : Stepped(EventsIn(l), l[j], m)
    /\ \A i, j \in DOMAIN l : l[i].actor # World /\ l[i].actor = l[j].actor /\ l[i].seq = l[j].seq => i = j
    /\ ~DuplicateEmit(l)
    /\ \A i, j \in DOMAIN l : IsRecv(l[i]) /\ IsRecv(l[j]) /\ l[i].msg_id = l[j].msg_id => i = j

LogFacts ==
    phase # "recording" => ReadableLog(log) /\ (intact => Sound(log))

----------------------------------------------------------------------------
(* replay_log as a part of this system                                     *)

Reading  == {"build", "validate", "linearize", "drain", "timeline"} \cup Rejected
Walking  == {"origins", "started", "userStarted", "userHandle", "walk", "done", "panicked"}

Tables ==
    /\ indeg \in [DOMAIN indeg -> Nat] /\ DOMAIN indeg \subseteq Nodes
    /\ heap \subseteq Nodes
    /\ order \in Seq(Nodes)

Untouched ==
    /\ rebuilt = {} /\ reorigins = <<>>
    /\ reclock = [a \in Actor |-> ZeroClock]
    /\ relamport = [a \in Actor |-> 0] /\ reseq = [a \in Actor |-> 0]
    /\ pending = {} /\ sendCount = [a \in Actor |-> 0]
    /\ divergences = {} /\ produced = {}
    /\ next = 1 /\ driving = None
    /\ did = [a \in Actor |-> <<>>]

TimelineInv ==
    /\ BuildOk(log) /\ Valid(log)
    /\ edges = DirectEdges(log)
    /\ Len(order) = Len(log)
    /\ CausesFirst

Vetted ==
    /\ phase \in {"validate", "linearize", "drain", "timeline"} => BuildOk(log) /\ edges = DirectEdges(log)
    /\ phase \in {"linearize", "drain", "timeline"} => Valid(log)

ReadingInv ==
    /\ phase \in {"recording"} \cup Reading \cup Walking
    /\ Tables
    /\ phase \in Reading => KahnInv /\ ProgressInv /\ Vetted /\ Untouched
    /\ phase \in Walking => TimelineInv

----------------------------------------------------------------------------
(* Re-execution: types                                                     *)

Words == {"recv", "compute", "send"} \X (Actor \cup {None})

Resent == [vclock : VClock, lamport : Nat, msg_id : Int, src : Node, dst : Actor, typed : BOOLEAN]

Driven(a) == phase \in {"userStarted", "userHandle"} /\ driving = a

ReplayTypes ==
    /\ rebuilt \subseteq Actor
    /\ reorigins \in Seq(Stimulus)
    /\ reclock \in [Actor -> VClock] /\ relamport \in [Actor -> Nat]
    /\ reseq \in [Actor -> Nat] /\ sendCount \in [Actor -> Nat]
    /\ pending \subseteq Resent
    /\ next \in Nat \ {0}
    /\ did \in [Actor -> Seq(Words)] /\ \A a \in Actor : Len(did[a]) = reseq[a]
    /\ phase \in {"userStarted", "userHandle", "panicked"} => driving \in rebuilt
    /\ phase \notin {"userStarted", "userHandle", "panicked"} => driving = None

----------------------------------------------------------------------------
(* Re-execution that has found no mismatch                                 *)

Word(ev) == CASE ev.op = "recv"    -> <<"recv", None>>
              [] ev.op = "compute" -> <<"compute", None>>
              [] ev.op = "emit"    -> <<"send", ev.dst>>

\* Event i is the s-th event of actor a.
Is(i, a, s) == i \in Nodes /\ log[i].actor = a /\ log[i].seq = s

\* So far, actor a did what the log says.
Follows(a) == \A k \in 1..reseq[a] : \E i \in Nodes : Is(i, a, k) /\ did[a][k] = Word(log[i])

Made(i) == Replay!Coordinate(log[i]) \in produced

IdsOf(op) == {log[i].msg_id : i \in {j \in Nodes : log[j].op = op /\ Made(j)}}

PendingIds == {env.msg_id : env \in pending}

Seeded == IF phase = "origins" THEN next - 1 ELSE Len(Replay!EmitsOf(World))

\* The emit that a pending message repeats, and whether it does so truly.
Repeats(env, i) ==
    /\ i \in Nodes /\ IsEmit(log[i]) /\ log[i].msg_id = env.msg_id
    /\ \/ env.typed /\ env.dst = log[i].dst
       \/ Mistyped # {}
       \/ \E k \in DOMAIN reorigins \cap DOMAIN Replay!EmitsOf(World) :
            /\ Replay!EmitsOf(World)[k] = i
            /\ env.dst = reorigins[k].to /\ env.typed = reorigins[k].typed

\* What was done so far is what the log says, event by event ...
Retraced ==
    /\ \A a \in Actor : Follows(a) /\ (reseq[a] > 0 => a \in rebuilt)
    /\ \A c \in produced : c[1] # World => c[1] \in Actor /\ c[2] \in 1..reseq[c[1]]
    /\ phase = "origins" => \A c \in produced : \E k \in 1..(next - 1) :
         k \in DOMAIN Replay!EmitsOf(World) /\ c = Replay!Coordinate(log[Replay!EmitsOf(World)[k]])
    /\ Seeded <= Len(reorigins)

\* ... and the messages on their way are those sent and not yet received.
Underway ==
    /\ \A e, f \in pending : e.msg_id = f.msg_id => e = f
    /\ IdsOf("recv") \subseteq IdsOf("emit")
    /\ PendingIds = IdsOf("emit") \ IdsOf("recv")
    /\ \A env \in pending : \E i \in Nodes : Repeats(env, i)

Unflagged ==
    /\ Retraced /\ Underway
    /\ phase = "done" => \A i \in Nodes : Made(i)

UnflaggedInv == phase \in Walking /\ divergences = {} => Unflagged

----------------------------------------------------------------------------
(* Re-execution of an intact log by the program that was recorded, which   *)
(* goes on where the log was cut                                           *)

Walked == {"userHandle", "walk", "done", "panicked"}

\* An actor has done less than the log says, and nothing will make it go on.
Stuck(a) ==
    /\ phase \in Walked /\ ~Driven(a)
    /\ \E i \in Nodes : Is(i, a, reseq[a] + 1) /\ ~IsRecv(log[i])

\* The log has the s-th event of actor a, or there is none.
Logged(a, s) == s = 0 \/ \E i \in Nodes : Is(i, a, s)

\* As far as the log goes, actor a did what it says.
Keeps(a) == \A k \in 1..reseq[a] : \A i \in Nodes : Is(i, a, k) => did[a][k] = Word(log[i])

\* It is not the program that was recorded, or not asked the same.
Astray ==
    \/ Len(Replay!EmitsOf(World)) > Len(reorigins)
    \/ \E i \in Nodes : log[i].actor \notin rebuilt \cup {World}
    \/ \E a \in Actor : ~Keeps(a) \/ Stuck(a)

\* Re-execution has come past event i.
Repeated(i) == IF log[i].actor = World
               THEN \E k \in DOMAIN Replay!EmitsOf(World) : k <= Seeded /\ Replay!EmitsOf(World)[k] = i
               ELSE log[i].seq <= reseq[log[i].actor]

SentBy(a, s) == {i \in Nodes : log[i].actor = a /\ log[i].op = "emit" /\ log[i].seq <= s}

SameStamps(env, i) ==
    env.msg_id = log[i].msg_id /\ env.src = log[i].src
    /\ env.vclock = log[i].vclock /\ env.lamport = log[i].lamport

Emits(n) == {i \in Nodes : log[i].actor = n /\ log[i].op = "emit"}

\* A divergence that only says that actors have come past the end of the log.
UnloggedEvent(d, a) ==
    \E s \in 1..reseq[a] : ~Logged(a, s) /\ d = Replay!Divergence(<<a, s>>, "unrecorded")

UnloggedSend(d, a) ==
    \E j \in 1..sendCount[a] :
      j > Cardinality(Emits(a)) /\ d = Replay!Divergence(<<a, -j>>, "more sends")

Past(d) == \E a \in Actor : UnloggedEvent(d, a) \/ UnloggedSend(d, a)

\* Every actor is where the log has it after as many steps, or past its end, ...
Restamped ==
    /\ \A d : d \in divergences <=> Past(d)
    /\ \A a \in Actor : Logged(a, reseq[a]) =>
         /\ [vclock |-> reclock[a], lamport |-> relamport[a]] \in Memory(log, a, reseq[a])
         /\ sendCount[a] = Cardinality(SentBy(a, reseq[a]))
    /\ \A a \in Actor : sendCount[a] >= Cardinality(SentBy(a, reseq[a]))
    /\ \A i \in Nodes : Made(i) <=> Repeated(i)

\* ... every message sent again is still there until it is received again,
\* among those that the recording does not have, ...
Resending ==
    /\ \A i \in Nodes : IsEmit(log[i]) /\ Repeated(i) =>
         \/ \E j \in Nodes : IsRecv(log[j]) /\ log[j].msg_id = log[i].msg_id /\ Repeated(j)
         \/ \E env \in pending : env.msg_id = log[i].msg_id
    /\ \A env \in pending :
         \/ env.msg_id < 0
         \/ \E i \in Nodes : IsEmit(log[i]) /\ Repeated(i) /\ SameStamps(env, i)

\* ... and the receipts come in the order of the timeline.
InStep ==
    \A k \in DOMAIN order : IsRecv(log[order[k]]) =>
      (Repeated(order[k]) <=> phase \in Walked /\ k < next)

Matches == Restamped /\ Resending /\ InStep

MatchesInv == phase \in Walking /\ intact => Astray \/ Matches

----------------------------------------------------------------------------
(* The recording and its log                                               *)

LEMMA RecordingInit == RunInit => RecordInv
<1>1. Init => Joined
  BY DEF Init, Joined
<1> QED
  BY <1>1, TypeInvInit, GroundedInit, LogInvInit, DeriveInit, FifoInit
  DEF RunInit, RecordInv, Recording, NothingRead, Replay!ReplayInit, Replay!KahnInit, KahnInit

LEMMA RecordingGoesOn ==
    ASSUME Recording, [Next]_vars
    PROVE  Recording'
  BY TypeInvNext, GroundedTask, GroundedMain, LogInvNext, DeriveNext, FifoTask, FifoMain, JoinedNext
  DEF Next, Recording

\* What RecordStep may do, the runtime may do.
LEMMA RecordedStep ==
    ASSUME RecordStep
    PROVE  phase = "recording" /\ [Next]_vars
  BY DEF RecordStep, Next

\* A step of the replay finds the recording ended and leaves it so.
LEMMA ReplayPhases ==
    ASSUME ReplayStep
    PROVE  phase # "recording" /\ phase' # "recording"
<1>1. CASE ReplayLogStep
  BY <1>1 DEF ReplayLogStep, Build, Validate, Linearize, Pop, Drained, BuildError, Enter
<1>2. CASE \E actors, stimuli : Replay!SetUp(actors, stimuli)
  BY <1>2 DEF Replay!SetUp, Replay!Enter
<1>3. CASE Replay!Driver
  BY <1>3 DEF Replay!Driver, Replay!SeedOrigin, Replay!OriginsSeeded, Replay!DriveStarted,
     Replay!AllStarted, Replay!Unsent, Replay!Receive, Replay!Complete, Replay!Enter
<1>4. CASE \E a \in Actor : Replay!UserCode(a)
  BY <1>4 DEF Replay!UserCode, Replay!Compute, Replay!Send, Replay!Returns, Replay!Acts,
     Replay!InUserCode, Replay!Enter
<1> QED BY <1>1, <1>2, <1>3, <1>4 DEF ReplayStep

LEMMA RecordInvNext ==
    ASSUME RecordInv, [RunNext]_runVars
    PROVE  RecordInv'
<1>1. CASE RecordStep
  <2>1. Recording /\ Recording'
    BY <1>1, RecordedStep, RecordingGoesOn DEF RecordInv
  <2>2. UNCHANGED replayVars /\ phase = "recording"
    BY <1>1, RecordedStep DEF RecordStep
  <2> QED BY <2>1, <2>2 DEF RecordInv, NothingRead, replayVars, kahnVars, systemVars, KahnInit,
       Replay!ReplayInit, Replay!KahnInit
<1>2. CASE ReadLog
  BY <1>2 DEF ReadLog, RecordInv
<1>3. CASE ReplayStep
  BY <1>3, ReplayPhases DEF RecordInv
<1>4. CASE UNCHANGED runVars
  <2>1. UNCHANGED vars /\ UNCHANGED replayVars
    BY <1>4 DEF runVars
  <2>2. UNCHANGED <<log, edges, indeg, heap, order, phase, systemVars>>
    BY <2>1 DEF replayVars, kahnVars
  <2>3. Recording => Recording'
    BY <2>1, RecordingGoesOn
  <2>4. NothingRead => NothingRead'
    BY <2>2 DEF NothingRead, systemVars, KahnInit, Replay!ReplayInit, Replay!KahnInit
  <2> QED BY <2>2, <2>3, <2>4 DEF RecordInv
<1> QED BY <1>1, <1>2, <1>3, <1>4 DEF RunNext, Over

----------------------------------------------------------------------------
(* What is in the log that is read                                         *)

LEMMA OnlyActorsReceive ==
    ASSUME Recording, NEW j \in DOMAIN recorded, IsRecv(recorded[j])
    PROVE  recorded[j].actor \in Actor
<1>1. Derived(recorded, j) /\ recorded[j].actor \in Node
  BY RecordedTypes DEF Recording, DeriveInv
<1>2. recorded[j].actor # World
  BY <1>1 DEF Derived, IsOrigin, IsEmit, IsRecv
<1> QED BY <1>1, <1>2 DEF Node

LEMMA ReadableRecorded ==
    ASSUME Recording
    PROVE  ReadableLog(recorded)
  BY OnlyActorsReceive, TypedState DEF Recording, ReadableLog

\* A log made of events of a readable one is readable.
LEMMA ReadableFrom ==
    ASSUME NEW l, ReadableLog(l), NEW r \in Seq(Event),
           \A i \in DOMAIN r : \E j \in DOMAIN l : r[i].op = l[j].op /\ r[i].actor = l[j].actor
    PROVE  ReadableLog(r)
  BY DEF ReadableLog, IsRecv

LEMMA PrefixOf ==
    ASSUME NEW l \in Seq(Event), NEW n \in 0..Len(l)
    PROVE  /\ SubSeq(l, 1, n) \in Seq(Event)
           /\ DOMAIN SubSeq(l, 1, n) = 1..n
           /\ \A i \in 1..n : i \in DOMAIN l /\ SubSeq(l, 1, n)[i] = l[i]
  OBVIOUS

LEMMA ReversedOf ==
    ASSUME NEW l \in Seq(Event)
    PROVE  /\ Reversed(l) \in Seq(Event)
           /\ DOMAIN Reversed(l) = DOMAIN l
           /\ \A i \in DOMAIN l : /\ Len(l) + 1 - i \in DOMAIN l
                                  /\ Reversed(l)[i] = l[Len(l) + 1 - i]
                                  /\ Reversed(l)[Len(l) + 1 - i] = l[i]
<1>1. DOMAIN l = 1..Len(l) /\ Len(l) \in Nat
  OBVIOUS
<1>2. \A i \in DOMAIN l : Len(l) + 1 - i \in DOMAIN l /\ Len(l) + 1 - (Len(l) + 1 - i) = i
  BY <1>1
<1>3. DOMAIN Reversed(l) = 1..Len(l) /\ \A i \in DOMAIN l : Reversed(l)[i] = l[Len(l) + 1 - i]
  BY <1>1 DEF Reversed
<1>4. \A i \in 1..Len(l) : Reversed(l)[i] \in Event
  BY <1>1, <1>2, <1>3
<1>5. Reversed(l) = [i \in 1..Len(l) |-> Reversed(l)[i]]
  BY <1>1 DEF Reversed
<1>6. Reversed(l) \in Seq(Event)
  BY <1>1, <1>4, <1>5
<1> QED BY <1>1, <1>2, <1>3, <1>6

LEMMA ReadableIntact ==
    ASSUME NEW l, ReadableLog(l), NEW r \in Intact(l)
    PROVE  ReadableLog(r)
<1>0. l \in Seq(Event)
  BY DEF ReadableLog
<1>1. PICK n \in 0..Len(l) : r = SubSeq(l, 1, n) \/ r = Reversed(SubSeq(l, 1, n))
  BY DEF Intact
<1>2. PICK p : p = SubSeq(l, 1, n)
  OBVIOUS
<1>3. p \in Seq(Event) /\ \A i \in DOMAIN p : i \in DOMAIN l /\ p[i] = l[i]
  BY <1>0, <1>2, PrefixOf
<1>4. ReadableLog(p)
  BY <1>3, ReadableFrom
<1>5. PICK q : q = Reversed(p)
  OBVIOUS
<1>6. q \in Seq(Event) /\ \A i \in DOMAIN q : \E j \in DOMAIN p : q[i] = p[j]
  <2>1. p \in Seq(Event)
    BY <1>3
  <2>2. /\ q \in Seq(Event) /\ DOMAIN q = DOMAIN p
        /\ \A i \in DOMAIN p : Len(p) + 1 - i \in DOMAIN p /\ q[i] = p[Len(p) + 1 - i]
    BY <1>5, <2>1, ReversedOf
  <2> QED BY <2>2
<1>7. ReadableLog(q)
  BY <1>4, <1>6, ReadableFrom
<1> QED BY <1>1, <1>2, <1>4, <1>5, <1>7

LEMMA OverwrittenOf ==
    ASSUME NEW l \in Seq(Event), NEW i \in DOMAIN l, NEW ev \in Overwritten(l[i], l)
    PROVE  ev \in Event /\ ev.op = l[i].op /\ ev.actor = l[i].actor
<1>1. \A j \in DOMAIN l : l[j] \in Event
  OBVIOUS
<1>2. Ids(l) \subseteq Nat \cup {None}
  BY <1>1 DEF Ids, Event
<1>3. Len(l) \in Nat /\ ZeroClock \in VClock
  BY DEF ZeroClock, VClock
<1>4. PICK e : e = l[i]
  OBVIOUS
<1>5. e \in Event
  BY <1>1, <1>4
<1>6. CASE \E m \in Ids(l) : ev = [e EXCEPT !.msg_id = m]
  BY <1>2, <1>4, <1>5, <1>6 DEF Event
<1>7. CASE \E n \in {0, Len(l) + 1} : ev = [e EXCEPT !.lamport = n]
  <2>1. PICK n \in {0, Len(l) + 1} : ev = [e EXCEPT !.lamport = n]
    BY <1>7
  <2>2. n \in Nat
    BY <1>3
  <2> QED BY <1>4, <1>5, <2>1, <2>2 DEF Event
<1>8. CASE ev = [e EXCEPT !.vclock = ZeroClock]
  BY <1>3, <1>4, <1>5, <1>8 DEF Event
<1> QED BY <1>4, <1>6, <1>7, <1>8 DEF Overwritten

LEMMA Joint ==
    ASSUME NEW p \in Seq(Event), NEW q \in Seq(Event)
    PROVE  /\ p \o q \in Seq(Event)
           /\ \A k \in DOMAIN (p \o q) :
                (\E j \in DOMAIN p : (p \o q)[k] = p[j]) \/ (\E j \in DOMAIN q : (p \o q)[k] = q[j])
<1>1. /\ DOMAIN p = 1..Len(p) /\ DOMAIN q = 1..Len(q) /\ Len(p) \in Nat /\ Len(q) \in Nat
      /\ p \o q \in Seq(Event) /\ Len(p \o q) = Len(p) + Len(q)
  OBVIOUS
<1>2. ASSUME NEW k \in 1..(Len(p) + Len(q))
      PROVE  (\E j \in DOMAIN p : (p \o q)[k] = p[j]) \/ (\E j \in DOMAIN q : (p \o q)[k] = q[j])
  <2>1. CASE k <= Len(p)
    BY <1>1, <2>1
  <2>2. CASE k > Len(p)
    <3>1. (p \o q)[k] = q[k - Len(p)]
      BY <1>1, <2>2
    <3>2. k - Len(p) \in 1..Len(q)
      BY <1>1, <2>2
    <3> QED BY <1>1, <3>1, <3>2
  <2> QED BY <1>1, <2>1, <2>2
<1> QED BY <1>1, <1>2

LEMMA ReadableDamaged ==
    ASSUME NEW l, ReadableLog(l), NEW r \in Damaged(l)
    PROVE  ReadableLog(r)
<1>0. l \in Seq(Event)
  BY DEF ReadableLog
<1>1. PICK i \in DOMAIN l : \/ r = SubSeq(l, 1, i - 1) \o SubSeq(l, i + 1, Len(l))
                            \/ r = Append(l, l[i])
                            \/ \E ev \in Overwritten(l[i], l) : r = [l EXCEPT ![i] = ev]
  BY DEF Damaged
<1>2. DOMAIN l = 1..Len(l) /\ Len(l) \in Nat /\ i \in 1..Len(l)
  BY <1>0
<1>3. CASE r = SubSeq(l, 1, i - 1) \o SubSeq(l, i + 1, Len(l))
  <2>1. PICK p : p = SubSeq(l, 1, i - 1)
    OBVIOUS
  <2>2. PICK q : q = SubSeq(l, i + 1, Len(l))
    OBVIOUS
  <2>3. p \in Seq(Event) /\ \A k \in DOMAIN p : \E j \in DOMAIN l : p[k] = l[j]
    BY <1>0, <1>2, <2>1
  <2>4. q \in Seq(Event) /\ \A k \in DOMAIN q : \E j \in DOMAIN l : q[k] = l[j]
    <3>1. q \in Seq(Event) /\ DOMAIN q = 1..(Len(l) - i) /\ \A k \in 1..(Len(l) - i) : q[k] = l[i + k]
      BY <1>0, <1>2, <2>2
    <3>2. \A k \in 1..(Len(l) - i) : i + k \in DOMAIN l
      BY <1>2
    <3> QED BY <3>1, <3>2
  <2>5. r = p \o q
    BY <1>3, <2>1, <2>2
  <2>6. r \in Seq(Event) /\ \A k \in DOMAIN r : \E j \in DOMAIN l : r[k] = l[j]
    BY <2>3, <2>4, <2>5, Joint
  <2> QED BY <2>6, ReadableFrom
<1>4. CASE r = Append(l, l[i])
  <2>1. r \in Seq(Event) /\ \A k \in DOMAIN r : \E j \in DOMAIN l : r[k] = l[j]
    BY <1>0, <1>2, <1>4
  <2> QED BY <2>1, ReadableFrom
<1>5. ASSUME NEW ev \in Overwritten(l[i], l), r = [l EXCEPT ![i] = ev]
      PROVE  ReadableLog(r)
  <2>1. ev \in Event /\ ev.op = l[i].op /\ ev.actor = l[i].actor
    BY <1>0, OverwrittenOf
  <2>2. DOMAIN r = DOMAIN l /\ \A k \in DOMAIN r : r[k] = IF k = i THEN ev ELSE l[k]
    BY <1>5
  <2>3. r \in Seq(Event)
    BY <1>0, <1>2, <1>5, <2>1
  <2> QED BY <2>1, <2>2, <2>3, ReadableFrom
<1> QED BY <1>1, <1>3, <1>4, <1>5

LEMMA SteppedGrows ==
    ASSUME NEW E, NEW F, E \subseteq F, NEW ev, NEW m, Stepped(E, ev, m)
    PROVE  Stepped(F, ev, m)
  BY DEF Stepped

\* The emit of a recorded receipt, as its clocks show.
LEMMA ReceiptMeets ==
    ASSUME Recording, NEW j \in DOMAIN recorded, IsRecv(recorded[j])
    PROVE  \E i \in DOMAIN recorded : Meets(recorded[i], recorded[j])
<1>1. Derived(recorded, j) /\ recorded[j].actor # World
  BY OnlyActorsReceive, ActorAssumption DEF Recording, DeriveInv
<1>2. PICK m : Stepped({recorded[i] : i \in 1..(j - 1)}, recorded[j], m)
  BY <1>1 DEF Derived, StepFrom
<1>3. PICK i \in 1..(j - 1) : Meets(recorded[i], recorded[j])
  BY <1>2 DEF Stepped, IsRecv
<1>4. DOMAIN recorded = 1..Len(recorded) /\ Len(recorded) \in Nat
  BY TypedState DEF Recording
<1>5. i \in DOMAIN recorded
  BY <1>3, <1>4
<1> QED BY <1>3, <1>5

LEMMA ReceivedOnce ==
    ASSUME Recording, NEW i \in DOMAIN recorded, NEW j \in DOMAIN recorded,
           IsRecv(recorded[i]), IsRecv(recorded[j]), recorded[i].msg_id = recorded[j].msg_id
    PROVE  i = j
<1>1. PICK e \in DOMAIN recorded : Meets(recorded[e], recorded[i])
  BY ReceiptMeets
<1>2. PICK f \in DOMAIN recorded : Meets(recorded[f], recorded[j])
  BY ReceiptMeets
<1>3. e = f
  BY <1>1, <1>2 DEF Meets, Recording, LogInv, FreshIds
<1>4. recorded[i].src = recorded[j].src /\ recorded[i].dst = recorded[j].dst
  BY <1>1, <1>2, <1>3 DEF Meets
<1>5. recorded[i].msg_id \in Nat
  BY DEF Recording, Fifo, Drawn
<1>6. ~(i < j) /\ ~(j < i)
  BY <1>4, <1>5 DEF Recording, Fifo, PairwiseFifo
<1>7. i \in Nat /\ j \in Nat
  BY TypedState DEF Recording
<1> QED BY <1>6, <1>7

LEMMA SoundPrefix ==
    ASSUME Recording, NEW n \in 0..Len(recorded)
    PROVE  Sound(SubSeq(recorded, 1, n))
<1>1. PICK p : p = SubSeq(recorded, 1, n)
  OBVIOUS
<1>2. recorded \in Seq(Event) /\ DOMAIN recorded = 1..Len(recorded) /\ Len(recorded) \in Nat
  BY TypedState DEF Recording
<1>3. /\ p \in Seq(Event) /\ DOMAIN p = 1..n
      /\ \A i \in 1..n : i \in DOMAIN recorded /\ p[i] = recorded[i]
  BY <1>1, <1>2, PrefixOf
<1>4. ASSUME NEW j \in DOMAIN p, p[j].actor # World
      PROVE  \E m \in Memory(p, p[j].actor, p[j].seq - 1) : Stepped(EventsIn(p), p[j], m)
  <2>1. PICK m \in Memory(recorded, p[j].actor, p[j].seq - 1) :
          Stepped({recorded[i] : i \in 1..(j - 1)}, p[j], m)
    BY <1>3, <1>4 DEF Recording, DeriveInv, Derived, StepFrom
  <2>2. {recorded[i] : i \in 1..(j - 1)} \subseteq EventsIn(p)
    <3>1. \A i \in 1..(j - 1) : i \in DOMAIN p /\ recorded[i] = p[i]
      BY <1>3
    <3> QED BY <3>1 DEF EventsIn
  <2>3. Stepped(EventsIn(p), p[j], m)
    BY <2>1, <2>2, SteppedGrows
  <2>4. m \in Memory(p, p[j].actor, p[j].seq - 1)
    <3>1. CASE p[j].seq - 1 = 0
      BY <2>1, <3>1 DEF Memory
    <3>2. CASE p[j].seq - 1 # 0
      <4>1. PICK i \in DOMAIN recorded : /\ recorded[i].actor = p[j].actor
                                         /\ recorded[i].seq = p[j].seq - 1
                                         /\ m = [vclock |-> recorded[i].vclock, lamport |-> recorded[i].lamport]
        BY <2>1, <3>2 DEF Memory
      <4>2. p[j] = recorded[j] /\ j \in DOMAIN recorded
        BY <1>3
      <4>3. recorded[j].actor \in Actor /\ recorded[j].seq \in Nat /\ recorded[i].seq \in Nat
        BY <1>4, <4>2, RecordedTypes DEF Recording, Node
      <4>4. i \in EventsOf(recorded[j].actor) /\ j \in EventsOf(recorded[j].actor)
        BY <4>1, <4>2 DEF EventsOf
      <4>5. j < i => recorded[j].seq < recorded[i].seq
        BY <4>3, <4>4 DEF Recording, LogInv, Ordered
      <4>6. i < j
        <5>1. recorded[i].seq = recorded[j].seq - 1
          BY <4>1, <4>2
        <5>2. i \in Nat /\ j \in Nat
          BY <1>2, <4>2
        <5> QED BY <4>3, <4>5, <5>1, <5>2
      <4>7. i \in DOMAIN p /\ p[i] = recorded[i]
        BY <1>2, <1>3, <4>6
      <4> QED BY <3>2, <4>1, <4>7 DEF Memory
    <3> QED BY <3>1, <3>2
  <2> QED BY <2>3, <2>4
<1>5. ASSUME NEW j \in DOMAIN p, p[j].actor = World
      PROVE  IsOrigin(p[j])
  BY <1>3, <1>5 DEF Recording, DeriveInv, Derived
<1>6. ASSUME NEW i \in DOMAIN p, NEW j \in DOMAIN p, p[i].actor # World,
             p[i].actor = p[j].actor, p[i].seq = p[j].seq
      PROVE  i = j
  <2>1. p[i] = recorded[i] /\ p[j] = recorded[j] /\ i \in DOMAIN recorded /\ j \in DOMAIN recorded
    BY <1>3
  <2>2. recorded[i].actor \in Actor /\ recorded[i].seq \in Nat
    BY <1>6, <2>1, RecordedTypes DEF Recording, Node
  <2>3. i \in EventsOf(recorded[i].actor) /\ j \in EventsOf(recorded[i].actor)
    BY <1>6, <2>1 DEF EventsOf
  <2>4. (i < j => recorded[i].seq < recorded[j].seq) /\ (j < i => recorded[j].seq < recorded[i].seq)
    BY <2>2, <2>3 DEF Recording, LogInv, Ordered
  <2>5. ~(i < j) /\ ~(j < i)
    BY <1>6, <2>1, <2>2, <2>4
  <2> QED BY <1>3, <2>5
<1>7. ~DuplicateEmit(p)
  BY <1>3 DEF DuplicateEmit, Recording, LogInv, FreshIds
<1>8. \A i, j \in DOMAIN p : IsRecv(p[i]) /\ IsRecv(p[j]) /\ p[i].msg_id = p[j].msg_id => i = j
  BY <1>3, ReceivedOnce
<1>9. Sound(p)
  BY <1>4, <1>5, <1>6, <1>7, <1>8 DEF Sound
<1> QED BY <1>1, <1>9

\* The places of the events do not matter.
LEMMA SoundReversed ==
    ASSUME NEW l \in Seq(Event), Sound(l)
    PROVE  Sound(Reversed(l))
<1>1. PICK r : r = Reversed(l)
  OBVIOUS
<1>2. /\ r \in Seq(Event) /\ DOMAIN r = DOMAIN l
      /\ \A i \in DOMAIN l : /\ Len(l) + 1 - i \in DOMAIN l
                             /\ r[i] = l[Len(l) + 1 - i]
                             /\ r[Len(l) + 1 - i] = l[i]
  BY <1>1, ReversedOf
<1>3. \A i \in DOMAIN r : \E k \in DOMAIN l : r[i] = l[k]
  BY <1>2
<1>4. \A k \in DOMAIN l : \E i \in DOMAIN r : r[i] = l[k]
  BY <1>2
<1>5. EventsIn(r) = EventsIn(l)
  BY <1>3, <1>4 DEF EventsIn
<1>6. \A a, s : Memory(r, a, s) = Memory(l, a, s)
  <2> TAKE a, s
  <2>1. ASSUME s # 0, NEW m \in Memory(r, a, s) PROVE m \in Memory(l, a, s)
    <3>1. PICK i \in DOMAIN r : r[i].actor = a /\ r[i].seq = s /\ m = [vclock |-> r[i].vclock, lamport |-> r[i].lamport]
      BY <2>1 DEF Memory
    <3>2. PICK k \in DOMAIN l : r[i] = l[k]
      BY <1>3
    <3> QED BY <2>1, <3>1, <3>2 DEF Memory
  <2>2. ASSUME s # 0, NEW m \in Memory(l, a, s) PROVE m \in Memory(r, a, s)
    <3>1. PICK k \in DOMAIN l : l[k].actor = a /\ l[k].seq = s /\ m = [vclock |-> l[k].vclock, lamport |-> l[k].lamport]
      BY <2>2 DEF Memory
    <3>2. PICK i \in DOMAIN r : r[i] = l[k]
      BY <1>4
    <3> QED BY <2>2, <3>1, <3>2 DEF Memory
  <2>3. s = 0 => Memory(r, a, s) = Memory(l, a, s)
    BY DEF Memory
  <2> QED BY <2>1, <2>2, <2>3
<1>7. \A i, j \in DOMAIN r : Len(l) + 1 - i = Len(l) + 1 - j => i = j
  <2>1. Len(l) \in Nat /\ DOMAIN r = 1..Len(l)
    BY <1>2
  <2> QED BY <2>1
<1>8. \A j \in DOMAIN r :
         IF r[j].actor = World THEN IsOrigin(r[j])
         ELSE \E m \in Memory(r, r[j].actor, r[j].seq - 1) : Stepped(EventsIn(r), r[j], m)
  <2> TAKE j \in DOMAIN r
  <2>1. PICK k \in DOMAIN l : r[j] = l[k]
    BY <1>3
  <2> QED BY <1>5, <1>6, <2>1 DEF Sound
<1>9. \A i, j \in DOMAIN r : r[i].actor # World /\ r[i].actor = r[j].actor /\ r[i].seq = r[j].seq => i = j
  BY <1>2, <1>7 DEF Sound
<1>10. ~DuplicateEmit(r)
  BY <1>2, <1>7 DEF Sound, DuplicateEmit
<1>11. \A i, j \in DOMAIN r : IsRecv(r[i]) /\ IsRecv(r[j]) /\ r[i].msg_id = r[j].msg_id => i = j
  BY <1>2, <1>7 DEF Sound
<1> QED BY <1>1, <1>8, <1>9, <1>10, <1>11 DEF Sound

LEMMA SoundIntact ==
    ASSUME Recording, NEW l \in Intact(recorded)
    PROVE  Sound(l)
<1>1. PICK n \in 0..Len(recorded) :
        l = SubSeq(recorded, 1, n) \/ l = Reversed(SubSeq(recorded, 1, n))
  BY DEF Intact
<1>2. Sound(SubSeq(recorded, 1, n))
  BY SoundPrefix
<1>3. SubSeq(recorded, 1, n) \in Seq(Event)
  BY PrefixOf, TypedState DEF Recording
<1> QED BY <1>1, <1>2, <1>3, SoundReversed

LEMMA LogFactsNext ==
    ASSUME RecordInv, LogFacts, [RunNext]_runVars
    PROVE  LogFacts'
<1>1. CASE RecordStep
  BY <1>1, RecordedStep DEF RecordStep, replayVars, LogFacts
<1>2. CASE ReadLog
  <2>1. Recording
    BY <1>2 DEF ReadLog, RecordInv
  <2>2. ReadableLog(log')
    BY <1>2, <2>1, ReadableRecorded, ReadableIntact, ReadableDamaged DEF ReadLog
  <2>3. intact' => log' \in Intact(recorded)
    BY <1>2 DEF ReadLog
  <2>4. intact' => Sound(log')
    BY <2>1, <2>3, SoundIntact
  <2> QED BY <2>2, <2>4 DEF LogFacts
<1>3. CASE ReplayStep
  <2>1. phase # "recording" /\ UNCHANGED intact
    BY <1>3, ReplayPhases DEF ReplayStep
  <2>2. log' = log
    BY <1>3 DEF ReplayStep, ReplayLogStep, Build, Validate, Linearize, Pop, Drained,
       Replay!SetUp, Replay!Driver, Replay!SeedOrigin, Replay!OriginsSeeded, Replay!DriveStarted,
       Replay!AllStarted, Replay!Unsent, Replay!Receive, Replay!Complete,
       Replay!UserCode, Replay!Compute, Replay!Send, Replay!Returns
  <2> QED BY <2>1, <2>2 DEF LogFacts
<1>4. CASE UNCHANGED runVars
  BY <1>4 DEF runVars, replayVars, LogFacts
<1> QED BY <1>1, <1>2, <1>3, <1>4 DEF RunNext, Over

----------------------------------------------------------------------------
(* What a sound log is like                                                *)

LEMMA LogTypes ==
    ASSUME NEW l, ReadableLog(l), NEW i \in DOMAIN l
    PROVE  /\ l[i] \in Event /\ l[i].actor \in Node /\ l[i].seq \in Nat
           /\ l[i].vclock \in VClock /\ l[i].lamport \in Nat
           /\ l[i].op \in {"emit", "recv", "compute"}
           /\ l[i].msg_id \in Nat \cup {None}
           /\ l[i].src \in Node \cup {None} /\ l[i].dst \in Actor \cup {None}
           /\ l[i].actor # World => l[i].actor \in Actor
<1>1. l[i] \in Event
  BY DEF ReadableLog
<1> QED BY <1>1 DEF Event, Node

LEMMA MemoryTypes ==
    ASSUME NEW l, ReadableLog(l), NEW a, NEW s, NEW m \in Memory(l, a, s)
    PROVE  m.vclock \in VClock /\ m.lamport \in Nat
<1>1. CASE s = 0
  <2>1. m = ZeroMemory
    BY <1>1 DEF Memory
  <2> QED BY <2>1 DEF ZeroMemory, ZeroClock, VClock
<1>2. CASE s # 0
  <2>1. PICK i \in DOMAIN l : m = [vclock |-> l[i].vclock, lamport |-> l[i].lamport]
    BY <1>2 DEF Memory
  <2> QED BY <2>1, LogTypes
<1> QED BY <1>1, <1>2

LEMMA OneMemory ==
    ASSUME NEW l, ReadableLog(l), Sound(l), NEW a \in Actor, NEW s,
           NEW m \in Memory(l, a, s), NEW n \in Memory(l, a, s)
    PROVE  m = n
<1>1. CASE s = 0
  BY <1>1 DEF Memory
<1>2. CASE s # 0
  <2>1. PICK i \in DOMAIN l : l[i].actor = a /\ l[i].seq = s /\ m = [vclock |-> l[i].vclock, lamport |-> l[i].lamport]
    BY <1>2 DEF Memory
  <2>2. PICK j \in DOMAIN l : l[j].actor = a /\ l[j].seq = s /\ n = [vclock |-> l[j].vclock, lamport |-> l[j].lamport]
    BY <1>2 DEF Memory
  <2>3. i = j
    BY <2>1, <2>2, ActorAssumption DEF Sound
  <2> QED BY <2>1, <2>2, <2>3
<1> QED BY <1>1, <1>2

\* An event of an actor is one step from any memory of the one before it.
LEMMA SoundStep ==
    ASSUME NEW l, ReadableLog(l), Sound(l), NEW j \in DOMAIN l, l[j].actor # World
    PROVE  /\ l[j].actor \in Actor /\ l[j].seq \in Nat /\ l[j].seq >= 1
           /\ Memory(l, l[j].actor, l[j].seq - 1) # {}
           /\ \A m \in Memory(l, l[j].actor, l[j].seq - 1) : Stepped(EventsIn(l), l[j], m)
<1>1. l[j].actor \in Actor /\ l[j].seq \in Nat
  BY LogTypes
<1>2. PICK m \in Memory(l, l[j].actor, l[j].seq - 1) : Stepped(EventsIn(l), l[j], m)
  BY DEF Sound
<1>3. l[j].seq >= 1
  <2>1. l[j].seq - 1 = 0 \/ \E i \in DOMAIN l : l[i].seq = l[j].seq - 1
    BY <1>2 DEF Memory
  <2>2. l[j].seq - 1 \in Nat
    BY <2>1, LogTypes
  <2> QED BY <1>1, <2>2
<1>4. \A n \in Memory(l, l[j].actor, l[j].seq - 1) : n = m
  BY <1>1, <1>2, OneMemory
<1> QED BY <1>1, <1>2, <1>3, <1>4

\* The seqs of an actor have no gap.
LEMMA NoGap ==
    ASSUME NEW l, ReadableLog(l), Sound(l), NEW j \in DOMAIN l, l[j].actor # World,
           NEW t \in 1..l[j].seq
    PROVE  \E i \in DOMAIN l : l[i].actor = l[j].actor /\ l[i].seq = t
<1> DEFINE S == {s \in Nat : t <= s /\ \E i \in DOMAIN l : l[i].actor = l[j].actor /\ l[i].seq = s}
<1>1. l[j].seq \in S /\ t \in Nat /\ t >= 1
  BY LogTypes
<1>2. PICK s \in S : \A u \in S : s <= u
  <2> HIDE DEF S
  <2>1. S \subseteq Nat
    BY DEF S
  <2> QED BY <1>1, <2>1, LeastNumber
<1>3. PICK i \in DOMAIN l : l[i].actor = l[j].actor /\ l[i].seq = s
  BY <1>2
<1>4. s = t
  <2>1. SUFFICES ASSUME s > t PROVE FALSE
    BY <1>1, <1>2
  <2>2. PICK m : m \in Memory(l, l[j].actor, s - 1)
    BY <1>3, SoundStep
  <2>3. s - 1 # 0 /\ s - 1 \in Nat /\ t <= s - 1
    BY <1>1, <1>2, <2>1
  <2>4. \E k \in DOMAIN l : l[k].actor = l[j].actor /\ l[k].seq = s - 1
    BY <2>2, <2>3 DEF Memory
  <2>5. s - 1 \in S
    BY <2>3, <2>4
  <2>6. s <= s - 1
    BY <1>2, <2>5
  <2> QED BY <1>1, <2>3, <2>6
<1> QED BY <1>3, <1>4

\* An emit is known by its id.
LEMMA OneEmit ==
    ASSUME NEW l, ~DuplicateEmit(l), NEW i \in DOMAIN l, NEW j \in DOMAIN l,
           IsEmit(l[i]), IsEmit(l[j]), l[i].msg_id = l[j].msg_id
    PROVE  i = j
  BY DEF DuplicateEmit

\* A receipt is one step from what its actor remembers and its message brings.
LEMMA SoundReceipt ==
    ASSUME NEW l, ReadableLog(l), Sound(l), NEW j \in DOMAIN l, IsRecv(l[j]),
           NEW i \in DOMAIN l, IsEmit(l[i]), l[i].msg_id = l[j].msg_id,
           NEW m \in Memory(l, l[j].actor, l[j].seq - 1)
    PROVE  /\ l[j].dst = l[j].actor /\ Meets(l[i], l[j])
           /\ l[j].vclock = Bump(Join(m.vclock, l[i].vclock), l[j].actor)
           /\ l[j].lamport = Update(m.lamport, l[i].lamport)
<1>1. l[j].actor # World
  BY ActorAssumption DEF ReadableLog
<1>2. Stepped(EventsIn(l), l[j], m)
  BY <1>1, SoundStep
<1>3. PICK e \in EventsIn(l) : /\ Meets(e, l[j])
                               /\ l[j].vclock = Bump(Join(m.vclock, e.vclock), l[j].actor)
                               /\ l[j].lamport = Update(m.lamport, e.lamport)
  BY <1>2 DEF Stepped, IsRecv
<1>4. PICK k \in DOMAIN l : e = l[k]
  BY DEF EventsIn
<1>5. k = i
  BY <1>3, <1>4, OneEmit DEF Sound, Meets
<1> QED BY <1>2, <1>3, <1>4, <1>5 DEF Stepped, IsRecv

LEMMA SoundSent ==
    ASSUME NEW l, ReadableLog(l), Sound(l), NEW j \in DOMAIN l, IsRecv(l[j])
    PROVE  \E i \in DOMAIN l : Meets(l[i], l[j])
<1>1. l[j].actor # World
  BY ActorAssumption DEF ReadableLog
<1>2. PICK m : Stepped(EventsIn(l), l[j], m)
  BY <1>1, SoundStep
<1> QED BY <1>2 DEF Stepped, IsRecv, EventsIn

LEMMA BumpIsLater ==
    ASSUME NEW s \in VClock, NEW n \in Node
    PROVE  Less(s, Bump(s, n))
<1>1. Leq(s, Bump(s, n)) /\ Bump(s, n)[n] = s[n] + 1 /\ s[n] \in Nat
  BY BumpGrows DEF VClock
<1>2. s[n] # Bump(s, n)[n]
  BY <1>1
<1> QED BY <1>1, <1>2 DEF Less

\* Every step of an actor leads to later stamps.
LEMMA StepIsLater ==
    ASSUME NEW l, ReadableLog(l), NEW j \in DOMAIN l, l[j].actor \in Actor,
           NEW m, m.vclock \in VClock, m.lamport \in Nat, Stepped(EventsIn(l), l[j], m)
    PROVE  m.lamport < l[j].lamport /\ HbStrict(m.vclock, l[j].vclock)
<1>0. l[j].actor \in Node /\ l[j].vclock \in VClock
  BY LogTypes
<1>1. CASE l[j].op = "recv"
  <2>1. PICK e \in EventsIn(l) : /\ l[j].vclock = Bump(Join(m.vclock, e.vclock), l[j].actor)
                                 /\ l[j].lamport = Update(m.lamport, e.lamport)
    BY <1>1 DEF Stepped
  <2>2. e.vclock \in VClock /\ e.lamport \in Nat
    BY LogTypes DEF EventsIn
  <2>3. PICK v : v = Join(m.vclock, e.vclock)
    OBVIOUS
  <2>4. v \in VClock /\ Leq(m.vclock, v) /\ l[j].vclock = Bump(v, l[j].actor)
    BY <2>1, <2>2, <2>3, JoinType, JoinGrows
  <2>5. Leq(m.vclock, l[j].vclock)
    BY <1>0, <2>4, BumpGrows, LeqTransitive
  <2>6. ~Leq(l[j].vclock, m.vclock)
    <3>1. l[j].vclock[l[j].actor] = v[l[j].actor] + 1 /\ v[l[j].actor] \in Nat
      BY <1>0, <2>4, BumpGrows DEF VClock
    <3>2. m.vclock[l[j].actor] <= v[l[j].actor] /\ m.vclock[l[j].actor] \in Nat
      BY <1>0, <2>4 DEF Leq, VClock
    <3>3. ~(l[j].vclock[l[j].actor] <= m.vclock[l[j].actor])
      BY <3>1, <3>2
    <3> QED BY <1>0, <3>3 DEF Leq, VClock
  <2>7. Less(m.vclock, l[j].vclock)
    BY <2>5, <2>6, LeqReflexive, <1>0 DEF Less
  <2>8. m.lamport < l[j].lamport
    BY <2>1, <2>2 DEF Update, Larger
  <2> QED BY <1>0, <2>7, <2>8, LessIsHbStrict
<1>2. CASE l[j].op # "recv"
  <2>1. l[j].vclock = Bump(m.vclock, l[j].actor) /\ l[j].lamport = Tick(m.lamport)
    BY <1>2 DEF Stepped
  <2>2. m.lamport < l[j].lamport
    BY <2>1 DEF Tick
  <2> QED BY <1>0, <2>1, <2>2, BumpIsLater, LessIsHbStrict
<1> QED BY <1>1, <1>2

\* Along every edge of a sound log both kinds of stamps grow.
LEMMA SoundEdge ==
    ASSUME NEW l, ReadableLog(l), Sound(l), NEW e \in Edges(l)
    PROVE  l[e[1]].lamport < l[e[2]].lamport /\ HbStrict(l[e[1]].vclock, l[e[2]].vclock)
<1>1. CASE e \in ProgramEdges(l)
  <2>1. PICK i \in DOMAIN l, j \in DOMAIN l :
          /\ e[1] = i /\ e[2] = j /\ l[i].actor = l[j].actor /\ l[i].seq < l[j].seq
          /\ \A k \in DOMAIN l : l[k].actor = l[i].actor => ~(l[i].seq < l[k].seq /\ l[k].seq < l[j].seq)
    BY <1>1 DEF ProgramEdges, Pairs
  <2>2. l[j].actor # World
    <3>1. l[i].actor = World /\ l[j].actor = World => l[i].seq = 1 /\ l[j].seq = 1
      BY DEF Sound, IsOrigin
    <3> QED BY <2>1, <3>1
  <2>3. /\ l[i].seq \in Nat /\ l[i].seq >= 1 /\ l[j].seq \in Nat /\ l[j].actor \in Actor
        /\ \A k \in DOMAIN l : l[k].seq \in Nat
    BY <2>1, <2>2, SoundStep, LogTypes
  <2>4. PICK m \in Memory(l, l[j].actor, l[j].seq - 1) : Stepped(EventsIn(l), l[j], m)
    BY <2>2, SoundStep
  <2>5. l[j].seq - 1 # 0
    BY <2>1, <2>3
  <2>6. PICK k \in DOMAIN l : /\ l[k].actor = l[j].actor /\ l[k].seq = l[j].seq - 1
                              /\ m = [vclock |-> l[k].vclock, lamport |-> l[k].lamport]
    BY <2>4, <2>5 DEF Memory
  <2>7. l[k].seq = l[i].seq
    <3>1. ~(l[i].seq < l[k].seq /\ l[k].seq < l[j].seq)
      BY <2>1, <2>6
    <3> QED BY <2>1, <2>3, <2>6, <3>1
  <2>8. k = i
    BY <2>1, <2>2, <2>6, <2>7 DEF Sound
  <2>9. m.vclock = l[i].vclock /\ m.lamport = l[i].lamport /\ m.vclock \in VClock /\ m.lamport \in Nat
    BY <2>6, <2>8, LogTypes
  <2> QED BY <2>1, <2>3, <2>4, <2>9, StepIsLater
<1>2. CASE e \in MessageEdges(l)
  <2>1. PICK i \in DOMAIN l, j \in DOMAIN l :
          e[1] = i /\ e[2] = j /\ IsEmit(l[i]) /\ IsRecv(l[j]) /\ l[i].msg_id = l[j].msg_id
    BY <1>2 DEF MessageEdges, Pairs
  <2>2. l[j].actor # World /\ l[j].actor \in Node
    BY <2>1, ActorAssumption DEF ReadableLog, Node
  <2>3. PICK m : m \in Memory(l, l[j].actor, l[j].seq - 1)
    BY <2>2, SoundStep
  <2>4. /\ l[j].vclock = Bump(Join(m.vclock, l[i].vclock), l[j].actor)
        /\ l[j].lamport = Update(m.lamport, l[i].lamport)
    BY <2>1, <2>3, SoundReceipt
  <2>5. m.vclock \in VClock /\ m.lamport \in Nat /\ l[i].vclock \in VClock /\ l[i].lamport \in Nat
        /\ l[j].vclock \in VClock
    BY <2>3, MemoryTypes, LogTypes
  <2>6. Less(l[i].vclock, l[j].vclock)
    BY <2>2, <2>4, <2>5, ReceiptIsLater
  <2>7. l[i].lamport < l[j].lamport
    BY <2>4, <2>5 DEF Update, Larger
  <2> QED BY <2>1, <2>5, <2>6, <2>7, LessIsHbStrict
<1> QED BY <1>1, <1>2 DEF Edges

OneOrigin(l) == \A i, j \in DOMAIN l : l[i].actor = World /\ l[j].actor = World => i = j

\* replay_log finds nothing to reject in it.
LEMMA SoundIsAccepted ==
    ASSUME NEW l, ReadableLog(l), Sound(l)
    PROVE  Valid(l) /\ (OneOrigin(l) => BuildOk(l))
<1>1. Valid(l)
  BY SoundEdge DEF Valid
<1>2. ~MissingEmit(l)
  BY SoundSent DEF MissingEmit, Meets
<1>3. OneOrigin(l) => ~DuplicateSeq(l)
  BY DEF OneOrigin, DuplicateSeq, Sound
<1> QED BY <1>1, <1>2, <1>3 DEF BuildOk, Sound

----------------------------------------------------------------------------
(* replay_log runs here as it does alone                                   *)

LEMMA WalkStep ==
    ASSUME Replay!Driver \/ \E a \in Actor : Replay!UserCode(a)
    PROVE  /\ phase \in Walking /\ phase' \in Walking
           /\ UNCHANGED <<log, edges, indeg, heap, order, rebuilt, reorigins>>
<1> USE DEF Replay!kahnVars, Replay!setupVars, Replay!Enter, Walking
<1>1. CASE Replay!SeedOrigin \/ Replay!OriginsSeeded \/ Replay!DriveStarted \/ Replay!AllStarted
  BY <1>1 DEF Replay!SeedOrigin, Replay!OriginsSeeded, Replay!DriveStarted, Replay!AllStarted
<1>2. CASE Replay!Unsent \/ Replay!Complete
  BY <1>2 DEF Replay!Unsent, Replay!Complete
<1>3. CASE Replay!Receive
  BY <1>3 DEF Replay!Receive
<1>4. CASE \E a \in Actor : Replay!UserCode(a)
  <2>1. PICK a \in Actor : Replay!Compute(a) \/ (\E to \in Actor : Replay!Send(a, to)) \/ Replay!Returns(a)
    BY <1>4 DEF Replay!UserCode
  <2>2. CASE Replay!Compute(a)
    BY <2>2 DEF Replay!Compute, Replay!Acts, Replay!InUserCode
  <2>3. CASE \E to \in Actor : Replay!Send(a, to)
    BY <2>3 DEF Replay!Send, Replay!Acts, Replay!InUserCode
  <2>4. CASE Replay!Returns(a)
    BY <2>4 DEF Replay!Returns, Replay!InUserCode
  <2> QED BY <2>1, <2>2, <2>3, <2>4
<1> QED BY <1>1, <1>2, <1>3, <1>4 DEF Replay!Driver

LEMMA SetUpStep ==
    ASSUME NEW actors, NEW stimuli, Replay!SetUp(actors, stimuli)
    PROVE  /\ phase = "timeline" /\ phase' = "origins"
           /\ rebuilt' = actors /\ reorigins' = stimuli
           /\ UNCHANGED <<log, edges, indeg, heap, order>>
           /\ UNCHANGED <<reclock, relamport, reseq, pending, sendCount, divergences, produced,
                          next, driving, did>>
  BY DEF Replay!SetUp, Replay!kahnVars, Replay!taskVars, Replay!stateVars, Replay!Enter

LEMMA ReadingStep ==
    ASSUME ReplayLogStep
    PROVE  phase \in Reading /\ phase \notin Rejected /\ phase # "timeline" /\ phase' \in Reading /\ log' = log
<1> USE DEF Enter, Reading, Rejected, kahnVars
<1>1. CASE Build
  BY <1>1 DEF Build, BuildError, BuildOk
<1>2. CASE Validate \/ Linearize \/ Pop \/ Drained
  BY <1>2 DEF Validate, Linearize, Pop, Drained
<1> QED BY <1>1, <1>2 DEF ReplayLogStep

LEMMA ReadableIsNatural ==
    ASSUME ReadableLog(log)
    PROVE  NaturalClocks
<1> SUFFICES ASSUME NEW i \in DOMAIN log, NEW k \in DOMAIN log[i].vclock
             PROVE  log[i].vclock[k] \in Nat
  BY DEF NaturalClocks, Nodes
<1>1. log[i].vclock \in VClock
  BY LogTypes
<1> QED BY <1>1 DEF VClock

LEMMA VettedStep ==
    ASSUME ReplayLogStep, Vetted
    PROVE  Vetted'
<1> USE DEF Enter, Vetted, kahnVars
<1>1. CASE Build
  BY <1>1 DEF Build, BuildError, BuildOk
<1>2. CASE Validate
  BY <1>2 DEF Validate
<1>3. CASE Linearize \/ Pop \/ Drained
  BY <1>3 DEF Linearize, Pop, Drained
<1> QED BY <1>1, <1>2, <1>3 DEF ReplayLogStep

\* The tables of linearize are those of KahnInv once there are any.
LEMMA TablesStep ==
    ASSUME ReplayLogStep, Tables, KahnInv'
    PROVE  Tables'
<1>1. heap' \subseteq Nodes' /\ order' \in Seq(Nodes')
  BY DEF KahnInv, Shapes
<1>2. CASE Draining'
  <2>1. indeg' \in [Nodes' -> Nat]
    BY <1>2 DEF KahnInv, Counted
  <2> QED BY <1>1, <2>1 DEF Tables
<1>3. CASE ~Draining'
  <2>1. indeg' = indeg /\ log' = log
    BY <1>3 DEF ReplayLogStep, Build, Validate, Linearize, Pop, Drained, kahnVars, Draining, Enter
  <2> QED BY <1>1, <2>1 DEF Tables, Nodes
<1> QED BY <1>2, <1>3

LEMMA KahnStarts ==
    ASSUME ReadableLog(log)', phase' = "build", KahnInit'
    PROVE  KahnInv' /\ ProgressInv'
<1>1. (IsLog /\ phase = "build" /\ KahnInit => KahnInv)'
  BY KahnInvInit, PTL
<1>2. (IsLog /\ phase = "build" /\ KahnInit => ProgressInv)'
  BY ProgressInit, PTL
<1>3. IsLog'
  BY DEF ReadableLog, IsLog
<1> QED BY <1>1, <1>2, <1>3

LEMMA ReadingInit == RunInit => ReadingInv
<1> SUFFICES ASSUME RunInit PROVE ReadingInv
  OBVIOUS
<1>1. phase = "recording" /\ log = <<>> /\ indeg = <<>> /\ heap = {} /\ order = <<>>
  BY DEF RunInit, Replay!ReplayInit, Replay!KahnInit
<1>2. Tables
  BY <1>1 DEF Tables, Nodes
<1> QED BY <1>1, <1>2 DEF ReadingInv, Reading, Walking, Rejected

LEMMA ReadingBegins ==
    ASSUME NothingRead, ReadableLog(log)', phase' = "build", UNCHANGED <<kahnVars, systemVars>>
    PROVE  ReadingInv'
<1>1. KahnInit'
  BY DEF NothingRead, KahnInit, kahnVars
<1>2. KahnInv' /\ ProgressInv'
  BY <1>1, KahnStarts
<1>3. Untouched'
  BY DEF NothingRead, Replay!ReplayInit, Untouched, systemVars, ZeroClock, Node
<1>4. Tables'
  BY <1>1 DEF KahnInit, Tables
<1> QED BY <1>2, <1>3, <1>4 DEF ReadingInv, Vetted, Reading, Walking, Rejected

LEMMA ReadingNext ==
    ASSUME RecordInv, LogFacts, LogFacts', ReadingInv, [RunNext]_runVars
    PROVE  ReadingInv'
<1>1. CASE UNCHANGED <<replayVars>>
  <2>1. UNCHANGED <<log, edges, indeg, heap, order, phase, systemVars>>
    BY <1>1 DEF replayVars, kahnVars
  <2>2. UNCHANGED kahn
    BY <2>1 DEF kahn, kahnVars
  <2>3. KahnInv => KahnInv'
    BY <2>2, KahnInvStep
  <2>4. phase \in Reading /\ KahnInv /\ ProgressInv => ProgressInv'
    <3>1. phase \in Reading => NaturalClocks
      BY ReadableIsNatural DEF LogFacts, Reading, Rejected
    <3> QED BY <2>2, <3>1, ProgressStep
  <2>5. Tables' /\ (Vetted => Vetted')
    BY <2>1 DEF ReadingInv, Tables, Nodes, Vetted
  <2>6. Untouched => Untouched'
    BY <2>1 DEF Untouched, systemVars
  <2>7. TimelineInv => TimelineInv'
    BY <2>1 DEF TimelineInv, CausesFirst, From, Into
  <2> QED BY <2>1, <2>3, <2>4, <2>5, <2>6, <2>7 DEF ReadingInv
<1>2. CASE ReadLog
  <2>1. phase = "recording" /\ phase' = "build" /\ UNCHANGED <<kahnVars, systemVars>>
    BY <1>2 DEF ReadLog
  <2> QED BY <2>1, ReadingBegins DEF RecordInv, LogFacts
<1>3. CASE ReplayLogStep /\ UNCHANGED systemVars
  <2>1. phase \in Reading /\ phase' \in Reading /\ log' = log
    BY <1>3, ReadingStep
  <2>2. NaturalClocks
    BY <2>1, ReadableIsNatural DEF LogFacts, Reading, Rejected
  <2>3. KahnInv' /\ ProgressInv'
    BY <1>3, <2>1, <2>2, KahnInvStep, ProgressStep DEF ReadingInv
  <2>4. Tables' /\ Vetted'
    BY <1>3, <2>1, <2>3, TablesStep, VettedStep DEF ReadingInv
  <2>5. Untouched'
    BY <1>3, <2>1 DEF ReadingInv, Untouched, systemVars
  <2>6. phase' \notin Walking
    BY <2>1 DEF Reading, Walking, Rejected
  <2> QED BY <2>1, <2>3, <2>4, <2>5, <2>6 DEF ReadingInv
<1>4. ASSUME NEW actors, NEW stimuli, Replay!SetUp(actors, stimuli)
      PROVE  ReadingInv'
  <2>1. phase = "timeline" /\ phase' = "origins" /\ UNCHANGED <<log, edges, indeg, heap, order>>
    BY <1>4, SetUpStep
  <2>2. KahnInv /\ Vetted /\ Tables
    BY <2>1 DEF ReadingInv, Reading
  <2>3. TimelineInv
    BY <2>1, <2>2 DEF TimelineInv, KahnInv, Complete, Vetted
  <2>4. TimelineInv' /\ Tables'
    BY <2>1, <2>2, <2>3 DEF TimelineInv, CausesFirst, From, Into, Tables, Nodes
  <2> QED BY <2>1, <2>4 DEF ReadingInv, Reading, Walking, Rejected
<1>5. CASE Replay!Driver \/ \E a \in Actor : Replay!UserCode(a)
  <2>1. /\ phase \in Walking /\ phase' \in Walking
        /\ UNCHANGED <<log, edges, indeg, heap, order>>
    BY <1>5, WalkStep
  <2>2. TimelineInv' /\ Tables'
    BY <2>1 DEF ReadingInv, TimelineInv, CausesFirst, From, Into, Tables, Nodes
  <2> QED BY <2>1, <2>2 DEF ReadingInv, Reading, Walking, Rejected
<1>6. CASE RecordStep \/ UNCHANGED runVars
  BY <1>1, <1>6 DEF RecordStep, runVars
<1> QED BY <1>2, <1>3, <1>4, <1>5, <1>6 DEF RunNext, Over, ReplayStep

----------------------------------------------------------------------------
(* Re-execution uses the operators this module has under the same names    *)

LEMMA SameCardinality == \A S : Replay!Cardinality(S) = Cardinality(S)
  BY DEF Cardinality, Replay!Cardinality, IsFiniteSet, Replay!IsFiniteSet

LEMMA SameKinds ==
    /\ \A ev : Replay!IsRecv(ev) = IsRecv(ev) /\ Replay!IsEmit(ev) = IsEmit(ev)
    /\ Replay!Nodes = Nodes /\ Replay!Timeline = Timeline
  BY DEF Replay!IsRecv, IsRecv, Replay!IsEmit, IsEmit, Replay!Nodes, Nodes, Replay!Timeline, Timeline

LEMMA SameStamping ==
    /\ \A s, k : Replay!Bump(s, k) = Bump(s, k)
    /\ \A s, t : Replay!Join(s, t) = Join(s, t)
    /\ \A m, n : Replay!Update(m, n) = Update(m, n) /\ Replay!Tick(m) = Tick(m)
<1>1. \A m, n : Replay!Larger(m, n) = Larger(m, n)
  BY DEF Larger, Replay!Larger
<1> QED BY <1>1 DEF Bump, Replay!Bump, Join, Replay!Join, Update, Replay!Update, Tick, Replay!Tick

LEMMA SameEvents ==
    /\ \A a, s, v, n, env : Replay!RecvEvent(a, s, v, n, env) = RecvEvent(a, s, v, n, env)
    /\ \A a, s, env : Replay!EmitEvent(a, s, env) = EmitEvent(a, s, env)
    /\ \A a, s, v, n : Replay!ComputeEvent(a, s, v, n) = ComputeEvent(a, s, v, n)
  BY DEF RecvEvent, Replay!RecvEvent, EmitEvent, Replay!EmitEvent, ComputeEvent, Replay!ComputeEvent

----------------------------------------------------------------------------
(* Sorting by a key                                                        *)

NoneBelow(S, key, x) == {y \in S : key[y] <= key[x]}

\* What InOrder puts at a place, and where it puts a member.
LEMMA InOrderPlaces ==
    ASSUME NEW S, IsFiniteSet(S), NEW key, \A x \in S : key[x] \in Nat,
           \A x, y \in S : key[x] = key[y] => x = y
    PROVE  /\ Cardinality(S) \in Nat
           /\ DOMAIN Replay!InOrder(S, key) = 1..Cardinality(S)
           /\ \A k \in 1..Cardinality(S) : Replay!InOrder(S, key)[k] \in S
           /\ \A k, l \in 1..Cardinality(S) : Replay!InOrder(S, key)[k] = Replay!InOrder(S, key)[l] => k = l
           /\ \A x \in S : /\ Cardinality(NoneBelow(S, key, x)) \in 1..Cardinality(S)
                           /\ Replay!InOrder(S, key)[Cardinality(NoneBelow(S, key, x))] = x
<1> DEFINE rank == [x \in S |-> Cardinality(NoneBelow(S, key, x))]
<1>1. ASSUME NEW x \in S
      PROVE  /\ NoneBelow(S, key, x) \in SUBSET S /\ x \in NoneBelow(S, key, x)
             /\ IsFiniteSet(NoneBelow(S, key, x))
             /\ rank[x] = Cardinality(NoneBelow(S, key, x))
  <2>1. NoneBelow(S, key, x) \in SUBSET S /\ x \in NoneBelow(S, key, x)
    BY DEF NoneBelow
  <2> QED BY <2>1, FS_Subset
<1>2. Cardinality(S) \in Nat
  BY FS_CardinalityType
<1>3. ASSUME NEW x \in S
      PROVE  rank[x] \in 1..Cardinality(S)
  <2>1. Cardinality(NoneBelow(S, key, x)) \in Nat /\ Cardinality(NoneBelow(S, key, x)) # 0
    BY <1>1, FS_CardinalityType, FS_EmptySet
  <2>2. Cardinality(NoneBelow(S, key, x)) <= Cardinality(S)
    BY <1>1, FS_Subset
  <2> QED BY <1>1, <1>2, <2>1, <2>2
<1>4. ASSUME NEW x \in S, NEW y \in S, rank[x] = rank[y], key[x] <= key[y]
      PROVE  x = y
  <2>1. NoneBelow(S, key, x) \in SUBSET NoneBelow(S, key, y)
    BY <1>4 DEF NoneBelow
  <2>2. NoneBelow(S, key, x) = NoneBelow(S, key, y)
    BY <1>1, <1>4, <2>1, FS_Subset
  <2>3. key[y] <= key[x]
    BY <1>1, <2>2 DEF NoneBelow
  <2> QED BY <1>4, <2>3
<1>5. \A x, y \in S : rank[x] = rank[y] => x = y
  BY <1>4
<1>6. rank \in Injection(S, 1..Cardinality(S))
  <2>1. rank \in [S -> 1..Cardinality(S)]
    BY <1>3
  <2> HIDE DEF rank
  <2> QED BY <1>5, <2>1 DEF Injection, IsInjective
<1>7. rank \in Surjection(S, 1..Cardinality(S))
  <2>1. IsFiniteSet(1..Cardinality(S)) /\ Cardinality(1..Cardinality(S)) = Cardinality(S)
    BY <1>2, FS_Interval
  <2> HIDE DEF rank
  <2> QED BY <1>6, <2>1, FS_Injection
<1>8. \A k \in 1..Cardinality(S) : \E x \in S : rank[x] = k
  <2> HIDE DEF rank
  <2> QED BY <1>7 DEF Surjection
<1>9. \A x \in S : rank[x] = Cardinality(NoneBelow(S, key, x))
  OBVIOUS
<1> HIDE DEF rank
<1>10. \A x \in S : rank[x] = Replay!Cardinality({y \in S : key[y] <= key[x]})
  BY <1>9, SameCardinality DEF NoneBelow
<1>11. /\ DOMAIN Replay!InOrder(S, key) = 1..Cardinality(S)
       /\ \A k \in 1..Cardinality(S) :
            Replay!InOrder(S, key)[k] =
              CHOOSE x \in S : Replay!Cardinality({y \in S : key[y] <= key[x]}) = k
  <2>1. Replay!Cardinality(S) = Cardinality(S)
    BY SameCardinality
  <2> QED BY <2>1 DEF Replay!InOrder
<1>12. ASSUME NEW k \in 1..Cardinality(S)
       PROVE  Replay!InOrder(S, key)[k] \in S /\ rank[Replay!InOrder(S, key)[k]] = k
  <2>1. \E x \in S : Replay!Cardinality({y \in S : key[y] <= key[x]}) = k
    BY <1>8, <1>10
  <2>2. PICK z : z = CHOOSE x \in S : Replay!Cardinality({y \in S : key[y] <= key[x]}) = k
    OBVIOUS
  <2>3. z \in S /\ Replay!Cardinality({y \in S : key[y] <= key[z]}) = k
    BY <2>1, <2>2
  <2>4. Replay!InOrder(S, key)[k] = z
    BY <1>11, <2>2
  <2> QED BY <1>10, <2>3, <2>4
<1>13. \A x \in S : Replay!InOrder(S, key)[rank[x]] = x
  BY <1>3, <1>5, <1>12
<1>14. \A k, l \in 1..Cardinality(S) : Replay!InOrder(S, key)[k] = Replay!InOrder(S, key)[l] => k = l
  BY <1>12
<1> QED BY <1>14, <1>2, <1>3, <1>9, <1>11, <1>12, <1>13

----------------------------------------------------------------------------
(* The lists that re-execution reads off the log                           *)

EventsBy(n) == {i \in Nodes : log[i].actor = n}

LEMMA NodesFinite ==
    ASSUME ReadableLog(log)
    PROVE  IsFiniteSet(Nodes) /\ Nodes = 1..Len(log) /\ Len(log) \in Nat /\ Nodes = DOMAIN log
<1>1. Nodes = 1..Len(log) /\ Len(log) \in Nat
  BY DEF ReadableLog, Nodes
<1> QED BY <1>1, FS_Interval DEF Nodes

LEMMA SeqsAreKeys ==
    ASSUME ReadableLog(log), ~DuplicateSeq(log), NEW n, NEW S \in SUBSET EventsBy(n)
    PROVE  /\ IsFiniteSet(S)
           /\ \A i \in S : Replay!Seqs[i] = log[i].seq /\ Replay!Seqs[i] \in Nat
           /\ \A i, j \in S : Replay!Seqs[i] = Replay!Seqs[j] => i = j
<1>1. \A i \in S : i \in DOMAIN log /\ i \in Nodes /\ log[i].actor = n
  BY NodesFinite DEF EventsBy
<1>2. IsFiniteSet(S)
  <2>1. S \in SUBSET Nodes
    BY <1>1
  <2> QED BY <2>1, NodesFinite, FS_Subset
<1>3. \A i \in S : Replay!Seqs[i] = log[i].seq
  BY <1>1, SameKinds DEF Replay!Seqs
<1> QED BY <1>1, <1>2, <1>3, LogTypes DEF DuplicateSeq

LEMMA EmitsOfPlaces ==
    ASSUME ReadableLog(log), BuildOk(log), NEW n
    PROVE  /\ Cardinality(Emits(n)) \in Nat
           /\ Replay!EmitsOf(n) \in Seq(Nodes) /\ Len(Replay!EmitsOf(n)) = Cardinality(Emits(n))
           /\ DOMAIN Replay!EmitsOf(n) = 1..Cardinality(Emits(n))
           /\ \A k \in 1..Cardinality(Emits(n)) : Replay!EmitsOf(n)[k] \in Emits(n)
           /\ \A k, l \in 1..Cardinality(Emits(n)) : Replay!EmitsOf(n)[k] = Replay!EmitsOf(n)[l] => k = l
           /\ \A i \in Emits(n) :
                LET k == Cardinality({j \in Emits(n) : log[j].seq <= log[i].seq})
                IN  k \in 1..Cardinality(Emits(n)) /\ Replay!EmitsOf(n)[k] = i
<1>1. PICK S : S = Emits(n)
  OBVIOUS
<1>2. Replay!EmitsOf(n) = Replay!InOrder(S, Replay!Seqs)
  BY <1>1, SameKinds DEF Replay!EmitsOf, Emits
<1>3. S \in SUBSET EventsBy(n)
  BY <1>1 DEF Emits, EventsBy
<1>4. /\ IsFiniteSet(S)
      /\ \A i \in S : Replay!Seqs[i] = log[i].seq /\ Replay!Seqs[i] \in Nat
      /\ \A i, j \in S : Replay!Seqs[i] = Replay!Seqs[j] => i = j
  BY <1>3, SeqsAreKeys DEF BuildOk
<1>5. /\ Cardinality(S) \in Nat
      /\ DOMAIN Replay!EmitsOf(n) = 1..Cardinality(S)
      /\ \A k \in 1..Cardinality(S) : Replay!EmitsOf(n)[k] \in S
      /\ \A k, l \in 1..Cardinality(S) : Replay!EmitsOf(n)[k] = Replay!EmitsOf(n)[l] => k = l
      /\ \A x \in S : /\ Cardinality(NoneBelow(S, Replay!Seqs, x)) \in 1..Cardinality(S)
                      /\ Replay!EmitsOf(n)[Cardinality(NoneBelow(S, Replay!Seqs, x))] = x
  BY <1>2, <1>4, InOrderPlaces
<1>6. \A i \in S : NoneBelow(S, Replay!Seqs, i) = {j \in S : log[j].seq <= log[i].seq}
  BY <1>4 DEF NoneBelow
<1>7. Replay!EmitsOf(n) \in Seq(Nodes) /\ Len(Replay!EmitsOf(n)) = Cardinality(S)
  <2>1. PICK f : f = Replay!EmitsOf(n)
    OBVIOUS
  <2>2. f \in [1..Cardinality(S) -> Nodes]
    <3>1. S \subseteq Nodes
      BY <1>1 DEF Emits
    <3>2. f = [k \in DOMAIN f |-> f[k]]
      BY <1>2, <2>1 DEF Replay!InOrder
    <3> QED BY <1>5, <2>1, <3>1, <3>2
  <2> QED BY <1>5, <2>1, <2>2
<1> QED BY <1>1, <1>5, <1>6, <1>7

LEMMA NamesPlaces ==
    ASSUME rebuilt \subseteq Actor, NEW k \in DOMAIN Replay!Names
    PROVE  Replay!Names[k] \in rebuilt
<1>1. IsFiniteSet(rebuilt)
  BY ActorAssumption, FS_Subset
<1>2. \A x \in rebuilt : Rank[x] \in Nat
  BY RankAssumption DEF Node
<1>3. \A x, y \in rebuilt : Rank[x] = Rank[y] => x = y
  BY RankAssumption DEF Node
<1> QED BY <1>1, <1>2, <1>3, InOrderPlaces DEF Replay!Names

\* As many events come up to a seq as the seq says, when none is missing.
LEMMA CountBySeq ==
    ASSUME ReadableLog(log), ~DuplicateSeq(log), NEW a, NEW t \in Nat,
           \A i \in EventsBy(a) : log[i].seq >= 1,
           \A k \in 1..t : \E i \in Nodes : Is(i, a, k)
    PROVE  Cardinality({i \in EventsBy(a) : log[i].seq <= t}) = t
<1>1. PICK S : S = {i \in EventsBy(a) : log[i].seq <= t}
  OBVIOUS
<1>2. S \in SUBSET EventsBy(a)
  BY <1>1
<1>3. /\ IsFiniteSet(S)
      /\ \A i \in S : Replay!Seqs[i] = log[i].seq /\ Replay!Seqs[i] \in Nat
      /\ \A i, j \in S : Replay!Seqs[i] = Replay!Seqs[j] => i = j
  BY <1>2, SeqsAreKeys
<1>4. PICK f : f = [i \in S |-> log[i].seq]
  OBVIOUS
<1>5. f \in [S -> 1..t]
  BY <1>1, <1>3, <1>4
<1>6. \A i, j \in S : f[i] = f[j] => i = j
  BY <1>3, <1>4
<1>7. \A k \in 1..t : \E i \in S : f[i] = k
  <2> TAKE k \in 1..t
  <2>1. PICK i \in Nodes : Is(i, a, k)
    OBVIOUS
  <2>2. i \in EventsBy(a) /\ log[i].seq = k
    BY <2>1 DEF Is, EventsBy
  <2> QED BY <1>1, <1>4, <2>2
<1>8. f \in Bijection(S, 1..t)
  BY <1>5, <1>6, <1>7 DEF Bijection, Injection, Surjection, IsInjective
<1>9. Cardinality(S) = Cardinality(1..t)
  BY <1>3, <1>8, FS_Bijection DEF ExistsBijection
<1>10. Cardinality(1..t) = t
  BY FS_Interval
<1> QED BY <1>1, <1>9, <1>10

\* The script of an actor is its events, word by word.
LEMMA ScriptByNumber ==
    ASSUME ReadableLog(log), ~DuplicateSeq(log), NEW a, NEW n \in Nat,
           \A i \in EventsBy(a) : log[i].seq \in 1..n,
           \A k \in 1..n : \E i \in Nodes : Is(i, a, k)
    PROVE  /\ DOMAIN Replay!Script(a) = 1..n
           /\ \A k \in 1..n : \A i \in Nodes : Is(i, a, k) => Replay!Script(a)[k] = Word(log[i])
           /\ Replay!Script(a) = [k \in 1..n |-> Replay!Script(a)[k]]
<1>1. PICK S : S = EventsBy(a)
  OBVIOUS
<1>2. PICK events : events = Replay!InOrder(S, Replay!Seqs)
  OBVIOUS
<1>3. Replay!Script(a) = [k \in DOMAIN events |-> Word(log[events[k]])]
  BY <1>1, <1>2, SameKinds DEF Replay!Script, EventsBy, Word
<1>4. /\ IsFiniteSet(S)
      /\ \A i \in S : Replay!Seqs[i] = log[i].seq /\ Replay!Seqs[i] \in Nat
      /\ \A i, j \in S : Replay!Seqs[i] = Replay!Seqs[j] => i = j
  BY <1>1, SeqsAreKeys
<1>5. /\ DOMAIN events = 1..Cardinality(S)
      /\ \A x \in S : events[Cardinality(NoneBelow(S, Replay!Seqs, x))] = x
  BY <1>2, <1>4, InOrderPlaces
<1>6. ASSUME NEW t \in 1..n
      PROVE  Cardinality({i \in S : log[i].seq <= t}) = t
  <2>1. \A i \in EventsBy(a) : log[i].seq >= 1
    OBVIOUS
  <2>2. \A k \in 1..t : \E i \in Nodes : Is(i, a, k)
    OBVIOUS
  <2> QED BY <1>1, <2>1, <2>2, CountBySeq
<1>7. Cardinality(S) = n
  <2>1. S = {i \in S : log[i].seq <= n}
    BY <1>1
  <2>2. \A i \in EventsBy(a) : log[i].seq >= 1
    OBVIOUS
  <2>3. Cardinality({i \in S : log[i].seq <= n}) = n
    BY <1>1, <2>2, CountBySeq
  <2> QED BY <2>1, <2>3
<1>8. ASSUME NEW k \in 1..n, NEW i \in Nodes, Is(i, a, k)
      PROVE  events[k] = i
  <2>1. i \in S /\ log[i].seq = k
    BY <1>1, <1>8 DEF Is, EventsBy
  <2>2. NoneBelow(S, Replay!Seqs, i) = {j \in S : log[j].seq <= k}
    BY <1>4, <2>1 DEF NoneBelow
  <2>3. Cardinality(NoneBelow(S, Replay!Seqs, i)) = k
    BY <1>6, <2>2
  <2> QED BY <1>5, <2>1, <2>3
<1> QED BY <1>3, <1>5, <1>7, <1>8

\* The next receipt of the timeline is the first that is left.
LEMMA PlaceIsFirst ==
    ASSUME Tables, Replay!Ahead # {}
    PROVE  /\ Replay!Place \in DOMAIN order /\ Replay!Place >= next
           /\ IsRecv(log[order[Replay!Place]]) /\ order[Replay!Place] \in Nodes
           /\ Replay!Receipt = log[order[Replay!Place]]
           /\ \A k \in DOMAIN order : k >= next /\ IsRecv(log[order[k]]) => Replay!Place <= k
<1>1. DOMAIN order \subseteq Nat /\ \A k \in DOMAIN order : order[k] \in Nodes
  BY DEF Tables
<1>2. Replay!Ahead \in SUBSET Nat
  BY <1>1 DEF Replay!Ahead
<1>3. \E k \in Replay!Ahead : \A l \in Replay!Ahead : k <= l
  BY <1>2, LeastNumber
<1>4. Replay!Place \in Replay!Ahead /\ \A l \in Replay!Ahead : Replay!Place <= l
  BY <1>3 DEF Replay!Place
<1>5. /\ Replay!Place \in DOMAIN order /\ Replay!Place >= next
      /\ IsRecv(log[order[Replay!Place]])
  BY <1>4, SameKinds DEF Replay!Ahead
<1>6. Replay!Receipt = log[order[Replay!Place]]
  BY <1>5 DEF Replay!Receipt, Replay!Timeline
<1>7. \A k \in DOMAIN order : k >= next /\ IsRecv(log[order[k]]) => k \in Replay!Ahead
  BY SameKinds DEF Replay!Ahead
<1> QED BY <1>1, <1>4, <1>5, <1>6, <1>7

LEMMA PlaceIsANumber ==
    ASSUME Tables, Replay!Ahead # {}
    PROVE  Replay!Place \in Nat \ {0}
<1>1. Replay!Place \in DOMAIN order
  BY PlaceIsFirst
<1>2. DOMAIN order = 1..Len(order)
  BY DEF Tables
<1> QED BY <1>1, <1>2

----------------------------------------------------------------------------
(* Types of re-execution                                                   *)

LEMMA DidGrows ==
    ASSUME ReplayTypes, NEW a \in Actor, NEW w \in Words,
           did' = [did EXCEPT ![a] = Append(@, w)],
           reseq' = [reseq EXCEPT ![a] = @ + 1]
    PROVE  /\ did' \in [Actor -> Seq(Words)] /\ reseq' \in [Actor -> Nat]
           /\ \A b \in Actor : Len(did'[b]) = reseq'[b]
           /\ reseq'[a] = reseq[a] + 1 /\ did'[a][reseq[a] + 1] = w
           /\ \A k \in 1..reseq[a] : did'[a][k] = did[a][k]
           /\ \A b \in Actor : b # a => did'[b] = did[b] /\ reseq'[b] = reseq[b]
<1>1. did \in [Actor -> Seq(Words)] /\ reseq \in [Actor -> Nat] /\ \A b \in Actor : Len(did[b]) = reseq[b]
  BY DEF ReplayTypes
<1>2. PICK d \in Seq(Words) : d = did[a]
  BY <1>1
<1>3. /\ Append(d, w) \in Seq(Words) /\ Len(Append(d, w)) = Len(d) + 1
      /\ Append(d, w)[Len(d) + 1] = w
      /\ \A k \in 1..Len(d) : Append(d, w)[k] = d[k]
  OBVIOUS
<1>4. did'[a] = Append(d, w) /\ \A b \in Actor : b # a => did'[b] = did[b]
  BY <1>1, <1>2
<1>5. reseq'[a] = reseq[a] + 1 /\ \A b \in Actor : b # a => reseq'[b] = reseq[b]
  BY <1>1
<1>6. Len(d) = reseq[a]
  BY <1>1, <1>2
<1>7. reseq' \in [Actor -> Nat]
  BY <1>1, <1>5
<1>8. did' \in [Actor -> Seq(Words)]
  BY <1>1, <1>2, <1>3
<1>9. \A b \in Actor : Len(did'[b]) = reseq'[b]
  BY <1>1, <1>3, <1>4, <1>5, <1>6
<1> QED BY <1>2, <1>3, <1>4, <1>5, <1>6, <1>7, <1>8, <1>9

LEMMA StashTypes ==
    ASSUME pending \subseteq Resent, NEW env \in Resent
    PROVE  Replay!Stash(env) \subseteq Resent
  BY DEF Replay!Stash

LEMMA StepTypes ==
    ASSUME ReplayTypes, NEW a \in Actor
    PROVE  /\ Replay!Bump(reclock[a], a) \in VClock /\ Replay!Tick(relamport[a]) \in Nat
           /\ \A env \in Resent : /\ Replay!Bump(Replay!Join(reclock[a], env.vclock), a) \in VClock
                                  /\ Replay!Update(relamport[a], env.lamport) \in Nat
<1>1. reclock[a] \in VClock /\ relamport[a] \in Nat /\ a \in Node
  BY DEF ReplayTypes, Node
<1>2. \A env \in Resent : env.vclock \in VClock /\ env.lamport \in Nat
  BY DEF Resent
<1>3. Replay!Bump(reclock[a], a) \in VClock
  BY <1>1, BumpType, SameStamping
<1>4. ASSUME NEW env \in Resent
      PROVE  Replay!Bump(Replay!Join(reclock[a], env.vclock), a) \in VClock
  BY <1>1, <1>2, BumpType, JoinType, SameStamping
<1>5. Replay!Tick(relamport[a]) \in Nat
  BY <1>1, SameStamping DEF Tick
<1>6. \A env \in Resent : Replay!Update(relamport[a], env.lamport) \in Nat
  BY <1>1, <1>2, SameStamping DEF Update, Larger
<1> QED BY <1>3, <1>4, <1>5, <1>6

LEMMA SeedTypes ==
    ASSUME ReplayTypes, ReadableLog(log), BuildOk(log), Replay!SeedOrigin
    PROVE  ReplayTypes'
<1>1. /\ phase = "origins" /\ phase' = "origins" /\ next' = next + 1
      /\ UNCHANGED <<rebuilt, reorigins, reclock, relamport, reseq, sendCount, driving, did>>
  BY DEF Replay!SeedOrigin, Replay!setupVars, Replay!taskVars
<1>2. pending' \subseteq Resent
  <2>1. PICK i : i = Replay!EmitsOf(World)[next]
    OBVIOUS
  <2>2. i \in DOMAIN log
    <3>1. PICK P : P = Replay!EmitsOf(World)
      OBVIOUS
    <3>2. P \in Seq(Nodes)
      BY <3>1, EmitsOfPlaces
    <3>3. next \in DOMAIN P
      BY <3>1 DEF Replay!SeedOrigin
    <3> QED BY <2>1, <3>1, <3>2, <3>3 DEF Nodes
  <2>3. CASE log[i].msg_id # None /\ next \in DOMAIN reorigins
    <3>1. PICK env : env = [vclock |-> log[i].vclock, lamport |-> log[i].lamport,
                            msg_id |-> log[i].msg_id, src |-> World,
                            dst |-> reorigins[next].to, typed |-> reorigins[next].typed]
      OBVIOUS
    <3>2. pending' = Replay!Stash(env)
      BY <2>1, <2>3, <3>1 DEF Replay!SeedOrigin
    <3>3. reorigins[next] \in Stimulus
      BY <2>3 DEF ReplayTypes
    <3>4. env \in Resent
      BY <2>2, <2>3, <3>1, <3>3, LogTypes DEF Resent, Stimulus, Node
    <3> QED BY <3>2, <3>4, StashTypes DEF ReplayTypes
  <2>4. CASE ~(log[i].msg_id # None /\ next \in DOMAIN reorigins)
    BY <2>1, <2>4 DEF Replay!SeedOrigin, ReplayTypes
  <2> QED BY <2>3, <2>4
<1> QED BY <1>1, <1>2 DEF ReplayTypes

LEMMA ReceiveTypes ==
    ASSUME ReplayTypes, ReadableLog(log), Tables, Replay!Receive
    PROVE  ReplayTypes'
<1>1. PICK a \in Actor, env \in pending :
        /\ a = Replay!Receipt.actor
        /\ reclock' = [reclock EXCEPT ![a] = Replay!Bump(Replay!Join(reclock[a], env.vclock), a)]
        /\ relamport' = [relamport EXCEPT ![a] = Replay!Update(relamport[a], env.lamport)]
        /\ reseq' = [reseq EXCEPT ![a] = @ + 1]
        /\ pending' = pending \ {env}
        /\ did' = [did EXCEPT ![a] = Append(@, <<"recv", None>>)]
        /\ driving' = IF a \in rebuilt THEN a ELSE None
        /\ phase' = CASE a \notin rebuilt -> "walk"
                      [] a \in rebuilt /\ Replay!Fits(env, a) -> "userHandle"
                      [] a \in rebuilt /\ ~Replay!Fits(env, a) -> "panicked"
  <2>1. Replay!Receipt.actor \in Actor
    BY PlaceIsFirst DEF Replay!Receive, ReadableLog, Nodes
  <2>2. PICK a : a = Replay!Receipt.actor
    OBVIOUS
  <2> QED BY <2>1, <2>2 DEF Replay!Receive, Replay!Due, Replay!Take, Replay!Enter
<1>2. env \in Resent /\ <<"recv", None>> \in Words
  BY DEF ReplayTypes, Words
<1>3. next' = Replay!Place + 1 /\ UNCHANGED <<rebuilt, reorigins, sendCount>>
  BY DEF Replay!Receive, Replay!setupVars
<1>4. next' \in Nat \ {0}
  <2>1. Replay!Place \in Nat
    BY PlaceIsANumber DEF Replay!Receive
  <2> QED BY <1>3, <2>1
<1>5. reclock' \in [Actor -> VClock] /\ relamport' \in [Actor -> Nat]
  BY <1>1, <1>2, StepTypes DEF ReplayTypes
<1>6. did' \in [Actor -> Seq(Words)] /\ reseq' \in [Actor -> Nat] /\ \A b \in Actor : Len(did'[b]) = reseq'[b]
  BY <1>1, <1>2, DidGrows
<1>7. /\ phase' \in {"userStarted", "userHandle", "panicked"} => driving' \in rebuilt
      /\ phase' \notin {"userStarted", "userHandle", "panicked"} => driving' = None
  BY <1>1
<1> QED BY <1>1, <1>3, <1>4, <1>5, <1>6, <1>7 DEF ReplayTypes

LEMMA SendTypes ==
    ASSUME ReplayTypes, ReadableLog(log), BuildOk(log),
           NEW a \in Actor, NEW to \in Actor, Replay!Send(a, to)
    PROVE  ReplayTypes'
<1>1. PICK typed, env :
        /\ typed \in Replay!AddrTypes(to)
        /\ env = [vclock |-> Replay!Bump(reclock[a], a), lamport |-> Replay!Tick(relamport[a]),
                  msg_id |-> Replay!RecordedId(a, sendCount[a] + 1),
                  src |-> a, dst |-> to, typed |-> typed]
        /\ pending' = Replay!Stash(env)
  BY DEF Replay!Send
<1>2. /\ reclock' = [reclock EXCEPT ![a] = Replay!Bump(reclock[a], a)]
      /\ relamport' = [relamport EXCEPT ![a] = Replay!Tick(relamport[a])]
      /\ reseq' = [reseq EXCEPT ![a] = @ + 1]
      /\ sendCount' = [sendCount EXCEPT ![a] = sendCount[a] + 1]
      /\ did' = [did EXCEPT ![a] = Append(@, <<"send", to>>)]
      /\ UNCHANGED <<phase, rebuilt, reorigins, next, driving>>
  BY DEF Replay!Send, Replay!setupVars
<1>3. typed \in BOOLEAN
  BY <1>1 DEF Replay!AddrTypes
<1>4. Replay!RecordedId(a, sendCount[a] + 1) \in Int
  <2>1. PICK j \in Nat : j = sendCount[a] + 1
    BY DEF ReplayTypes
  <2>2. CASE j \in DOMAIN Replay!EmitsOf(a) /\ log[Replay!EmitsOf(a)[j]].msg_id # None
    <3>1. Replay!EmitsOf(a)[j] \in DOMAIN log
      <4>1. PICK P : P = Replay!EmitsOf(a)
        OBVIOUS
      <4>2. P \in Seq(Nodes)
        BY <4>1, EmitsOfPlaces
      <4> QED BY <2>2, <4>1, <4>2 DEF Nodes
    <3>2. Replay!RecordedId(a, j) = log[Replay!EmitsOf(a)[j]].msg_id
      BY <2>2 DEF Replay!RecordedId
    <3> QED BY <2>1, <2>2, <3>1, <3>2, LogTypes
  <2>3. CASE ~(j \in DOMAIN Replay!EmitsOf(a) /\ log[Replay!EmitsOf(a)[j]].msg_id # None)
    <3>1. Replay!RecordedId(a, j) = -j
      BY <2>3 DEF Replay!RecordedId
    <3> QED BY <2>1, <3>1
  <2> QED BY <2>2, <2>3
<1>5. env \in Resent
  BY <1>1, <1>3, <1>4, StepTypes DEF Resent, Node
<1>6. pending' \subseteq Resent
  BY <1>1, <1>5, StashTypes DEF ReplayTypes
<1>7. <<"send", to>> \in Words
  BY DEF Words
<1>8. did' \in [Actor -> Seq(Words)] /\ reseq' \in [Actor -> Nat] /\ \A b \in Actor : Len(did'[b]) = reseq'[b]
  BY <1>2, <1>7, DidGrows
<1>9. reclock' \in [Actor -> VClock] /\ relamport' \in [Actor -> Nat] /\ sendCount' \in [Actor -> Nat]
  <2>1. reclock' \in [Actor -> VClock] /\ relamport' \in [Actor -> Nat]
    BY <1>2, StepTypes DEF ReplayTypes
  <2>2. sendCount' \in [Actor -> Nat]
    <3>1. sendCount \in [Actor -> Nat]
      BY DEF ReplayTypes
    <3>2. sendCount' = [sendCount EXCEPT ![a] = sendCount[a] + 1]
      BY <1>2
    <3> QED BY <3>1, <3>2
  <2> QED BY <2>1, <2>2
<1> QED BY <1>2, <1>6, <1>8, <1>9 DEF ReplayTypes

LEMMA ComputeTypes ==
    ASSUME ReplayTypes, NEW a \in Actor, Replay!Compute(a)
    PROVE  ReplayTypes'
<1>1. /\ reclock' = [reclock EXCEPT ![a] = Replay!Bump(reclock[a], a)]
      /\ relamport' = [relamport EXCEPT ![a] = Replay!Tick(relamport[a])]
      /\ reseq' = [reseq EXCEPT ![a] = @ + 1]
      /\ did' = [did EXCEPT ![a] = Append(@, <<"compute", None>>)]
      /\ UNCHANGED <<phase, rebuilt, reorigins, pending, sendCount, next, driving>>
  BY DEF Replay!Compute, Replay!setupVars
<1>2. <<"compute", None>> \in Words
  BY DEF Words
<1>3. did' \in [Actor -> Seq(Words)] /\ reseq' \in [Actor -> Nat] /\ \A b \in Actor : Len(did'[b]) = reseq'[b]
  BY <1>1, <1>2, DidGrows
<1>4. reclock' \in [Actor -> VClock] /\ relamport' \in [Actor -> Nat]
  BY <1>1, StepTypes DEF ReplayTypes
<1> QED BY <1>1, <1>3, <1>4 DEF ReplayTypes

\* The other steps of the driver, and the return of user code.
LEMMA DriverTypes ==
    ASSUME ReplayTypes, Tables,
           \/ Replay!OriginsSeeded \/ Replay!DriveStarted \/ Replay!AllStarted
           \/ Replay!Unsent \/ Replay!Complete \/ \E a \in Actor : Replay!Returns(a)
    PROVE  ReplayTypes'
<1> USE DEF Replay!setupVars, Replay!taskVars, Replay!stateVars, Replay!Enter
<1>1. UNCHANGED <<rebuilt, reorigins, reclock, relamport, reseq, sendCount, pending, did>>
  BY DEF Replay!OriginsSeeded, Replay!DriveStarted, Replay!AllStarted, Replay!Unsent,
         Replay!Complete, Replay!Returns
<1>2. next' \in Nat \ {0}
  <2>1. next \in Nat \ {0}
    BY DEF ReplayTypes
  <2>2. CASE Replay!Unsent
    <3>1. Replay!Place \in Nat
      BY <2>2, PlaceIsANumber DEF Replay!Unsent
    <3>2. next' = Replay!Place + 1
      BY <2>2 DEF Replay!Unsent
    <3> QED BY <3>1, <3>2
  <2>3. CASE Replay!OriginsSeeded \/ Replay!AllStarted
    <3>1. next' = 1
      BY <2>3 DEF Replay!OriginsSeeded, Replay!AllStarted
    <3> QED BY <3>1
  <2>4. CASE Replay!DriveStarted
    <3>1. next' = next + 1
      BY <2>4 DEF Replay!DriveStarted
    <3> QED BY <2>1, <3>1
  <2>5. CASE Replay!Complete \/ \E a \in Actor : Replay!Returns(a)
    <3>1. next' = next
      BY <2>5 DEF Replay!Complete, Replay!Returns
    <3> QED BY <2>1, <3>1
  <2> QED BY <2>2, <2>3, <2>4, <2>5
<1>3. /\ phase' \in {"userStarted", "userHandle", "panicked"} => driving' \in rebuilt
      /\ phase' \notin {"userStarted", "userHandle", "panicked"} => driving' = None
  <2>1. CASE Replay!DriveStarted
    <3>1. Replay!Names[next] \in rebuilt /\ driving = None
      BY <2>1, NamesPlaces DEF Replay!DriveStarted, ReplayTypes
    <3> QED BY <2>1, <3>1 DEF Replay!DriveStarted
  <2>2. CASE Replay!OriginsSeeded \/ Replay!AllStarted \/ Replay!Unsent \/ Replay!Complete
    BY <2>2 DEF Replay!OriginsSeeded, Replay!AllStarted, Replay!Unsent, Replay!Complete, ReplayTypes
  <2>3. CASE \E a \in Actor : Replay!Returns(a)
    BY <2>3 DEF Replay!Returns
  <2> QED BY <2>1, <2>2, <2>3
<1> QED BY <1>1, <1>2, <1>3 DEF ReplayTypes

LEMMA SetUpTypes ==
    ASSUME ReplayTypes, NEW actors \in SUBSET Actor,
           NEW stimuli \in UNION {[1..n -> Stimulus] : n \in 0..MaxOrigins},
           Replay!SetUp(actors, stimuli)
    PROVE  ReplayTypes'
<1>1. /\ rebuilt' \subseteq Actor /\ reorigins' = stimuli /\ phase = "timeline" /\ phase' = "origins"
      /\ UNCHANGED <<reclock, relamport, reseq, pending, sendCount, next, driving, did>>
  BY SetUpStep
<1>2. stimuli \in Seq(Stimulus)
  <2>1. PICK n \in 0..MaxOrigins : stimuli \in [1..n -> Stimulus]
    OBVIOUS
  <2>2. n \in Nat
    BY BoundAssumption
  <2> QED BY <2>1, <2>2
<1> QED BY <1>1, <1>2 DEF ReplayTypes

LEMMA ReplayTypesInit == RunInit => ReplayTypes
<1> SUFFICES ASSUME RunInit PROVE ReplayTypes
  OBVIOUS
<1>1. /\ rebuilt = {} /\ reorigins = <<>> /\ reclock = [a \in Actor |-> ZeroClock]
      /\ relamport = [a \in Actor |-> 0] /\ reseq = [a \in Actor |-> 0]
      /\ pending = {} /\ sendCount = [a \in Actor |-> 0] /\ next = 1 /\ driving = None
      /\ did = [a \in Actor |-> <<>>] /\ phase = "recording"
  BY DEF RunInit, Replay!ReplayInit, ZeroClock, Node
<1>2. ZeroClock \in VClock
  BY DEF ZeroClock, VClock
<1> QED BY <1>1, <1>2 DEF ReplayTypes

LEMMA ReplayTypesNext ==
    ASSUME RecordInv, LogFacts, ReadingInv, ReplayTypes, [RunNext]_runVars
    PROVE  ReplayTypes'
<1>1. CASE UNCHANGED systemVars /\ phase' = phase
  BY <1>1 DEF systemVars, ReplayTypes
<1>2. CASE ReadLog
  BY <1>2 DEF ReadLog, systemVars, ReplayTypes
<1>3. CASE ReplayLogStep /\ UNCHANGED systemVars
  BY <1>3, ReadingStep DEF Reading, Rejected, systemVars, ReplayTypes
<1>4. CASE \E actors \in SUBSET Actor, stimuli \in UNION {[1..n -> Stimulus] : n \in 0..MaxOrigins} :
             Replay!SetUp(actors, stimuli)
  BY <1>4, SetUpTypes
<1>5. CASE Replay!Driver \/ \E a \in Actor : Replay!UserCode(a)
  <2>1. ReadableLog(log) /\ BuildOk(log) /\ Tables
    BY <1>5, WalkStep DEF LogFacts, ReadingInv, TimelineInv, Walking
  <2> QED BY <1>5, <2>1, SeedTypes, ReceiveTypes, SendTypes, ComputeTypes, DriverTypes
       DEF Replay!Driver, Replay!UserCode
<1>6. CASE RecordStep \/ UNCHANGED runVars
  BY <1>1, <1>6 DEF RecordStep, runVars, replayVars
<1> QED BY <1>2, <1>3, <1>4, <1>5, <1>6 DEF RunNext, Over, ReplayStep

----------------------------------------------------------------------------

ReplayInv == RecordInv /\ LogFacts /\ ReadingInv /\ ReplayTypes

LEMMA ReplayInvInit == RunInit => ReplayInv
<1>1. RunInit => LogFacts
  BY DEF RunInit, LogFacts
<1> QED BY <1>1, RecordingInit, ReadingInit, ReplayTypesInit DEF ReplayInv

LEMMA ReplayInvNext == ReplayInv /\ [RunNext]_runVars => ReplayInv'
<1> SUFFICES ASSUME ReplayInv, [RunNext]_runVars PROVE ReplayInv'
  OBVIOUS
<1>1. RecordInv' /\ LogFacts'
  BY RecordInvNext, LogFactsNext DEF ReplayInv
<1> QED BY <1>1, ReadingNext, ReplayTypesNext DEF ReplayInv

LEMMA ReplayInvHolds == RunSpec => []ReplayInv
  BY ReplayInvInit, ReplayInvNext, PTL DEF RunSpec

\* Every state of a recorded and replayed run is of the right type, whatever
\* log reaches the replay and whatever the handlers do the second time: the
\* in-degrees of linearize, unsigned in the code, never drop below zero.
THEOREM ReplayTypesHold == RunSpec => []ReplayTypeOK
<1>1. ReplayInv => ReplayTypeOK
  <2> SUFFICES ASSUME ReplayInv PROVE ReplayTypeOK
    OBVIOUS
  <2>1. log \in Seq(Event)
    <3>1. CASE phase = "recording"
      BY <3>1 DEF ReplayInv, RecordInv, NothingRead
    <3>2. CASE phase # "recording"
      BY <3>2 DEF ReplayInv, LogFacts, ReadableLog
    <3> QED BY <3>1, <3>2
  <2>2. Tables /\ Nodes = DOMAIN log
    BY DEF ReplayInv, ReadingInv, Nodes
  <2>3. driving \in Actor \cup {None}
    BY DEF ReplayInv, ReplayTypes
  <2> QED BY <2>1, <2>2, <2>3 DEF ReplayTypeOK, Tables, ReplayInv, ReplayTypes, Resent
<1> QED BY <1>1, ReplayInvHolds, PTL

----------------------------------------------------------------------------
(* A replay that has reported nothing                                      *)

LEMMA SameEmits ==
    ASSUME log' = log
    PROVE  \A n : (Replay!EmitsOf(n))' = Replay!EmitsOf(n)
  BY SMT DEF Replay!EmitsOf, Replay!InOrder, Replay!Seqs, Replay!Nodes, Replay!Cardinality, Replay!IsFiniteSet

\* An event is known by its coordinates.
LEMMA MadeStep ==
    ASSUME log' = log, ~DuplicateSeq(log), NEW i \in Nodes,
           produced' = produced \cup {Replay!Coordinate(log[i])}
    PROVE  /\ \A j \in Nodes : Made(j)' <=> Made(j) \/ j = i
           /\ \A op : IdsOf(op)' = IdsOf(op) \cup {log[k].msg_id : k \in {j \in {i} : log[j].op = op}}
<1>1. ASSUME NEW j \in Nodes
      PROVE  Made(j)' <=> Made(j) \/ j = i
  <2>1. Replay!Coordinate(log[j]) = Replay!Coordinate(log[i]) <=> j = i
    BY DEF Replay!Coordinate, DuplicateSeq, Nodes
  <2> QED BY <2>1 DEF Made, Replay!Coordinate
<1>2. ASSUME NEW op
      PROVE  IdsOf(op)' = IdsOf(op) \cup {log[k].msg_id : k \in {j \in {i} : log[j].op = op}}
  <2>1. IdsOf(op)' = {log[j].msg_id : j \in {k \in Nodes : log[k].op = op /\ (Made(k) \/ k = i)}}
    BY <1>1 DEF IdsOf, Nodes
  <2> QED BY <2>1 DEF IdsOf
<1> QED BY <1>1, <1>2

\* An actor that does what the log says next is still doing what the log says.
LEMMA FollowsOn ==
    ASSUME ReplayTypes, log' = log, NEW a \in Actor, NEW i \in Nodes, Is(i, a, reseq[a] + 1),
           Word(log[i]) \in Words,
           did' = [did EXCEPT ![a] = Append(@, Word(log[i]))],
           reseq' = [reseq EXCEPT ![a] = @ + 1]
    PROVE  \A b \in Actor : Follows(b) => Follows(b)'
<1>1. /\ reseq'[a] = reseq[a] + 1 /\ did'[a][reseq[a] + 1] = Word(log[i])
      /\ \A k \in 1..reseq[a] : did'[a][k] = did[a][k]
      /\ \A b \in Actor : b # a => did'[b] = did[b] /\ reseq'[b] = reseq[b]
  BY DidGrows
<1>2. \A j, b, k : Is(j, b, k)' <=> Is(j, b, k)
  BY DEF Is, Nodes
<1>3. ASSUME Follows(a), NEW k \in 1..(reseq[a] + 1)
      PROVE  \E j \in Nodes : Is(j, a, k) /\ did'[a][k] = Word(log[j])
  <2>1. CASE k = reseq[a] + 1
    BY <1>1, <2>1
  <2>2. CASE k \in 1..reseq[a]
    <3>1. PICK j \in Nodes : Is(j, a, k) /\ did[a][k] = Word(log[j])
      BY <1>3, <2>2 DEF Follows
    <3>2. did'[a][k] = did[a][k]
      BY <1>1, <2>2
    <3> QED BY <3>1, <3>2
  <2>3. reseq[a] \in Nat
    BY DEF ReplayTypes
  <2>4. k = reseq[a] + 1 \/ k \in 1..reseq[a]
    BY <1>3, <2>3
  <2> QED BY <2>1, <2>2, <2>4
<1>4. Nodes' = Nodes /\ \A e : Word(e)' = Word(e)
  BY DEF Nodes, Word
<1>5. Follows(a) => Follows(a)'
  <2>1. SUFFICES ASSUME Follows(a), NEW k \in 1..reseq'[a]
                 PROVE  \E j \in Nodes' : Is(j, a, k)' /\ did'[a][k] = Word(log[j])'
    BY DEF Follows
  <2>2. PICK j \in Nodes : Is(j, a, k) /\ did'[a][k] = Word(log[j])
    BY <1>1, <1>3, <2>1
  <2> QED BY <1>2, <1>4, <2>2
<1>6. ASSUME NEW b \in Actor, b # a, Follows(b) PROVE Follows(b)'
  BY <1>1, <1>2, <1>4, <1>6 DEF Follows
<1> QED BY <1>5, <1>6

LEMMA ActorRetraces ==
    ASSUME ReplayTypes, Retraced, log' = log, NEW a \in Actor, NEW i \in Nodes, Is(i, a, reseq[a] + 1),
           Word(log[i]) \in Words, a \in rebuilt,
           did' = [did EXCEPT ![a] = Append(@, Word(log[i]))],
           reseq' = [reseq EXCEPT ![a] = @ + 1],
           produced' = produced \cup {Replay!Coordinate(log[i])},
           UNCHANGED <<rebuilt, reorigins>>, phase # "origins", phase' # "origins"
    PROVE  Retraced' /\ ~Made(i)
<1>0. reseq[a] \in Nat /\ reseq' \in [Actor -> Nat] /\ reseq'[a] = reseq[a] + 1
      /\ \A b \in Actor : b # a => reseq'[b] = reseq[b]
  BY DEF ReplayTypes
<1>1. Replay!Coordinate(log[i]) = <<a, reseq[a] + 1>>
  BY DEF Is, Replay!Coordinate
<1>2. \A b \in Actor : Follows(b)' /\ (reseq'[b] > 0 => b \in rebuilt')
  BY <1>0, FollowsOn DEF Retraced
<1>3. ASSUME NEW c \in produced', c[1] # World
      PROVE  c[1] \in Actor /\ c[2] \in 1..reseq'[c[1]]
  <2>1. CASE c \in produced
    <3>1. c[1] \in Actor /\ c[2] \in 1..reseq[c[1]]
      BY <1>3, <2>1 DEF Retraced
    <3>2. reseq[c[1]] \in Nat /\ (reseq'[c[1]] = reseq[c[1]] \/ reseq'[c[1]] = reseq[c[1]] + 1)
      BY <1>0, <3>1 DEF ReplayTypes
    <3> QED BY <3>1, <3>2
  <2>2. CASE c = <<a, reseq[a] + 1>>
    BY <1>0, <2>2
  <2> QED BY <1>1, <1>3, <2>1, <2>2
<1>4. Seeded' <= Len(reorigins)'
  BY SameEmits DEF Retraced, Seeded
<1>5. ~Made(i)
  <2>1. a # World
    BY ActorAssumption
  <2>2. <<a, reseq[a] + 1>> \notin produced
    <3>1. SUFFICES ASSUME <<a, reseq[a] + 1>> \in produced PROVE FALSE
      OBVIOUS
    <3>2. reseq[a] + 1 \in 1..reseq[a]
      BY <2>1, <3>1 DEF Retraced
    <3> QED BY <1>0, <3>2
  <2> QED BY <1>1, <2>2 DEF Made
<1> QED BY <1>2, <1>3, <1>4, <1>5 DEF Retraced

\* The other steps of the replay; only Unsent is not among them.
LEMMA DriverRetraces ==
    ASSUME ReplayTypes, ReadableLog(log), BuildOk(log), Retraced, log' = log,
           UNCHANGED <<rebuilt, reorigins, reseq, did, produced>>,
           \/ phase # "origins" /\ phase' # "origins"
           \/ phase = "origins" /\ phase' = "started" /\ next \notin DOMAIN Replay!EmitsOf(World)
    PROVE  Retraced'
<1>1. \A b \in Actor : Follows(b)' = Follows(b)
  BY DEF Follows, Is, Word, Nodes
<1>2. Seeded' <= Len(reorigins)'
  <2>1. CASE phase # "origins"
    BY <2>1, SameEmits DEF Retraced, Seeded
  <2>2. CASE phase = "origins"
    <3>1. PICK n \in Nat : Len(Replay!EmitsOf(World)) = n /\ DOMAIN Replay!EmitsOf(World) = 1..n
      BY EmitsOfPlaces
    <3>2. next \in Nat /\ next >= 1 /\ next \notin 1..n
      BY <2>2, <3>1 DEF ReplayTypes
    <3>3. n <= next - 1
      BY <3>1, <3>2
    <3>4. next - 1 <= Len(reorigins)
      BY <2>2 DEF Retraced, Seeded
    <3>5. Seeded' = n
      BY <2>2, <3>1, SameEmits DEF Seeded
    <3>6. Len(reorigins) \in Nat
      BY DEF ReplayTypes
    <3> QED BY <3>1, <3>2, <3>3, <3>4, <3>5, <3>6
  <2> QED BY <2>1, <2>2
<1> QED BY <1>1, <1>2 DEF Retraced

\* Nothing has been done when the topology is set up.
LEMMA SetUpIsUnflagged ==
    ASSUME ReadingInv, ReplayTypes, NEW actors, NEW stimuli \in Seq(Stimulus),
           Replay!SetUp(actors, stimuli)
    PROVE  Unflagged'
<1>1. /\ phase = "timeline" /\ phase' = "origins" /\ reorigins' = stimuli
      /\ UNCHANGED <<log, reseq, pending, produced, next, did>>
  BY SetUpStep
<1>2. /\ reseq' = [a \in Actor |-> 0] /\ pending' = {} /\ produced' = {} /\ next' = 1
  BY <1>1 DEF ReadingInv, Reading, Untouched
<1>3. \A a \in Actor : Follows(a)' /\ reseq'[a] = 0
  BY <1>2 DEF Follows
<1>4. Seeded' <= Len(reorigins)'
  BY <1>1, <1>2 DEF Seeded
<1>5. \A op : IdsOf(op)' = {}
  BY <1>2 DEF IdsOf, Made
<1>6. PendingIds' = {}
  BY <1>2 DEF PendingIds
<1>7. Retraced' /\ Underway'
  BY <1>2, <1>3, <1>4, <1>5, <1>6 DEF Retraced, Underway
<1> QED BY <1>1, <1>7 DEF Unflagged

\* A message of its own id joins the others.
LEMMA StashIsNew ==
    ASSUME NEW env, env.msg_id \notin PendingIds, pending' = Replay!Stash(env)
    PROVE  /\ pending' = pending \cup {env}
           /\ PendingIds' = PendingIds \cup {env.msg_id}
           /\ (\A e, f \in pending : e.msg_id = f.msg_id => e = f)
                => (\A e, f \in pending' : e.msg_id = f.msg_id => e = f)
<1>1. pending' = pending \cup {env}
  BY DEF Replay!Stash, PendingIds
<1> QED BY <1>1 DEF PendingIds

LEMMA RepeatsStays ==
    ASSUME UNCHANGED <<log, reorigins>>, NEW env, NEW i, Repeats(env, i)
    PROVE  Repeats(env, i)'
<1>1. Replay!EmitsOf(World)' = Replay!EmitsOf(World) /\ Nodes' = Nodes
  BY SameEmits DEF Nodes
<1> QED BY <1>1 DEF Repeats, IsEmit

\* A message sent as the log says is carried with the others.
LEMMA SentIsCarried ==
    ASSUME BuildOk(log), Underway, UNCHANGED <<log, reorigins>>,
           NEW i \in Nodes, IsEmit(log[i]), ~Made(i),
           produced' = produced \cup {Replay!Coordinate(log[i])},
           NEW env, env.msg_id = log[i].msg_id, Repeats(env, i), pending' = Replay!Stash(env)
    PROVE  Underway'
<1>1. \A op : IdsOf(op)' = IdsOf(op) \cup {log[k].msg_id : k \in {j \in {i} : log[j].op = op}}
  BY MadeStep DEF BuildOk
<1>2. IdsOf("emit")' = IdsOf("emit") \cup {env.msg_id} /\ IdsOf("recv")' = IdsOf("recv")
  BY <1>1 DEF IsEmit
<1>3. env.msg_id \notin IdsOf("emit")
  <2>1. SUFFICES ASSUME NEW j \in Nodes, log[j].op = "emit", Made(j), log[j].msg_id = env.msg_id
                 PROVE  FALSE
    BY DEF IdsOf
  <2>2. IsEmit(log[j])
    BY <2>1 DEF IsEmit
  <2> QED BY <2>1, <2>2 DEF BuildOk, DuplicateEmit, Nodes
<1>4. env.msg_id \notin PendingIds
  BY <1>3 DEF Underway
<1>5. /\ pending' = pending \cup {env} /\ PendingIds' = PendingIds \cup {env.msg_id}
      /\ \A e, f \in pending' : e.msg_id = f.msg_id => e = f
  BY <1>4, StashIsNew DEF Underway
<1>6. \A e \in pending' : \E j \in Nodes' : Repeats(e, j)'
  BY <1>5, RepeatsStays DEF Underway, Nodes
<1>7. PendingIds' = IdsOf("emit")' \ IdsOf("recv")' /\ IdsOf("recv")' \subseteq IdsOf("emit")'
  BY <1>2, <1>3, <1>5 DEF Underway
<1> QED BY <1>5, <1>6, <1>7 DEF Underway

LEMMA TakenIsCarried ==
    ASSUME BuildOk(log), Underway, UNCHANGED <<log, reorigins>>,
           NEW i \in Nodes, IsRecv(log[i]),
           produced' = produced \cup {Replay!Coordinate(log[i])},
           NEW env \in pending, env.msg_id = log[i].msg_id, pending' = pending \ {env}
    PROVE  Underway'
<1>1. \A op : IdsOf(op)' = IdsOf(op) \cup {log[k].msg_id : k \in {j \in {i} : log[j].op = op}}
  BY MadeStep DEF BuildOk
<1>2. IdsOf("emit")' = IdsOf("emit") /\ IdsOf("recv")' = IdsOf("recv") \cup {env.msg_id}
  BY <1>1 DEF IsRecv
<1>3. PendingIds' = PendingIds \ {env.msg_id} /\ env.msg_id \in PendingIds
  BY DEF Underway, PendingIds
<1>4. \A e \in pending' : \E j \in Nodes' : Repeats(e, j)'
  BY RepeatsStays DEF Underway, Nodes
<1>5. PendingIds' = IdsOf("emit")' \ IdsOf("recv")' /\ IdsOf("recv")' \subseteq IdsOf("emit")'
  BY <1>2, <1>3 DEF Underway
<1>6. \A e, f \in pending' : e.msg_id = f.msg_id => e = f
  BY DEF Underway
<1> QED BY <1>4, <1>5, <1>6 DEF Underway

\* A computation carries nothing, nor does a step that produces no event.
LEMMA NothingIsCarried ==
    ASSUME BuildOk(log), Underway, UNCHANGED <<log, reorigins, pending>>,
           \/ produced' = produced
           \/ \E i \in Nodes : log[i].op = "compute" /\ produced' = produced \cup {Replay!Coordinate(log[i])}
    PROVE  Underway'
<1>1. IdsOf("emit")' = IdsOf("emit") /\ IdsOf("recv")' = IdsOf("recv")
  <2>1. CASE produced' = produced
    BY <2>1 DEF IdsOf, Made, Nodes, Replay!Coordinate
  <2>2. ASSUME NEW i \in Nodes, log[i].op = "compute", produced' = produced \cup {Replay!Coordinate(log[i])}
        PROVE  IdsOf("emit")' = IdsOf("emit") /\ IdsOf("recv")' = IdsOf("recv")
    <3>1. \A op : IdsOf(op)' = IdsOf(op) \cup {log[k].msg_id : k \in {j \in {i} : log[j].op = op}}
      BY <2>2, MadeStep DEF BuildOk
    <3> QED BY <2>2, <3>1
  <2> QED BY <2>1, <2>2
<1>2. PendingIds' = PendingIds
  BY DEF PendingIds
<1>3. \A e \in pending' : \E j \in Nodes' : Repeats(e, j)'
  BY RepeatsStays DEF Underway, Nodes
<1> QED BY <1>1, <1>2, <1>3 DEF Underway

LEMMA SeedIsUnflagged ==
    ASSUME ReplayTypes, ReadableLog(log), BuildOk(log), Unflagged,
           Replay!SeedOrigin, divergences' = {}
    PROVE  Unflagged'
<1>1. /\ phase = "origins" /\ phase' = "origins" /\ next' = next + 1 /\ next \in Nat /\ next >= 1
      /\ UNCHANGED <<log, rebuilt, reorigins, reseq, did>>
  <2>1. next \in Nat \ {0}
    BY DEF ReplayTypes
  <2>2. next \in Nat /\ next >= 1
    BY <2>1
  <2>3. phase = "origins" /\ UNCHANGED <<phase, log, rebuilt, reorigins, reseq, did>>
    BY DEF Replay!SeedOrigin, Replay!setupVars, Replay!taskVars
  <2>4. next' = next + 1
    BY DEF Replay!SeedOrigin
  <2> QED BY <2>2, <2>3, <2>4
<1>2. PICK L : L = Replay!EmitsOf(World)
  OBVIOUS
<1>3. PICK n \in Nat : /\ DOMAIN L = 1..n /\ \A k \in 1..n : L[k] \in Emits(World)
                       /\ \A k, l \in 1..n : L[k] = L[l] => k = l
  BY <1>2, EmitsOfPlaces
<1>4. next \in 1..n
  BY <1>2, <1>3 DEF Replay!SeedOrigin
<1>5. PICK i \in Nodes : i = L[next] /\ log[i].actor = World /\ log[i].op = "emit"
  BY <1>3, <1>4 DEF Emits
<1>6. log[i].msg_id # None /\ next \in DOMAIN reorigins
  BY <1>2, <1>5 DEF Replay!SeedOrigin, Replay!Flag
<1>7. PICK env : env = [vclock |-> log[i].vclock, lamport |-> log[i].lamport,
                        msg_id |-> log[i].msg_id, src |-> World,
                        dst |-> reorigins[next].to, typed |-> reorigins[next].typed]
  OBVIOUS
<1>8. pending' = Replay!Stash(env) /\ produced' = produced \cup {Replay!Coordinate(log[i])}
  BY <1>2, <1>5, <1>6, <1>7 DEF Replay!SeedOrigin
<1>9. \A c \in produced : \E k \in 1..(next - 1) : k \in 1..n /\ c = Replay!Coordinate(log[L[k]])
  BY <1>1, <1>2, <1>3 DEF Unflagged, Retraced
<1>10. ~Made(i)
  <2>1. SUFFICES ASSUME Made(i) PROVE FALSE
    OBVIOUS
  <2>2. PICK k \in 1..(next - 1) : k \in 1..n /\ Replay!Coordinate(log[i]) = Replay!Coordinate(log[L[k]])
    BY <1>9, <2>1 DEF Made
  <2>3. L[k] \in Nodes
    BY <1>3, <2>2 DEF Emits
  <2>4. i = L[k]
    BY <2>2, <2>3 DEF Replay!Coordinate, BuildOk, DuplicateSeq, Nodes
  <2>5. next = k
    BY <1>3, <1>4, <1>5, <2>2, <2>4
  <2> QED BY <1>1, <2>2, <2>5
<1>11. Repeats(env, i)
  BY <1>2, <1>3, <1>4, <1>5, <1>6, <1>7 DEF Repeats, IsEmit
<1>12. Underway'
  BY <1>1, <1>5, <1>6, <1>7, <1>8, <1>10, <1>11, SentIsCarried DEF IsEmit, Unflagged
<1>13. \A b \in Actor : Follows(b)' = Follows(b)
  BY <1>1 DEF Follows, Is, Word, Nodes
<1>14. Seeded' <= Len(reorigins)'
  <2>1. reorigins \in Seq(Stimulus)
    BY DEF ReplayTypes
  <2>2. next <= Len(reorigins)
    BY <1>6, <2>1
  <2> QED BY <1>1, <2>2 DEF Seeded
<1>15. \A c \in produced' : \E k \in 1..(next' - 1) : k \in 1..n /\ c = Replay!Coordinate(log[L[k]])
  <2> TAKE c \in produced'
  <2>1. CASE c \in produced
    <3>1. PICK k \in 1..(next - 1) : k \in 1..n /\ c = Replay!Coordinate(log[L[k]])
      BY <1>9, <2>1
    <3>2. k \in 1..(next' - 1)
      BY <1>1, <3>1
    <3> QED BY <3>1, <3>2
  <2>2. CASE c = Replay!Coordinate(log[i])
    <3>1. next \in 1..(next' - 1)
      BY <1>1
    <3> QED BY <1>4, <1>5, <2>2, <3>1
  <2> QED BY <1>8, <2>1, <2>2
<1>16. \A c \in produced' : c[1] # World => c[1] \in Actor /\ c[2] \in 1..reseq[c[1]]
  BY <1>5, <1>8 DEF Unflagged, Retraced, Replay!Coordinate
<1>17. L = Replay!EmitsOf(World)'
  BY <1>1, <1>2, SameEmits
<1>18. Retraced'
  <2>1. \A b \in Actor : Follows(b)' /\ (reseq[b] > 0 => b \in rebuilt)
    BY <1>13 DEF Unflagged, Retraced
  <2>2. \A c \in produced' : \E k \in 1..(next' - 1) :
          k \in DOMAIN L /\ c = Replay!Coordinate(log[L[k]])
    BY <1>3, <1>15
  <2> QED BY <1>1, <1>14, <1>16, <1>17, <2>1, <2>2 DEF Retraced, Replay!Coordinate
<1> QED BY <1>1, <1>12, <1>18 DEF Unflagged

\* verify accepts nothing but what is recorded.
LEMMA Verified ==
    ASSUME NEW ev, Replay!Mismatch(ev) = {}
    PROVE  \E i \in Nodes : log[i] = ev
  BY DEF Replay!Mismatch, Replay!Nodes, Nodes

LEMMA FlagIsEmpty ==
    ASSUME NEW found, Replay!Flag(found), divergences' = {}
    PROVE  found = {} /\ divergences = {}
  BY DEF Replay!Flag

LEMMA ComputeIsUnflagged ==
    ASSUME ReplayTypes, BuildOk(log), Unflagged,
           NEW a \in Actor, Replay!Compute(a), divergences' = {}
    PROVE  Unflagged'
<1>1. PICK ev : ev = Replay!ComputeEvent(a, reseq[a] + 1, Replay!Bump(reclock[a], a), Replay!Tick(relamport[a]))
  OBVIOUS
<1>2. /\ phase \in {"userStarted", "userHandle"} /\ phase' = phase /\ driving = a
      /\ UNCHANGED <<log, rebuilt, reorigins, pending>>
      /\ Replay!Flag(Replay!Mismatch(ev))
      /\ produced' = produced \cup {Replay!Coordinate(ev)}
      /\ reseq' = [reseq EXCEPT ![a] = @ + 1]
      /\ did' = [did EXCEPT ![a] = Append(@, <<"compute", None>>)]
  BY <1>1 DEF Replay!Compute, Replay!Acts, Replay!InUserCode, Replay!setupVars
<1>3. PICK i \in Nodes : log[i] = ev
  BY <1>2, Verified, FlagIsEmpty
<1>4. ev.actor = a /\ ev.seq = reseq[a] + 1 /\ ev.op = "compute"
  BY <1>1, SameEvents DEF ComputeEvent
<1>5. Is(i, a, reseq[a] + 1) /\ Word(log[i]) = <<"compute", None>> /\ <<"compute", None>> \in Words
  BY <1>3, <1>4 DEF Is, Word, Words
<1>6. a \in rebuilt
  BY <1>2 DEF ReplayTypes
<1>7. Retraced'
  BY <1>2, <1>3, <1>5, <1>6, ActorRetraces DEF Unflagged
<1>8. Underway'
  BY <1>2, <1>3, <1>4, NothingIsCarried DEF Unflagged
<1> QED BY <1>2, <1>7, <1>8 DEF Unflagged

LEMMA SendIsUnflagged ==
    ASSUME ReplayTypes, ReadableLog(log), BuildOk(log), Unflagged,
           NEW a \in Actor, NEW to \in Actor, Replay!Send(a, to), divergences' = {}
    PROVE  Unflagged'
<1>1. PICK typed, env, ev, id :
        /\ typed \in Replay!AddrTypes(to)
        /\ id = Replay!RecordedId(a, sendCount[a] + 1)
        /\ env = [vclock |-> Replay!Bump(reclock[a], a), lamport |-> Replay!Tick(relamport[a]),
                  msg_id |-> id, src |-> a, dst |-> to, typed |-> typed]
        /\ ev = Replay!EmitEvent(a, reseq[a] + 1, env)
        /\ Replay!Flag((IF id < 0 THEN {Replay!Divergence(<<a, id>>, "more sends")} ELSE {})
                         \cup Replay!Mismatch(ev))
        /\ produced' = produced \cup {Replay!Coordinate(ev)}
        /\ pending' = Replay!Stash(env)
  BY DEF Replay!Send
<1>2. /\ phase \in {"userStarted", "userHandle"} /\ phase' = phase /\ driving = a
      /\ UNCHANGED <<log, rebuilt, reorigins>>
      /\ reseq' = [reseq EXCEPT ![a] = @ + 1]
      /\ did' = [did EXCEPT ![a] = Append(@, <<"send", to>>)]
  BY DEF Replay!Send, Replay!Acts, Replay!InUserCode, Replay!setupVars
<1>3. Replay!Mismatch(ev) = {} /\ ~(id < 0)
  BY <1>1, FlagIsEmpty
<1>4. PICK i \in Nodes : log[i] = ev
  BY <1>3, Verified
<1>5. ev.actor = a /\ ev.seq = reseq[a] + 1 /\ ev.op = "emit" /\ ev.dst = to /\ ev.msg_id = id
  BY <1>1, SameEvents DEF EmitEvent
<1>6. id # None
  <2>1. PICK j \in Nat : j = sendCount[a] + 1
    BY DEF ReplayTypes
  <2>2. CASE j \in DOMAIN Replay!EmitsOf(a) /\ log[Replay!EmitsOf(a)[j]].msg_id # None
    BY <1>1, <2>1, <2>2 DEF Replay!RecordedId
  <2>3. CASE ~(j \in DOMAIN Replay!EmitsOf(a) /\ log[Replay!EmitsOf(a)[j]].msg_id # None)
    <3>1. id = -j
      BY <1>1, <2>1, <2>3 DEF Replay!RecordedId
    <3>2. j > 0
      <4>1. sendCount[a] \in Nat
        BY DEF ReplayTypes
      <4> QED BY <2>1, <4>1
    <3> QED BY <1>3, <2>1, <3>1, <3>2
  <2> QED BY <2>2, <2>3
<1>7. Is(i, a, reseq[a] + 1) /\ Word(log[i]) = <<"send", to>> /\ <<"send", to>> \in Words
  BY <1>4, <1>5 DEF Is, Word, Words
<1>8. a \in rebuilt
  BY <1>2 DEF ReplayTypes
<1>9. Retraced' /\ ~Made(i)
  BY <1>1, <1>2, <1>4, <1>7, <1>8, ActorRetraces DEF Unflagged
<1>10. IsEmit(log[i]) /\ env.msg_id = log[i].msg_id
  BY <1>1, <1>4, <1>5, <1>6 DEF IsEmit
<1>11. Repeats(env, i)
  <2>1. env.dst = log[i].dst /\ (env.typed \/ Mistyped # {})
    BY <1>1, <1>4, <1>5 DEF Replay!AddrTypes
  <2> QED BY <1>10, <2>1 DEF Repeats
<1>12. Underway'
  BY <1>1, <1>2, <1>4, <1>9, <1>10, <1>11, SentIsCarried DEF Unflagged
<1> QED BY <1>2, <1>9, <1>12 DEF Unflagged

LEMMA ReceiveIsUnflagged ==
    ASSUME ReplayTypes, ReadableLog(log), Tables, BuildOk(log), Unflagged,
           Replay!Receive, divergences' = {}
    PROVE  Unflagged'
<1>1. PICK a, env, ev :
        /\ a \in Actor /\ env \in pending
        /\ ev = Replay!RecvEvent(a, reseq[a] + 1, Replay!Bump(Replay!Join(reclock[a], env.vclock), a),
                                 Replay!Update(relamport[a], env.lamport), env)
        /\ Replay!Flag(Replay!Mismatch(ev)
             \cup IF a \in rebuilt THEN {}
                  ELSE {Replay!Divergence(Replay!Coordinate(Replay!Receipt), "not rebuilt")})
        /\ produced' = produced \cup {Replay!Coordinate(ev)}
        /\ pending' = pending \ {env}
        /\ reseq' = [reseq EXCEPT ![a] = @ + 1]
        /\ did' = [did EXCEPT ![a] = Append(@, <<"recv", None>>)]
  <2>1. Replay!Receipt.actor \in Actor
    BY PlaceIsFirst DEF Replay!Receive, ReadableLog, Nodes
  <2>2. PICK a : a = Replay!Receipt.actor
    OBVIOUS
  <2> QED BY <2>1, <2>2 DEF Replay!Receive, Replay!Due, Replay!Take
<1>2. UNCHANGED <<log, rebuilt, reorigins>> /\ phase = "walk" /\ phase' \in {"walk", "userHandle", "panicked"}
  BY DEF Replay!Receive, Replay!setupVars, Replay!Enter
<1>3. Replay!Mismatch(ev) = {} /\ a \in rebuilt
  BY <1>1, FlagIsEmpty
<1>4. PICK i \in Nodes : log[i] = ev
  BY <1>3, Verified
<1>5. ev.actor = a /\ ev.seq = reseq[a] + 1 /\ ev.op = "recv" /\ ev.msg_id = env.msg_id
  BY <1>1, SameEvents DEF RecvEvent
<1>6. Is(i, a, reseq[a] + 1) /\ Word(log[i]) = <<"recv", None>> /\ <<"recv", None>> \in Words
  BY <1>4, <1>5 DEF Is, Word, Words
<1>7. Retraced'
  BY <1>1, <1>2, <1>3, <1>4, <1>6, ActorRetraces DEF Unflagged
<1>8. Underway'
  BY <1>1, <1>2, <1>4, <1>5, TakenIsCarried DEF Unflagged, IsRecv
<1> QED BY <1>2, <1>7, <1>8 DEF Unflagged

LEMMA DriverIsUnflagged ==
    ASSUME ReplayTypes, ReadableLog(log), BuildOk(log), Unflagged,
           \/ Replay!OriginsSeeded \/ Replay!DriveStarted \/ Replay!AllStarted
           \/ Replay!Complete \/ \E a \in Actor : Replay!Returns(a),
           divergences' = {}
    PROVE  Unflagged'
<1> USE DEF Replay!setupVars, Replay!taskVars, Replay!stateVars, Replay!Enter
<1>1. UNCHANGED <<log, rebuilt, reorigins, reseq, pending, produced, did>>
  BY DEF Replay!OriginsSeeded, Replay!DriveStarted, Replay!AllStarted, Replay!Complete, Replay!Returns
<1>2. \/ phase # "origins" /\ phase' # "origins"
      \/ phase = "origins" /\ phase' = "started" /\ next \notin DOMAIN Replay!EmitsOf(World)
  BY DEF Replay!OriginsSeeded, Replay!DriveStarted, Replay!AllStarted, Replay!Complete,
         Replay!Returns, Replay!InUserCode
<1>3. Retraced'
  BY <1>1, <1>2, DriverRetraces DEF Unflagged
<1>4. Underway'
  BY <1>1, NothingIsCarried DEF Unflagged
<1>5. phase' = "done" => \A i \in Nodes : Made(i)
  <2>1. CASE Replay!Complete
    <3>1. {Replay!Divergence(Replay!Coordinate(log[i]), "not produced") :
             i \in {j \in Replay!Nodes : Replay!Coordinate(log[j]) \notin produced}} = {}
      BY <2>1, FlagIsEmpty DEF Replay!Complete
    <3> QED BY <3>1, SameKinds DEF Made
  <2>2. CASE ~Replay!Complete
    BY <2>2 DEF Replay!OriginsSeeded, Replay!DriveStarted, Replay!AllStarted, Replay!Returns
  <2> QED BY <2>1, <2>2
<1>6. \A i \in Nodes : Made(i)' <=> Made(i)
  BY <1>1 DEF Made, Nodes, Replay!Coordinate
<1> QED BY <1>1, <1>3, <1>4, <1>5, <1>6 DEF Unflagged, Nodes

LEMMA UnflaggedNext ==
    ASSUME ReplayInv, UnflaggedInv, [RunNext]_runVars
    PROVE  UnflaggedInv'
<1> SUFFICES ASSUME phase' \in Walking, divergences' = {}
             PROVE  Unflagged'
  BY DEF UnflaggedInv
<1>1. CASE RecordStep
  <2>1. phase = "recording" /\ phase' = phase
    BY <1>1, RecordedStep DEF RecordStep, replayVars, ReplayInv
  <2> QED BY <2>1 DEF Walking
<1>2. CASE ReadLog
  BY <1>2 DEF ReadLog, Walking
<1>3. CASE ReplayLogStep
  BY <1>3, ReadingStep DEF Reading, Walking, Rejected
<1>4. CASE \E actors \in SUBSET Actor, stimuli \in UNION {[1..n -> Stimulus] : n \in 0..MaxOrigins} :
             Replay!SetUp(actors, stimuli)
  <2>1. PICK actors \in SUBSET Actor, stimuli \in UNION {[1..n -> Stimulus] : n \in 0..MaxOrigins} :
          Replay!SetUp(actors, stimuli)
    BY <1>4
  <2>2. stimuli \in Seq(Stimulus)
    BY BoundAssumption
  <2> QED BY <2>1, <2>2, SetUpIsUnflagged DEF ReplayInv
<1>5. CASE Replay!Driver \/ \E a \in Actor : Replay!UserCode(a)
  <2>1. phase \in Walking
    BY <1>5, WalkStep
  <2>2. ReadableLog(log) /\ BuildOk(log) /\ Tables /\ ReplayTypes
    BY <2>1 DEF ReplayInv, LogFacts, ReadingInv, TimelineInv, Walking
  <2>3. ~Replay!Unsent
    <3>1. SUFFICES ASSUME Replay!Unsent PROVE FALSE
      OBVIOUS
    <3>2. PICK found : found # {} /\ Replay!Flag(found)
      BY <3>1 DEF Replay!Unsent
    <3> QED BY <3>2, FlagIsEmpty
  <2>4. divergences = {}
    <3>1. ASSUME NEW a \in Actor, Replay!UserCode(a)
          PROVE  divergences = {}
      <4>1. CASE Replay!Compute(a)
        BY <4>1 DEF Replay!Compute, Replay!Flag
      <4>2. CASE \E to \in Actor : Replay!Send(a, to)
        BY <4>2 DEF Replay!Send, Replay!Flag
      <4>3. CASE Replay!Returns(a)
        BY <4>3 DEF Replay!Returns, Replay!stateVars
      <4> QED BY <3>1, <4>1, <4>2, <4>3 DEF Replay!UserCode
    <3>2. CASE Replay!SeedOrigin \/ Replay!Receive \/ Replay!Unsent
      BY <3>2 DEF Replay!SeedOrigin, Replay!Receive, Replay!Unsent, Replay!Flag
    <3>3. CASE Replay!OriginsSeeded \/ Replay!DriveStarted \/ Replay!AllStarted \/ Replay!Complete
      BY <3>3 DEF Replay!OriginsSeeded, Replay!DriveStarted, Replay!AllStarted, Replay!Complete,
         Replay!Flag, Replay!stateVars
    <3> QED BY <1>5, <3>1, <3>2, <3>3 DEF Replay!Driver
  <2>5. Unflagged
    BY <2>1, <2>4 DEF UnflaggedInv
  <2> QED BY <1>5, <2>2, <2>3, <2>5, SeedIsUnflagged, ComputeIsUnflagged, SendIsUnflagged,
       ReceiveIsUnflagged, DriverIsUnflagged DEF Replay!Driver, Replay!UserCode
<1>6. CASE UNCHANGED runVars
  <2>1. UNCHANGED <<log, order, rebuilt, reorigins, reseq, did, produced, pending, divergences, phase, next>>
    BY <1>6 DEF runVars, replayVars, kahnVars, systemVars
  <2>2. Unflagged /\ ReadableLog(log) /\ BuildOk(log)
    BY <2>1 DEF UnflaggedInv, ReplayInv, LogFacts, ReadingInv, TimelineInv, Walking
  <2>3. Underway'
    BY <2>1, <2>2, NothingIsCarried DEF Unflagged
  <2>4. Seeded' = Seeded /\ Replay!EmitsOf(World)' = Replay!EmitsOf(World)
    BY <2>1, SameEmits DEF Seeded
  <2>5. \A a \in Actor : Follows(a)' = Follows(a)
    BY <2>1 DEF Follows, Is, Word, Nodes
  <2>6. Retraced'
    BY <2>1, <2>2, <2>4, <2>5 DEF Unflagged, Retraced, Replay!Coordinate
  <2>7. \A i \in Nodes : Made(i)' <=> Made(i)
    BY <2>1 DEF Made, Nodes, Replay!Coordinate
  <2> QED BY <2>1, <2>2, <2>3, <2>6, <2>7 DEF Unflagged, Nodes
<1> QED BY <1>1, <1>2, <1>3, <1>4, <1>5, <1>6 DEF RunNext, Over, ReplayStep

LEMMA UnflaggedHolds == RunSpec => [](ReplayInv /\ UnflaggedInv)
<1>1. RunInit => UnflaggedInv
  BY DEF RunInit, UnflaggedInv, Walking
<1> QED BY <1>1, UnflaggedNext, ReplayInvInit, ReplayInvNext, PTL DEF RunSpec

\* "Empty divergences == faithful replay": whatever log it is given, whole,
\* cut or damaged, and whatever the handlers do, a replay that reports nothing
\* has done, actor by actor, what the log says.
THEOREM FaithfulIsSameHolds == RunSpec => []FaithfulIsSame
<1>1. ReplayInv /\ UnflaggedInv => FaithfulIsSame
  <2> SUFFICES ASSUME ReplayInv, UnflaggedInv, phase = "done", divergences = {}
               PROVE  Replay!SameRun
    BY DEF FaithfulIsSame, Replay!FaithfulIsSame
  <2>1. /\ ReadableLog(log) /\ BuildOk(log) /\ Retraced /\ ReplayTypes
        /\ \A i \in Nodes : Made(i)
    BY DEF ReplayInv, LogFacts, ReadingInv, TimelineInv, UnflaggedInv, Unflagged, Walking
  <2>2. Len(reorigins) >= Len(Replay!EmitsOf(World))
    <3>1. Len(reorigins) \in Nat /\ Len(Replay!EmitsOf(World)) \in Nat
      BY <2>1, EmitsOfPlaces DEF ReplayTypes
    <3> QED BY <2>1, <3>1 DEF Retraced, Seeded
  <2>3. ASSUME NEW i \in Nodes, log[i].actor # World
        PROVE  log[i].actor \in rebuilt /\ log[i].seq \in 1..reseq[log[i].actor]
    <3>1. <<log[i].actor, log[i].seq>> \in produced
      BY <2>1 DEF Made, Replay!Coordinate
    <3>2. log[i].actor \in Actor /\ log[i].seq \in 1..reseq[log[i].actor]
      BY <2>1, <2>3, <3>1 DEF Retraced
    <3>3. reseq[log[i].actor] > 0
      BY <2>1, <3>2 DEF ReplayTypes
    <3> QED BY <2>1, <3>2, <3>3 DEF Retraced
  <2>4. ASSUME NEW a \in Actor
        PROVE  did[a] = Replay!Script(a)
    <3>1. PICK n \in Nat : n = reseq[a] /\ Len(did[a]) = n /\ did[a] \in Seq(Words)
      BY <2>1 DEF ReplayTypes
    <3>2. \A i \in EventsBy(a) : log[i].seq \in 1..n
      BY <2>3, <3>1, ActorAssumption DEF EventsBy
    <3>3. \A k \in 1..n : \E i \in Nodes : Is(i, a, k) /\ did[a][k] = Word(log[i])
      BY <2>1, <3>1 DEF Retraced, Follows
    <3>4. /\ \A k \in 1..n : \A i \in Nodes : Is(i, a, k) => Replay!Script(a)[k] = Word(log[i])
          /\ Replay!Script(a) = [k \in 1..n |-> Replay!Script(a)[k]]
      BY <2>1, <3>2, <3>3, ScriptByNumber DEF BuildOk
    <3>5. \A k \in 1..n : did[a][k] = Replay!Script(a)[k]
      BY <3>3, <3>4
    <3>6. did[a] = [k \in 1..n |-> did[a][k]]
      BY <3>1
    <3> QED BY <3>4, <3>5, <3>6
  <2>5. {log[i].actor : i \in Replay!Nodes} \subseteq rebuilt \cup {World}
    BY <2>3, SameKinds
  <2> QED BY <2>2, <2>4, <2>5 DEF Replay!SameRun, Replay!SameSystem
<1> QED BY <1>1, UnflaggedHolds, PTL

\* A replay that reports nothing has delivered every recorded receipt and has
\* nothing left but the sends the log shows no receipt of.
THEOREM NoGhostsHolds == RunSpec => []NoGhosts
<1>1. ReplayInv /\ UnflaggedInv => NoGhosts
  <2> SUFFICES ASSUME ReplayInv, UnflaggedInv, phase = "done", divergences = {}
               PROVE  NoGhosts
    BY DEF NoGhosts, Replay!NoGhosts
  <2>1. Underway /\ \A i \in Nodes : Made(i)
    BY DEF UnflaggedInv, Unflagged, Walking
  <2>2. \A op : IdsOf(op) = {log[i].msg_id : i \in {j \in Replay!Nodes : log[j].op = op}}
    BY <2>1, SameKinds DEF IdsOf
  <2> QED BY <2>1, <2>2 DEF NoGhosts, Replay!NoGhosts, Underway, PendingIds
<1> QED BY <1>1, UnflaggedHolds, PTL

----------------------------------------------------------------------------
(* A replay that panics                                                    *)

Misused ==
    \E k \in DOMAIN reorigins :
      ~reorigins[k].typed \/ reorigins[k].to # log[Replay!EmitsOf(World)[k]].dst

PanicInv == phase = "panicked" /\ intact /\ divergences = {} => Misused

\* In an intact log a receipt is addressed as its emit is, so only a message
\* that was seeded from an origin can fail to fit.
LEMMA PanicsOnOrigin ==
    ASSUME Mistyped = {}, ReadableLog(log), Sound(log), Unflagged, NEW env \in pending,
           NEW j \in Nodes, IsRecv(log[j]), log[j].msg_id = env.msg_id,
           ~Replay!Fits(env, log[j].actor)
    PROVE  Misused
<1>1. PICK i \in Nodes : Repeats(env, i)
  BY DEF Unflagged, Underway
<1>2. IsEmit(log[i]) /\ log[i].msg_id = env.msg_id
  BY <1>1 DEF Repeats
<1>3. log[i].dst = log[j].actor
  <2>1. log[j].actor # World
    BY ActorAssumption DEF ReadableLog, Nodes
  <2>2. PICK m : m \in Memory(log, log[j].actor, log[j].seq - 1)
    BY <2>1, SoundStep DEF Nodes
  <2>3. log[j].dst = log[j].actor /\ Meets(log[i], log[j])
    BY <1>2, <2>2, SoundReceipt DEF Nodes
  <2> QED BY <2>3 DEF Meets
<1>4. ~(env.typed /\ env.dst = log[i].dst)
  BY <1>3 DEF Replay!Fits
<1>5. PICK k \in DOMAIN reorigins : /\ Replay!EmitsOf(World)[k] = i
                                   /\ env.dst = reorigins[k].to /\ env.typed = reorigins[k].typed
  BY <1>1, <1>4 DEF Repeats
<1> QED BY <1>4, <1>5 DEF Misused

LEMMA PanicNext ==
    ASSUME Mistyped = {}, ReplayInv, ReplayInv', UnflaggedInv, PanicInv, [RunNext]_runVars
    PROVE  PanicInv'
<1> SUFFICES ASSUME phase' = "panicked", intact', divergences' = {}
             PROVE  Misused'
  BY DEF PanicInv
<1>1. CASE UNCHANGED runVars
  <2>1. UNCHANGED <<log, reorigins, phase, intact, divergences>>
    BY <1>1 DEF runVars, replayVars, systemVars
  <2> QED BY <2>1, SameEmits DEF PanicInv, Misused
<1>2. CASE RecordStep \/ ReadLog
  <2>1. phase = "recording" /\ phase' \in {"recording", "build"}
    BY <1>2, RecordedStep DEF RecordStep, ReadLog, replayVars, ReplayInv
  <2> QED BY <2>1
<1>3. CASE ReplayStep
  <2>1. Replay!Receive /\ intact' = intact
    BY <1>3, ReadingStep, SetUpStep DEF ReplayStep, Reading, Rejected, Replay!Driver, Replay!SeedOrigin, Replay!OriginsSeeded,
       Replay!DriveStarted, Replay!AllStarted, Replay!Unsent, Replay!Complete, Replay!UserCode,
       Replay!Compute, Replay!Send, Replay!Returns, Replay!Acts, Replay!InUserCode, Replay!Enter
  <2>2. /\ phase = "walk" /\ Replay!Ahead # {} /\ UNCHANGED <<log, reorigins>>
        /\ \E env \in pending : /\ env.msg_id = Replay!Receipt.msg_id
                                /\ ~Replay!Fits(env, Replay!Receipt.actor)
                                /\ divergences = {}
    BY <2>1 DEF Replay!Receive, Replay!Due, Replay!Enter, Replay!setupVars, Replay!Flag
  <2>3. ReadableLog(log) /\ Sound(log) /\ Tables /\ Unflagged
    BY <2>1, <2>2 DEF ReplayInv, LogFacts, ReadingInv, UnflaggedInv, Walking
  <2>4. PICK j \in Nodes : IsRecv(log[j]) /\ Replay!Receipt = log[j]
    BY <2>2, <2>3, PlaceIsFirst
  <2>5. Misused
    BY <2>2, <2>3, <2>4, PanicsOnOrigin
  <2> QED BY <2>2, <2>5, SameEmits DEF Misused
<1> QED BY <1>1, <1>2, <1>3 DEF RunNext, Over

\* Replaying an intact log panics only on an origin that was re-supplied to
\* the wrong actor or through an Addr of the wrong type, or after a divergence,
\* if the program itself sends through no Addr of the wrong type.
THEOREM PanicIsMisuseHolds ==
    ASSUME Mistyped = {}
    PROVE  RunSpec => []PanicIsMisuse
<1>1. RunInit => PanicInv
  BY DEF RunInit, PanicInv
<1>2. ReplayInv /\ UnflaggedInv /\ PanicInv /\ [RunNext]_runVars => PanicInv'
  BY PanicNext, ReplayInvNext
<1>3. PanicInv => PanicIsMisuse
  BY DEF PanicInv, PanicIsMisuse, Misused
<1> QED BY <1>1, <1>2, <1>3, UnflaggedHolds, PTL DEF RunSpec

----------------------------------------------------------------------------
(* The timeline of an intact log                                           *)

LexBelow(i, j) ==
    \/ log[i].lamport < log[j].lamport
    \/ log[i].lamport = log[j].lamport /\ Rank[log[i].actor] < Rank[log[j].actor]
    \/ log[i].lamport = log[j].lamport /\ Rank[log[i].actor] = Rank[log[j].actor] /\ log[i].seq < log[j].seq

\* With one origin no coordinates meet, whatever part of the log is read.
OriginInv ==
    IF phase = "recording" THEN Worldly ELSE intact => OneOrigin(log)

(***************************************************************************)
(* Why the drain sorts: Lamport stamps grow along every edge, so the event *)
(* with the smallest key among those left waits for none of the others.    *)
(***************************************************************************)
Ascending == \A k \in 2..Len(order) : LexBelow(order[k - 1], order[k])
Parted    == \A i \in Scheduled, j \in Nodes \ Scheduled : LexBelow(i, j)

SortedInv ==
    intact => phase \notin Rejected /\ Ascending /\ (phase = "drain" => Parted)

LEMMA SmallerOfThree ==
    ASSUME NEW a \in Nat, NEW b \in Nat, NEW c \in Nat, NEW d \in Nat, NEW e \in Nat, NEW f \in Nat,
           a < d \/ (a = d /\ b < e) \/ (a = d /\ b = e /\ c < f)
    PROVE  Smaller(<<a, b, c>>, <<d, e, f>>)
<1>1. CASE a < d
  <2>1. 1 \in 1..Len(<<a, b, c>>) /\ <<a, b, c>>[1] < <<d, e, f>>[1] /\ \A m \in 1..(1 - 1) : <<a, b, c>>[m] = <<d, e, f>>[m]
    BY <1>1
  <2> QED BY <2>1 DEF Smaller
<1>2. CASE a = d /\ b < e
  <2>1. 2 \in 1..Len(<<a, b, c>>) /\ <<a, b, c>>[2] < <<d, e, f>>[2] /\ \A m \in 1..(2 - 1) : <<a, b, c>>[m] = <<d, e, f>>[m]
    BY <1>2
  <2> QED BY <2>1 DEF Smaller
<1>3. CASE a = d /\ b = e /\ c < f
  <2>1. 3 \in 1..Len(<<a, b, c>>) /\ <<a, b, c>>[3] < <<d, e, f>>[3] /\ \A m \in 1..(3 - 1) : <<a, b, c>>[m] = <<d, e, f>>[m]
    BY <1>3
  <2> QED BY <2>1 DEF Smaller
<1> QED BY <1>1, <1>2, <1>3

LEMMA SmallerOfFour ==
    ASSUME NEW a \in Nat, NEW b \in Nat, NEW c \in Nat, NEW i, NEW d \in Nat, NEW e \in Nat, NEW f \in Nat, NEW j,
           Smaller(<<a, b, c, i>>, <<d, e, f, j>>)
    PROVE  a < d \/ (a = d /\ b < e) \/ (a = d /\ b = e /\ c <= f)
<1>1. PICK n \in 1..4 : /\ <<a, b, c, i>>[n] < <<d, e, f, j>>[n]
                        /\ \A m \in 1..(n - 1) : <<a, b, c, i>>[m] = <<d, e, f, j>>[m]
  BY DEF Smaller
<1>2. CASE n = 1
  BY <1>1, <1>2
<1>3. CASE n = 2
  <2>1. 1 \in 1..(n - 1)
    BY <1>3
  <2> QED BY <1>1, <1>3, <2>1
<1>4. CASE n = 3
  <2>1. 1 \in 1..(n - 1) /\ 2 \in 1..(n - 1)
    BY <1>4
  <2> QED BY <1>1, <1>4, <2>1
<1>5. CASE n = 4
  <2>1. 1 \in 1..(n - 1) /\ 2 \in 1..(n - 1) /\ 3 \in 1..(n - 1)
    BY <1>5
  <2> QED BY <1>1, <1>5, <2>1
<1> QED BY <1>1, <1>2, <1>3, <1>4, <1>5

\* The place in the log decides nothing between two events.
LEMMA KeysDecide ==
    ASSUME ReadableLog(log), BuildOk(log), NEW i \in Nodes, NEW j \in Nodes, i # j,
           Smaller(Key(i), Key(j))
    PROVE  LexBelow(i, j)
<1>1. /\ log[i].lamport \in Nat /\ log[i].seq \in Nat /\ log[i].actor \in Node
      /\ log[j].lamport \in Nat /\ log[j].seq \in Nat /\ log[j].actor \in Node
  BY LogTypes DEF Nodes
<1>2. Rank[log[i].actor] \in Nat /\ Rank[log[j].actor] \in Nat
  BY <1>1, RankAssumption
<1>3. \/ log[i].lamport < log[j].lamport
      \/ log[i].lamport = log[j].lamport /\ Rank[log[i].actor] < Rank[log[j].actor]
      \/ log[i].lamport = log[j].lamport /\ Rank[log[i].actor] = Rank[log[j].actor] /\ log[i].seq <= log[j].seq
  <2>1. PICK a, b, c, d, e, f : /\ a = log[i].lamport /\ b = Rank[log[i].actor] /\ c = log[i].seq
                                /\ d = log[j].lamport /\ e = Rank[log[j].actor] /\ f = log[j].seq
    OBVIOUS
  <2>2. Smaller(<<a, b, c, i>>, <<d, e, f, j>>)
    BY <2>1 DEF Key
  <2>3. a \in Nat /\ b \in Nat /\ c \in Nat /\ d \in Nat /\ e \in Nat /\ f \in Nat
    BY <1>1, <1>2, <2>1
  <2>4. a < d \/ (a = d /\ b < e) \/ (a = d /\ b = e /\ c <= f)
    BY <2>2, <2>3, SmallerOfFour
  <2> QED BY <2>1, <2>4
<1>4. ~(Rank[log[i].actor] = Rank[log[j].actor] /\ log[i].seq = log[j].seq)
  <2>1. ~(log[i].actor = log[j].actor /\ log[i].seq = log[j].seq)
    BY DEF BuildOk, DuplicateSeq, Nodes
  <2> QED BY <1>1, <2>1, RankAssumption
<1> QED BY <1>1, <1>3, <1>4 DEF LexBelow

\* Of the events left, one that is ready comes no later than any given one.
LEMMA ReadyComesFirst ==
    ASSUME ReadableLog(log), Sound(log), KahnInv, ProgressInv, phase = "drain",
           NEW j \in Nodes \ Scheduled
    PROVE  \E x \in heap : x \in Nodes /\ (x = j \/ log[x].lamport < log[j].lamport)
<1> DEFINE S == {x \in Nodes \ Scheduled : x = j \/ log[x].lamport < log[j].lamport}
           T == {log[x].lamport : x \in S}
<1>1. \A x \in Nodes : log[x].lamport \in Nat
  BY LogTypes DEF Nodes
<1>2. PICK n \in T : \A m \in T : n <= m
  <2>1. T \subseteq Nat
    BY <1>1
  <2>2. log[j].lamport \in T
    OBVIOUS
  <2> HIDE DEF T
  <2> QED BY <2>1, <2>2, LeastNumber
<1>3. PICK x \in S : n = log[x].lamport
  BY <1>2
<1>4. x \in heap
  <2>1. SUFFICES ASSUME x \notin heap PROVE FALSE
    OBVIOUS
  <2>2. Causes(x) # {}
    <3>1. indeg[x] # 0 /\ indeg[x] = Cardinality(Causes(x))
      BY <1>3, <2>1 DEF KahnInv, Counted, Draining, ProgressInv, Ready
    <3> QED BY <3>1, FS_EmptySet
  <2>3. PICK e \in edges : Into(e) = x /\ From(e) \notin Scheduled
    BY <2>2 DEF Causes
  <2>4. e[1] \in Edges(log) /\ From(e) \in Nodes
    BY <2>3 DEF ProgressInv, Checked, DirectEdges, Edges, KahnInv, Shapes, IsLog, From
  <2>5. log[From(e)].lamport < log[x].lamport
    BY <2>3, <2>4, SoundEdge DEF From, Into
  <2>6. From(e) \in S
    BY <1>1, <1>3, <2>3, <2>4, <2>5
  <2>7. n <= log[From(e)].lamport
    BY <1>2, <2>6
  <2> QED BY <1>1, <1>3, <2>4, <2>5, <2>7
<1> QED BY <1>3, <1>4

LEMMA PopSorts ==
    ASSUME ReadableLog(log), Sound(log), BuildOk(log), KahnInv, ProgressInv, SortedInv, intact, Pop
    PROVE  Ascending' /\ Parted'
<1>0. log' = log /\ phase = "drain" /\ Ascending /\ Parted
  BY DEF Pop, SortedInv
<1>1. PICK i \in heap : /\ order' = Append(order, i)
                        /\ \A j \in heap \ {i} : Smaller(Key(i), Key(j))
  BY DEF Pop
<1>2. phase = "drain" /\ order \in Seq(Nodes) /\ heap \subseteq Nodes /\ i \in Nodes /\ i \notin Scheduled
  BY <1>1 DEF Pop, KahnInv, Shapes, IsLog, Counted, Draining
<1>3. /\ Len(order') = Len(order) + 1 /\ Len(order) \in Nat
      /\ DOMAIN order = 1..Len(order) /\ DOMAIN order' = 1..(Len(order) + 1)
      /\ \A k \in 1..Len(order) : order'[k] = order[k]
      /\ order'[Len(order) + 1] = i
  BY <1>1, <1>2
<1>4. Scheduled' = Scheduled \cup {i}
  BY <1>3 DEF Scheduled
<1>5. ASSUME NEW j \in Nodes \ Scheduled, j # i
      PROVE  LexBelow(i, j)
  <2>1. PICK x \in heap : x \in Nodes /\ (x = j \/ log[x].lamport < log[j].lamport)
    BY <1>2, ReadyComesFirst
  <2>2. x = i \/ LexBelow(i, x)
    BY <1>1, <1>2, <2>1, KeysDecide
  <2>3. log[i].lamport \in Nat /\ log[j].lamport \in Nat /\ log[x].lamport \in Nat
    BY <1>2, <2>1, LogTypes DEF Nodes
  <2> QED BY <1>5, <2>1, <2>2, <2>3 DEF LexBelow
<1>6. ASSUME NEW k \in 2..Len(order')
      PROVE  LexBelow(order'[k - 1], order'[k])
  <2>1. CASE k <= Len(order)
    <3>1. k \in 2..Len(order) /\ order'[k - 1] = order[k - 1] /\ order'[k] = order[k]
      BY <1>3, <2>1
    <3> QED BY <1>0, <3>1 DEF Ascending
  <2>2. CASE k = Len(order) + 1
    <3>1. k - 1 \in DOMAIN order /\ order'[k - 1] = order[k - 1] /\ order'[k] = i
      BY <1>3, <2>2
    <3>2. order[k - 1] \in Scheduled
      BY <3>1 DEF Scheduled
    <3> QED BY <1>0, <1>2, <3>1, <3>2 DEF Parted
  <2> QED BY <1>3, <2>1, <2>2
<1>7. ASSUME NEW h \in Scheduled', NEW j \in Nodes \ Scheduled'
      PROVE  LexBelow(h, j)
  BY <1>0, <1>2, <1>4, <1>5 DEF Parted
<1>8. Nodes' = Nodes /\ \A h, j : LexBelow(h, j)' = LexBelow(h, j)
  BY <1>0 DEF Nodes, LexBelow
<1>9. Ascending'
  BY <1>6, <1>8 DEF Ascending, LexBelow
<1> QED BY <1>7, <1>8, <1>9 DEF Parted

LEMMA OneOriginIntact ==
    ASSUME Recording, Worldly, NEW l \in Intact(recorded)
    PROVE  OneOrigin(l)
<1>1. PICK n \in 0..Len(recorded) :
        l = SubSeq(recorded, 1, n) \/ l = Reversed(SubSeq(recorded, 1, n))
  BY DEF Intact
<1>2. PICK p : p = SubSeq(recorded, 1, n)
  OBVIOUS
<1>3. p \in Seq(Event) /\ \A i \in DOMAIN p : i \in DOMAIN recorded /\ p[i] = recorded[i]
  BY <1>2, PrefixOf, TypedState DEF Recording
<1>4. OneOrigin(p)
  BY <1>3 DEF OneOrigin, Worldly, OriginAt
<1>5. PICK r : r = Reversed(p)
  OBVIOUS
<1>6. /\ r \in Seq(Event) /\ DOMAIN r = DOMAIN p /\ DOMAIN p = 1..Len(p)
      /\ \A i \in DOMAIN p : Len(p) + 1 - i \in DOMAIN p /\ r[i] = p[Len(p) + 1 - i]
  BY <1>3, <1>5, ReversedOf
<1>7. OneOrigin(r)
  <2> SUFFICES ASSUME NEW i \in DOMAIN r, NEW j \in DOMAIN r, r[i].actor = World, r[j].actor = World
               PROVE  i = j
    BY DEF OneOrigin
  <2>1. Len(p) + 1 - i = Len(p) + 1 - j
    BY <1>4, <1>6 DEF OneOrigin
  <2> QED BY <1>6, <2>1
<1> QED BY <1>1, <1>2, <1>4, <1>5, <1>7

LEMMA OriginInvNext ==
    ASSUME MaxOrigins <= 1, RecordInv, OriginInv, [RunNext]_runVars
    PROVE  OriginInv'
<1>1. CASE RecordStep
  <2>1. phase = "recording" /\ phase' = phase
    BY <1>1, RecordedStep DEF RecordStep, replayVars
  <2>2. Worldly'
    BY <1>1, <2>1, WorldlyTask, WorldlyMain DEF RecordStep, OriginInv, RecordInv, Recording
  <2> QED BY <2>1, <2>2 DEF OriginInv
<1>2. CASE ReadLog
  <2>1. Recording /\ Worldly /\ phase' # "recording"
    BY <1>2 DEF ReadLog, RecordInv, OriginInv
  <2>2. intact' => log' \in Intact(recorded)
    BY <1>2 DEF ReadLog
  <2> QED BY <2>1, <2>2, OneOriginIntact DEF OriginInv
<1>3. CASE ReplayStep
  <2>1. phase # "recording" /\ phase' # "recording" /\ UNCHANGED intact
    BY <1>3, ReplayPhases DEF ReplayStep
  <2>2. log' = log
    BY <1>3, ReadingStep, SetUpStep, WalkStep DEF ReplayStep
  <2> QED BY <2>1, <2>2 DEF OriginInv
<1>4. CASE UNCHANGED runVars
  <2>1. UNCHANGED vars /\ UNCHANGED <<log, intact, phase>>
    BY <1>4 DEF runVars, replayVars
  <2>2. Worldly => Worldly'
    BY <2>1 DEF vars, Worldly, OriginAt
  <2> QED BY <2>1, <2>2 DEF OriginInv
<1> QED BY <1>1, <1>2, <1>3, <1>4 DEF RunNext, Over

LEMMA SortedNext ==
    ASSUME ReplayInv, ReplayInv', OriginInv', SortedInv, [RunNext]_runVars
    PROVE  SortedInv'
<1> SUFFICES ASSUME intact'
             PROVE  phase' \notin Rejected /\ Ascending' /\ (phase' = "drain" => Parted')
  BY DEF SortedInv
<1>0. log' = log /\ order' = order => (Ascending => Ascending') /\ (Parted => Parted')
  BY DEF Ascending, Parted, LexBelow, Scheduled, Nodes
<1>1. CASE UNCHANGED <<log, order, phase, intact>>
  BY <1>0, <1>1 DEF SortedInv
<1>2. CASE ReadLog
  <2>1. phase' = "build" /\ order' = order /\ order = <<>>
    BY <1>2 DEF ReadLog, kahnVars, ReplayInv, RecordInv, NothingRead, KahnInit
  <2>2. Len(order') = 0
    BY <2>1
  <2> QED BY <2>1, <2>2 DEF Rejected, Ascending
<1>3. CASE ReplayLogStep /\ UNCHANGED intact
  <2>1. /\ phase \in Reading /\ phase \notin Rejected /\ phase' \in Reading /\ log' = log /\ intact
        /\ phase # "timeline"
    BY <1>3, ReadingStep
  <2>2. /\ ReadableLog(log) /\ Sound(log) /\ KahnInv /\ ProgressInv /\ ProgressInv' /\ Vetted /\ KahnInv'
    BY <2>1 DEF ReplayInv, LogFacts, ReadingInv, Reading, Rejected
  <2>3. BuildOk(log) /\ Valid(log)
    <3>1. OneOrigin(log)
      BY <2>1 DEF OriginInv, Reading, Rejected
    <3> QED BY <2>2, <3>1, SoundIsAccepted
  <2>5. CASE Pop
    <3>1. phase' = "drain"
      BY <2>5 DEF Pop
    <3>2. Ascending' /\ Parted'
      BY <2>1, <2>2, <2>3, <2>5, PopSorts
    <3> QED BY <3>1, <3>2 DEF Rejected
  <2>6. CASE Drained
    <3>1. phase' = "timeline" /\ order' = order
      BY <2>2, <2>6 DEF Drained, Enter, kahnVars, ProgressInv, NeverCycles
    <3> QED BY <1>0, <2>1, <3>1 DEF Rejected, SortedInv
  <2>7. CASE Build \/ Validate \/ Linearize
    <3>1. /\ phase' \in {"validate", "linearize", "drain"} /\ order' = order
          /\ phase \in {"build", "validate", "linearize"}
      BY <2>3, <2>7 DEF Build, Validate, Linearize, Enter, kahnVars
    <3>2. order = <<>>
      BY <2>2, <3>1 DEF KahnInv, Counted, Draining
    <3>3. Scheduled' = {} /\ Len(order') = 0
      BY <3>1, <3>2 DEF Scheduled
    <3>4. Ascending' /\ Parted'
      BY <3>3 DEF Ascending, Parted
    <3> QED BY <3>1, <3>4 DEF Rejected
  <2> QED BY <1>3, <2>5, <2>6, <2>7 DEF ReplayLogStep
<1>4. CASE /\ \/ \E actors, stimuli : Replay!SetUp(actors, stimuli)
              \/ Replay!Driver \/ \E a \in Actor : Replay!UserCode(a)
           /\ UNCHANGED intact
  <2>1. phase' \in Walking /\ UNCHANGED <<log, order>>
    BY <1>4, SetUpStep, WalkStep DEF Walking
  <2>2. phase' \notin Rejected /\ phase' # "drain"
    BY <2>1 DEF Walking, Rejected
  <2> QED BY <1>0, <1>4, <2>1, <2>2 DEF SortedInv
<1>5. CASE RecordStep \/ UNCHANGED runVars
  BY <1>1, <1>5 DEF RecordStep, runVars, replayVars, kahnVars
<1> QED BY <1>2, <1>3, <1>4, <1>5 DEF RunNext, Over, ReplayStep

LEMMA SortedMeansSmaller ==
    ASSUME ReadableLog(log), Tables, NEW k \in 2..Len(order), LexBelow(order[k - 1], order[k])
    PROVE  Smaller(<<Timeline[k - 1].lamport, Rank[Timeline[k - 1].actor], Timeline[k - 1].seq>>,
                   <<Timeline[k].lamport, Rank[Timeline[k].actor], Timeline[k].seq>>)
<1>1. k \in DOMAIN order /\ k - 1 \in DOMAIN order /\ order \in Seq(Nodes)
  BY DEF Tables
<1>2. PICK i \in Nodes, j \in Nodes : i = order[k - 1] /\ j = order[k]
  BY <1>1
<1>3. Timeline[k - 1] = log[i] /\ Timeline[k] = log[j]
  BY <1>1, <1>2 DEF Timeline
<1>4. /\ log[i].lamport \in Nat /\ log[i].seq \in Nat /\ Rank[log[i].actor] \in Nat
      /\ log[j].lamport \in Nat /\ log[j].seq \in Nat /\ Rank[log[j].actor] \in Nat
  BY LogTypes, RankAssumption DEF Nodes
<1>5. \/ log[i].lamport < log[j].lamport
      \/ log[i].lamport = log[j].lamport /\ Rank[log[i].actor] < Rank[log[j].actor]
      \/ /\ log[i].lamport = log[j].lamport /\ Rank[log[i].actor] = Rank[log[j].actor]
         /\ log[i].seq < log[j].seq
  BY <1>2 DEF LexBelow
<1>6. Smaller(<<log[i].lamport, Rank[log[i].actor], log[i].seq>>,
              <<log[j].lamport, Rank[log[j].actor], log[j].seq>>)
  BY <1>4, <1>5, SmallerOfThree
<1> QED BY <1>3, <1>6

\* replay_log accepts every log that a runtime with one origin leaves, whole
\* or cut anywhere and in either order, and sorts its timeline by Lamport stamp,
\* name and seq.
THEOREM TimelineIsSortedHolds ==
    ASSUME MaxOrigins <= 1
    PROVE  RunSpec => []TimelineIsSorted
<1>1. RunInit => OriginInv /\ SortedInv
  <2> SUFFICES ASSUME RunInit PROVE OriginInv /\ SortedInv
    OBVIOUS
  <2>1. Init /\ phase = "recording" /\ order = <<>>
    BY DEF RunInit, Replay!ReplayInit, Replay!KahnInit
  <2>2. Len(order) = 0
    BY <2>1
  <2> QED BY <2>1, <2>2, WorldlyInit DEF OriginInv, SortedInv, Ascending, Rejected
<1>2. ReplayInv /\ OriginInv /\ SortedInv /\ [RunNext]_runVars => (OriginInv /\ SortedInv)'
  <2> SUFFICES ASSUME ReplayInv, OriginInv, SortedInv, [RunNext]_runVars PROVE OriginInv' /\ SortedInv'
    OBVIOUS
  <2>1. OriginInv'
    BY OriginInvNext DEF ReplayInv
  <2> QED BY <2>1, ReplayInvNext, SortedNext
<1>3. ReplayInv /\ SortedInv => TimelineIsSorted
  <2> SUFFICES ASSUME ReplayInv, SortedInv, intact PROVE TimelineIsSorted
    BY DEF TimelineIsSorted
  <2>1. Tables /\ Len(Timeline) = Len(order) /\ Len(order) \in Nat
    BY DEF ReplayInv, ReadingInv, Tables, Timeline
  <2>2. CASE phase = "recording"
    <3>1. order = <<>>
      BY <2>2 DEF ReplayInv, RecordInv, NothingRead, KahnInit
    <3>2. Len(order) = 0
      BY <3>1
    <3> QED BY <2>1, <3>2 DEF SortedInv, Ascending, TimelineIsSorted
  <2>3. CASE phase # "recording"
    <3>1. ReadableLog(log)
      BY <2>3 DEF ReplayInv, LogFacts
    <3> QED BY <2>1, <3>1, SortedMeansSmaller DEF SortedInv, Ascending, TimelineIsSorted
  <2> QED BY <2>2, <2>3
<1> QED BY <1>1, <1>2, <1>3, ReplayInvHolds, PTL DEF RunSpec

----------------------------------------------------------------------------
(* An intact log                                                           *)

\* Of an actor's events, the earlier one comes earlier on the timeline.
LEMMA EarlierIsPlacedEarlier ==
    ASSUME ReadableLog(log), Sound(log), Tables, TimelineInv,
           NEW p \in DOMAIN order, log[order[p]].actor # World,
           NEW s \in Nat, s >= 1, s < log[order[p]].seq
    PROVE  \E q \in 1..(p - 1) : q \in DOMAIN order /\ Is(order[q], log[order[p]].actor, s)
<1> DEFINE a == log[order[p]].actor
           S == {k \in DOMAIN order : k <= p /\ log[order[k]].actor = a /\ log[order[k]].seq > s}
<1>1. DOMAIN order = 1..Len(order) /\ Len(order) \in Nat /\ \A k \in DOMAIN order : order[k] \in Nodes
  BY DEF Tables
<1>2. PICK k \in S : \A l \in S : k <= l
  <2>1. S \subseteq Nat /\ p \in S
    BY <1>1
  <2> HIDE DEF S
  <2> QED BY <2>1, LeastNumber
<1>3. PICK j \in Nodes : j = order[k] /\ log[j].actor = a /\ log[j].seq > s /\ log[j].seq \in Nat
  BY <1>1, <1>2, LogTypes DEF Nodes
<1>4. PICK i \in Nodes : log[i].actor = a /\ log[i].seq = log[j].seq - 1
  <2>1. log[j].seq - 1 \in 1..log[j].seq
    BY <1>3
  <2> QED BY <1>3, <2>1, NoGap DEF Nodes
<1>5. <<i, j>> \in ProgramEdges(log)
  <2>1. \A h \in DOMAIN log : log[h].seq \in Nat
    BY LogTypes
  <2>2. \A h \in DOMAIN log : ~(log[i].seq < log[h].seq /\ log[h].seq < log[j].seq)
    BY <1>3, <1>4, <2>1
  <2>3. log[i].seq < log[j].seq
    BY <1>3, <1>4
  <2> QED BY <1>3, <1>4, <2>2, <2>3 DEF ProgramEdges, Pairs, Nodes
<1>6. <<<<i, j>>, "program">> \in edges
  BY <1>5 DEF TimelineInv, DirectEdges
<1>7. PICK q \in 1..(k - 1) : order[q] = i
  BY <1>2, <1>3, <1>6 DEF TimelineInv, CausesFirst, From, Into
<1>8. q \in 1..(p - 1) /\ q \in DOMAIN order /\ q < k
  BY <1>1, <1>2, <1>7
<1>9. log[i].seq = s
  <2>1. log[i].seq \in Nat /\ log[i].seq >= s
    BY <1>3, <1>4, LogTypes DEF Nodes
  <2>2. SUFFICES ASSUME log[i].seq > s PROVE FALSE
    BY <2>1
  <2>3. q \in S
    BY <1>1, <1>4, <1>7, <1>8, <2>2
  <2>4. k <= q
    BY <1>2, <2>3
  <2> QED BY <1>1, <1>2, <1>8, <2>4
<1> QED BY <1>4, <1>7, <1>8, <1>9 DEF Is

\* The timeline leaves nothing out.
LEMMA EverythingIsPlaced ==
    ASSUME ReadableLog(log), Tables, TimelineInv, NEW i \in Nodes
    PROVE  \E k \in DOMAIN order : order[k] = i
<1>1. Nodes = 1..Len(log) /\ Len(log) \in Nat /\ IsFiniteSet(Nodes)
  BY NodesFinite
<1>2. order \in [1..Len(log) -> Nodes] /\ DOMAIN order = 1..Len(log)
  BY DEF Tables, TimelineInv
<1>3. order \in Injection(Nodes, Nodes)
  BY <1>1, <1>2 DEF TimelineInv, CausesFirst, Injection, IsInjective
<1>4. order \in Surjection(Nodes, Nodes)
  BY <1>1, <1>3, FS_Injection
<1> QED BY <1>1, <1>2, <1>4 DEF Surjection

\* The seqs of an actor are the numbers from one.
LEMMA NumberedFromOne ==
    ASSUME ReadableLog(log), Sound(log), ~DuplicateSeq(log), NEW a \in Actor
    PROVE  \E n \in Nat : /\ \A i \in EventsBy(a) : log[i].seq \in 1..n
                          /\ \A k \in 1..n : \E i \in Nodes : Is(i, a, k)
<1>1. PICK S : S = EventsBy(a)
  OBVIOUS
<1>2. /\ IsFiniteSet(S)
      /\ \A i \in S : Replay!Seqs[i] = log[i].seq /\ Replay!Seqs[i] \in Nat
      /\ \A i, j \in S : Replay!Seqs[i] = Replay!Seqs[j] => i = j
  BY <1>1, SeqsAreKeys
<1>3. PICK f : f = Replay!InOrder(S, Replay!Seqs)
  OBVIOUS
<1>4. /\ Cardinality(S) \in Nat
      /\ \A k \in 1..Cardinality(S) : f[k] \in S
      /\ \A k, l \in 1..Cardinality(S) : f[k] = f[l] => k = l
      /\ \A x \in S : /\ Cardinality(NoneBelow(S, Replay!Seqs, x)) \in 1..Cardinality(S)
                      /\ f[Cardinality(NoneBelow(S, Replay!Seqs, x))] = x
  BY <1>2, <1>3, InOrderPlaces
<1>5. \A i \in S : i \in DOMAIN log /\ log[i].actor = a /\ log[i].actor # World
  BY <1>1, ActorAssumption DEF EventsBy, Nodes
<1>6. \A i \in EventsBy(a) : log[i].seq >= 1
  BY <1>1, <1>5, SoundStep
<1>7. ASSUME NEW i \in S
      PROVE  Cardinality(NoneBelow(S, Replay!Seqs, i)) = log[i].seq
  <2>1. PICK t \in Nat : t = log[i].seq
    BY <1>2
  <2>2. \A k \in 1..t : \E j \in Nodes : Is(j, a, k)
    BY <1>5, <2>1, NoGap DEF Is, Nodes
  <2>3. Cardinality({j \in EventsBy(a) : log[j].seq <= t}) = t
    BY <1>6, <2>2, CountBySeq
  <2>4. NoneBelow(S, Replay!Seqs, i) = {j \in S : log[j].seq <= t}
    BY <1>2, <2>1 DEF NoneBelow
  <2> QED BY <1>1, <2>1, <2>3, <2>4
<1>8. \A i \in EventsBy(a) : log[i].seq \in 1..Cardinality(S)
  BY <1>1, <1>4, <1>7
<1>9. ASSUME NEW k \in 1..Cardinality(S)
      PROVE  \E i \in Nodes : Is(i, a, k)
  <2>1. PICK i \in S : i = f[k]
    BY <1>4
  <2>2. log[i].seq = k
    BY <1>4, <1>7, <2>1
  <2> QED BY <1>5, <2>2 DEF Is, Nodes
<1> QED BY <1>4, <1>8, <1>9

LEMMA OneEvent ==
    ASSUME Sound(log), NEW a \in Actor, NEW s, NEW i, NEW j, Is(i, a, s), Is(j, a, s)
    PROVE  i = j
  BY ActorAssumption DEF Sound, Is, Nodes

\* An actor that has not done all of the log has an event to do next.
LEMMA NextEvent ==
    ASSUME ReadableLog(log), Sound(log), ReplayTypes, NEW i \in Nodes, log[i].actor \in Actor,
           log[i].seq > reseq[log[i].actor]
    PROVE  \E j \in Nodes : Is(j, log[i].actor, reseq[log[i].actor] + 1)
<1>1. log[i].actor # World /\ log[i].seq \in Nat /\ reseq[log[i].actor] \in Nat
  BY ActorAssumption, LogTypes DEF ReplayTypes, Nodes
<1>2. reseq[log[i].actor] + 1 \in 1..log[i].seq
  BY <1>1
<1> QED BY <1>1, <1>2, NoGap DEF Is, Nodes

----------------------------------------------------------------------------
(* Once it is not the run that was recorded, it never is again             *)

Walks == Replay!Driver \/ \E a \in Actor : Replay!UserCode(a)

\* What a step of re-execution may do to what the actors did.
LEMMA Acting ==
    ASSUME ReplayTypes, Tables, ReadableLog(log), Walks
    PROVE  \/ /\ UNCHANGED <<reseq, did>>
              /\ phase \in Walked => phase' \in Walked /\ \A a \in Actor : Driven(a)' => Driven(a)
           \/ \E a \in Actor, w \in Words :
                /\ did' = [did EXCEPT ![a] = Append(@, w)]
                /\ reseq' = [reseq EXCEPT ![a] = @ + 1]
                /\ w = <<"recv", None>> \/ Driven(a)
                /\ phase \in Walked => phase' \in Walked /\ \A b \in Actor : b # a /\ Driven(b)' => Driven(b)
<1> USE DEF Walked, Driven
<1>1. CASE Replay!SeedOrigin \/ Replay!OriginsSeeded \/ Replay!DriveStarted \/ Replay!AllStarted
  BY <1>1 DEF Replay!SeedOrigin, Replay!OriginsSeeded, Replay!DriveStarted, Replay!AllStarted, Replay!taskVars, Replay!Enter
<1>2. CASE Replay!Unsent \/ Replay!Complete
  BY <1>2 DEF Replay!Unsent, Replay!Complete, Replay!taskVars, Replay!Enter
<1>3. CASE Replay!Receive
  <2>1. PICK a : a = Replay!Receipt.actor
    OBVIOUS
  <2>2. a \in Actor
    BY <1>3, <2>1, PlaceIsFirst DEF Replay!Receive, ReadableLog, Nodes
  <2>3. /\ did' = [did EXCEPT ![a] = Append(@, <<"recv", None>>)]
        /\ reseq' = [reseq EXCEPT ![a] = @ + 1]
        /\ driving' = IF a \in rebuilt THEN a ELSE None
        /\ phase' \in {"walk", "userHandle", "panicked"} /\ (a \notin rebuilt => phase' = "walk")
    BY <1>3, <2>1 DEF Replay!Receive, Replay!Enter
  <2>4. <<"recv", None>> \in Words
    BY DEF Words
  <2>5. \A b \in Actor : b # a => ~Driven(b)'
    BY <2>3
  <2>6. \E w \in Words :
          /\ did' = [did EXCEPT ![a] = Append(@, w)]
          /\ reseq' = [reseq EXCEPT ![a] = @ + 1]
          /\ w = <<"recv", None>> \/ Driven(a)
          /\ phase \in Walked => phase' \in Walked /\ \A b \in Actor : b # a /\ Driven(b)' => Driven(b)
    BY <2>3, <2>4, <2>5
  <2> QED BY <2>2, <2>6
<1>4. ASSUME NEW a \in Actor, Replay!Compute(a) \/ \E to \in Actor : Replay!Send(a, to)
      PROVE  \E w \in Words :
                /\ did' = [did EXCEPT ![a] = Append(@, w)]
                /\ reseq' = [reseq EXCEPT ![a] = @ + 1]
                /\ w = <<"recv", None>> \/ Driven(a)
                /\ phase \in Walked => phase' \in Walked /\ \A b \in Actor : b # a /\ Driven(b)' => Driven(b)
  <2>1. Driven(a) /\ UNCHANGED <<phase, driving>>
    BY <1>4 DEF Replay!Compute, Replay!Send, Replay!Acts, Replay!InUserCode
  <2>2. reseq' = [reseq EXCEPT ![a] = @ + 1]
    BY <1>4 DEF Replay!Compute, Replay!Send
  <2>3. \E w \in Words : did' = [did EXCEPT ![a] = Append(@, w)]
    <3>1. <<"compute", None>> \in Words /\ \A to \in Actor : <<"send", to>> \in Words
      BY DEF Words
    <3> QED BY <1>4, <3>1 DEF Replay!Compute, Replay!Send
  <2> QED BY <2>1, <2>2, <2>3
<1>5. ASSUME NEW a \in Actor, Replay!Returns(a)
      PROVE  /\ UNCHANGED <<reseq, did>>
             /\ phase \in Walked => phase' \in Walked /\ \A b \in Actor : Driven(b)' => Driven(b)
  BY <1>5 DEF Replay!Returns, Replay!InUserCode, Replay!taskVars, Replay!Enter
<1> QED BY <1>1, <1>2, <1>3, <1>4, <1>5 DEF Walks, Replay!Driver, Replay!UserCode

LEMMA AstrayStays ==
    ASSUME ReplayTypes, Tables, ReadableLog(log), Sound(log), Walks, Astray
    PROVE  Astray'
<1>1. UNCHANGED <<log, rebuilt, reorigins>>
  BY WalkStep DEF Walks
<1>2. /\ Nodes' = Nodes /\ Replay!EmitsOf(World)' = Replay!EmitsOf(World)
      /\ \A i, a, s : Is(i, a, s)' = Is(i, a, s)
      /\ \A e : Word(e)' = Word(e) /\ IsRecv(e)' = IsRecv(e)
  BY <1>1, SameEmits DEF Nodes, Is, Word, IsRecv
<1>3. CASE \/ Len(Replay!EmitsOf(World)) > Len(reorigins)
           \/ \E i \in Nodes : log[i].actor \notin rebuilt \cup {World}
  BY <1>1, <1>2, <1>3 DEF Astray
<1>4. ASSUME NEW a \in Actor, ~Keeps(a)
      PROVE  ~Keeps(a)'
  <2>1. /\ reseq[a] \in Nat /\ reseq'[a] \in Nat /\ reseq'[a] >= reseq[a]
        /\ \A k \in 1..reseq[a] : did'[a][k] = did[a][k]
    <3>1. CASE UNCHANGED <<reseq, did>>
      BY <3>1 DEF ReplayTypes
    <3>2. ASSUME NEW b \in Actor, NEW w \in Words, did' = [did EXCEPT ![b] = Append(@, w)],
                 reseq' = [reseq EXCEPT ![b] = @ + 1]
          PROVE  /\ reseq[a] \in Nat /\ reseq'[a] \in Nat /\ reseq'[a] >= reseq[a]
                 /\ \A k \in 1..reseq[a] : did'[a][k] = did[a][k]
      <4>1. /\ reseq'[b] = reseq[b] + 1
            /\ \A k \in 1..reseq[b] : did'[b][k] = did[b][k]
            /\ \A c \in Actor : c # b => did'[c] = did[c] /\ reseq'[c] = reseq[c]
        BY <3>2, DidGrows
      <4>2. \A c \in Actor : reseq[c] \in Nat
        BY DEF ReplayTypes
      <4> QED BY <4>1, <4>2
    <3> QED BY <3>1, <3>2, Acting
  <2>2. SUFFICES ASSUME Keeps(a)' PROVE FALSE
    OBVIOUS
  <2>3. ASSUME NEW k \in 1..reseq[a]
        PROVE  \A i \in Nodes : Is(i, a, k) => did[a][k] = Word(log[i])
    <3>1. k \in 1..reseq'[a]
      BY <2>1
    <3>2. \A i \in Nodes' : Is(i, a, k)' => did'[a][k] = Word(log[i])'
      BY <2>2, <3>1 DEF Keeps
    <3> QED BY <1>1, <1>2, <2>1, <3>2
  <2> QED BY <1>4, <2>3 DEF Keeps
<1>5. ASSUME NEW a \in Actor, Stuck(a)
      PROVE  Stuck(a)' \/ ~Keeps(a)'
  <2>1. PICK i \in Nodes : Is(i, a, reseq[a] + 1) /\ ~IsRecv(log[i])
    BY <1>5 DEF Stuck
  <2>2. phase \in Walked /\ ~Driven(a)
    BY <1>5 DEF Stuck
  <2>3. CASE reseq'[a] = reseq[a] /\ phase' \in Walked /\ ~Driven(a)'
    BY <1>1, <1>2, <2>1, <2>3 DEF Stuck
  <2>4. CASE did' = [did EXCEPT ![a] = Append(@, <<"recv", None>>)] /\ reseq' = [reseq EXCEPT ![a] = @ + 1]
    <3>1. <<"recv", None>> \in Words
      BY DEF Words
    <3>2. reseq'[a] = reseq[a] + 1 /\ did'[a][reseq[a] + 1] = <<"recv", None>> /\ reseq[a] \in Nat
      BY <2>4, <3>1, DidGrows DEF ReplayTypes
    <3>3. SUFFICES ASSUME Keeps(a)' PROVE FALSE
      OBVIOUS
    <3>4. reseq[a] + 1 \in 1..reseq'[a]
      BY <3>2
    <3>5. Word(log[i]) = <<"recv", None>>
      <4>1. PICK k \in 1..reseq'[a] : k = reseq[a] + 1
        BY <3>4
      <4>2. Is(i, a, k)' => did'[a][k] = Word(log[i])'
        BY <1>2, <3>3 DEF Keeps
      <4> QED BY <1>1, <1>2, <2>1, <3>2, <4>1, <4>2
    <3>6. log[i].op \in {"emit", "recv", "compute"}
      BY LogTypes DEF Nodes
    <3> QED BY <2>1, <3>5, <3>6 DEF Word, IsRecv
  <2>5. CASE UNCHANGED <<reseq, did>> /\ phase' \in Walked /\ \A b \in Actor : Driven(b)' => Driven(b)
    BY <2>2, <2>3, <2>5
  <2>6. ASSUME NEW b \in Actor, NEW w \in Words,
               did' = [did EXCEPT ![b] = Append(@, w)], reseq' = [reseq EXCEPT ![b] = @ + 1],
               w = <<"recv", None>> \/ Driven(b),
               phase' \in Walked, \A c \in Actor : c # b /\ Driven(c)' => Driven(c)
        PROVE  Stuck(a)' \/ ~Keeps(a)'
    <3>1. CASE b = a
      BY <2>2, <2>4, <2>6, <3>1
    <3>2. CASE b # a
      <4>1. reseq'[a] = reseq[a]
        BY <2>6, <3>2, DidGrows
      <4> QED BY <2>2, <2>3, <2>6, <3>2, <4>1
    <3> QED BY <3>1, <3>2
  <2> QED BY <2>2, <2>5, <2>6, Acting
<1> QED BY <1>3, <1>4, <1>5 DEF Astray

\* The program that was recorded is never astray, not even when it is over.
LEMMA SameIsNotAstray ==
    ASSUME ReadableLog(log), Sound(log), BuildOk(log), ReplayTypes, Replay!SameProgram
    PROVE  ~Astray
<1>1. ~(Len(Replay!EmitsOf(World)) > Len(reorigins))
  <2>1. Len(reorigins) \in Nat /\ Len(Replay!EmitsOf(World)) \in Nat
    BY EmitsOfPlaces DEF ReplayTypes
  <2> QED BY <2>1 DEF Replay!SameProgram, Replay!SameSystem
<1>2. \A i \in Nodes : log[i].actor \in rebuilt \cup {World}
  BY SameKinds DEF Replay!SameProgram, Replay!SameSystem
<1>3. ASSUME NEW a \in Actor
      PROVE  Keeps(a) /\ ~Stuck(a)
  <2>1. PICK n \in Nat : /\ \A i \in EventsBy(a) : log[i].seq \in 1..n
                         /\ \A k \in 1..n : \E i \in Nodes : Is(i, a, k)
    BY NumberedFromOne DEF BuildOk
  <2>2. /\ \A k \in 1..n : \A i \in Nodes : Is(i, a, k) => Replay!Script(a)[k] = Word(log[i])
        /\ DOMAIN Replay!Script(a) = 1..n
    BY <2>1, ScriptByNumber DEF BuildOk
  <2>3. /\ \A k \in 1..n : k <= Len(did[a]) /\ did[a][k] = Replay!Script(a)[k]
        /\ Len(did[a]) = reseq[a] /\ reseq[a] \in Nat
    BY <2>2 DEF ReplayTypes, Replay!SameProgram
  <2>4. n <= reseq[a]
    <3>1. n = 0 \/ n \in 1..n
      OBVIOUS
    <3> QED BY <2>3, <3>1
  <2>5. \A i \in Nodes : \A k : Is(i, a, k) => k \in 1..n
    BY <2>1 DEF Is, EventsBy
  <2>6. Keeps(a)
    BY <2>2, <2>3, <2>5 DEF Keeps
  <2>7. ~Stuck(a)
    <3>1. reseq[a] + 1 \notin 1..n
      BY <2>3, <2>4
    <3> QED BY <2>5, <3>1 DEF Stuck
  <2> QED BY <2>6, <2>7
<1> QED BY <1>1, <1>2, <1>3 DEF Astray

----------------------------------------------------------------------------
(* The run that was recorded, as long as it is that                        *)

\* What is known of an intact log whose timeline is complete.
Legible == ReadableLog(log) /\ Sound(log) /\ TimelineInv /\ Tables /\ ReplayTypes

LEMMA SamePlaces ==
    ASSUME log' = log
    PROVE  /\ Nodes' = Nodes /\ Replay!EmitsOf(World)' = Replay!EmitsOf(World)
           /\ \A i, a, s : Is(i, a, s)' = Is(i, a, s)
           /\ \A a, s : SentBy(a, s)' = SentBy(a, s) /\ Logged(a, s)' = Logged(a, s)
           /\ \A a, s : Memory(log, a, s)' = Memory(log, a, s)
           /\ \A n : Emits(n)' = Emits(n)
  BY SameEmits DEF Nodes, Is, SentBy, Logged, Emits, Memory, ZeroMemory, ZeroClock

\* Restamped, with the log of now in the place of the next.
LEMMA RestampedNext ==
    ASSUME log' = log,
           \A d : d \in divergences' <=> Past(d)',
           \A b \in Actor :
             /\ Logged(b, reseq'[b]) =>
                  /\ [vclock |-> reclock'[b], lamport |-> relamport'[b]] \in Memory(log, b, reseq'[b])
                  /\ sendCount'[b] = Cardinality(SentBy(b, reseq'[b]))
             /\ sendCount'[b] >= Cardinality(SentBy(b, reseq'[b])),
           \A j \in Nodes : Made(j)' <=> Repeated(j)'
    PROVE  Restamped'
<1>1. ASSUME NEW b \in Actor
      PROVE  /\ Logged(b, reseq[b])' <=> Logged(b, reseq'[b])
             /\ Memory(log, b, reseq[b])' = Memory(log, b, reseq'[b])
             /\ SentBy(b, reseq[b])' = SentBy(b, reseq'[b])
  BY SamePlaces DEF Logged, Memory, ZeroMemory, ZeroClock, SentBy
<1>2. ASSUME NEW b \in Actor
      PROVE  /\ Logged(b, reseq[b])' =>
                  /\ [vclock |-> reclock[b], lamport |-> relamport[b]]' \in Memory(log, b, reseq[b])'
                  /\ sendCount'[b] = Cardinality(SentBy(b, reseq[b])')
             /\ sendCount'[b] >= Cardinality(SentBy(b, reseq[b])')
  BY <1>1
<1>3. \A j \in Nodes' : Made(j)' <=> Repeated(j)'
  BY SamePlaces
<1> QED BY <1>2, <1>3 DEF Restamped

\* The divergences past the end of the log, when nothing is done ...
LEMMA SamePast ==
    ASSUME UNCHANGED <<log, reseq, sendCount>>
    PROVE  \A d : Past(d)' <=> Past(d)
<1>1. ASSUME NEW d, NEW a \in Actor
      PROVE  (UnloggedEvent(d, a)' <=> UnloggedEvent(d, a)) /\ (UnloggedSend(d, a)' <=> UnloggedSend(d, a))
  <2>1. UnloggedEvent(d, a)' <=> UnloggedEvent(d, a)
    BY SamePlaces DEF UnloggedEvent, Replay!Divergence
  <2>2. UnloggedSend(d, a)' <=> UnloggedSend(d, a)
    BY SamePlaces DEF UnloggedSend, Replay!Divergence
  <2> QED BY <2>1, <2>2
<1> QED BY <1>1 DEF Past

\* ... and when an actor does one thing more.
LEMMA PastGrows ==
    ASSUME Legible, log' = log, NEW a \in Actor, reseq' = [reseq EXCEPT ![a] = @ + 1],
           NEW n \in {0, 1}, sendCount' = [sendCount EXCEPT ![a] = @ + n], NEW d
    PROVE  Past(d)' <=>
             \/ Past(d)
             \/ /\ ~Logged(a, reseq[a] + 1)
                /\ d = Replay!Divergence(<<a, reseq[a] + 1>>, "unrecorded")
             \/ /\ n = 1 /\ sendCount[a] + 1 > Cardinality(Emits(a))
                /\ d = Replay!Divergence(<<a, -(sendCount[a] + 1)>>, "more sends")
<1>1. /\ reseq[a] \in Nat /\ reseq'[a] = reseq[a] + 1
      /\ sendCount[a] \in Nat /\ sendCount'[a] = sendCount[a] + n
      /\ \A b \in Actor : b # a => reseq'[b] = reseq[b] /\ sendCount'[b] = sendCount[b]
  BY DEF Legible, ReplayTypes
<1>2. ASSUME NEW b \in Actor, b # a
      PROVE  (UnloggedEvent(d, b)' <=> UnloggedEvent(d, b)) /\ (UnloggedSend(d, b)' <=> UnloggedSend(d, b))
  <2>1. UnloggedEvent(d, b)' <=> UnloggedEvent(d, b)
    BY <1>1, <1>2, SamePlaces DEF UnloggedEvent, Replay!Divergence
  <2>2. UnloggedSend(d, b)' <=> UnloggedSend(d, b)
    BY <1>1, <1>2, SamePlaces DEF UnloggedSend, Replay!Divergence
  <2> QED BY <2>1, <2>2
<1>3. UnloggedEvent(d, a)' <=>
        \/ UnloggedEvent(d, a)
        \/ /\ ~Logged(a, reseq[a] + 1)
           /\ d = Replay!Divergence(<<a, reseq[a] + 1>>, "unrecorded")
  <2>1. \A t : t \in 1..reseq'[a] <=> t \in 1..reseq[a] \/ t = reseq[a] + 1
    BY <1>1
  <2>2. UnloggedEvent(d, a)' <=>
          \E t \in 1..reseq'[a] : ~Logged(a, t) /\ d = Replay!Divergence(<<a, t>>, "unrecorded")
    BY SamePlaces DEF UnloggedEvent, Replay!Divergence
  <2> QED BY <2>1, <2>2 DEF UnloggedEvent
<1>4. UnloggedSend(d, a)' <=>
        \/ UnloggedSend(d, a)
        \/ /\ n = 1 /\ sendCount[a] + 1 > Cardinality(Emits(a))
           /\ d = Replay!Divergence(<<a, -(sendCount[a] + 1)>>, "more sends")
  <2>1. \A t : t \in 1..sendCount'[a] <=> t \in 1..sendCount[a] \/ (n = 1 /\ t = sendCount[a] + 1)
    BY <1>1
  <2>2. UnloggedSend(d, a)' <=>
          \E t \in 1..sendCount'[a] :
            t > Cardinality(Emits(a)) /\ d = Replay!Divergence(<<a, -t>>, "more sends")
    BY SamePlaces DEF UnloggedSend, Replay!Divergence
  <2> QED BY <2>1, <2>2 DEF UnloggedSend
<1>5. Past(d)' <=> \E b \in Actor : UnloggedEvent(d, b)' \/ UnloggedSend(d, b)'
  BY DEF Past
<1> QED BY <1>2, <1>3, <1>4, <1>5 DEF Past

\* The events of an actor leave no gap.
LEMMA LoggedBefore ==
    ASSUME Legible, NEW a \in Actor, NEW i, Is(i, a, reseq[a] + 1)
    PROVE  Logged(a, reseq[a])
<1>1. reseq[a] \in Nat /\ i \in Nodes /\ log[i].actor = a /\ log[i].seq = reseq[a] + 1 /\ a # World
  BY ActorAssumption DEF Legible, ReplayTypes, Is
<1>2. CASE reseq[a] = 0
  BY <1>2 DEF Logged
<1>3. CASE reseq[a] # 0
  <2>1. reseq[a] \in 1..log[i].seq
    BY <1>1, <1>3
  <2> QED BY <1>1, <2>1, NoGap DEF Legible, Logged, Is, Nodes
<1> QED BY <1>2, <1>3

\* An actor past the end of its log has sent all that the log has.
LEMMA AllSent ==
    ASSUME Legible, NEW a \in Actor, ~Logged(a, reseq[a] + 1)
    PROVE  /\ SentBy(a, reseq[a]) = Emits(a) /\ SentBy(a, reseq[a] + 1) = Emits(a)
           /\ \A i \in Nodes : log[i].actor = a => log[i].seq <= reseq[a]
<1>1. reseq[a] \in Nat /\ \A i \in Nodes : log[i].seq \in Nat
  BY LogTypes DEF Legible, ReplayTypes, Nodes
<1>2. ASSUME NEW i \in Nodes, log[i].actor = a
      PROVE  log[i].seq <= reseq[a]
  <2>1. CASE log[i].seq > reseq[a]
    <3>1. \E j \in Nodes : Is(j, a, reseq[a] + 1)
      BY <1>2, <2>1, NextEvent DEF Legible
    <3> QED BY <3>1 DEF Logged
  <2> QED BY <1>1, <2>1
<1>3. \A i \in Nodes : log[i].actor = a => log[i].seq <= reseq[a] + 1
  BY <1>1, <1>2
<1> QED BY <1>2, <1>3 DEF SentBy, Emits

\* The timeline delivers to an actor its next event, nothing later.
LEMMA InTurn ==
    ASSUME Legible, InStep, phase = "walk", Replay!Ahead # {}, ~Astray
    PROVE  Is(order[Replay!Place], Replay!Receipt.actor, reseq[Replay!Receipt.actor] + 1)
<1>1. PICK p, i : p = Replay!Place /\ i = order[p]
  OBVIOUS
<1>2. /\ p \in DOMAIN order /\ p >= next /\ IsRecv(log[i]) /\ i \in Nodes /\ Replay!Receipt = log[i]
      /\ \A k \in DOMAIN order : k >= next /\ IsRecv(log[order[k]]) => p <= k
  BY <1>1, PlaceIsFirst DEF Legible
<1>3. PICK a \in Actor : a = log[i].actor /\ a # World
  BY <1>2, ActorAssumption DEF Legible, ReadableLog, Nodes
<1>4. DOMAIN order \subseteq Nat /\ next \in Nat /\ reseq[a] \in Nat /\ log[i].seq \in Nat
  <2>1. DOMAIN order \subseteq Nat
    BY DEF Legible, Tables
  <2> QED BY <1>2, <2>1, LogTypes DEF Legible, ReplayTypes, Nodes
<1>5. ~Repeated(i)
  BY <1>1, <1>2, <1>4 DEF InStep
<1>6. log[i].seq > reseq[a]
  BY <1>3, <1>4, <1>5 DEF Repeated
<1>7. SUFFICES ASSUME log[i].seq # reseq[a] + 1 PROVE FALSE
  BY <1>1, <1>2, <1>3 DEF Is
<1>8. reseq[a] + 1 < log[i].seq /\ reseq[a] + 1 \in Nat /\ reseq[a] + 1 >= 1
  BY <1>4, <1>6, <1>7
<1>9. PICK q \in 1..(p - 1) : q \in DOMAIN order /\ Is(order[q], a, reseq[a] + 1)
  BY <1>1, <1>2, <1>3, <1>8, EarlierIsPlacedEarlier DEF Legible
<1>10. IsRecv(log[order[q]]) /\ ~Repeated(order[q])
  <2>1. ~Stuck(a) /\ ~Driven(a)
    BY DEF Astray, Driven
  <2>2. IsRecv(log[order[q]])
    BY <1>9, <2>1 DEF Stuck, Walked, Is
  <2> QED BY <1>3, <1>4, <1>9, <2>2 DEF Repeated, Is
<1>11. q >= next
  BY <1>4, <1>9, <1>10 DEF InStep, Walked
<1>12. p <= q
  BY <1>2, <1>9, <1>10, <1>11
<1> QED BY <1>2, <1>4, <1>9, <1>12

\* What the next event of an actor adds.
LEMMA RepeatedOnce ==
    ASSUME Legible, log' = log, NEW a \in Actor, NEW i, Is(i, a, reseq[a] + 1),
           reseq' = [reseq EXCEPT ![a] = @ + 1], phase # "origins", phase' # "origins"
    PROVE  ~Repeated(i) /\ \A j \in Nodes : Repeated(j)' <=> Repeated(j) \/ j = i
<1>1. /\ reseq'[a] = reseq[a] + 1 /\ reseq[a] \in Nat
      /\ \A b \in Actor : b # a => reseq'[b] = reseq[b]
  BY DEF Legible, ReplayTypes
<1>2. i \in Nodes /\ log[i].actor = a /\ log[i].seq = reseq[a] + 1 /\ a # World
  BY ActorAssumption DEF Is
<1>3. ASSUME NEW j \in Nodes
      PROVE  Repeated(j)' <=> Repeated(j) \/ j = i
  <2>1. CASE log[j].actor = World
    BY <1>2, <2>1, SamePlaces DEF Repeated, Seeded
  <2>2. CASE log[j].actor # World
    <3>1. log[j].actor \in Actor /\ log[j].seq \in Nat
      BY <2>2, LogTypes DEF Legible, Nodes
    <3>2. log[j].actor = a /\ log[j].seq = reseq[a] + 1 => j = i
      BY <1>2, OneEvent DEF Is, Legible
    <3>3. Repeated(j)' <=> log[j].seq <= reseq'[log[j].actor]
      BY <2>2 DEF Repeated
    <3>4. Repeated(j) <=> log[j].seq <= reseq[log[j].actor]
      BY <2>2 DEF Repeated
    <3>5. CASE log[j].actor = a
      BY <1>1, <1>2, <3>1, <3>2, <3>3, <3>4, <3>5
    <3>6. CASE log[j].actor # a
      BY <1>1, <1>2, <3>1, <3>3, <3>4, <3>6
    <3> QED BY <3>5, <3>6
  <2> QED BY <2>1, <2>2
<1> QED BY <1>1, <1>2, <1>3 DEF Repeated

\* What an actor does past the end of its log adds none.
LEMMA RepeatedNoMore ==
    ASSUME Legible, log' = log, NEW a \in Actor, ~Logged(a, reseq[a] + 1),
           reseq' = [reseq EXCEPT ![a] = @ + 1], phase # "origins", phase' # "origins"
    PROVE  \A j \in Nodes : Repeated(j)' <=> Repeated(j)
<1>1. /\ reseq'[a] = reseq[a] + 1 /\ reseq[a] \in Nat
      /\ \A b \in Actor : b # a => reseq'[b] = reseq[b]
  BY DEF Legible, ReplayTypes
<1>2. ASSUME NEW j \in Nodes
      PROVE  Repeated(j)' <=> Repeated(j)
  <2>1. CASE log[j].actor = World
    BY <2>1, SamePlaces DEF Repeated, Seeded
  <2>2. CASE log[j].actor # World
    <3>1. log[j].actor \in Actor /\ log[j].seq \in Nat
      BY <2>2, LogTypes DEF Legible, Nodes
    <3>2. Repeated(j)' <=> log[j].seq <= reseq'[log[j].actor]
      BY <2>2 DEF Repeated
    <3>3. Repeated(j) <=> log[j].seq <= reseq[log[j].actor]
      BY <2>2 DEF Repeated
    <3>4. CASE log[j].actor = a
      BY <1>1, <3>1, <3>2, <3>3, <3>4, AllSent
    <3>5. CASE log[j].actor # a
      BY <1>1, <3>1, <3>2, <3>3, <3>5
    <3> QED BY <3>4, <3>5
  <2> QED BY <2>1, <2>2
<1> QED BY <1>2

LEMMA SentOnce ==
    ASSUME Legible, NEW a \in Actor, NEW i, Is(i, a, reseq[a] + 1)
    PROVE  /\ Cardinality(SentBy(a, reseq[a])) \in Nat
           /\ Cardinality(SentBy(a, reseq[a] + 1)) =
                IF log[i].op = "emit" THEN Cardinality(SentBy(a, reseq[a])) + 1
                ELSE Cardinality(SentBy(a, reseq[a]))
           /\ Cardinality(SentBy(a, reseq[a] + 1)) <= Cardinality(Emits(a))
<1>1. PICK S : S = SentBy(a, reseq[a])
  OBVIOUS
<1>2. IsFiniteSet(S) /\ Cardinality(S) \in Nat
  <2>1. S \in SUBSET Nodes
    BY <1>1 DEF SentBy
  <2>2. IsFiniteSet(S)
    BY <2>1, NodesFinite, FS_Subset DEF Legible
  <2> QED BY <2>2, FS_CardinalityType
<1>3. /\ reseq[a] \in Nat /\ i \in Nodes /\ log[i].actor = a /\ log[i].seq = reseq[a] + 1
      /\ \A j \in Nodes : log[j].seq \in Nat
  BY LogTypes DEF Legible, ReplayTypes, Is, Nodes
<1>4. \A j \in Nodes : log[j].actor = a => (log[j].seq <= reseq[a] + 1 <=> log[j].seq <= reseq[a] \/ j = i)
  <2> TAKE j \in Nodes
  <2>1. log[j].actor = a /\ log[j].seq = reseq[a] + 1 => j = i
    BY <1>3, OneEvent DEF Is, Legible
  <2> QED BY <1>3, <2>1
<1>5. ASSUME log[i].op = "emit"
      PROVE  Cardinality(SentBy(a, reseq[a] + 1)) = Cardinality(S) + 1
  <2>1. SentBy(a, reseq[a] + 1) = S \cup {i}
    BY <1>1, <1>3, <1>4, <1>5 DEF SentBy
  <2>2. i \notin S
    BY <1>1, <1>3 DEF SentBy
  <2> QED BY <1>2, <2>1, <2>2, FS_AddElement
<1>6. ASSUME log[i].op # "emit"
      PROVE  SentBy(a, reseq[a] + 1) = S
  BY <1>1, <1>3, <1>4, <1>6 DEF SentBy
<1>7. Cardinality(SentBy(a, reseq[a] + 1)) <= Cardinality(Emits(a))
  <2>1. Emits(a) \in SUBSET Nodes /\ SentBy(a, reseq[a] + 1) \in SUBSET Emits(a)
    BY DEF Emits, SentBy
  <2>2. IsFiniteSet(Emits(a))
    BY <2>1, NodesFinite, FS_Subset DEF Legible
  <2> QED BY <2>1, <2>2, FS_Subset
<1> QED BY <1>2, <1>5, <1>6, <1>7, <1>1

\* An event that is made again as it was leaves its actor where the log has it.
LEMMA StampsAgain ==
    ASSUME Legible, Restamped, log' = log, NEW a \in Actor, NEW i, Is(i, a, reseq[a] + 1),
           phase # "origins", phase' # "origins",
           reseq' = [reseq EXCEPT ![a] = @ + 1],
           reclock' = [reclock EXCEPT ![a] = log[i].vclock],
           relamport' = [relamport EXCEPT ![a] = log[i].lamport],
           sendCount' = IF log[i].op = "emit" THEN [sendCount EXCEPT ![a] = @ + 1] ELSE sendCount,
           produced' = produced \cup {Replay!Coordinate(log[i])},
           divergences' = divergences
    PROVE  Restamped'
<1>1. /\ reclock \in [Actor -> VClock] /\ relamport \in [Actor -> Nat]
      /\ reseq \in [Actor -> Nat] /\ sendCount \in [Actor -> Nat]
  BY DEF Legible, ReplayTypes
<1>2. /\ reseq'[a] = reseq[a] + 1 /\ reseq[a] + 1 # 0
      /\ \A b \in Actor : b # a => reseq'[b] = reseq[b]
  BY <1>1
<1>3. i \in DOMAIN log /\ log[i].actor = a /\ log[i].seq = reseq[a] + 1
  BY DEF Is, Nodes
<1>4. Logged(a, reseq[a]) /\ Logged(a, reseq[a] + 1)
  <2>1. Logged(a, reseq[a] + 1)
    BY DEF Logged, Is
  <2> QED BY <2>1, LoggedBefore
<1>5. sendCount'[a] = Cardinality(SentBy(a, reseq[a] + 1)) /\ sendCount'[a] \in Nat
  <2>1. sendCount[a] = Cardinality(SentBy(a, reseq[a]))
    BY <1>4 DEF Restamped
  <2>2. sendCount'[a] = IF log[i].op = "emit" THEN sendCount[a] + 1 ELSE sendCount[a]
    BY <1>1
  <2> QED BY <2>1, <2>2, SentOnce
<1>6. ASSUME NEW b \in Actor
      PROVE  /\ Logged(b, reseq'[b]) =>
                  /\ [vclock |-> reclock'[b], lamport |-> relamport'[b]] \in Memory(log, b, reseq'[b])
                  /\ sendCount'[b] = Cardinality(SentBy(b, reseq'[b]))
             /\ sendCount'[b] >= Cardinality(SentBy(b, reseq'[b]))
  <2>1. CASE b = a
    <3>1. reclock'[b] = log[i].vclock /\ relamport'[b] = log[i].lamport
      BY <1>1, <2>1
    <3>2. [vclock |-> reclock'[b], lamport |-> relamport'[b]] \in Memory(log, b, reseq'[b])
      BY <1>2, <1>3, <2>1, <3>1 DEF Memory
    <3>3. sendCount'[b] = Cardinality(SentBy(b, reseq'[b])) /\ sendCount'[b] \in Nat
      BY <1>2, <1>5, <2>1
    <3> QED BY <3>2, <3>3
  <2>2. CASE b # a
    <3>1. reclock'[b] = reclock[b] /\ relamport'[b] = relamport[b] /\ sendCount'[b] = sendCount[b]
      BY <1>1, <2>2
    <3> QED BY <1>2, <2>2, <3>1 DEF Restamped
  <2> QED BY <2>1, <2>2
<1>7. \A j \in Nodes : Made(j)' <=> Repeated(j)'
  <2>1. ~DuplicateSeq(log) /\ i \in Nodes
    BY DEF Legible, TimelineInv, BuildOk, Is
  <2>2. \A j \in Nodes : Made(j)' <=> Made(j) \/ j = i
    BY <2>1, MadeStep
  <2> QED BY <2>2, RepeatedOnce DEF Restamped
<1>8. ASSUME NEW d
      PROVE  d \in divergences' <=> Past(d)'
  <2>1. PICK n \in {0, 1} : n = IF log[i].op = "emit" THEN 1 ELSE 0
    OBVIOUS
  <2>2. sendCount' = [sendCount EXCEPT ![a] = @ + n] /\ sendCount'[a] = sendCount[a] + n
    <3>1. CASE log[i].op = "emit"
      BY <1>1, <2>1, <3>1
    <3>2. CASE log[i].op # "emit"
      <4>1. sendCount' = sendCount /\ n = 0
        BY <2>1, <3>2
      <4>2. sendCount[a] + 0 = sendCount[a]
        BY <1>1
      <4>3. [sendCount EXCEPT ![a] = sendCount[a]] = sendCount
        BY <1>1
      <4> QED BY <4>1, <4>2, <4>3
    <3> QED BY <3>1, <3>2
  <2>3. ~(n = 1 /\ sendCount[a] + 1 > Cardinality(Emits(a)))
    <3>1. Cardinality(SentBy(a, reseq[a] + 1)) <= Cardinality(Emits(a))
      BY SentOnce
    <3>2. Cardinality(Emits(a)) \in Nat
      BY EmitsOfPlaces DEF Legible, TimelineInv
    <3> QED BY <1>1, <1>5, <2>2, <3>1, <3>2
  <2>4. Past(d)' <=> Past(d)
    BY <1>4, <2>2, <2>3, PastGrows
  <2> QED BY <2>4 DEF Restamped
<1> QED BY <1>6, <1>7, <1>8, RestampedNext

\* verify accepts what is recorded.
LEMMA Agrees ==
    ASSUME NEW i \in Nodes, NEW ev, log[i] = ev
    PROVE  Replay!Mismatch(ev) = {}
  BY SameKinds DEF Replay!Mismatch

\* The clocks of an actor that takes its next step, other than a receipt.
LEMMA StepsAgain ==
    ASSUME Legible, Restamped, NEW a \in Actor, NEW i, Is(i, a, reseq[a] + 1), ~IsRecv(log[i])
    PROVE  /\ log[i].vclock = Bump(reclock[a], a) /\ log[i].lamport = Tick(relamport[a])
           /\ log[i].op = "emit" => IsEmit(log[i]) /\ log[i].src = a
           /\ log[i].op = "compute" => log[i].msg_id = None /\ log[i].src = None /\ log[i].dst = None
<1>1. i \in DOMAIN log /\ log[i].actor = a /\ log[i].seq = reseq[a] + 1 /\ a # World
  BY ActorAssumption DEF Is, Nodes
<1>2. PICK m : m = [vclock |-> reclock[a], lamport |-> relamport[a]]
  OBVIOUS
<1>3. m \in Memory(log, a, log[i].seq - 1)
  <2>1. log[i].seq - 1 = reseq[a]
    BY <1>1 DEF Legible, ReplayTypes
  <2>2. Logged(a, reseq[a])
    BY LoggedBefore
  <2> QED BY <1>2, <2>1, <2>2 DEF Restamped
<1>4. Stepped(EventsIn(log), log[i], m)
  BY <1>1, <1>3, SoundStep DEF Legible
<1> QED BY <1>1, <1>2, <1>4 DEF Stepped, IsRecv

\* Whatever an actor of the recorded program does next, its next event says.
LEMMA DidAsRecorded ==
    ASSUME Legible, log' = log, NEW a \in Actor, NEW w \in Words, Keeps(a)',
           NEW i, Is(i, a, reseq[a] + 1),
           did' = [did EXCEPT ![a] = Append(@, w)], reseq' = [reseq EXCEPT ![a] = @ + 1]
    PROVE  Word(log[i]) = w
<1>1. reseq'[a] = reseq[a] + 1 /\ did'[a][reseq[a] + 1] = w
  BY DidGrows DEF Legible
<1>2. PICK k \in 1..reseq'[a] : k = reseq[a] + 1
  <2>1. reseq[a] \in Nat
    BY DEF Legible, ReplayTypes
  <2> QED BY <1>1, <2>1
<1>3. \A j \in Nodes' : Is(j, a, k)' => did'[a][k] = Word(log[j])'
  BY DEF Keeps
<1>4. i \in Nodes /\ \A e : Word(e)' = Word(e)
  BY DEF Word, Is
<1> QED BY <1>1, <1>2, <1>3, <1>4, SamePlaces

LEMMA ComputeMatches ==
    ASSUME Legible, Matches, NEW a \in Actor, Replay!Compute(a), ~Astray',
           NEW i, Is(i, a, reseq[a] + 1)
    PROVE  Matches'
<1>1. PICK ev : ev = Replay!ComputeEvent(a, reseq[a] + 1, Replay!Bump(reclock[a], a), Replay!Tick(relamport[a]))
  OBVIOUS
<1>2. /\ phase \in {"userStarted", "userHandle"} /\ phase' = phase
      /\ UNCHANGED <<log, order, rebuilt, reorigins, pending, sendCount, next>>
      /\ Replay!Flag(Replay!Mismatch(ev))
      /\ produced' = produced \cup {Replay!Coordinate(ev)}
      /\ reseq' = [reseq EXCEPT ![a] = @ + 1]
      /\ reclock' = [reclock EXCEPT ![a] = Replay!Bump(reclock[a], a)]
      /\ relamport' = [relamport EXCEPT ![a] = Replay!Tick(relamport[a])]
      /\ did' = [did EXCEPT ![a] = Append(@, <<"compute", None>>)]
  BY <1>1 DEF Replay!Compute, Replay!Acts, Replay!InUserCode, Replay!setupVars, Replay!kahnVars
<1>3. Is(i, a, reseq[a] + 1) /\ Word(log[i]) = <<"compute", None>>
  <2>1. <<"compute", None>> \in Words /\ Keeps(a)'
    BY DEF Words, Astray
  <2> QED BY <1>2, <2>1, DidAsRecorded
<1>4. i \in Nodes /\ log[i] \in Event /\ log[i].actor = a /\ log[i].seq = reseq[a] + 1
  BY <1>3 DEF Is, Legible, ReadableLog, Nodes
<1>5. log[i].op = "compute"
  BY <1>3, <1>4 DEF Word, Event
<1>6. log[i] = ev
  <2>1. /\ log[i].vclock = Bump(reclock[a], a) /\ log[i].lamport = Tick(relamport[a])
        /\ log[i].msg_id = None /\ log[i].src = None /\ log[i].dst = None
    BY <1>3, <1>5, StepsAgain DEF Matches, IsRecv
  <2>2. ev = ComputeEvent(a, reseq[a] + 1, Bump(reclock[a], a), Tick(relamport[a]))
    BY <1>1, SameStamping, SameEvents
  <2> QED BY <1>4, <1>5, <2>1, <2>2 DEF ComputeEvent, Event
<1>7. divergences' = divergences
  BY <1>2, <1>4, <1>6, Agrees DEF Replay!Flag
<1>8. Restamped'
  <2>1. log[i].vclock = Replay!Bump(reclock[a], a) /\ log[i].lamport = Replay!Tick(relamport[a])
    BY <1>3, <1>5, StepsAgain, SameStamping DEF Matches, IsRecv
  <2> QED BY <1>2, <1>3, <1>5, <1>6, <1>7, <2>1, StampsAgain DEF Matches
<1>9. \A j \in Nodes : Repeated(j)' <=> Repeated(j) \/ j = i
  BY <1>2, <1>3, RepeatedOnce
<1>10. ~IsEmit(log[i]) /\ ~IsRecv(log[i])
  BY <1>5 DEF IsEmit, IsRecv
<1>11. Resending'
  BY <1>2, <1>9, <1>10 DEF Matches, Resending, SameStamps, IsEmit, IsRecv, Nodes
<1>12. InStep'
  <2>1. \A k \in DOMAIN order : order[k] \in Nodes
    BY DEF Legible, Tables
  <2> QED BY <1>2, <1>9, <1>10, <2>1 DEF Matches, InStep, Walked, IsRecv
<1> QED BY <1>8, <1>11, <1>12 DEF Matches

\* A message sent again as it was, by the emit that is repeated just now.
LEMMA ResendsOneMore ==
    ASSUME Legible, Resending, log' = log, NEW i \in Nodes, IsEmit(log[i]), NEW env, SameStamps(env, i),
           pending' = Replay!Stash(env),
           \A j \in Nodes : Repeated(j)' <=> Repeated(j) \/ j = i
    PROVE  Resending'
<1>1. /\ env \in pending' /\ env.msg_id = log[i].msg_id
      /\ \A e \in pending' : e \in pending \/ e = env
      /\ \A e \in pending : e.msg_id # log[i].msg_id => e \in pending'
  BY DEF Replay!Stash, SameStamps
<1>2. \A j \in Nodes : IsEmit(log[j]) /\ log[j].msg_id = log[i].msg_id => j = i
  BY OneEmit DEF Legible, Sound, Nodes
<1>3. ASSUME NEW j \in Nodes, IsEmit(log[j]), Repeated(j)'
      PROVE  \/ \E r \in Nodes : IsRecv(log[r]) /\ log[r].msg_id = log[j].msg_id /\ Repeated(r)'
             \/ \E e \in pending' : e.msg_id = log[j].msg_id
  <2>1. CASE j = i
    BY <1>1, <2>1
  <2>2. CASE j # i
    <3>1. Repeated(j) /\ log[j].msg_id # log[i].msg_id
      BY <1>2, <1>3, <2>2
    <3>2. \/ \E r \in Nodes : IsRecv(log[r]) /\ log[r].msg_id = log[j].msg_id /\ Repeated(r)
          \/ \E e \in pending : e.msg_id = log[j].msg_id
      BY <1>3, <3>1 DEF Resending
    <3> QED BY <1>1, <3>1, <3>2
  <2> QED BY <2>1, <2>2
<1>4. \A e \in pending' :
        e.msg_id < 0 \/ \E j \in Nodes : IsEmit(log[j]) /\ Repeated(j)' /\ SameStamps(e, j)
  BY <1>1 DEF Resending
<1>5. Nodes' = Nodes /\ (\A e : IsEmit(e)' = IsEmit(e) /\ IsRecv(e)' = IsRecv(e))
      /\ \A e, j : SameStamps(e, j)' = SameStamps(e, j)
  BY DEF Nodes, IsEmit, IsRecv, SameStamps
<1> QED BY <1>3, <1>4, <1>5 DEF Resending

LEMMA SendMatches ==
    ASSUME Legible, Matches, NEW a \in Actor, NEW to \in Actor, Replay!Send(a, to), ~Astray',
           NEW i, Is(i, a, reseq[a] + 1)
    PROVE  Matches'
<1>1. PICK typed, env, ev, id :
        /\ id = Replay!RecordedId(a, sendCount[a] + 1)
        /\ env = [vclock |-> Replay!Bump(reclock[a], a), lamport |-> Replay!Tick(relamport[a]),
                  msg_id |-> id, src |-> a, dst |-> to, typed |-> typed]
        /\ ev = Replay!EmitEvent(a, reseq[a] + 1, env)
        /\ Replay!Flag((IF id < 0 THEN {Replay!Divergence(<<a, id>>, "more sends")} ELSE {})
                         \cup Replay!Mismatch(ev))
        /\ produced' = produced \cup {Replay!Coordinate(ev)}
        /\ pending' = Replay!Stash(env)
  BY DEF Replay!Send
<1>2. /\ phase \in {"userStarted", "userHandle"} /\ phase' = phase
      /\ UNCHANGED <<log, order, rebuilt, reorigins, next>>
      /\ reseq' = [reseq EXCEPT ![a] = @ + 1]
      /\ reclock' = [reclock EXCEPT ![a] = Replay!Bump(reclock[a], a)]
      /\ relamport' = [relamport EXCEPT ![a] = Replay!Tick(relamport[a])]
      /\ sendCount' = [sendCount EXCEPT ![a] = sendCount[a] + 1]
      /\ did' = [did EXCEPT ![a] = Append(@, <<"send", to>>)]
  BY DEF Replay!Send, Replay!Acts, Replay!InUserCode, Replay!setupVars, Replay!kahnVars
<1>3. Is(i, a, reseq[a] + 1) /\ Word(log[i]) = <<"send", to>>
  <2>1. <<"send", to>> \in Words /\ Keeps(a)'
    BY DEF Words, Astray
  <2> QED BY <1>2, <2>1, DidAsRecorded
<1>4. i \in Nodes /\ log[i] \in Event /\ log[i].actor = a /\ log[i].seq = reseq[a] + 1
  BY <1>3 DEF Is, Legible, ReadableLog, Nodes
<1>5. log[i].op = "emit" /\ log[i].dst = to
  BY <1>3, <1>4 DEF Word, Event
<1>6. /\ log[i].vclock = Replay!Bump(reclock[a], a) /\ log[i].lamport = Replay!Tick(relamport[a])
      /\ IsEmit(log[i]) /\ log[i].src = a
  BY <1>3, <1>5, StepsAgain, SameStamping DEF Matches, IsRecv
<1>7. id = log[i].msg_id /\ id \in Nat
  <2>1. PICK j : j = sendCount[a] + 1
    OBVIOUS
  <2>2. j = Cardinality(SentBy(a, log[i].seq))
    <3>1. sendCount[a] = Cardinality(SentBy(a, reseq[a]))
      BY LoggedBefore DEF Matches, Restamped
    <3> QED BY <1>3, <1>4, <1>5, <2>1, <3>1, SentOnce
  <2>3. i \in Emits(a) /\ SentBy(a, log[i].seq) = {k \in Emits(a) : log[k].seq <= log[i].seq}
    BY <1>4, <1>5 DEF Emits, SentBy
  <2>4. j \in DOMAIN Replay!EmitsOf(a) /\ Replay!EmitsOf(a)[j] = i
    BY <2>2, <2>3, EmitsOfPlaces DEF Legible, TimelineInv
  <2>5. log[i].msg_id # None /\ log[i].msg_id \in Nat
    BY <1>4, <1>6, LogTypes DEF IsEmit, Legible, Nodes
  <2> QED BY <1>1, <2>1, <2>4, <2>5 DEF Replay!RecordedId
<1>8. log[i] = ev
  <2>1. ev = EmitEvent(a, reseq[a] + 1, env)
    BY <1>1, SameEvents
  <2> QED BY <1>1, <1>4, <1>5, <1>6, <1>7, <2>1 DEF EmitEvent, Event
<1>9. divergences' = divergences
  <2>1. ~(id < 0)
    BY <1>7
  <2>2. Replay!Mismatch(ev) = {}
    BY <1>4, <1>8, Agrees
  <2> QED BY <1>1, <2>1, <2>2 DEF Replay!Flag
<1>10. Restamped'
  <2>1. sendCount' = [sendCount EXCEPT ![a] = @ + 1]
    BY <1>2
  <2> QED BY <1>1, <1>2, <1>3, <1>5, <1>6, <1>8, <1>9, <2>1, StampsAgain DEF Matches
<1>11. \A j \in Nodes : Repeated(j)' <=> Repeated(j) \/ j = i
  BY <1>2, <1>3, RepeatedOnce
<1>12. Resending'
  <2>1. SameStamps(env, i)
    BY <1>1, <1>6, <1>7 DEF SameStamps
  <2> QED BY <1>1, <1>2, <1>4, <1>6, <1>11, <2>1, ResendsOneMore DEF Matches
<1>13. InStep'
  <2>1. \A k \in DOMAIN order : order[k] \in Nodes
    BY DEF Legible, Tables
  <2>2. ~IsRecv(log[i])
    BY <1>5 DEF IsRecv
  <2> QED BY <1>2, <1>11, <2>1, <2>2 DEF Matches, InStep, Walked, IsRecv
<1> QED BY <1>10, <1>12, <1>13 DEF Matches

\* verify says of an event past the end of the log that it was not recorded.
LEMMA Unrecorded ==
    ASSUME NEW a \in Actor, NEW t, ~Logged(a, t), NEW ev, ev.actor = a, ev.seq = t
    PROVE  Replay!Mismatch(ev) = {Replay!Divergence(<<a, t>>, "unrecorded")}
<1>1. \A i \in Replay!Nodes : Replay!Coordinate(log[i]) # Replay!Coordinate(ev)
  BY SameKinds DEF Replay!Coordinate, Logged, Is
<1>2. Replay!Coordinate(ev) = <<a, t>>
  BY DEF Replay!Coordinate
<1>3. {i \in Replay!Nodes : Replay!Coordinate(log[i]) = Replay!Coordinate(ev)} = {}
  BY <1>1
<1> QED BY <1>2, <1>3 DEF Replay!Mismatch

\* Past the end of its log an actor gets ids that no recorded message has.
LEMMA SentinelIds ==
    ASSUME Legible, Restamped, NEW a \in Actor, ~Logged(a, reseq[a] + 1)
    PROVE  /\ sendCount[a] \in Nat /\ sendCount[a] + 1 > Cardinality(Emits(a))
           /\ Replay!RecordedId(a, sendCount[a] + 1) = -(sendCount[a] + 1)
<1>1. sendCount[a] \in Nat /\ Cardinality(Emits(a)) \in Nat
  BY EmitsOfPlaces DEF Legible, ReplayTypes, TimelineInv
<1>2. sendCount[a] >= Cardinality(Emits(a))
  BY AllSent DEF Restamped
<1>3. sendCount[a] + 1 \notin DOMAIN Replay!EmitsOf(a)
  <2>1. DOMAIN Replay!EmitsOf(a) = 1..Cardinality(Emits(a))
    BY EmitsOfPlaces DEF Legible, TimelineInv
  <2> QED BY <1>1, <1>2, <2>1
<1> QED BY <1>1, <1>2, <1>3 DEF Replay!RecordedId

\* What an actor does past the end of its log is reported, and changes nothing
\* for the others.
LEMMA BeyondMatches ==
    ASSUME Legible, Matches, NEW a \in Actor, ~Logged(a, reseq[a] + 1),
           Replay!Compute(a) \/ \E to \in Actor : Replay!Send(a, to)
    PROVE  Matches'
<1> DEFINE
      Adds(n, ev, env, over) ==
        /\ phase \in {"userStarted", "userHandle"} /\ phase' = phase
        /\ UNCHANGED <<log, order, rebuilt, reorigins, next>>
        /\ reseq' = [reseq EXCEPT ![a] = @ + 1]
        /\ sendCount' = [sendCount EXCEPT ![a] = @ + n]
        /\ \A b \in Actor : b # a => reclock'[b] = reclock[b] /\ relamport'[b] = relamport[b]
        /\ ev.actor = a /\ ev.seq = reseq[a] + 1
        /\ produced' = produced \cup {Replay!Coordinate(ev)}
        /\ divergences' = divergences \cup over \cup Replay!Mismatch(ev)
        /\ n = 0 => pending' = pending /\ over = {}
        /\ n = 1 => /\ env.msg_id = -(sendCount[a] + 1) /\ pending' = Replay!Stash(env)
                    /\ over = {Replay!Divergence(<<a, -(sendCount[a] + 1)>>, "more sends")}
<1>0. PICK n \in {0, 1} : \E ev, env, over : Adds(n, ev, env, over)
  <2>0. reclock \in [Actor -> VClock] /\ relamport \in [Actor -> Nat] /\ sendCount \in [Actor -> Nat]
    BY DEF Legible, ReplayTypes
  <2>3. ~(0 = 1) /\ ~(1 = 0)
    OBVIOUS
  <2>1. ASSUME Replay!Compute(a)
        PROVE  \E ev, env, over : Adds(0, ev, env, over)
    <3>1. PICK ev : ev = Replay!ComputeEvent(a, reseq[a] + 1, Replay!Bump(reclock[a], a), Replay!Tick(relamport[a]))
      OBVIOUS
    <3>2. /\ phase \in {"userStarted", "userHandle"} /\ phase' = phase
          /\ UNCHANGED <<log, order, rebuilt, reorigins, pending, sendCount, next>>
          /\ divergences' = divergences \cup Replay!Mismatch(ev)
          /\ produced' = produced \cup {Replay!Coordinate(ev)}
          /\ reseq' = [reseq EXCEPT ![a] = @ + 1]
          /\ reclock' = [reclock EXCEPT ![a] = Replay!Bump(reclock[a], a)]
          /\ relamport' = [relamport EXCEPT ![a] = Replay!Tick(relamport[a])]
      BY <2>1, <3>1 DEF Replay!Compute, Replay!Acts, Replay!InUserCode, Replay!Flag, Replay!setupVars, Replay!kahnVars
    <3>3. ev.actor = a /\ ev.seq = reseq[a] + 1
      BY <3>1 DEF Replay!ComputeEvent
    <3>4. sendCount' = [sendCount EXCEPT ![a] = @ + 0]
      BY <2>0, <3>2
    <3>5. \A b \in Actor : b # a => reclock'[b] = reclock[b] /\ relamport'[b] = relamport[b]
      BY <2>0, <3>2
    <3>6. PICK over : over = {}
      OBVIOUS
    <3>7. divergences' = divergences \cup over \cup Replay!Mismatch(ev)
      <4>1. divergences \cup over = divergences
        BY <3>6
      <4> QED BY <3>2, <4>1
    <3>8. /\ UNCHANGED <<log, order, rebuilt, reorigins, next>>
          /\ pending' = pending
      BY <3>2
    <3> WITNESS ev, ev, over
    <3> QED BY <2>3, <3>2, <3>3, <3>4, <3>5, <3>6, <3>7, <3>8, Zenon
  <2>2. ASSUME NEW to \in Actor, Replay!Send(a, to)
        PROVE  \E ev, env, over : Adds(1, ev, env, over)
    <3>1. PICK typed, env, ev, id :
            /\ id = Replay!RecordedId(a, sendCount[a] + 1)
            /\ env = [vclock |-> Replay!Bump(reclock[a], a), lamport |-> Replay!Tick(relamport[a]),
                      msg_id |-> id, src |-> a, dst |-> to, typed |-> typed]
            /\ ev = Replay!EmitEvent(a, reseq[a] + 1, env)
            /\ Replay!Flag((IF id < 0 THEN {Replay!Divergence(<<a, id>>, "more sends")} ELSE {})
                             \cup Replay!Mismatch(ev))
            /\ produced' = produced \cup {Replay!Coordinate(ev)}
            /\ pending' = Replay!Stash(env)
      BY <2>2 DEF Replay!Send
    <3>2. /\ phase \in {"userStarted", "userHandle"} /\ phase' = phase
          /\ UNCHANGED <<log, order, rebuilt, reorigins, next>>
          /\ reseq' = [reseq EXCEPT ![a] = @ + 1]
          /\ reclock' = [reclock EXCEPT ![a] = Replay!Bump(reclock[a], a)]
          /\ relamport' = [relamport EXCEPT ![a] = Replay!Tick(relamport[a])]
          /\ sendCount' = [sendCount EXCEPT ![a] = sendCount[a] + 1]
      BY <2>2 DEF Replay!Send, Replay!Acts, Replay!InUserCode, Replay!setupVars, Replay!kahnVars
    <3>3. id = -(sendCount[a] + 1) /\ id < 0
      <4>1. id = -(sendCount[a] + 1)
        BY <3>1, SentinelIds DEF Matches
      <4>2. PICK m : m = sendCount[a]
        OBVIOUS
      <4>3. m \in Nat
        BY <2>0, <4>2
      <4>4. -(m + 1) < 0
        BY <4>3
      <4> QED BY <4>1, <4>2, <4>4
    <3>4. PICK over : over = {Replay!Divergence(<<a, id>>, "more sends")}
      OBVIOUS
    <3>5. divergences' = divergences \cup over \cup Replay!Mismatch(ev)
      <4>1. divergences' = divergences \cup (over \cup Replay!Mismatch(ev))
        BY <3>1, <3>3, <3>4 DEF Replay!Flag
      <4> QED BY <4>1
    <3>6. ev.actor = a /\ ev.seq = reseq[a] + 1
      BY <3>1 DEF Replay!EmitEvent
    <3>7. \A b \in Actor : b # a => reclock'[b] = reclock[b] /\ relamport'[b] = relamport[b]
      BY <2>0, <3>2
    <3>8. sendCount' = [sendCount EXCEPT ![a] = @ + 1]
      BY <3>2
    <3>9. env.msg_id = -(sendCount[a] + 1) /\ over = {Replay!Divergence(<<a, -(sendCount[a] + 1)>>, "more sends")}
      BY <3>1, <3>3, <3>4
    <3> WITNESS ev, env, over
    <3> QED BY <2>3, <3>1, <3>2, <3>5, <3>6, <3>7, <3>8, <3>9, Zenon
  <2> HIDE DEF Adds
  <2> QED BY <2>1, <2>2, <2>3
<1>1. PICK ev, env, over : Adds(n, ev, env, over)
  BY <1>0
<1>2. /\ reseq \in [Actor -> Nat] /\ sendCount \in [Actor -> Nat]
      /\ reseq'[a] = reseq[a] + 1 /\ sendCount'[a] = sendCount[a] + n
      /\ \A b \in Actor : b # a => reseq'[b] = reseq[b] /\ sendCount'[b] = sendCount[b]
  BY <1>1 DEF Legible, ReplayTypes
<1>3. \A j \in Nodes : Repeated(j)' <=> Repeated(j)
  <2>1. log' = log /\ reseq' = [reseq EXCEPT ![a] = @ + 1] /\ phase # "origins" /\ phase' # "origins"
    BY <1>1
  <2> QED BY <2>1, RepeatedNoMore
<1>4. \A d : d \in divergences' <=> Past(d)'
  <2> TAKE d
  <2>1. Replay!Mismatch(ev) = {Replay!Divergence(<<a, reseq[a] + 1>>, "unrecorded")}
    <3>1. ev.actor = a /\ ev.seq = reseq[a] + 1
      BY <1>1, Zenon
    <3> QED BY <3>1, Unrecorded
  <2>2. sendCount[a] + 1 > Cardinality(Emits(a))
    BY SentinelIds DEF Matches
  <2>3. Past(d)' <=> \/ Past(d)
                     \/ d = Replay!Divergence(<<a, reseq[a] + 1>>, "unrecorded")
                     \/ n = 1 /\ d = Replay!Divergence(<<a, -(sendCount[a] + 1)>>, "more sends")
    BY <1>1, <2>2, PastGrows
  <2>4. d \in over <=> n = 1 /\ d = Replay!Divergence(<<a, -(sendCount[a] + 1)>>, "more sends")
    <3>1. CASE n = 0
      BY <1>1, <3>1
    <3>2. CASE n = 1
      BY <1>1, <3>2
    <3> QED BY <3>1, <3>2
  <2>5. d \in divergences <=> Past(d)
    BY DEF Matches, Restamped
  <2> QED BY <1>1, <2>1, <2>3, <2>4, <2>5
<1>5. Restamped'
  <2>1. ASSUME NEW b \in Actor
        PROVE  /\ Logged(b, reseq'[b]) =>
                    /\ [vclock |-> reclock'[b], lamport |-> relamport'[b]] \in Memory(log, b, reseq'[b])
                    /\ sendCount'[b] = Cardinality(SentBy(b, reseq'[b]))
               /\ sendCount'[b] >= Cardinality(SentBy(b, reseq'[b]))
    <3>1. CASE b = a
      <4>1. ~Logged(b, reseq'[b])
        BY <1>2, <3>1
      <4>2. SentBy(b, reseq'[b]) = Emits(a) /\ Cardinality(Emits(a)) \in Nat
        BY <1>2, <3>1, AllSent, EmitsOfPlaces DEF Legible, TimelineInv
      <4>3. sendCount[a] + 1 > Cardinality(Emits(a)) /\ sendCount[a] \in Nat
        BY SentinelIds DEF Matches
      <4>4. sendCount'[b] >= Cardinality(Emits(a))
        BY <1>2, <3>1, <4>2, <4>3
      <4> QED BY <4>1, <4>2, <4>4
    <3>2. CASE b # a
      <4>1. reclock'[b] = reclock[b] /\ relamport'[b] = relamport[b]
        BY <1>1, <3>2
      <4> QED BY <1>2, <3>2, <4>1 DEF Matches, Restamped
    <3> QED BY <3>1, <3>2
  <2>2. \A j \in Nodes : Made(j)' <=> Repeated(j)'
    <3>1. \A j \in Nodes : Replay!Coordinate(log[j]) # Replay!Coordinate(ev)
      BY <1>1 DEF Replay!Coordinate, Logged, Is
    <3>2. \A j \in Nodes : Made(j)' <=> Made(j)
      BY <1>1, <3>1 DEF Made, Replay!Coordinate
    <3> QED BY <1>3, <3>2 DEF Matches, Restamped
  <2> QED BY <1>1, <1>4, <2>1, <2>2, RestampedNext
<1>6. Resending'
  <2>1. /\ \A e \in pending' : e \in pending \/ e.msg_id < 0
        /\ \A e \in pending : e \in pending' \/ e.msg_id < 0
    <3>1. CASE n = 0
      BY <1>1, <3>1
    <3>2. CASE n = 1
      <4>1. env.msg_id < 0
        <5>1. PICK m : m = sendCount[a]
          OBVIOUS
        <5>2. m \in Nat /\ env.msg_id = -(m + 1)
          BY <1>1, <1>2, <3>2, <5>1
        <5>3. -(m + 1) < 0
          BY <5>2
        <5> QED BY <5>2, <5>3
      <4> QED BY <1>1, <3>2, <4>1 DEF Replay!Stash
    <3> QED BY <3>1, <3>2
  <2>2. ASSUME NEW j \in Nodes, IsEmit(log[j]), Repeated(j)'
        PROVE  \/ \E r \in Nodes : IsRecv(log[r]) /\ log[r].msg_id = log[j].msg_id /\ Repeated(r)'
               \/ \E f \in pending' : f.msg_id = log[j].msg_id
    <3>1. log[j].msg_id \in Nat
      BY <2>2, LogTypes DEF IsEmit, Legible, Nodes
    <3>2. \/ \E r \in Nodes : IsRecv(log[r]) /\ log[r].msg_id = log[j].msg_id /\ Repeated(r)
          \/ \E f \in pending : f.msg_id = log[j].msg_id
      BY <1>3, <2>2 DEF Matches, Resending
    <3>3. \A f \in pending : f.msg_id = log[j].msg_id => f \in pending'
      BY <2>1, <3>1
    <3> QED BY <1>3, <3>2, <3>3
  <2>3. \A f \in pending' :
          f.msg_id < 0 \/ \E j \in Nodes : IsEmit(log[j]) /\ Repeated(j)' /\ SameStamps(f, j)
    BY <1>3, <2>1 DEF Matches, Resending
  <2>4. Nodes' = Nodes /\ (\A f : IsEmit(f)' = IsEmit(f) /\ IsRecv(f)' = IsRecv(f))
        /\ \A f, j : SameStamps(f, j)' = SameStamps(f, j)
    BY <1>1 DEF Nodes, IsEmit, IsRecv, SameStamps
  <2> QED BY <1>1, <2>2, <2>3, <2>4 DEF Resending
<1>7. InStep'
  <2>1. \A k \in DOMAIN order : order[k] \in Nodes
    BY DEF Legible, Tables
  <2> QED BY <1>1, <1>3, <2>1 DEF Matches, InStep, Walked, IsRecv
<1> QED BY <1>5, <1>6, <1>7 DEF Matches

LEMMA SeedMatches ==
    ASSUME Legible, Matches, Replay!SeedOrigin, ~Astray
    PROVE  Matches'
<1>1. /\ phase = "origins" /\ phase' = "origins" /\ next' = next + 1 /\ next \in Nat /\ next >= 1
      /\ UNCHANGED <<log, order, reorigins, reclock, relamport, reseq, sendCount>>
  <2>1. next \in Nat \ {0}
    BY DEF Legible, ReplayTypes
  <2>2. next \in Nat /\ next >= 1
    BY <2>1
  <2> QED BY <2>2 DEF Replay!SeedOrigin, Replay!setupVars, Replay!taskVars, Replay!kahnVars
<1>2. PICK L : L = Replay!EmitsOf(World)
  OBVIOUS
<1>3. PICK n \in Nat : /\ DOMAIN L = 1..n /\ Len(L) = n /\ \A k \in 1..n : L[k] \in Emits(World)
                       /\ \A k, l \in 1..n : L[k] = L[l] => k = l
  BY <1>2, EmitsOfPlaces DEF Legible, TimelineInv
<1>4. next \in 1..n
  BY <1>2, <1>3 DEF Replay!SeedOrigin
<1>5. PICK i \in Nodes : i = L[next] /\ log[i].actor = World /\ log[i].op = "emit"
  BY <1>3, <1>4 DEF Emits
<1>6. IsEmit(log[i]) /\ log[i].src = World
  BY <1>5 DEF Legible, Sound, IsOrigin, Nodes
<1>7. next \in DOMAIN reorigins
  <2>1. reorigins \in Seq(Stimulus)
    BY DEF Legible, ReplayTypes
  <2>2. ~(n > Len(reorigins))
    BY <1>2, <1>3 DEF Astray
  <2> QED BY <1>3, <1>4, <2>1, <2>2
<1>8. PICK env : env = [vclock |-> log[i].vclock, lamport |-> log[i].lamport,
                        msg_id |-> log[i].msg_id, src |-> World,
                        dst |-> reorigins[next].to, typed |-> reorigins[next].typed]
  OBVIOUS
<1>9. /\ pending' = Replay!Stash(env) /\ produced' = produced \cup {Replay!Coordinate(log[i])}
      /\ divergences' = divergences
  BY <1>2, <1>5, <1>6, <1>7, <1>8 DEF Replay!SeedOrigin, IsEmit
<1>10. \A j \in Nodes : Repeated(j)' <=> Repeated(j) \/ j = i
  <2> TAKE j \in Nodes
  <2>1. CASE log[j].actor = World
    <3>1. Repeated(j) <=> \E k \in 1..n : k <= next - 1 /\ L[k] = j
      BY <1>1, <1>2, <1>3, <2>1 DEF Repeated, Seeded
    <3>2. Repeated(j)' <=> \E k \in 1..n : k <= next /\ L[k] = j
      <4>1. Seeded' = next
        BY <1>1 DEF Seeded
      <4> QED BY <1>1, <1>2, <1>3, <2>1, <4>1, SamePlaces DEF Repeated
    <3>3. \A k \in 1..n : k <= next <=> k <= next - 1 \/ k = next
      BY <1>1
    <3> QED BY <1>3, <1>4, <1>5, <3>1, <3>2, <3>3
  <2>2. CASE log[j].actor # World
    BY <1>1, <1>5, <2>2 DEF Repeated
  <2> QED BY <2>1, <2>2
<1>11. Restamped'
  <2>1. \A j \in Nodes : Made(j)' <=> Made(j) \/ j = i
    BY <1>1, <1>9, MadeStep DEF Legible, TimelineInv, BuildOk
  <2>2. \A j \in Nodes : Made(j)' <=> Repeated(j)'
    BY <1>10, <2>1 DEF Matches, Restamped
  <2>3. \A d : d \in divergences' <=> Past(d)'
    BY <1>1, <1>9, SamePast DEF Matches, Restamped
  <2> QED BY <1>1, <1>9, <2>2, <2>3, SamePlaces DEF Matches, Restamped
<1>12. Resending'
  <2>1. SameStamps(env, i)
    BY <1>6, <1>8 DEF SameStamps
  <2> QED BY <1>1, <1>6, <1>9, <1>10, <2>1, ResendsOneMore DEF Matches
<1>13. InStep'
  <2>1. \A k \in DOMAIN order : order[k] \in Nodes
    BY DEF Legible, Tables
  <2>2. ~IsRecv(log[i])
    BY <1>5 DEF IsRecv
  <2> QED BY <1>1, <1>10, <2>1, <2>2 DEF Matches, InStep, Walked, IsRecv
<1> QED BY <1>11, <1>12, <1>13 DEF Matches

LEMMA ReceiveMatches ==
    ASSUME Legible, Matches, Replay!Receive, ~Astray
    PROVE  Matches' /\ divergences' = divergences
<1>1. PICK i, p, a : p = Replay!Place /\ i = order[p] /\ a = Replay!Receipt.actor
  OBVIOUS
<1>2. /\ p \in DOMAIN order /\ p >= next /\ IsRecv(log[i]) /\ i \in Nodes /\ Replay!Receipt = log[i]
      /\ \A k \in DOMAIN order : k >= next /\ IsRecv(log[order[k]]) => p <= k
  BY <1>1, PlaceIsFirst DEF Legible, Replay!Receive
<1>3. a \in Actor /\ a = log[i].actor /\ a \in rebuilt
  <2>1. a \in Actor /\ a = log[i].actor
    BY <1>1, <1>2 DEF Legible, ReadableLog, Nodes
  <2> QED BY <1>2, <2>1, ActorAssumption DEF Astray
<1>4. PICK env, ev :
        /\ env \in pending /\ env.msg_id = Replay!Receipt.msg_id
        /\ ev = Replay!RecvEvent(a, reseq[a] + 1, Replay!Bump(Replay!Join(reclock[a], env.vclock), a),
                                 Replay!Update(relamport[a], env.lamport), env)
        /\ reclock' = [reclock EXCEPT ![a] = Replay!Bump(Replay!Join(reclock[a], env.vclock), a)]
        /\ relamport' = [relamport EXCEPT ![a] = Replay!Update(relamport[a], env.lamport)]
        /\ Replay!Flag(Replay!Mismatch(ev)
             \cup IF a \in rebuilt THEN {}
                  ELSE {Replay!Divergence(Replay!Coordinate(Replay!Receipt), "not rebuilt")})
        /\ produced' = produced \cup {Replay!Coordinate(ev)}
        /\ pending' = pending \ {env}
        /\ phase' = CASE a \notin rebuilt -> "walk"
                      [] a \in rebuilt /\ Replay!Fits(env, a) -> "userHandle"
                      [] a \in rebuilt /\ ~Replay!Fits(env, a) -> "panicked"
  BY <1>1 DEF Replay!Receive, Replay!Due, Replay!Take, Replay!Enter
<1>5. /\ phase = "walk" /\ phase' \in {"userHandle", "panicked"} /\ next' = p + 1
      /\ reseq' = [reseq EXCEPT ![a] = @ + 1]
      /\ UNCHANGED <<log, order, reorigins, sendCount>>
  BY <1>1, <1>3, <1>4 DEF Replay!Receive, Replay!setupVars, Replay!kahnVars
<1>6. Is(i, a, reseq[a] + 1)
  BY <1>1, <1>5, InTurn DEF Matches, Replay!Receive
<1>7. PICK e \in Nodes : IsEmit(log[e]) /\ SameStamps(env, e)
  <2>1. ~(env.msg_id < 0)
    <3>1. PICK m : m = log[i].msg_id
      OBVIOUS
    <3>2. m \in Nat /\ env.msg_id = m
      <4>1. PICK j \in DOMAIN log : IsEmit(log[j]) /\ log[j].msg_id = log[i].msg_id
        BY <1>2 DEF Legible, TimelineInv, BuildOk, MissingEmit, Nodes
      <4>2. log[j].msg_id \in Nat
        BY <4>1, LogTypes DEF IsEmit, Legible
      <4> QED BY <1>2, <1>4, <3>1, <4>1, <4>2
    <3>3. ~(m < 0)
      BY <3>2
    <3> QED BY <3>2, <3>3
  <2> QED BY <1>4, <2>1 DEF Matches, Resending
<1>8. /\ i \in DOMAIN log /\ e \in DOMAIN log /\ log[i] \in Event
      /\ log[i].actor = a /\ log[i].seq = reseq[a] + 1 /\ log[i].op = "recv"
      /\ env.msg_id = log[i].msg_id
  <2>1. i \in DOMAIN log /\ e \in DOMAIN log /\ log[i] \in Event
    BY <1>2, <1>7 DEF Legible, ReadableLog, Nodes
  <2>2. log[i].actor = a /\ log[i].seq = reseq[a] + 1
    BY <1>6 DEF Is
  <2>3. log[i].op = "recv" /\ env.msg_id = log[i].msg_id
    BY <1>2, <1>4 DEF IsRecv
  <2> QED BY <2>1, <2>2, <2>3
<1>9. /\ log[i].dst = a /\ log[i].src = env.src
      /\ log[i].vclock = Bump(Join(reclock[a], env.vclock), a)
      /\ log[i].lamport = Update(relamport[a], env.lamport)
  <2>1. PICK m : m = [vclock |-> reclock[a], lamport |-> relamport[a]]
    OBVIOUS
  <2>2. m \in Memory(log, log[i].actor, log[i].seq - 1)
    <3>1. log[i].seq - 1 = reseq[a]
      BY <1>3, <1>8 DEF Legible, ReplayTypes
    <3>2. Logged(a, reseq[a])
      BY <1>3, <1>6, LoggedBefore
    <3> QED BY <1>3, <1>8, <2>1, <3>1, <3>2 DEF Matches, Restamped
  <2>3. log[e].msg_id = log[i].msg_id
    BY <1>7, <1>8 DEF SameStamps
  <2>4. /\ log[i].dst = log[i].actor /\ Meets(log[e], log[i])
        /\ log[i].vclock = Bump(Join(m.vclock, log[e].vclock), log[i].actor)
        /\ log[i].lamport = Update(m.lamport, log[e].lamport)
    BY <1>2, <1>7, <1>8, <2>2, <2>3, SoundReceipt DEF Legible
  <2> QED BY <1>7, <1>8, <2>1, <2>4 DEF Meets, SameStamps
<1>10. log[i] = ev
  <2>1. ev = RecvEvent(a, reseq[a] + 1, Bump(Join(reclock[a], env.vclock), a), Update(relamport[a], env.lamport), env)
    BY <1>4, SameStamping, SameEvents
  <2> QED BY <1>8, <1>9, <2>1 DEF RecvEvent, Event
<1>11. divergences' = divergences
  <2>1. Replay!Mismatch(ev) = {}
    BY <1>2, <1>10, Agrees
  <2> QED BY <1>3, <1>4, <2>1 DEF Replay!Flag
<1>12. Restamped'
  <2>1. /\ log[i].vclock = Replay!Bump(Replay!Join(reclock[a], env.vclock), a)
        /\ log[i].lamport = Replay!Update(relamport[a], env.lamport)
    BY <1>9, SameStamping
  <2>2. /\ reclock' = [reclock EXCEPT ![a] = log[i].vclock]
        /\ relamport' = [relamport EXCEPT ![a] = log[i].lamport]
        /\ produced' = produced \cup {Replay!Coordinate(log[i])}
        /\ sendCount' = IF log[i].op = "emit" THEN [sendCount EXCEPT ![a] = @ + 1] ELSE sendCount
    BY <1>4, <1>5, <1>8, <1>10, <2>1
  <2>3. phase # "origins" /\ phase' # "origins"
    BY <1>5
  <2> QED BY <1>3, <1>5, <1>6, <1>11, <2>2, <2>3, StampsAgain DEF Matches
<1>13. \A j \in Nodes : Repeated(j)' <=> Repeated(j) \/ j = i
  BY <1>3, <1>5, <1>6, RepeatedOnce
<1>14. Resending'
  <2>1. ASSUME NEW j \in Nodes, IsEmit(log[j]), Repeated(j)'
        PROVE  \/ \E r \in Nodes : IsRecv(log[r]) /\ log[r].msg_id = log[j].msg_id /\ Repeated(r)'
               \/ \E f \in pending' : f.msg_id = log[j].msg_id
    <3>1. Repeated(j)
      BY <1>2, <1>13, <2>1 DEF IsEmit, IsRecv
    <3>2. CASE \E r \in Nodes : IsRecv(log[r]) /\ log[r].msg_id = log[j].msg_id /\ Repeated(r)
      BY <1>13, <3>2
    <3>3. ASSUME NEW f \in pending, f.msg_id = log[j].msg_id
          PROVE  \/ f \in pending'
                 \/ log[i].msg_id = log[j].msg_id /\ Repeated(i)'
      BY <1>2, <1>4, <1>8, <1>13, <3>3
    <3> QED BY <1>2, <2>1, <3>1, <3>2, <3>3 DEF Matches, Resending
  <2>2. \A f \in pending' :
          f.msg_id < 0 \/ \E j \in Nodes : IsEmit(log[j]) /\ Repeated(j)' /\ SameStamps(f, j)
    BY <1>4, <1>13 DEF Matches, Resending
  <2>3. Nodes' = Nodes /\ (\A f : IsEmit(f)' = IsEmit(f) /\ IsRecv(f)' = IsRecv(f))
        /\ \A f, j : SameStamps(f, j)' = SameStamps(f, j)
    BY <1>5 DEF Nodes, IsEmit, IsRecv, SameStamps
  <2> QED BY <1>5, <2>1, <2>2, <2>3 DEF Resending
<1>15. InStep'
  <2>1. ASSUME NEW k \in DOMAIN order, IsRecv(log[order[k]])
        PROVE  Repeated(order[k])' <=> k < p + 1
    <3>1. order[k] \in Nodes /\ k \in Nat /\ p \in Nat /\ next \in Nat
      <4>1. DOMAIN order \subseteq Nat /\ \A l \in DOMAIN order : order[l] \in Nodes
        BY DEF Legible, Tables
      <4> QED BY <1>2, <4>1 DEF Legible, ReplayTypes
    <3>2. Repeated(order[k]) <=> k < next
      BY <1>5, <2>1 DEF Matches, InStep, Walked
    <3>3. order[k] = i <=> k = p
      BY <1>1, <1>2 DEF Legible, TimelineInv, CausesFirst
    <3>4. k < p + 1 <=> k < next \/ k = p
      BY <1>2, <2>1, <3>1
    <3> QED BY <1>5, <1>13, <3>1, <3>2, <3>3, <3>4
  <2> QED BY <1>5, <2>1 DEF InStep, Walked, IsRecv
<1> QED BY <1>11, <1>12, <1>14, <1>15 DEF Matches

LEMMA EmitHasPlace ==
    ASSUME ReadableLog(log), BuildOk(log), NEW n, NEW i \in Emits(n)
    PROVE  \E k \in DOMAIN Replay!EmitsOf(n) : k <= Len(Replay!EmitsOf(n)) /\ Replay!EmitsOf(n)[k] = i
<1>1. PICK k : k = Cardinality({j \in Emits(n) : log[j].seq <= log[i].seq})
  OBVIOUS
<1>2. k \in 1..Cardinality(Emits(n)) /\ Replay!EmitsOf(n)[k] = i
  BY <1>1, EmitsOfPlaces
<1>3. Len(Replay!EmitsOf(n)) = Cardinality(Emits(n)) /\ DOMAIN Replay!EmitsOf(n) = 1..Cardinality(Emits(n))
      /\ Cardinality(Emits(n)) \in Nat
  BY EmitsOfPlaces
<1> QED BY <1>2, <1>3

\* The message of the next receipt is always there.
LEMMA NothingIsUnsent ==
    ASSUME Legible, Matches, Replay!Unsent, ~Astray
    PROVE  FALSE
<1>1. PICK j, p : p = Replay!Place /\ j = order[p]
  OBVIOUS
<1>2. /\ p \in DOMAIN order /\ p >= next /\ IsRecv(log[j]) /\ j \in Nodes /\ Replay!Receipt = log[j]
      /\ \A k \in DOMAIN order : k >= next /\ IsRecv(log[order[k]]) => p <= k
  BY <1>1, PlaceIsFirst DEF Legible, Replay!Unsent
<1>3. phase = "walk" /\ \A env \in pending : env.msg_id # log[j].msg_id
  BY <1>2 DEF Replay!Unsent, Replay!Due
<1>4. PICK e \in Nodes : IsEmit(log[e]) /\ log[e].msg_id = log[j].msg_id
  BY <1>2, SoundSent DEF Legible, Meets, Nodes
<1>5. DOMAIN order \subseteq Nat /\ next \in Nat
  <2>1. DOMAIN order \subseteq Nat
    BY DEF Legible, Tables
  <2> QED BY <2>1 DEF Legible, ReplayTypes
<1>6. ~Repeated(j)
  BY <1>1, <1>2, <1>5 DEF Matches, InStep
<1>7. ~Repeated(e)
  <2>1. SUFFICES ASSUME Repeated(e) PROVE FALSE
    OBVIOUS
  <2>2. PICK r \in Nodes : IsRecv(log[r]) /\ log[r].msg_id = log[e].msg_id /\ Repeated(r)
    BY <1>3, <1>4, <2>1 DEF Matches, Resending
  <2>3. r = j
    BY <1>2, <1>4, <2>2 DEF Legible, Sound, Nodes
  <2> QED BY <1>6, <2>2, <2>3
<1>8. log[e].actor # World
  <2>1. SUFFICES ASSUME log[e].actor = World PROVE FALSE
    OBVIOUS
  <2>2. e \in Emits(World)
    BY <1>4, <2>1 DEF Emits, IsEmit
  <2>3. \E k \in DOMAIN Replay!EmitsOf(World) : k <= Len(Replay!EmitsOf(World)) /\ Replay!EmitsOf(World)[k] = e
    BY <2>2, EmitHasPlace DEF Legible, TimelineInv
  <2> QED BY <1>3, <1>7, <2>1, <2>3 DEF Repeated, Seeded
<1>9. PICK b \in Actor : b = log[e].actor /\ log[e].seq \in Nat /\ reseq[b] \in Nat
  BY <1>4, <1>8, LogTypes DEF Legible, ReplayTypes, Nodes
<1>10. log[e].seq > reseq[b]
  BY <1>7, <1>8, <1>9 DEF Repeated
<1>11. PICK f \in Nodes : Is(f, b, reseq[b] + 1)
  BY <1>4, <1>9, <1>10, NextEvent DEF Legible, Is
<1>12. IsRecv(log[f]) /\ ~Repeated(f)
  <2>1. ~Stuck(b) /\ ~Driven(b)
    BY <1>3 DEF Astray, Driven
  <2>2. IsRecv(log[f])
    BY <1>3, <1>11, <2>1 DEF Stuck, Walked
  <2> QED BY <1>8, <1>9, <1>11, <2>2 DEF Repeated, Is
<1>13. PICK l \in 1..(p - 1) : order[l] = e /\ l \in DOMAIN order
  <2>1. <<<<e, j>>, "message">> \in edges
    BY <1>2, <1>4 DEF Legible, TimelineInv, DirectEdges, MessageEdges, Pairs, Nodes
  <2>2. PICK l \in 1..(p - 1) : order[l] = e
    BY <1>1, <1>2, <2>1 DEF Legible, TimelineInv, CausesFirst, From, Into
  <2>3. l \in DOMAIN order
    BY <1>2, <2>2 DEF Legible, Tables
  <2> QED BY <2>2, <2>3
<1>14. reseq[b] + 1 < log[e].seq
  <2>1. log[f].seq # log[e].seq
    <3>1. SUFFICES ASSUME log[f].seq = log[e].seq PROVE FALSE
      OBVIOUS
    <3>2. f = e
      BY <1>4, <1>9, <1>11, <3>1, OneEvent DEF Is, Legible
    <3> QED BY <1>4, <1>12, <3>2 DEF IsEmit, IsRecv
  <2> QED BY <1>9, <1>10, <1>11, <2>1 DEF Is
<1>15. PICK q \in 1..(l - 1) : q \in DOMAIN order /\ Is(order[q], b, reseq[b] + 1)
  <2>1. reseq[b] + 1 \in Nat /\ reseq[b] + 1 >= 1
    BY <1>9
  <2> QED BY <1>8, <1>9, <1>13, <1>14, <2>1, EarlierIsPlacedEarlier DEF Legible
<1>16. order[q] = f
  BY <1>11, <1>15, OneEvent DEF Legible
<1>17. q >= next
  BY <1>3, <1>5, <1>12, <1>15, <1>16 DEF Matches, InStep, Walked
<1>18. p <= q
  BY <1>2, <1>12, <1>15, <1>16, <1>17
<1> QED BY <1>2, <1>5, <1>13, <1>15, <1>18

\* Nor is anything left when the timeline is at its end.
LEMMA EverythingIsRepeated ==
    ASSUME Legible, Matches, phase = "walk", Replay!Ahead = {}, ~Astray, NEW i \in Nodes
    PROVE  Repeated(i)
<1>1. SUFFICES ASSUME ~Repeated(i) PROVE FALSE
  OBVIOUS
<1>2. CASE log[i].actor = World
  <2>1. i \in Emits(World)
    BY <1>2 DEF Emits, Legible, Sound, IsOrigin, IsEmit, Nodes
  <2>2. \E k \in DOMAIN Replay!EmitsOf(World) : k <= Len(Replay!EmitsOf(World)) /\ Replay!EmitsOf(World)[k] = i
    BY <2>1, EmitHasPlace DEF Legible, TimelineInv
  <2> QED BY <1>1, <1>2, <2>2 DEF Repeated, Seeded
<1>3. CASE log[i].actor # World
  <2>1. PICK b \in Actor : b = log[i].actor /\ log[i].seq \in Nat /\ reseq[b] \in Nat
    BY <1>3, LogTypes DEF Legible, ReplayTypes, Nodes
  <2>2. log[i].seq > reseq[b]
    BY <1>1, <1>3, <2>1 DEF Repeated
  <2>3. PICK f \in Nodes : Is(f, b, reseq[b] + 1)
    BY <2>1, <2>2, NextEvent DEF Legible
  <2>4. IsRecv(log[f]) /\ ~Repeated(f)
    <3>1. ~Stuck(b) /\ ~Driven(b)
      BY DEF Astray, Driven
    <3>2. IsRecv(log[f])
      BY <2>3, <3>1 DEF Stuck, Walked
    <3> QED BY <1>3, <2>1, <2>3, <3>2 DEF Repeated, Is
  <2>5. PICK k \in DOMAIN order : order[k] = f
    BY EverythingIsPlaced DEF Legible
  <2>6. ~(k < next)
    BY <2>4, <2>5 DEF Matches, InStep, Walked
  <2>7. k >= next
    BY <2>6 DEF Legible, Tables, ReplayTypes
  <2> QED BY <2>4, <2>5, <2>7, SameKinds DEF Replay!Ahead
<1> QED BY <1>2, <1>3

\* The other steps of the driver, and the return of user code.
LEMMA DriverMatches ==
    ASSUME Legible, Matches, ~Astray,
           \/ Replay!OriginsSeeded \/ Replay!DriveStarted \/ Replay!AllStarted
           \/ Replay!Complete \/ \E a \in Actor : Replay!Returns(a)
    PROVE  Matches'
<1> USE DEF Replay!setupVars, Replay!taskVars, Replay!stateVars, Replay!kahnVars, Replay!Enter
<1>1. UNCHANGED <<log, order, reorigins, reclock, relamport, reseq, sendCount, produced, pending>>
  BY DEF Replay!OriginsSeeded, Replay!DriveStarted, Replay!AllStarted, Replay!Complete, Replay!Returns
<1>2. \/ phase = "origins" /\ phase' = "started" /\ next \notin DOMAIN Replay!EmitsOf(World)
      \/ phase = "started" /\ phase' \in {"started", "userStarted"}
      \/ phase = "started" /\ phase' = "walk" /\ next' = 1
      \/ phase = "userStarted" /\ phase' = "started"
      \/ phase = "userHandle" /\ phase' = "walk" /\ next' = next
      \/ phase = "walk" /\ phase' = "done" /\ next' = next
  BY DEF Replay!OriginsSeeded, Replay!DriveStarted, Replay!AllStarted, Replay!Complete,
         Replay!Returns, Replay!InUserCode
<1>3. divergences' = divergences
  <2>1. CASE Replay!Complete
    <3>1. phase = "walk" /\ Replay!Ahead = {}
      BY <2>1 DEF Replay!Complete
    <3>2. \A i \in Nodes : Made(i)
      BY <3>1, EverythingIsRepeated DEF Matches, Restamped
    <3>3. {j \in Replay!Nodes : Replay!Coordinate(log[j]) \notin produced} = {}
      BY <3>2, SameKinds DEF Made
    <3>4. Replay!Flag({Replay!Divergence(Replay!Coordinate(log[i]), "not produced") :
                         i \in {j \in Replay!Nodes : Replay!Coordinate(log[j]) \notin produced}})
      BY <2>1 DEF Replay!Complete
    <3> QED BY <3>3, <3>4 DEF Replay!Flag
  <2>2. CASE ~Replay!Complete
    BY <2>2 DEF Replay!OriginsSeeded, Replay!DriveStarted, Replay!AllStarted, Replay!Returns
  <2> QED BY <2>1, <2>2
<1>4. ASSUME NEW i \in Nodes
      PROVE  Repeated(i)' <=> Repeated(i)
  <2>1. CASE log[i].actor # World
    BY <1>1, <2>1 DEF Repeated
  <2>2. CASE log[i].actor = World /\ phase # "origins"
    <3>1. Seeded' = Seeded
      BY <1>1, <1>2, <2>2, SamePlaces DEF Seeded
    <3> QED BY <1>1, <2>2, <3>1, SamePlaces DEF Repeated
  <2>3. CASE log[i].actor = World /\ phase = "origins"
    <3>1. PICK L : L = Replay!EmitsOf(World)
      OBVIOUS
    <3>2. PICK n \in Nat : DOMAIN L = 1..n /\ Len(L) = n
      BY <3>1, EmitsOfPlaces DEF Legible, TimelineInv
    <3>3. next \in Nat /\ next >= 1
      <4>1. next \in Nat \ {0}
        BY DEF Legible, ReplayTypes
      <4> QED BY <4>1
    <3>4. \A k \in 1..n : k <= next - 1 /\ k <= n
      BY <1>2, <2>3, <3>1, <3>2, <3>3
    <3>5. Seeded = next - 1 /\ Seeded' = n
      BY <1>1, <1>2, <2>3, <3>1, <3>2, SamePlaces DEF Seeded
    <3> QED BY <1>1, <2>3, <3>1, <3>2, <3>4, <3>5, SamePlaces DEF Repeated
  <2> QED BY <2>1, <2>2, <2>3
<1>5. Restamped'
  <2>1. \A i \in Nodes : Made(i)' <=> Made(i)
    BY <1>1 DEF Made, Replay!Coordinate
  <2>2. \A i \in Nodes : Made(i)' <=> Repeated(i)'
    BY <1>4, <2>1 DEF Matches, Restamped
  <2>3. \A d : d \in divergences' <=> Past(d)'
    BY <1>1, <1>3, SamePast DEF Matches, Restamped
  <2> QED BY <1>1, <1>3, <2>2, <2>3, SamePlaces DEF Matches, Restamped
<1>6. Resending'
  <2>1. (\A f : IsEmit(f)' = IsEmit(f) /\ IsRecv(f)' = IsRecv(f))
        /\ \A f, j : SameStamps(f, j)' = SameStamps(f, j)
    BY <1>1 DEF IsEmit, IsRecv, SameStamps
  <2> QED BY <1>1, <1>4, <2>1, SamePlaces DEF Matches, Resending
<1>7. InStep'
  <2>1. \A k \in DOMAIN order : order[k] \in Nodes /\ k >= 1 /\ k \in Nat
    BY DEF Legible, Tables
  <2>2. ASSUME NEW k \in DOMAIN order, IsRecv(log[order[k]])
        PROVE  Repeated(order[k])' <=> phase' \in Walked /\ k < next'
    <3>1. Repeated(order[k]) <=> phase \in Walked /\ k < next
      BY <2>2 DEF Matches, InStep
    <3>2. Repeated(order[k])' <=> Repeated(order[k])
      BY <1>1, <1>4, <2>1
    <3>3. (phase' \in Walked /\ k < next') <=> (phase \in Walked /\ k < next)
      BY <1>2, <2>1 DEF Walked
    <3> QED BY <3>1, <3>2, <3>3
  <2>3. \A f : IsRecv(f)' = IsRecv(f)
    BY DEF IsRecv
  <2> QED BY <1>1, <2>2, <2>3 DEF InStep
<1> QED BY <1>5, <1>6, <1>7 DEF Matches

LEMMA SetUpMatches ==
    ASSUME ReadableLog(log), Sound(log), Tables, Untouched, NEW actors, NEW stimuli,
           Replay!SetUp(actors, stimuli)
    PROVE  Matches'
<1>1. /\ phase' = "origins" /\ next' = 1 /\ UNCHANGED <<log, order>>
      /\ pending' = {} /\ produced' = {} /\ divergences' = {}
      /\ reclock' = [a \in Actor |-> ZeroClock] /\ relamport' = [a \in Actor |-> 0]
      /\ reseq' = [a \in Actor |-> 0] /\ sendCount' = [a \in Actor |-> 0]
  BY SetUpStep DEF Untouched
<1>2. ASSUME NEW i \in Nodes
      PROVE  ~Repeated(i)'
  <2>1. CASE log[i].actor = World
    <3>1. Seeded' = 0
      BY <1>1 DEF Seeded
    <3>2. DOMAIN Replay!EmitsOf(World) \subseteq Nat \ {0}
      BY DEF Replay!EmitsOf, Replay!InOrder
    <3> QED BY <1>1, <2>1, <3>1, <3>2, SamePlaces DEF Repeated
  <2>2. CASE log[i].actor # World
    <3>1. log[i].actor \in Actor /\ log[i].seq \in Nat /\ log[i].seq >= 1
      BY <2>2, SoundStep DEF Nodes
    <3> QED BY <1>1, <2>2, <3>1 DEF Repeated
  <2> QED BY <2>1, <2>2
<1>3. ASSUME NEW a \in Actor
      PROVE  /\ [vclock |-> reclock'[a], lamport |-> relamport'[a]] \in Memory(log, a, reseq'[a])
             /\ sendCount'[a] = Cardinality(SentBy(a, reseq'[a])) /\ sendCount'[a] = 0
  <2>1. reclock'[a] = ZeroClock /\ relamport'[a] = 0 /\ reseq'[a] = 0 /\ sendCount'[a] = 0
    BY <1>1
  <2>2. [vclock |-> reclock'[a], lamport |-> relamport'[a]] \in Memory(log, a, reseq'[a])
    BY <2>1 DEF Memory, ZeroMemory
  <2>3. SentBy(a, 0) = {}
    <3>1. SUFFICES ASSUME NEW i \in SentBy(a, 0) PROVE FALSE
      OBVIOUS
    <3>2. i \in DOMAIN log /\ log[i].actor = a /\ a # World /\ log[i].seq <= 0
      BY ActorAssumption DEF SentBy, Nodes
    <3>3. log[i].seq >= 1 /\ log[i].seq \in Nat
      BY <3>2, SoundStep
    <3> QED BY <3>2, <3>3
  <2> QED BY <2>1, <2>2, <2>3, FS_EmptySet
<1>4. Restamped'
  <2>1. \A i \in Nodes : ~Made(i)'
    BY <1>1 DEF Made
  <2>2. \A d : ~Past(d)'
    <3>1. \A a \in Actor : 1..reseq'[a] = {} /\ 1..sendCount'[a] = {}
      BY <1>1
    <3>2. ASSUME NEW d, NEW a \in Actor
          PROVE  ~UnloggedEvent(d, a)' /\ ~UnloggedSend(d, a)'
      BY <3>1, Zenon DEF UnloggedEvent, UnloggedSend
    <3> QED BY <3>2 DEF Past
  <2> QED BY <1>1, <1>2, <1>3, <2>1, <2>2, SamePlaces DEF Restamped
<1>5. Resending'
  BY <1>1, <1>2, SamePlaces DEF Resending
<1>6. InStep'
  <2>1. \A k \in DOMAIN order : order[k] \in Nodes
    BY DEF Tables
  <2> QED BY <1>1, <1>2, <2>1 DEF InStep, Walked
<1> QED BY <1>4, <1>5, <1>6 DEF Matches

LEMMA NothingMatchesLess ==
    ASSUME UNCHANGED runVars
    PROVE  (Astray' <=> Astray) /\ (Matches => Matches')
<1>1. UNCHANGED <<log, order, rebuilt, reorigins, reclock, relamport, reseq, did, produced, pending,
                  sendCount, divergences, phase, next, driving>>
  BY DEF runVars, replayVars, kahnVars, systemVars
<1>2. Seeded' = Seeded
  BY <1>1, SamePlaces DEF Seeded
<1>3. /\ \A i : Repeated(i)' = Repeated(i) /\ Made(i)' = Made(i)
      /\ \A e : IsEmit(e)' = IsEmit(e) /\ IsRecv(e)' = IsRecv(e)
      /\ \A e, i : SameStamps(e, i)' = SameStamps(e, i)
  BY <1>1, <1>2, SamePlaces DEF Repeated, Made, IsEmit, IsRecv, SameStamps, Replay!Coordinate
<1>4. \A a \in Actor : Keeps(a)' = Keeps(a) /\ Stuck(a)' = Stuck(a)
  <2>1. \A e : Word(e)' = Word(e)
    BY DEF Word
  <2>2. \A a \in Actor : Keeps(a)' = Keeps(a)
    BY <1>1, <2>1, SamePlaces DEF Keeps
  <2>3. \A a \in Actor : Driven(a)' = Driven(a) /\ reseq'[a] = reseq[a] /\ phase' = phase
    BY <1>1 DEF Driven
  <2>4. ASSUME NEW a \in Actor
        PROVE  Stuck(a)' = Stuck(a)
    <3>1. PICK k : k = reseq[a] + 1
      OBVIOUS
    <3>2. Stuck(a) = (phase \in Walked /\ ~Driven(a) /\ \E i \in Nodes : Is(i, a, k) /\ ~IsRecv(log[i]))
      BY <3>1 DEF Stuck
    <3>3. Stuck(a)' = (phase' \in Walked /\ ~Driven(a)' /\ \E i \in Nodes' : Is(i, a, reseq'[a] + 1) /\ ~IsRecv(log[i]))
      BY <1>1 DEF Stuck, Walked, Is, IsRecv, Nodes
    <3> QED BY <1>1, <2>3, <3>1, <3>2, <3>3, SamePlaces
  <2> QED BY <2>2, <2>4
<1>5. Astray' <=> Astray
  BY <1>1, <1>4, SamePlaces DEF Astray
<1>6. Restamped => Restamped'
  BY <1>1, <1>3, SamePlaces, SamePast DEF Restamped
<1>7. Resending => Resending'
  BY <1>1, <1>3, SamePlaces DEF Resending
<1>8. InStep => InStep'
  BY <1>1, <1>3 DEF InStep, Walked
<1> QED BY <1>5, <1>6, <1>7, <1>8 DEF Matches

LEMMA MatchesNext ==
    ASSUME ReplayInv, MatchesInv, [RunNext]_runVars
    PROVE  MatchesInv'
<1> SUFFICES ASSUME phase' \in Walking, intact', ~Astray'
             PROVE  Matches'
  BY DEF MatchesInv
<1>1. CASE RecordStep
  <2>1. phase = "recording" /\ phase' = phase
    BY <1>1, RecordedStep DEF RecordStep, replayVars, ReplayInv
  <2> QED BY <2>1 DEF Walking
<1>2. CASE ReadLog
  BY <1>2 DEF ReadLog, Walking
<1>3. CASE ReplayLogStep
  BY <1>3, ReadingStep DEF Reading, Walking, Rejected
<1>4. ASSUME intact' = intact, NEW actors, NEW stimuli, Replay!SetUp(actors, stimuli)
      PROVE  Matches'
  <2>1. phase = "timeline"
    BY <1>4, SetUpStep
  <2>2. ReadableLog(log) /\ Sound(log) /\ Tables /\ Untouched
    BY <1>4, <2>1 DEF ReplayInv, LogFacts, ReadingInv, Reading
  <2> QED BY <1>4, <2>2, SetUpMatches
<1>5. ASSUME intact' = intact, Walks
      PROVE  Matches'
  <2>1. phase \in Walking
    BY <1>5, WalkStep DEF Walks
  <2>2. Legible
    BY <1>5, <2>1 DEF Legible, ReplayInv, LogFacts, ReadingInv, Walking
  <2>3. ~Astray
    BY <1>5, <2>2, AstrayStays DEF Legible
  <2>4. Matches
    BY <1>5, <2>1, <2>3 DEF MatchesInv
  <2>5. ASSUME NEW a \in Actor, Replay!Compute(a) \/ \E to \in Actor : Replay!Send(a, to)
        PROVE  Matches'
    <3>1. CASE Logged(a, reseq[a] + 1)
      <4>1. reseq[a] + 1 # 0
        BY <2>2 DEF Legible, ReplayTypes
      <4>2. PICK i : Is(i, a, reseq[a] + 1)
        BY <3>1, <4>1 DEF Logged
      <4> QED BY <2>2, <2>4, <2>5, <4>2, ComputeMatches, SendMatches
    <3> QED BY <2>2, <2>4, <2>5, <3>1, BeyondMatches
  <2> QED BY <1>5, <2>2, <2>3, <2>4, <2>5, SeedMatches, ReceiveMatches, NothingIsUnsent,
       DriverMatches DEF Walks, Replay!Driver, Replay!UserCode
<1>6. CASE UNCHANGED runVars
  <2>1. phase' = phase /\ intact' = intact
    BY <1>6 DEF runVars, replayVars
  <2> QED BY <1>6, <2>1, NothingMatchesLess DEF MatchesInv
<1> QED BY <1>1, <1>2, <1>3, <1>4, <1>5, <1>6 DEF RunNext, Over, ReplayStep, Walks

\* Actors that stop where the log does leave nothing to report.
LEMMA FollowedIsClean ==
    ASSUME Legible, Restamped, \A a \in Actor : Follows(a)
    PROVE  divergences = {}
<1>1. ASSUME NEW a \in Actor, NEW d
      PROVE  ~UnloggedEvent(d, a) /\ ~UnloggedSend(d, a)
  <2>1. reseq[a] \in Nat /\ \A t \in 1..reseq[a] : Logged(a, t)
    BY DEF Follows, Logged, Legible, ReplayTypes
  <2>2. Logged(a, reseq[a])
    <3>1. reseq[a] = 0 \/ reseq[a] \in 1..reseq[a]
      BY <2>1
    <3> QED BY <2>1, <3>1 DEF Logged
  <2>3. sendCount[a] <= Cardinality(Emits(a)) /\ sendCount[a] \in Nat /\ Cardinality(Emits(a)) \in Nat
    <3>1. sendCount[a] = Cardinality(SentBy(a, reseq[a]))
      BY <2>2 DEF Restamped
    <3>2. Emits(a) \in SUBSET Nodes /\ SentBy(a, reseq[a]) \in SUBSET Emits(a)
      BY DEF Emits, SentBy
    <3>3. IsFiniteSet(Emits(a))
      BY <3>2, NodesFinite, FS_Subset DEF Legible
    <3> QED BY <3>1, <3>2, <3>3, FS_Subset, FS_CardinalityType
  <2>4. \A j \in 1..sendCount[a] : ~(j > Cardinality(Emits(a)))
    BY <2>3
  <2>5. ~UnloggedEvent(d, a)
    BY <2>1, Zenon DEF UnloggedEvent
  <2>6. ~UnloggedSend(d, a)
    BY <2>4, Zenon DEF UnloggedSend
  <2> QED BY <2>5, <2>6
<1>2. \A d : ~Past(d)
  BY <1>1, Zenon DEF Past
<1> QED BY <1>2 DEF Restamped

\* The divergences that are due to the cut, as the property lists them.
LEMMA PastIsPastTheLog ==
    ASSUME Legible
    PROVE  \A d : Past(d) <=> d \in Replay!PastTheLog
<1>1. ASSUME NEW a \in Actor, NEW k, k \in Nat, k >= 1
      PROVE  (k \in DOMAIN Replay!Script(a) <=> Logged(a, k))
             /\ (k \in DOMAIN Replay!EmitsOf(a) <=> ~(k > Cardinality(Emits(a))))
  <2>1. PICK n \in Nat : /\ \A i \in EventsBy(a) : log[i].seq \in 1..n
                         /\ \A j \in 1..n : \E i \in Nodes : Is(i, a, j)
    BY NumberedFromOne DEF Legible, TimelineInv, BuildOk
  <2>2. DOMAIN Replay!Script(a) = 1..n
    BY <2>1, ScriptByNumber DEF Legible, TimelineInv, BuildOk
  <2>3. Logged(a, k) <=> k \in 1..n
    BY <1>1, <2>1 DEF Logged, Is, EventsBy
  <2>4. DOMAIN Replay!EmitsOf(a) = 1..Cardinality(Emits(a)) /\ Cardinality(Emits(a)) \in Nat
    BY EmitsOfPlaces DEF Legible, TimelineInv
  <2> QED BY <1>1, <2>2, <2>3, <2>4
<1>2. ASSUME NEW a \in Actor, NEW d
      PROVE  /\ UnloggedEvent(d, a) <=>
                  d \in {Replay!Divergence(<<a, t>>, "unrecorded") : t \in 1..reseq[a] \ DOMAIN Replay!Script(a)}
             /\ UnloggedSend(d, a) <=>
                  d \in {Replay!Divergence(<<a, -j>>, "more sends") : j \in 1..sendCount[a] \ DOMAIN Replay!EmitsOf(a)}
  <2>1. reseq[a] \in Nat /\ sendCount[a] \in Nat
    BY DEF Legible, ReplayTypes
  <2>2. \A t \in 1..reseq[a] : t \in DOMAIN Replay!Script(a) <=> Logged(a, t)
    BY <1>1, <2>1
  <2>3. \A j \in 1..sendCount[a] : j \in DOMAIN Replay!EmitsOf(a) <=> ~(j > Cardinality(Emits(a)))
    BY <1>1, <2>1
  <2>4. UnloggedEvent(d, a) <=>
          d \in {Replay!Divergence(<<a, t>>, "unrecorded") : t \in 1..reseq[a] \ DOMAIN Replay!Script(a)}
    BY <2>2, Zenon DEF UnloggedEvent
  <2>5. UnloggedSend(d, a) <=>
          d \in {Replay!Divergence(<<a, -j>>, "more sends") : j \in 1..sendCount[a] \ DOMAIN Replay!EmitsOf(a)}
    BY <2>3, Zenon DEF UnloggedSend
  <2> QED BY <2>4, <2>5
<1> DEFINE
      Events(a) == {Replay!Divergence(<<a, t>>, "unrecorded") : t \in 1..reseq[a] \ DOMAIN Replay!Script(a)}
      Sends(a)  == {Replay!Divergence(<<a, -j>>, "more sends") : j \in 1..sendCount[a] \ DOMAIN Replay!EmitsOf(a)}
<1>3. Replay!PastTheLog = UNION {Events(a) \cup Sends(a) : a \in Actor}
  BY Zenon DEF Replay!PastTheLog
<1>4. \A d : Past(d) <=> \E b \in Actor : d \in Events(b) \/ d \in Sends(b)
  BY <1>2, Zenon DEF Past
<1> HIDE DEF Events, Sends
<1>5. \A d : d \in UNION {Events(a) \cup Sends(a) : a \in Actor} <=> \E b \in Actor : d \in Events(b) \/ d \in Sends(b)
  OBVIOUS
<1> QED BY <1>3, <1>4, <1>5

\* Replaying an intact log with the program that was recorded, its topology
\* and its origins, reports what its handlers do beyond the end of the log and
\* nothing else, wherever the log was cut, however many origins it has, and
\* whatever order its events are in.
THEOREM OnlyTheCutDivergesHolds == RunSpec => []OnlyTheCutDiverges
<1>1. RunInit => MatchesInv
  BY DEF RunInit, MatchesInv, Walking
<1>2. ReplayInv /\ MatchesInv => OnlyTheCutDiverges
  <2> SUFFICES ASSUME ReplayInv, MatchesInv, phase = "done", intact, Replay!SameProgram
               PROVE  divergences = Replay!PastTheLog
    BY DEF OnlyTheCutDiverges
  <2>1. Legible /\ BuildOk(log)
    BY DEF ReplayInv, LogFacts, ReadingInv, TimelineInv, Walking, Legible
  <2>2. ~Astray
    BY <2>1, SameIsNotAstray DEF Legible
  <2>3. \A d : d \in divergences <=> Past(d)
    BY <2>2 DEF MatchesInv, Matches, Restamped, Walking
  <2> QED BY <2>1, <2>3, PastIsPastTheLog
<1> QED BY <1>1, <1>2, MatchesNext, ReplayInvHolds, PTL DEF RunSpec
=============================================================================
