---------------------------- MODULE ProgramProofs ----------------------------
(***************************************************************************)
(* Machine-checked, for any number of ticks and milestones: the replay of  *)
(* an example's log by its own handlers reports nothing and leaves every   *)
(* actor in the state it had, and the log shows the race and its outcome.  *)
(***************************************************************************)
EXTENDS Programs, RecordReplayProofs

USE DEF taskVars, sharedVars, mainVars, logVars

----------------------------------------------------------------------------
(* A program is a run: what was proved of RunSpec holds of it              *)

\* The runtime while it is recorded.
RecordingInv ==
    phase = "recording" =>
      /\ Recording /\ Accounts /\ HandlersSend /\ QuiescentShutdown
      /\ Worldly /\ writerUp

\* What holds of every run that is read whole.
RunInv ==
    /\ ReplayInv /\ UnflaggedInv /\ PanicInv /\ MatchesInv /\ OriginInv /\ SortedInv
    /\ intact

----------------------------------------------------------------------------
(* The calls of a handler                                                  *)

\* Whom an actor of an example sends to.
Targets(n) ==
    IF n = World THEN {Entry}
    ELSE IF n = Entry THEN {Left, Right}
    ELSE IF n \in {Left, Right} THEN {Meet}
    ELSE IF n = Meet THEN {Beyond}
    ELSE {}

CallOf(a, c) == c.call = "compute" \/ (c.call = "send" /\ c.to \in Targets(a))

Proper(a, calls) == \E S : calls \in Seq(S) /\ \A c \in S : CallOf(a, c)

LEMMA TargetsAreActors == \A n : Targets(n) \subseteq Actor
  BY RoleAssumption DEF Targets

LEMMA ProperCalls ==
    ASSUME NEW a, NEW calls, Proper(a, calls)
    PROVE  /\ calls # <<>> => CallOf(a, Head(calls)) /\ Proper(a, Tail(calls))
<1>1. PICK S : calls \in Seq(S) /\ \A c \in S : CallOf(a, c)
  BY DEF Proper
<1>2. calls # <<>> => Head(calls) \in S /\ Tail(calls) \in Seq(S)
  BY <1>1
<1> QED BY <1>1, <1>2 DEF Proper

LEMMA ProperSteps ==
    ASSUME NEW a, NEW n \in Nat
    PROVE  Proper(a, Steps(n))
<1>1. Steps(n) \in Seq({ComputeCall})
  BY DEF Steps
<1>2. CallOf(a, ComputeCall)
  BY DEF CallOf, ComputeCall
<1> QED BY <1>1, <1>2 DEF Proper

LEMMA ProperStepsAndSend ==
    ASSUME NEW a, NEW n \in Nat, NEW to \in Targets(a), NEW m
    PROVE  Proper(a, Steps(n) \o <<SendTo(to, m)>>)
<1>1. PICK S : S = {ComputeCall, SendTo(to, m)}
  OBVIOUS
<1>2. Steps(n) \in Seq(S)
  BY <1>1 DEF Steps
<1>3. <<SendTo(to, m)>> \in Seq(S)
  BY <1>1
<1>4. Steps(n) \o <<SendTo(to, m)>> \in Seq(S)
  BY <1>2, <1>3
<1>5. \A c \in S : CallOf(a, c)
  BY <1>1 DEF CallOf, ComputeCall, SendTo
<1> QED BY <1>4, <1>5 DEF Proper

LEMMA ProperTwoSends ==
    ASSUME NEW m, NEW n
    PROVE  Proper(Entry, <<SendTo(Left, m), SendTo(Right, n)>>)
<1>1. PICK S : S = {SendTo(Left, m), SendTo(Right, n)}
  OBVIOUS
<1>2. <<SendTo(Left, m), SendTo(Right, n)>> \in Seq(S)
  BY <1>1
<1>3. Entry # World
  BY RoleAssumption, ActorAssumption
<1>4. \A c \in S : CallOf(Entry, c)
  BY <1>1, <1>3 DEF CallOf, SendTo, Targets
<1> QED BY <1>2, <1>4 DEF Proper

LEMMA ProperFeed == Proper(Entry, Feed)
<1>1. PICK S : S = {Feed[k] : k \in 1..(2 * Ticks)}
  OBVIOUS
<1>2. Feed \in Seq(S)
  <2>1. 2 * Ticks \in Nat
    BY RoleAssumption
  <2> QED BY <1>1, <2>1 DEF Feed
<1>3. Entry # World
  BY RoleAssumption, ActorAssumption
<1>4. ASSUME NEW c \in S
      PROVE  CallOf(Entry, c)
  <2>1. PICK k \in 1..(2 * Ticks) : c = Feed[k]
    BY <1>1
  <2>2. c = SendTo(IF k % 2 = 1 THEN Left ELSE Right, (k - 1) \div 2)
    BY <2>1 DEF Feed
  <2> QED BY <1>3, <2>2 DEF CallOf, SendTo, Targets
<1> QED BY <1>2, <1>4 DEF Proper

\* The five roles are five actors.
LEMMA Roles ==
    /\ Entry \in Actor /\ Left \in Actor /\ Right \in Actor /\ Meet \in Actor /\ Beyond \in Actor
    /\ Entry # Left /\ Entry # Right /\ Entry # Meet /\ Entry # Beyond
    /\ Left # Right /\ Left # Meet /\ Left # Beyond
    /\ Right # Meet /\ Right # Beyond /\ Meet # Beyond
    /\ World \notin Actor /\ None \notin Actor
    /\ \A a \in Actor : a = Entry \/ a = Left \/ a = Right \/ a = Meet \/ a = Beyond
<1>1. PICK role : role = <<Entry, Left, Right, Meet, Beyond>>
  OBVIOUS
<1>2. \A r, s \in 1..5 : role[r] = role[s] => r = s
  BY <1>1, RoleAssumption
<1>3. role[1] = Entry /\ role[2] = Left /\ role[3] = Right /\ role[4] = Meet /\ role[5] = Beyond
  BY <1>1
<1> QED BY <1>2, <1>3, RoleAssumption, ActorAssumption

LEMMA ProperHandle ==
    ASSUME NEW p \in Program, NEW a \in Topology(p), NEW s, NEW m
    PROVE  Proper(a, Handle(p, a, s, m).calls)
<1>1. a \in Actor /\ (p = "desk" \/ a # Beyond)
  BY DEF Topology
<1>2. \A c, t : Does(c, t).calls = c
  BY DEF Does
<1>3. Meet \in Targets(Left) /\ Meet \in Targets(Right) /\ Beyond \in Targets(Meet)
  BY Roles DEF Targets
<1>4. 1 \in Nat /\ 4 \in Nat /\ Milestones \in Nat
  BY RoleAssumption
<1>5. CASE p = "fanout"
  <2>1. CASE a = Entry
    <3>1. Handle(p, a, s, m) = Does(Source(m), s)
      BY <1>5, <2>1, Roles DEF Handle
    <3> QED BY <2>1, <3>1, <1>2, ProperTwoSends DEF Source
  <2>2. CASE a \in {Left, Right}
    <3>1. Handle(p, a, s, m) = Does(Worker(m), s)
      BY <1>5, <2>2, Roles DEF Handle
    <3> QED BY <2>2, <3>1, <1>2, <1>3, <1>4, ProperStepsAndSend DEF Worker
  <2>3. CASE a = Meet
    <3>1. Handle(p, a, s, m) = Does(Sink, s)
      BY <1>5, <2>3, Roles DEF Handle
    <3> QED BY <2>3, <3>1, <1>2, <1>4, ProperSteps DEF Sink
  <2> QED BY <1>1, <1>5, <2>1, <2>2, <2>3, Roles
<1>6. CASE p = "race"
  <2>1. CASE a = Entry
    <3>1. Handle(p, a, s, m) = Does(Importer(m), s)
      BY <1>6, <2>1, Roles DEF Handle
    <3> QED BY <2>1, <3>1, <1>2, ProperTwoSends DEF Importer
  <2>2. CASE a = Left
    <3>1. Handle(p, a, s, m) = Does(ComputeFast(m), s)
      BY <1>6, <2>2, Roles DEF Handle
    <3> QED BY <2>2, <3>1, <1>2, <1>3, <1>4, ProperStepsAndSend DEF ComputeFast
  <2>3. CASE a = Right
    <3>1. Handle(p, a, s, m) = Does(ComputeSlow(m), s)
      BY <1>6, <2>3, Roles DEF Handle
    <3> QED BY <2>3, <3>1, <1>2, <1>3, <1>4, ProperStepsAndSend DEF ComputeSlow
  <2>4. CASE a = Meet
    <3>1. Handle(p, a, s, m) = Does(Exporter, s)
      BY <1>6, <2>4, Roles DEF Handle
    <3> QED BY <2>4, <3>1, <1>2, <1>4, ProperSteps DEF Exporter
  <2> QED BY <1>1, <1>6, <2>1, <2>2, <2>3, <2>4, Roles
<1>7. CASE p = "desk"
  <2>1. CASE a = Entry
    <3>1. Handle(p, a, s, m) = Does(Feed, s)
      BY <1>7, <2>1, Roles DEF Handle
    <3> QED BY <2>1, <3>1, <1>2, ProperFeed
  <2>2. CASE a = Left
    <3>1. Handle(p, a, s, m) = Does(FastPricer(m), s)
      BY <1>7, <2>2, Roles DEF Handle
    <3> QED BY <2>2, <3>1, <1>2, <1>3, <1>4, ProperStepsAndSend DEF FastPricer
  <2>3. CASE a = Right
    <3>1. Handle(p, a, s, m) = Does(SlowPricer(m), s)
      BY <1>7, <2>3, Roles DEF Handle
    <3> QED BY <2>3, <3>1, <1>2, <1>3, <1>4, ProperStepsAndSend DEF SlowPricer
  <2>4. CASE a = Meet
    <3>1. Handle(p, a, s, m).calls = Steps(1) \o <<SendTo(Beyond, Fold(s, m).ewma)>>
      BY <1>2, <1>7, <2>4, Roles DEF Handle, Book
    <3> QED BY <2>4, <3>1, <1>3, <1>4, ProperStepsAndSend
  <2>5. CASE a = Beyond
    <3>1. PICK n \in {0, 1} : n = IF m > Limit THEN 1 ELSE 0
      OBVIOUS
    <3>2. Handle(p, a, s, m).calls = Steps(n)
      BY <1>2, <1>7, <2>5, <3>1, Roles DEF Handle, Risk
    <3>3. n \in Nat
      OBVIOUS
    <3> QED BY <2>5, <3>2, <3>3, ProperSteps
  <2> QED BY <1>1, <2>1, <2>2, <2>3, <2>4, <2>5, Roles
<1> QED BY <1>5, <1>6, <1>7, RoleAssumption

----------------------------------------------------------------------------
(* Who acts, and what is left of a script                                  *)

Driving == {"userHandle", "panicked"}

Cast ==
    /\ prog \in Program \cup {None}
    /\ prog = None => /\ phase = "recording" /\ Init
                      /\ script = [a \in Actor |-> <<>>] /\ body = <<>>
    /\ st = [a \in Actor |-> st[a]] /\ rst = [a \in Actor |-> rst[a]]
    /\ script = [a \in Actor |-> script[a]] /\ \A a \in Actor : Proper(a, script[a])
    /\ phase \in Walking => /\ rebuilt = Topology(prog)
                            /\ reorigins = <<[to |-> Entry, typed |-> TRUE]>>
    /\ phase # "userStarted"
    /\ IF phase \in Driving THEN Proper(driving, rscript) ELSE rscript = <<>>

LEMMA ProperNothing == \A a : Proper(a, <<>>)
<1>1. PICK S : S = {ComputeCall}
  OBVIOUS
<1>2. <<>> \in Seq(S)
  OBVIOUS
<1>3. \A a : \A c \in S : CallOf(a, c)
  BY <1>1 DEF CallOf, ComputeCall
<1> QED BY <1>2, <1>3 DEF Proper

LEMMA CastInit == ProgramInit => Cast
  BY ProperNothing, SMT DEF ProgramInit, RunInit, Cast, Walking, Driving

\* What RecordProgram may do, RecordStep may do.
LEMMA RecordProgramStep ==
    ASSUME Cast, RecordProgram
    PROVE  /\ RecordStep /\ phase = "recording" /\ prog \in Program
           /\ UNCHANGED <<intact, replayVars, prog, redoneVars>>
           /\ Main \/ \E a \in Actor : Task(a)
<1>1. /\ phase = "recording" /\ prog # None /\ UNCHANGED <<intact, replayVars, prog, redoneVars>>
      /\ MainSteps \/ \E a \in Topology(prog) : TaskSteps(a)
  BY DEF RecordProgram
<1>2. CASE MainSteps
  <2>1. Main
    BY <1>2, Roles DEF MainSteps, Origin, Main
  <2> QED BY <1>1, <2>1 DEF RecordStep, Cast
<1>3. ASSUME NEW a \in Topology(prog), TaskSteps(a)
      PROVE  \E b \in Actor : Task(b)
  <2>1. a \in Actor
    BY DEF Topology
  <2>2. CASE Calls(a)
    <3>1. CallOf(a, Head(script[a]))
      BY <2>1, <2>2, ProperCalls DEF Cast, Calls
    <3>2. Head(script[a]).call = "send" => Head(script[a]).to \in Actor
      BY <3>1, TargetsAreActors DEF CallOf
    <3> QED BY <2>1, <2>2, <3>2 DEF Calls, Task
  <2>3. CASE ~Calls(a)
    BY <1>3, <2>1, <2>3 DEF TaskSteps, Handles, Task
  <2> QED BY <2>2, <2>3
<1> QED BY <1>1, <1>2, <1>3 DEF RecordStep, Cast

LEMMA Recalled ==
    ASSUME Cast, NEW a \in Actor, Recalls(a)
    PROVE  /\ Replay!UserCode(a) /\ phase = "userHandle" /\ phase' = phase
           /\ driving = a /\ driving' = driving
           /\ rscript # <<>> /\ rscript' = Tail(rscript) /\ rst' = rst /\ Proper(a, rscript)
           /\ CallOf(a, Head(rscript))
<1>1. rscript # <<>> /\ rscript' = Tail(rscript) /\ rst' = rst
  BY DEF Recalls
<1>2. Replay!Compute(a) \/ (Head(rscript).call = "send" /\ Replay!Send(a, Head(rscript).to))
  BY DEF Recalls
<1>3. driving = a /\ phase \in {"userStarted", "userHandle"} /\ phase' = phase /\ driving' = driving
  BY <1>2 DEF Replay!Compute, Replay!Send, Replay!Acts, Replay!InUserCode
<1>4. phase = "userHandle" /\ Proper(a, rscript)
  BY <1>3 DEF Cast, Driving
<1>5. CallOf(a, Head(rscript))
  BY <1>1, <1>4, ProperCalls
<1>6. Head(rscript).call = "send" => Head(rscript).to \in Actor
  BY <1>5, TargetsAreActors DEF CallOf
<1> QED BY <1>1, <1>2, <1>3, <1>4, <1>5, <1>6 DEF Replay!UserCode

LEMMA Rebuilt ==
    ASSUME Rebuild
    PROVE  /\ \E actors \in SUBSET Actor, stimuli \in UNION {[1..n -> Stimulus] : n \in 0..MaxOrigins} :
                Replay!SetUp(actors, stimuli)
           /\ phase' = "origins" /\ rebuilt' = Topology(prog)
           /\ reorigins' = <<[to |-> Entry, typed |-> TRUE]>>
<1>1. PICK o : o = <<[to |-> Entry, typed |-> TRUE]>>
  OBVIOUS
<1>2. Replay!SetUp(Topology(prog), o)
  BY <1>1 DEF Rebuild
<1>3. [to |-> Entry, typed |-> TRUE] \in Stimulus
  <2>1. PICK x : x = [to |-> Entry, typed |-> TRUE]
    OBVIOUS
  <2>2. x \in [to : Actor, typed : BOOLEAN] /\ x.typed \in AddrTypes(x.to)
    BY <2>1, Roles DEF AddrTypes
  <2> QED BY <2>1, <2>2 DEF Stimulus
<1>4. o \in [1..1 -> Stimulus]
  <2>1. o \in Seq(Stimulus) /\ Len(o) = 1
    BY <1>1, <1>3
  <2> QED BY <2>1
<1>5. 1 \in 0..MaxOrigins /\ Topology(prog) \in SUBSET Actor
  BY ExampleAssumption DEF Topology
<1> QED BY <1>1, <1>2, <1>4, <1>5, SetUpStep

\* What Redo may do, ReplayStep may do.
LEMMA RedoStep ==
    ASSUME Cast, Redo
    PROVE  /\ ReplayStep /\ UNCHANGED <<vars, intact, prog, recordedVars>>
           /\ phase # "recording" /\ phase' # "recording" /\ prog \in Program
<1>1. UNCHANGED <<vars, intact, prog, recordedVars>>
  BY DEF Redo
<1>2. ReplayStep
  <2>1. CASE Rebuild
    BY <1>1, <2>1, Rebuilt DEF ReplayStep
  <2>2. CASE Reseed \/ Rehandles
    BY <1>1, <2>2 DEF ReplayStep, Reseed, Rehandles, Replay!Driver
  <2>3. ASSUME NEW a \in Actor, Recalls(a)
        PROVE  ReplayStep
    BY <1>1, <2>3, Recalled DEF ReplayStep
  <2>4. CASE \/ ReplayLogStep /\ UNCHANGED systemVars
             \/ Replay!OriginsSeeded \/ Replay!DriveStarted \/ Replay!AllStarted
             \/ Replay!Unsent \/ Replay!Complete
             \/ \E a \in Actor : Replay!Returns(a)
    BY <1>1, <2>4 DEF ReplayStep, Replay!Driver, Replay!UserCode
  <2> QED BY <2>1, <2>2, <2>3, <2>4 DEF Redo
<1> QED BY <1>1, <1>2, ReplayPhases DEF Cast

\* Every step but the reading of the log is one of RunSpec.
LEMMA ProgramStep ==
    ASSUME Cast, [ProgramNext]_programVars
    PROVE  [RunNext]_runVars \/ ReadBack
<1>1. CASE \E p \in Program : Spawn(p)
  BY <1>1 DEF Spawn
<1>2. CASE RecordProgram
  BY <1>2, RecordProgramStep DEF RunNext
<1>3. CASE Redo
  BY <1>3, RedoStep DEF RunNext
<1>4. CASE Over \/ UNCHANGED programVars
  BY <1>4 DEF RunNext, programVars
<1> QED BY <1>1, <1>2, <1>3, <1>4 DEF ProgramNext

LEMMA FreshIsAFunction == \A p : Fresh(p) = [a \in Actor |-> Fresh(p)[a]]
  BY DEF Fresh

\* What main and the tasks do with the scripts while the run is recorded.
LEMMA Recorded ==
    ASSUME RecordProgram
    PROVE  \/ UNCHANGED <<st, script>>
           \/ \E a \in Topology(prog) :
                \/ Handles(a)
                \/ Calls(a)
  BY DEF RecordProgram, MainSteps, Origin, TaskSteps, recordedVars

LEMMA CastRecord ==
    ASSUME Cast, RecordProgram
    PROVE  Cast'
<1>1. /\ phase = "recording" /\ prog \in Program /\ prog # None
      /\ UNCHANGED <<phase, prog, rst, rscript, rebuilt, reorigins, driving>>
  BY RecordProgramStep, RoleAssumption DEF replayVars, systemVars, redoneVars
<1>2. /\ st' = [a \in Actor |-> st'[a]]
      /\ script' = [a \in Actor |-> script'[a]] /\ \A a \in Actor : Proper(a, script'[a])
  <2>1. CASE UNCHANGED <<st, script>>
    BY <2>1 DEF Cast
  <2>2. ASSUME NEW a \in Topology(prog), Handles(a)
        PROVE  /\ st' = [b \in Actor |-> st'[b]]
               /\ script' = [b \in Actor |-> script'[b]] /\ \A b \in Actor : Proper(b, script'[b])
    <3>1. PICK r, m : /\ r = Handle(prog, a, st[a], m)
                      /\ st' = [st EXCEPT ![a] = r.st] /\ script' = [script EXCEPT ![a] = r.calls]
      BY <2>2 DEF Handles
    <3>2. Proper(a, r.calls)
      BY <1>1, <3>1, ProperHandle
    <3> QED BY <3>1, <3>2 DEF Cast
  <2>3. ASSUME NEW a \in Topology(prog), Calls(a)
        PROVE  /\ st' = [b \in Actor |-> st'[b]]
               /\ script' = [b \in Actor |-> script'[b]] /\ \A b \in Actor : Proper(b, script'[b])
    <3>1. script[a] # <<>> /\ script' = [script EXCEPT ![a] = Tail(@)] /\ st' = st
      BY <2>3 DEF Calls
    <3>2. a \in Actor
      BY DEF Topology
    <3>3. Proper(a, Tail(script[a]))
      BY <3>1, <3>2, ProperCalls DEF Cast
    <3> QED BY <3>1, <3>3 DEF Cast
  <2> QED BY <2>1, <2>2, <2>3, Recorded
<1> QED BY <1>1, <1>2 DEF Cast, Walking, Driving

LEMMA Rehandled ==
    ASSUME Rehandles
    PROVE  /\ Replay!Receive /\ phase = "walk" /\ UNCHANGED <<log, rebuilt, reorigins, rbody>>
           /\ \/ /\ driving' = None /\ phase' = "walk" /\ UNCHANGED <<rst, rscript>>
                 /\ Replay!Receipt.actor \notin rebuilt
              \/ /\ driving' = Replay!Receipt.actor /\ driving' \in rebuilt /\ phase' \in Driving
                 /\ driving' = None => UNCHANGED <<rst, rscript>>
                 /\ driving' # None =>
                      \E r : /\ r = Handle(prog, driving', rst[driving'], rbody[Replay!Receipt.msg_id])
                             /\ rst' = [rst EXCEPT ![driving'] = r.st] /\ rscript' = r.calls
<1>1. Replay!Receive /\ phase = "walk" /\ UNCHANGED <<log, rebuilt, reorigins, rbody>>
  BY DEF Rehandles, Replay!Receive, Replay!setupVars
<1>2. PICK a : a = Replay!Receipt.actor
  OBVIOUS
<1>3. /\ driving' = IF a \in rebuilt THEN a ELSE None
      /\ a \notin rebuilt => phase' = "walk"
      /\ a \in rebuilt => phase' \in Driving
  BY <1>1, <1>2 DEF Replay!Receive, Replay!Enter, Driving
<1>4. /\ driving' = None => UNCHANGED <<rst, rscript>>
      /\ driving' # None =>
           \E r : /\ r = Handle(prog, driving', rst[driving'], rbody[Replay!Receipt.msg_id])
                  /\ rst' = [rst EXCEPT ![driving'] = r.st] /\ rscript' = r.calls
  BY DEF Rehandles
<1> QED BY <1>1, <1>2, <1>3, <1>4

\* The steps of the replay that touch no script.
Drives ==
    \/ Replay!OriginsSeeded \/ Replay!DriveStarted \/ Replay!AllStarted
    \/ Replay!Unsent \/ Replay!Complete
    \/ rscript = <<>> /\ \E a \in Actor : Replay!Returns(a)

LEMMA DriveStep ==
    ASSUME Cast, Drives
    PROVE  /\ phase' \in Walking \ Driving /\ phase' # "userStarted" /\ rscript = <<>>
           /\ phase \in Walking /\ UNCHANGED <<log, order, rebuilt, reorigins, reseq, pending>>
           /\ phase' \in Walked => phase \in Walked \/ Replay!AllStarted
<1> USE DEF Replay!setupVars, Replay!taskVars, Replay!stateVars, Replay!kahnVars, Replay!Enter, Driving, Walking, Walked, Cast
<1>1. CASE Replay!OriginsSeeded
  BY <1>1 DEF Replay!OriginsSeeded
<1>2. CASE Replay!DriveStarted
  BY <1>2, ExampleAssumption DEF Replay!DriveStarted
<1>3. CASE Replay!AllStarted
  BY <1>3 DEF Replay!AllStarted
<1>4. CASE Replay!Unsent
  BY <1>4 DEF Replay!Unsent
<1>5. CASE Replay!Complete
  BY <1>5 DEF Replay!Complete
<1>6. CASE rscript = <<>> /\ \E a \in Actor : Replay!Returns(a)
  BY <1>6 DEF Replay!Returns, Replay!InUserCode
<1> QED BY <1>1, <1>2, <1>3, <1>4, <1>5, <1>6 DEF Drives

LEMMA RedoCases ==
    ASSUME Redo
    PROVE  \/ Rebuild \/ Reseed \/ Rehandles \/ \E a \in Actor : Recalls(a)
           \/ ReplayLogStep /\ UNCHANGED systemVars /\ UNCHANGED redoneVars
           \/ Drives /\ UNCHANGED redoneVars
  BY DEF Redo, Drives

LEMMA CastRedo ==
    ASSUME Cast, Redo
    PROVE  Cast'
<1>1. /\ UNCHANGED <<prog, st, script>> /\ prog \in Program /\ prog # None
      /\ phase # "recording" /\ phase' # "recording"
  BY RedoStep, RoleAssumption DEF recordedVars
<1>2. /\ prog' \in Program \cup {None} /\ prog' # None
      /\ st' = [a \in Actor |-> st'[a]]
      /\ script' = [a \in Actor |-> script'[a]] /\ \A a \in Actor : Proper(a, script'[a])
  BY <1>1 DEF Cast
<1>3. CASE Rebuild
  BY <1>1, <1>2, <1>3, Rebuilt DEF Cast, Walking, Driving, Rebuild, redoneVars, Topology, Replay!SetUp
<1>4. CASE Reseed
  <2>1. phase = "origins" /\ phase' = "origins" /\ UNCHANGED <<rebuilt, reorigins, rst, rscript>>
    BY <1>4 DEF Reseed, Replay!SeedOrigin, Replay!setupVars
  <2> QED BY <1>1, <1>2, <2>1 DEF Cast, Walking, Driving, Topology
<1>5. CASE Rehandles
  <2>1. phase = "walk" /\ phase' \in {"walk"} \cup Driving /\ UNCHANGED <<rebuilt, reorigins>>
    BY <1>5, Rehandled
  <2>2. rebuilt = Topology(prog) /\ rebuilt \subseteq Actor /\ rscript = <<>>
    BY <2>1 DEF Cast, Walking, Driving, Topology
  <2>3. CASE phase' = "walk" /\ UNCHANGED <<rst, rscript>>
    BY <1>1, <1>2, <2>1, <2>2, <2>3 DEF Cast, Walking, Driving, Topology
  <2>4. CASE phase' \in Driving /\ driving' \in rebuilt
    <3>1. driving' # None
      BY <2>2, <2>4, Roles
    <3>2. PICK r, m : /\ r = Handle(prog, driving', rst[driving'], m)
                      /\ rst' = [rst EXCEPT ![driving'] = r.st] /\ rscript' = r.calls
      BY <1>5, <2>4, <3>1, Rehandled DEF Driving
    <3>3. Proper(driving', rscript')
      BY <1>1, <2>2, <2>4, <3>2, ProperHandle
    <3>4. rst' = [a \in Actor |-> rst'[a]]
      BY <3>2 DEF Cast
    <3> QED BY <1>1, <1>2, <2>1, <2>2, <2>4, <3>3, <3>4 DEF Cast, Walking, Driving, Topology
  <2> QED BY <1>5, <2>3, <2>4, Rehandled
<1>6. ASSUME NEW a \in Actor, Recalls(a)
      PROVE  Cast'
  <2>1. /\ phase = "userHandle" /\ phase' = phase /\ driving = a /\ driving' = driving /\ rst' = rst
        /\ Proper(a, rscript')
    BY <1>6, Recalled, ProperCalls
  <2>2. UNCHANGED <<rebuilt, reorigins>>
    BY <1>6, Recalled, WalkStep
  <2> QED BY <1>1, <1>2, <2>1, <2>2 DEF Cast, Walking, Driving, Topology
<1>7. CASE ReplayLogStep /\ UNCHANGED systemVars /\ UNCHANGED redoneVars
  <2>1. phase' \in Reading /\ phase \in Reading
    BY <1>7, ReadingStep
  <2> QED BY <1>1, <1>2, <1>7, <2>1 DEF Cast, Walking, Driving, Reading, Rejected, redoneVars
<1>8. CASE Drives /\ UNCHANGED redoneVars
  BY <1>1, <1>2, <1>8, DriveStep DEF Cast, redoneVars, Topology
<1> QED BY <1>3, <1>4, <1>5, <1>6, <1>7, <1>8, RedoCases

LEMMA CastNext ==
    ASSUME Cast, [ProgramNext]_programVars
    PROVE  Cast'
<1>1. ASSUME NEW p \in Program, Spawn(p)
      PROVE  Cast'
  <2>1. /\ prog = None /\ prog' = p /\ st' = Fresh(p) /\ rst' = Fresh(p) /\ p # None
        /\ UNCHANGED <<phase, script, rscript, driving>> /\ phase = "recording"
    BY <1>1, RoleAssumption DEF Spawn, runVars, replayVars, systemVars, Cast
  <2> QED BY <2>1, FreshIsAFunction DEF Cast, Walking, Driving
<1>2. CASE ReadBack
  <2>1. phase = "recording" /\ phase' = "build" /\ UNCHANGED <<prog, st, rst, rscript, driving>>
        /\ script' = [a \in Actor |-> <<>>] /\ mpc = "shutdown"
    BY <1>2 DEF ReadBack, systemVars, redoneVars
  <2>2. prog # None
    BY <2>1 DEF Cast, Init
  <2> QED BY <2>1, <2>2, ProperNothing DEF Cast, Walking, Driving
<1>3. CASE UNCHANGED programVars
  <2>1. UNCHANGED <<prog, phase, st, rst, script, rscript, body, rebuilt, reorigins, driving>> /\ UNCHANGED vars
    BY <1>3 DEF programVars, runVars, replayVars, systemVars, recordedVars, redoneVars
  <2>2. Init => Init'
    BY <2>1 DEF vars, Init, ZeroClock, Node
  <2> QED BY <2>1, <2>2 DEF Cast, Walking, Driving, Topology
<1>4. CASE Over /\ UNCHANGED <<prog, recordedVars, redoneVars>>
  BY <1>3, <1>4 DEF Over, programVars
<1> QED BY <1>1, <1>2, <1>3, <1>4, CastRecord, CastRedo DEF ProgramNext

----------------------------------------------------------------------------
(* What a run keeps, an example keeps                                      *)

LEMMA StillIntact ==
    ASSUME [ProgramNext]_programVars
    PROVE  intact' = intact
  BY DEF ProgramNext, Spawn, RecordProgram, ReadBack, Redo, Over, programVars, runVars

LEMMA WriterStaysUp ==
    ASSUME Main \/ \E a \in Actor : Task(a)
    PROVE  writerUp' = writerUp
<1>1. ASSUME NEW a \in Actor, Task(a)
      PROVE  writerUp' = writerUp
  BY <1>1 DEF Task, Start, StartedReturns, Park, Recv, Settle, NotifyDone, Compute, SendStamp,
     SendRecord, SendCount, SendDeliver, SendUndo, NotifyUndo, Cancel, Record
<1>2. CASE Main
  BY <1>2 DEF Main, ExternalStamp, ExternalRecord, ExternalCount, ExternalDeliver,
     RunUntilQuiescent, Check, Await, Abort, Close, Record
<1> QED BY <1>1, <1>2

LEMMA RecordingInvInit == ProgramInit => RecordingInv
<1> SUFFICES ASSUME ProgramInit PROVE RecordingInv
  OBVIOUS
<1>1. Init /\ RunInit /\ phase = "recording"
  BY DEF ProgramInit, RunInit
<1>2. QuiescentShutdown /\ writerUp
  BY <1>1 DEF Init, QuiescentShutdown, Down
<1> QED BY <1>1, <1>2, RecordingInit, AccountsInit, HandlersSendInit, WorldlyInit DEF RecordingInv, RecordInv

LEMMA RunInvInit == ProgramInit => RunInv
<1> SUFFICES ASSUME ProgramInit PROVE RunInv
  OBVIOUS
<1>1. RunInit /\ phase = "recording" /\ Init /\ order = <<>> /\ intact
  BY DEF ProgramInit, RunInit, Replay!ReplayInit, Replay!KahnInit
<1>2. Len(order) = 0
  BY <1>1
<1> QED BY <1>1, <1>2, ReplayInvInit, WorldlyInit
    DEF RunInv, UnflaggedInv, PanicInv, MatchesInv, OriginInv, SortedInv, Ascending, Walking, Rejected

LEMMA RecordingInvNext ==
    ASSUME Cast, RecordingInv, [ProgramNext]_programVars
    PROVE  RecordingInv'
<1> SUFFICES ASSUME phase' = "recording"
             PROVE  (/\ Recording /\ Accounts /\ HandlersSend /\ QuiescentShutdown
                     /\ Worldly /\ writerUp)'
  BY DEF RecordingInv
<1>1. CASE RecordProgram
  <2>1. /\ phase = "recording" /\ [Next]_vars
        /\ Main \/ \E a \in Actor : Task(a)
    BY <1>1, RecordProgramStep, RecordedStep
  <2>2. Recording /\ TypeInv /\ Accounts /\ HandlersSend /\ QuiescentShutdown /\ Worldly /\ writerUp
    BY <2>1 DEF RecordingInv, Recording
  <2>3. Worldly'
    BY <2>1, <2>2, WorldlyTask, WorldlyMain, ExampleAssumption
  <2>4. writerUp'
    BY <2>1, <2>2, WriterStaysUp
  <2>5. Recording' /\ Accounts' /\ HandlersSend' /\ QuiescentShutdown'
    BY <2>1, <2>2, RecordingGoesOn, AccountsNext, HandlersSendNext, QuietNext, ExampleAssumption
  <2> QED BY <2>3, <2>4, <2>5
<1>2. CASE UNCHANGED <<vars, phase>>
  <2>1. UNCHANGED vars /\ phase = "recording"
    BY <1>2
  <2>2. Recording /\ TypeInv /\ Accounts /\ HandlersSend /\ QuiescentShutdown /\ Worldly /\ writerUp
    BY <2>1 DEF RecordingInv, Recording
  <2>3. Worldly'
    BY <2>1, <2>2, WorldlyMain, ExampleAssumption
  <2>4. writerUp' = writerUp
    BY <2>1 DEF vars
  <2>5. Recording' /\ Accounts' /\ HandlersSend' /\ QuiescentShutdown'
    BY <2>1, <2>2, RecordingGoesOn, AccountsNext, HandlersSendNext, QuietNext, ExampleAssumption
  <2> QED BY <2>2, <2>3, <2>4, <2>5
<1>3. CASE Redo
  BY <1>3, RedoStep
<1>4. CASE (\E p \in Program : Spawn(p)) \/ Over \/ UNCHANGED programVars
  <2>1. UNCHANGED runVars
    BY <1>4 DEF Spawn, Over, programVars
  <2> QED BY <1>2, <2>1 DEF runVars, replayVars
<1> QED BY <1>1, <1>3, <1>4 DEF ProgramNext, ReadBack

LEMMA ReadBackReads ==
    ASSUME RecordingInv, RunInv, ReadBack
    PROVE  /\ phase = "recording" /\ phase' = "build" /\ log' = recorded
           /\ ReadableLog(recorded) /\ Sound(recorded) /\ OneOrigin(recorded)
           /\ order' = order /\ order = <<>>
<1>1. /\ phase = "recording" /\ phase' = "build" /\ log' = recorded /\ order' = order
  BY DEF ReadBack, kahnVars
<1>2. Recording /\ Worldly /\ recorded \in Seq(Event) /\ NothingRead
  BY <1>1, TypedState DEF RecordingInv, Recording, RunInv, ReplayInv, RecordInv
<1>3. recorded \in Intact(recorded)
  <2>1. Len(recorded) \in 0..Len(recorded) /\ SubSeq(recorded, 1, Len(recorded)) = recorded
    BY <1>2
  <2> QED BY <2>1 DEF Intact
<1>4. Sound(recorded) /\ ReadableLog(recorded) /\ OneOrigin(recorded)
  BY <1>2, <1>3, SoundIntact, ReadableRecorded, OneOriginIntact
<1> QED BY <1>1, <1>2, <1>4 DEF NothingRead, KahnInit

LEMMA ReadBackKeeps ==
    ASSUME RecordingInv, RunInv, ReadBack
    PROVE  RunInv'
<1>1. /\ phase = "recording" /\ phase' = "build" /\ log' = recorded
      /\ ReadableLog(recorded) /\ Sound(recorded) /\ OneOrigin(recorded) /\ order' = <<>>
  BY ReadBackReads
<1>2. UNCHANGED <<kahnVars, systemVars>> /\ UNCHANGED intact /\ intact
  BY DEF ReadBack, RunInv
<1>3. ReadableLog(log)' /\ Sound(log)' /\ OneOrigin(log)'
  BY <1>1, Zenon
<1>4. LogFacts' /\ RecordInv' /\ OriginInv'
  BY <1>1, <1>3 DEF LogFacts, RecordInv, OriginInv
<1>5. ReadingInv'
  BY <1>1, <1>2, <1>3, ReadingBegins DEF RunInv, ReplayInv, RecordInv
<1>6. ReplayTypes'
  <2>1. UNCHANGED <<rebuilt, reorigins, reclock, relamport, reseq, sendCount, pending, next, did, driving>>
    BY <1>2 DEF systemVars
  <2> QED BY <1>1, <2>1 DEF RunInv, ReplayInv, ReplayTypes
<1>7. UnflaggedInv' /\ PanicInv' /\ MatchesInv'
  BY <1>1 DEF UnflaggedInv, PanicInv, MatchesInv, Walking
<1>8. SortedInv'
  <2>1. Len(order') = 0
    BY <1>1
  <2> QED BY <1>1, <2>1 DEF SortedInv, Ascending, Rejected
<1> QED BY <1>2, <1>4, <1>5, <1>6, <1>7, <1>8 DEF RunInv, ReplayInv

LEMMA RunInvNext ==
    ASSUME Cast, RecordingInv, RunInv, [ProgramNext]_programVars
    PROVE  RunInv'
<1>1. CASE [RunNext]_runVars
  <2>1. ReplayInv' /\ UnflaggedInv' /\ PanicInv' /\ MatchesInv'
    BY <1>1, ReplayInvNext, UnflaggedNext, PanicNext, MatchesNext, ExampleAssumption DEF RunInv
  <2>2. OriginInv'
    BY <1>1, OriginInvNext, ExampleAssumption DEF RunInv, ReplayInv
  <2>3. SortedInv'
    BY <1>1, <2>1, <2>2, SortedNext DEF RunInv
  <2> QED BY <2>1, <2>2, <2>3, StillIntact DEF RunInv
<1> QED BY <1>1, ProgramStep, ReadBackKeeps

----------------------------------------------------------------------------
(***************************************************************************)
(* Why the log determines the states although it carries no payloads: to   *)
(* every event belongs what its actor held after it, namely its state and  *)
(* the calls it had still to make.  That follows from what it held before, *)
(* by the next call, or by handling a payload that the msg_id tells.       *)
(***************************************************************************)
Held(p, l, F, a, s) ==
    IF s = 0 THEN {Does(<<>>, Fresh(p)[a])}
    ELSE {F[i] : i \in {k \in DOMAIN l : l[k].actor = a /\ l[k].seq = s}}

Reacts(p, a, s, m) == Does(Handle(p, a, s, m).calls, Handle(p, a, s, m).st)

\* An actor that held m holds n after event ev; B has the payloads.
Taken(p, ev, m, n, B) ==
    \/ /\ ev.op = "recv" /\ m.calls = <<>> /\ ev.msg_id \in DOMAIN B
       /\ n = Reacts(p, ev.actor, m.st, B[ev.msg_id])
    \/ /\ m.calls # <<>> /\ ev.op = "compute" /\ Head(m.calls).call = "compute"
       /\ n = Does(Tail(m.calls), m.st)
    \/ /\ m.calls # <<>> /\ ev.op = "emit"
       /\ Head(m.calls).call = "send" /\ Head(m.calls).to = ev.dst
       /\ ev.msg_id \in DOMAIN B /\ B[ev.msg_id] = Head(m.calls).body
       /\ n = Does(Tail(m.calls), m.st)

Justified(p, l, F, B, ev, n) ==
    /\ ev.actor \in Topology(p) \cup {World}
    /\ IF ev.actor = World
       THEN ev.dst = Entry /\ ev.msg_id \in DOMAIN B /\ B[ev.msg_id] = 1
       ELSE \E m \in Held(p, l, F, ev.actor, ev.seq - 1) : Taken(p, ev, m, n, B)

Explained(p, l, F, B) == \A i \in DOMAIN l : Justified(p, l, F, B, l[i], F[i])

Extends(C, B) == \A x \in DOMAIN B : x \in DOMAIN C /\ C[x] = B[x]

LEMMA TakenStays ==
    ASSUME NEW p, NEW ev, NEW m, NEW n, NEW B, NEW C, Extends(C, B), Taken(p, ev, m, n, B)
    PROVE  Taken(p, ev, m, n, C)
  BY DEF Taken, Extends

LEMMA JustifiedStays ==
    ASSUME NEW p, NEW l, NEW F, NEW B, NEW k, NEW G, NEW C, Extends(C, B),
           \A a, s : Held(p, l, F, a, s) \subseteq Held(p, k, G, a, s),
           NEW ev, NEW n, Justified(p, l, F, B, ev, n)
    PROVE  Justified(p, k, G, C, ev, n)
<1>1. CASE ev.actor = World
  BY <1>1 DEF Justified, Extends
<1>2. CASE ev.actor # World
  <2>1. PICK m \in Held(p, l, F, ev.actor, ev.seq - 1) : Taken(p, ev, m, n, B)
    BY <1>2 DEF Justified
  <2>2. m \in Held(p, k, G, ev.actor, ev.seq - 1) /\ Taken(p, ev, m, n, C)
    BY <2>1, TakenStays
  <2> QED BY <1>2, <2>2 DEF Justified
<1> QED BY <1>1, <1>2

\* An event more is explained by what its actor holds after it.
LEMMA ExplainedGrows ==
    ASSUME NEW p, NEW l \in Seq(Event), NEW F, NEW B, Explained(p, l, F, B),
           NEW ev, NEW n, ev.seq # 0, Justified(p, l, F, B, ev, n)
    PROVE  \E G : /\ Explained(p, Append(l, ev), G, B)
                  /\ \A a, s : Held(p, l, F, a, s) \subseteq Held(p, Append(l, ev), G, a, s)
                  /\ n \in Held(p, Append(l, ev), G, ev.actor, ev.seq)
<1>1. PICK k : k = Append(l, ev)
  OBVIOUS
<1>2. /\ Len(l) \in Nat /\ DOMAIN l = 1..Len(l) /\ DOMAIN k = 1..(Len(l) + 1)
      /\ \A i \in DOMAIN l : i \in DOMAIN k /\ k[i] = l[i]
      /\ k[Len(l) + 1] = ev
  BY <1>1, LongerLog
<1>3. PICK G : G = [i \in DOMAIN k |-> IF i \in DOMAIN l THEN F[i] ELSE n]
  OBVIOUS
<1>4. /\ \A i \in DOMAIN l : G[i] = F[i]
      /\ Len(l) + 1 \in DOMAIN k /\ Len(l) + 1 \notin DOMAIN l /\ G[Len(l) + 1] = n
  BY <1>2, <1>3
<1>5. \A a, s : Held(p, l, F, a, s) \subseteq Held(p, k, G, a, s)
  BY <1>2, <1>4 DEF Held
<1>6. n \in Held(p, k, G, ev.actor, ev.seq)
  BY <1>2, <1>4 DEF Held
<1>7. Extends(B, B)
  BY DEF Extends
<1>8. ASSUME NEW i \in DOMAIN k
      PROVE  Justified(p, k, G, B, k[i], G[i])
  <2>1. Justified(p, l, F, B, k[i], G[i])
    BY <1>2, <1>4 DEF Explained
  <2> QED BY <1>5, <1>7, <2>1, JustifiedStays
<1> QED BY <1>1, <1>5, <1>6, <1>8 DEF Explained

LEMMA ExplainedStays ==
    ASSUME NEW p, NEW l, NEW F, NEW B, NEW C, Extends(C, B), Explained(p, l, F, B)
    PROVE  Explained(p, l, F, C)
<1>1. \A a, s : Held(p, l, F, a, s) \subseteq Held(p, l, F, a, s)
  OBVIOUS
<1> QED BY <1>1, JustifiedStays DEF Explained

LEMMA OneHeld ==
    ASSUME NEW p, NEW l, Sound(l), NEW F, NEW a \in Actor, NEW s,
           NEW m \in Held(p, l, F, a, s), NEW n \in Held(p, l, F, a, s)
    PROVE  m = n
<1>1. a # World
  BY ActorAssumption
<1> QED BY <1>1 DEF Held, Sound

----------------------------------------------------------------------------
(* The recording explains its log                                          *)

Payloads ==
    /\ \E S : body \in Seq(S) /\ Len(body) = msgId
    /\ mpc = "record" => /\ out[World].dst = Entry /\ out[World].msg_id \in DOMAIN body
                         /\ body[out[World].msg_id] = 1
    /\ mpc # "record" /\ (mpc # "setup" \/ origins # 0) => \E i \in DOMAIN recorded : OriginAt(i)
    /\ \A a \in Actor : ~handling[a] => script[a] = <<>>

\* After its last recorded event, actor a held m.
Holds(a, m) ==
    IF pc[a] = "emit"
    THEN /\ m.calls # <<>> /\ Head(m.calls).call = "send" /\ Head(m.calls).to = out[a].dst
         /\ out[a].msg_id \in DOMAIN body /\ body[out[a].msg_id] = Head(m.calls).body
         /\ script[a] = Tail(m.calls) /\ st[a] = m.st
    ELSE m = Does(script[a], st[a])

Told(F) ==
    /\ Explained(prog, recorded, F, body)
    /\ \A a \in Actor : \E m \in Held(prog, recorded, F, a, Reported(a)) : Holds(a, m)

RecordedInv == phase = "recording" /\ prog # None => Payloads /\ \E F : Told(F)

LEMMA StillTold ==
    ASSUME NEW F, Told(F), UNCHANGED <<prog, recorded>>, Extends(body', body),
           \A a \in Actor : Reported(a)' = Reported(a) /\ \A m : Holds(a, m) => Holds(a, m)'
    PROVE  Told(F)'
<1>1. Explained(prog, recorded, F, body')
  BY ExplainedStays DEF Told
<1>2. ASSUME NEW a \in Actor
      PROVE  \E m \in Held(prog, recorded, F, a, Reported(a)') : Holds(a, m)'
  BY DEF Told
<1> QED BY <1>1, <1>2, Zenon DEF Told

LEMMA ToldMore ==
    ASSUME NEW F, Told(F), UNCHANGED <<prog, body>>, recorded \in Seq(Event),
           NEW ev, recorded' = Append(recorded, ev), ev.seq # 0,
           NEW n, Justified(prog, recorded, F, body, ev, n),
           \A a \in Actor :
             IF a = ev.actor THEN Reported(a)' = ev.seq /\ Holds(a, n)'
             ELSE Reported(a)' = Reported(a) /\ \A m : Holds(a, m) => Holds(a, m)'
    PROVE  \E G : Told(G)'
<1>1. PICK G : /\ Explained(prog, recorded', G, body)
               /\ \A a, s : Held(prog, recorded, F, a, s) \subseteq Held(prog, recorded', G, a, s)
               /\ n \in Held(prog, recorded', G, ev.actor, ev.seq)
  BY ExplainedGrows DEF Told
<1>2. ASSUME NEW a \in Actor
      PROVE  \E m \in Held(prog, recorded', G, a, Reported(a)') : Holds(a, m)'
  <2>1. CASE a = ev.actor
    BY <1>1, <2>1
  <2>2. CASE a # ev.actor
    <3>1. PICK m \in Held(prog, recorded, F, a, Reported(a)) : Holds(a, m)
      BY DEF Told
    <3> QED BY <1>1, <2>2, <3>1
  <2> QED BY <2>1, <2>2
<1> QED BY <1>1, <1>2, Zenon DEF Told

LEMMA AppendExtends ==
    ASSUME NEW S, NEW B \in Seq(S), NEW x
    PROVE  /\ Append(B, x) \in Seq(S \cup {x}) /\ Len(Append(B, x)) = Len(B) + 1
           /\ Extends(Append(B, x), B)
           /\ Len(B) + 1 \in DOMAIN Append(B, x) /\ Append(B, x)[Len(B) + 1] = x
<1>1. B \in Seq(S \cup {x}) /\ DOMAIN B = 1..Len(B) /\ Len(B) \in Nat
  OBVIOUS
<1> QED BY <1>1 DEF Extends

\* A payload is there for every msg_id that was drawn.
LEMMA BodySteps ==
    ASSUME RecordProgram
    PROVE  \/ UNCHANGED <<body, msgId>>
           \/ \E x : body' = Append(body, x) /\ msgId' = msgId + 1
<1>1. CASE MainSteps
  BY <1>1 DEF MainSteps, Origin, ExternalStamp, ExternalRecord, ExternalCount, ExternalDeliver,
     RunUntilQuiescent, Check, Await, recordedVars
<1>2. ASSUME NEW a \in Topology(prog), TaskSteps(a)
      PROVE  \/ UNCHANGED <<body, msgId>>
             \/ \E x : body' = Append(body, x) /\ msgId' = msgId + 1
  BY <1>2 DEF TaskSteps, Handles, Calls, Recv, Start, Settle, NotifyDone, Compute, SendStamp,
     SendRecord, SendCount, SendDeliver, recordedVars
<1> QED BY <1>1, <1>2 DEF RecordProgram

LEMMA LogSteps ==
    ASSUME TypeInv, writerUp, RecordProgram
    PROVE  recorded' = recorded \/ \E ev : recorded' = Append(recorded, ev)
<1>1. CASE MainSteps
  BY <1>1 DEF MainSteps, Origin, ExternalStamp, ExternalRecord, ExternalCount, ExternalDeliver,
     RunUntilQuiescent, Check, Await, Record
<1>2. ASSUME NEW a \in Topology(prog), TaskSteps(a)
      PROVE  recorded' = recorded \/ \E ev : recorded' = Append(recorded, ev)
  BY <1>2 DEF TaskSteps, Handles, Calls, Recv, Start, Settle, NotifyDone, Compute, SendStamp,
     SendRecord, SendCount, SendDeliver, Record
<1> QED BY <1>1, <1>2 DEF RecordProgram

LEMMA PayloadsNext ==
    ASSUME TypeInv, writerUp, Payloads, RecordProgram
    PROVE  Payloads'
<1>1. PICK S : body \in Seq(S) /\ Len(body) = msgId
  BY DEF Payloads
<1>2. /\ \E T : body' \in Seq(T) /\ Len(body') = msgId'
      /\ Extends(body', body)
  <2>1. CASE UNCHANGED <<body, msgId>>
    BY <1>1, <2>1 DEF Extends
  <2>2. ASSUME NEW x, body' = Append(body, x), msgId' = msgId + 1
        PROVE  /\ \E T : body' \in Seq(T) /\ Len(body') = msgId'
               /\ Extends(body', body)
    BY <1>1, <2>2, AppendExtends
  <2> QED BY <2>1, <2>2, BodySteps
<1>3. mpc' = "record" => /\ out'[World].dst = Entry /\ out'[World].msg_id \in DOMAIN body'
                         /\ body'[out'[World].msg_id] = 1
  <2>1. CASE Origin
    <3>1. msgId' = msgId + 1 /\ body' = Append(body, 1)
      BY <2>1 DEF Origin, ExternalStamp
    <3>2. out'[World].dst = Entry /\ out'[World].msg_id = msgId + 1
      BY <2>1, TypedState DEF Origin, ExternalStamp
    <3> QED BY <1>1, <3>1, <3>2, AppendExtends
  <2>2. CASE MainSteps /\ ~Origin
    BY <2>2 DEF MainSteps, ExternalRecord, ExternalCount, ExternalDeliver, RunUntilQuiescent, Check, Await, MainGoto
  <2>3. ASSUME NEW a \in Topology(prog), TaskSteps(a), mpc = "parked"
        PROVE  mpc' # "record"
    BY <2>3 DEF TaskSteps, Handles, Calls, Recv, Start, Settle, NotifyDone, NotifyOne, MainGoto, Compute,
       SendStamp, SendRecord, SendCount, SendDeliver
  <2> QED BY <2>1, <2>2, <2>3 DEF RecordProgram
<1>4. (\E i \in DOMAIN recorded : OriginAt(i)) => (\E i \in DOMAIN recorded' : OriginAt(i)')
  BY LogSteps, AppendFacts DEF OriginAt
<1>5. mpc' # "record" /\ (mpc' # "setup" \/ origins' # 0) => \E i \in DOMAIN recorded' : OriginAt(i)'
  <2>1. CASE ExternalRecord
    <3>1. recorded' = Append(recorded, EmitEvent(World, 1, out[World]))
      BY <2>1 DEF ExternalRecord, Record
    <3>2. EmitEvent(World, 1, out[World]).actor = World
      BY DEF EmitEvent
    <3> QED BY <3>1, <3>2, AppendFacts DEF OriginAt
  <2>2. CASE MainSteps /\ ~ExternalRecord
    <3>1. CASE Origin
      BY <3>1 DEF Origin, ExternalStamp, MainGoto
    <3>2. CASE ExternalCount \/ ExternalDeliver \/ Check \/ Await
      <4>1. mpc \in {"count", "deliver", "check", "await"}
        BY <3>2 DEF ExternalCount, ExternalDeliver, Check, Await
      <4> QED BY <1>4, <4>1 DEF Payloads
    <3>3. CASE origins = 1 /\ RunUntilQuiescent
      <4>1. mpc = "setup" /\ origins # 0
        BY <3>3 DEF RunUntilQuiescent
      <4> QED BY <1>4, <4>1 DEF Payloads
    <3> QED BY <2>2, <3>1, <3>2, <3>3 DEF MainSteps
  <2>3. CASE mpc = "parked"
    BY <1>4, <2>3 DEF Payloads
  <2> QED BY <2>1, <2>2, <2>3 DEF RecordProgram
<1>6. ASSUME NEW b \in Actor, ~handling'[b]
      PROVE  script'[b] = <<>>
  <2>0. handling \in [Actor -> BOOLEAN]
    BY DEF TypeInv, Typing, TaskTypes
  <2>1. CASE UNCHANGED <<handling, script>>
    BY <1>6, <2>1 DEF Payloads
  <2>2. ASSUME NEW a \in Topology(prog), Handles(a)
        PROVE  script'[b] = <<>>
    <3>1. /\ handling' = [handling EXCEPT ![a] = TRUE]
          /\ \E r : script' = [script EXCEPT ![a] = r]
      BY <2>2 DEF Handles, Recv
    <3>2. a \in Actor
      BY DEF Topology
    <3> QED BY <1>6, <2>0, <3>1, <3>2 DEF Payloads
  <2>3. ASSUME NEW a \in Topology(prog), Calls(a)
        PROVE  script'[b] = <<>>
    <3>1. handling' = handling /\ script' = [script EXCEPT ![a] = Tail(@)] /\ script[a] # <<>>
      BY <2>3 DEF Calls, Compute, SendStamp
    <3>2. a \in Actor
      BY DEF Topology
    <3> QED BY <1>6, <2>0, <3>1, <3>2 DEF Payloads
  <2>4. ASSUME NEW a \in Topology(prog), script[a] = <<>>, Settle(a), script' = script
        PROVE  script'[b] = <<>>
    BY <1>6, <2>0, <2>4 DEF Settle, Payloads
  <2>5. CASE MainSteps
    BY <2>1, <2>5 DEF MainSteps, Origin, ExternalStamp, ExternalRecord, ExternalCount, ExternalDeliver,
       RunUntilQuiescent, Check, Await, recordedVars
  <2>6. ASSUME NEW a \in Topology(prog),
               (mailbox[a] # <<>> /\ Start(a)) \/ SendRecord(a) \/ SendCount(a) \/ SendDeliver(a) \/ NotifyDone(a),
               UNCHANGED recordedVars
        PROVE  script'[b] = <<>>
    BY <2>1, <2>6 DEF Start, SendRecord, SendCount, SendDeliver, NotifyDone, recordedVars
  <2> QED BY <2>2, <2>3, <2>4, <2>5, <2>6 DEF RecordProgram, TaskSteps, recordedVars
<1> QED BY <1>2, <1>3, <1>5, <1>6, Zenon DEF Payloads

\* A step that records nothing and touches no script.
LEMMA QuietlyTold ==
    ASSUME NEW F, Told(F), UNCHANGED <<prog, recorded, seq, script, st>>, Extends(body', body),
           \A b \in Actor : /\ pc'[b] = "emit" <=> pc[b] = "emit"
                            /\ pc[b] = "emit" => out'[b] = out[b]
    PROVE  Told(F)'
<1>1. ASSUME NEW b \in Actor
      PROVE  Reported(b)' = Reported(b) /\ \A m : Holds(b, m) => Holds(b, m)'
  <2>1. Reported(b)' = Reported(b)
    BY Roles DEF Reported, ToRecord
  <2>2. ASSUME NEW m, Holds(b, m)
        PROVE  Holds(b, m)'
    <3>1. CASE pc[b] = "emit"
      BY <2>2, <3>1 DEF Holds, Extends
    <3>2. CASE pc[b] # "emit"
      BY <2>2, <3>2 DEF Holds
    <3> QED BY <3>1, <3>2
  <2> QED BY <2>1, <2>2
<1> QED BY <1>1, StillTold

\* A step that records an event of an actor.
LEMMA ActorTold ==
    ASSUME TypeInv, Cast, NEW F, Told(F), UNCHANGED <<prog, body, out>>,
           NEW a \in Actor, a \in Topology(prog),
           NEW ev, recorded' = Append(recorded, ev), ev.actor = a, ev.seq = Reported(a) + 1,
           Reported(a)' = ev.seq, pc'[a] # "emit",
           \A m : Holds(a, m) => Taken(prog, ev, m, Does(script'[a], st'[a]), body),
           \A b \in Actor : b # a => /\ pc'[b] = pc[b] /\ seq'[b] = seq[b]
                                     /\ script'[b] = script[b] /\ st'[b] = st[b]
    PROVE  \E G : Told(G)'
<1>1. recorded \in Seq(Event) /\ Reported(a) \in Int /\ a # World
  BY TypedState, ReportedType
<1>2. PICK m \in Held(prog, recorded, F, a, Reported(a)) : Holds(a, m)
  BY DEF Told
<1>3. ev.seq - 1 = Reported(a)
  BY <1>1
<1>4. PICK n : n = Does(script'[a], st'[a])
  OBVIOUS
<1>7. Justified(prog, recorded, F, body, ev, n)
  BY <1>1, <1>2, <1>3, <1>4 DEF Justified
<1>5. ev.seq # 0
  <2>1. Reported(a) \in Int /\ Reported(a) >= 0
    <3>1. seq[a] \in Nat /\ Reported(a) \in Int
      BY ReportedType
    <3>2. Reported(a) >= 0
      <4>1. CASE Reported(a) = 0
        BY <4>1
      <4>2. CASE Reported(a) # 0
        <5>1. PICK i \in DOMAIN recorded : recorded[i].seq = Reported(a)
          BY <1>2, <4>2 DEF Held
        <5>2. recorded[i].seq \in Nat
          BY RecordedTypes
        <5> QED BY <5>1, <5>2
      <4> QED BY <4>1, <4>2
    <3> QED BY <3>1, <3>2
  <2> QED BY <2>1
<1>6. ASSUME NEW b \in Actor
      PROVE  IF b = ev.actor THEN Reported(b)' = ev.seq /\ Holds(b, n)'
             ELSE Reported(b)' = Reported(b) /\ \A x : Holds(b, x) => Holds(b, x)'
  <2>1. CASE b = a
    <3>1. Holds(a, n)'
      BY <1>4 DEF Holds
    <3> QED BY <2>1, <3>1
  <2>2. CASE b # a
    <3>1. Reported(b)' = Reported(b)
      BY <2>2, Roles DEF Reported, ToRecord
    <3>2. \A x : Holds(b, x) => Holds(b, x)'
      BY <2>2 DEF Holds
    <3> QED BY <2>2, <3>1, <3>2
  <2> QED BY <2>1, <2>2
<1> QED BY <1>1, <1>5, <1>6, <1>7, ToldMore

\* Whatever is in a mailbox, its payload is known.
LEMMA PayloadIsThere ==
    ASSUME TypeInv, LogInv, writerUp, NEW F, Told(F), NEW a \in Actor, mailbox[a] # <<>>
    PROVE  Head(mailbox[a]).msg_id \in DOMAIN body
<1>1. mailbox[a] \in Seq(Envelope)
  BY TypedState
<1>2. 1 \in DOMAIN mailbox[a] /\ Head(mailbox[a]) = mailbox[a][1]
  BY <1>1
<1>3. Head(mailbox[a]) \in Posted
  BY <1>2 DEF Posted, Boxed
<1>4. PICK i \in DOMAIN recorded : EmitOf(i, Head(mailbox[a]))
  BY <1>3 DEF LogInv, Linked
<1>5. Justified(prog, recorded, F, body, recorded[i], F[i])
  BY DEF Told, Explained
<1>6. recorded[i].msg_id \in DOMAIN body
  <2>1. recorded[i].op = "emit"
    BY <1>4 DEF EmitOf, IsEmit
  <2> QED BY <1>5, <2>1 DEF Justified, Taken
<1> QED BY <1>4, <1>6 DEF EmitOf

LEMMA ReceiptTold ==
    ASSUME TypeInv, LogInv, writerUp, Cast, Payloads, NEW F, Told(F), prog' = prog,
           NEW a \in Topology(prog), Handles(a)
    PROVE  \E G : Told(G)'
<1>1. a \in Actor /\ a # World
  BY ActorAssumption DEF Topology
<1>2. PICK env : env = Head(mailbox[a])
  OBVIOUS
<1>3. PICK r : r = Handle(prog, a, st[a], body[env.msg_id])
  OBVIOUS
<1>4. /\ st' = [st EXCEPT ![a] = r.st] /\ script' = [script EXCEPT ![a] = r.calls]
      /\ UNCHANGED <<body, out>> /\ pc[a] \in {"loop", "parked"} /\ mailbox[a] # <<>>
      /\ seq' = [seq EXCEPT ![a] = @ + 1]
      /\ \E label \in {"user", "mistyped"} : pc' = [pc EXCEPT ![a] = label]
  BY <1>2, <1>3 DEF Handles, Recv, Goto
<1>5. PICK vc, lam, ev : ev = RecvEvent(a, seq[a] + 1, vc, lam, env) /\ recorded' = Append(recorded, ev)
  BY <1>2 DEF Handles, Recv, Record
<1>6. ev.actor = a /\ ev.seq = seq[a] + 1 /\ ev.op = "recv" /\ ev.msg_id = env.msg_id
  BY <1>5 DEF RecvEvent
<1>7. script[a] = <<>> /\ st'[a] = r.st /\ script'[a] = r.calls
  <2>1. ~handling[a]
    BY <1>1, <1>4 DEF TypeInv, Shape, Sending
  <2>2. st = [b \in Actor |-> st[b]] /\ script = [b \in Actor |-> script[b]]
    BY DEF Cast
  <2> QED BY <1>1, <1>4, <2>1, <2>2 DEF Payloads
<1>8. Reported(a) = seq[a] /\ Reported(a)' = seq[a] + 1 /\ pc'[a] # "emit"
  BY <1>1, <1>4, TypedState DEF Reported, ToRecord
<1>9. ASSUME NEW m, Holds(a, m)
      PROVE  Taken(prog, ev, m, Does(script'[a], st'[a]), body)
  <2>1. m.calls = <<>> /\ m.st = st[a]
    BY <1>4, <1>7, <1>9 DEF Holds, Does
  <2>2. ev.msg_id \in DOMAIN body
    BY <1>1, <1>2, <1>4, <1>6, PayloadIsThere
  <2> QED BY <1>3, <1>6, <1>7, <2>1, <2>2 DEF Taken, Reacts
<1>10. \A b \in Actor : b # a => /\ pc'[b] = pc[b] /\ seq'[b] = seq[b]
                                 /\ script'[b] = script[b] /\ st'[b] = st[b]
  <2>1. st = [b \in Actor |-> st[b]] /\ script = [b \in Actor |-> script[b]]
    BY DEF Cast
  <2> QED BY <1>1, <1>4, <2>1, TypedState
<1> QED BY <1>1, <1>4, <1>5, <1>6, <1>8, <1>9, <1>10, ActorTold

LEMMA CallTold ==
    ASSUME TypeInv, writerUp, Cast, Payloads, NEW F, Told(F), prog' = prog,
           NEW a \in Topology(prog), Calls(a)
    PROVE  \E G : Told(G)'
<1>1. a \in Actor /\ a # World
  BY ActorAssumption DEF Topology
<1>2. PICK c : c = Head(script[a])
  OBVIOUS
<1>3. /\ script[a] # <<>> /\ script' = [script EXCEPT ![a] = Tail(@)] /\ st' = st
      /\ script = [b \in Actor |-> script[b]]
  BY DEF Calls, Cast
<1>4. script'[a] = Tail(script[a]) /\ \A b \in Actor : b # a => script'[b] = script[b]
  BY <1>1, <1>3
<1>5. CASE c.call = "compute" /\ Compute(a) /\ UNCHANGED body
  <2>1. /\ UNCHANGED <<body, out, pc>> /\ pc[a] = "user"
        /\ seq' = [seq EXCEPT ![a] = @ + 1]
    BY <1>5 DEF Compute, InUserCode
  <2>2. PICK vc, lam, ev : ev = ComputeEvent(a, seq[a] + 1, vc, lam) /\ recorded' = Append(recorded, ev)
    BY <1>5 DEF Compute, Record
  <2>3. ev.actor = a /\ ev.seq = seq[a] + 1 /\ ev.op = "compute"
    BY <2>2 DEF ComputeEvent
  <2>4. Reported(a) = seq[a] /\ Reported(a)' = seq[a] + 1 /\ pc'[a] # "emit"
    BY <1>1, <2>1, TypedState DEF Reported, ToRecord
  <2>5. ASSUME NEW m, Holds(a, m)
        PROVE  Taken(prog, ev, m, Does(script'[a], st'[a]), body)
    <3>1. m.calls = script[a] /\ m.st = st[a]
      BY <2>1, <2>5 DEF Holds, Does
    <3> QED BY <1>2, <1>3, <1>4, <1>5, <2>3, <3>1 DEF Taken
  <2>6. \A b \in Actor : b # a => pc'[b] = pc[b] /\ seq'[b] = seq[b]
    BY <1>1, <2>1, TypedState
  <2> QED BY <1>1, <1>3, <1>4, <2>1, <2>2, <2>3, <2>4, <2>5, <2>6, ActorTold
<1>6. CASE c.call = "send" /\ SendStamp(a, c.to) /\ body' = Append(body, c.body)
  <2>1. /\ recorded' = recorded /\ msgId' = msgId + 1 /\ pc[a] = "user"
        /\ seq' = [seq EXCEPT ![a] = @ + 1] /\ pc' = [pc EXCEPT ![a] = "emit"]
        /\ \E e : e.dst = c.to /\ e.msg_id = msgId + 1 /\ out' = [out EXCEPT ![a] = e]
    BY <1>6 DEF SendStamp, InUserCode, Goto
  <2>2. PICK e : e.dst = c.to /\ e.msg_id = msgId + 1 /\ out' = [out EXCEPT ![a] = e]
    BY <2>1
  <2>3. PICK S : body \in Seq(S) /\ Len(body) = msgId
    BY DEF Payloads
  <2>4. Extends(body', body) /\ e.msg_id \in DOMAIN body' /\ body'[e.msg_id] = c.body
    <3>1. PICK B, x : B = Append(body, x) /\ x = c.body /\ body' = B
      BY <1>6
    <3>2. Extends(B, body) /\ Len(body) + 1 \in DOMAIN B /\ B[Len(body) + 1] = x
      BY <2>3, <3>1, AppendExtends
    <3> QED BY <2>2, <2>3, <3>1, <3>2
  <2>5. /\ out'[a] = e /\ pc'[a] = "emit" /\ seq'[a] = seq[a] + 1 /\ seq[a] \in Nat
        /\ \A b \in Actor : b # a => pc'[b] = pc[b] /\ seq'[b] = seq[b] /\ out'[b] = out[b]
    BY <1>1, <2>1, <2>2, TypedState
  <2>6. ASSUME NEW b \in Actor
        PROVE  Reported(b)' = Reported(b) /\ \A m : Holds(b, m) => Holds(b, m)'
    <3>1. CASE b = a
      <4>1. Reported(b) = seq[a] /\ Reported(b)' = (seq[a] + 1) - 1
        BY <1>1, <2>1, <2>5, <3>1 DEF Reported, ToRecord
      <4>2. ASSUME NEW m, Holds(b, m)
            PROVE  Holds(b, m)'
        <5>1. m.calls = script[a] /\ m.st = st[a]
          BY <2>1, <3>1, <4>2 DEF Holds, Does
        <5> QED BY <1>2, <1>3, <1>4, <1>6, <2>2, <2>4, <2>5, <3>1, <5>1 DEF Holds
      <4> QED BY <2>5, <4>1, <4>2
    <3>2. CASE b # a
      <4>1. Reported(b)' = Reported(b)
        BY <2>5, <3>2, Roles DEF Reported, ToRecord
      <4>2. ASSUME NEW m, Holds(b, m)
            PROVE  Holds(b, m)'
        <5>1. CASE pc[b] = "emit"
          BY <1>3, <1>4, <2>4, <2>5, <3>2, <4>2, <5>1 DEF Holds, Extends
        <5>2. CASE pc[b] # "emit"
          BY <1>3, <1>4, <2>5, <3>2, <4>2, <5>2 DEF Holds
        <5> QED BY <5>1, <5>2
      <4> QED BY <4>1, <4>2
    <3> QED BY <3>1, <3>2
  <2> QED BY <2>1, <2>4, <2>6, StillTold
<1> QED BY <1>2, <1>5, <1>6 DEF Calls

LEMMA EmitTold ==
    ASSUME TypeInv, writerUp, Cast, NEW F, Told(F), prog' = prog,
           NEW a \in Topology(prog), SendRecord(a), UNCHANGED recordedVars
    PROVE  \E G : Told(G)'
<1>1. a \in Actor /\ a # World /\ UNCHANGED <<st, script, body>>
  BY ActorAssumption DEF Topology, recordedVars
<1>2. /\ pc[a] = "emit" /\ pc' = [pc EXCEPT ![a] = "count"] /\ UNCHANGED <<out, seq>>
      /\ recorded' = Append(recorded, EmitEvent(a, seq[a], out[a]))
  BY DEF SendRecord, Record, Goto, taskVars
<1>3. PICK ev : ev = EmitEvent(a, seq[a], out[a])
  OBVIOUS
<1>4. ev.actor = a /\ ev.seq = seq[a] /\ ev.op = "emit" /\ ev.msg_id = out[a].msg_id /\ ev.dst = out[a].dst
  BY <1>3 DEF EmitEvent
<1>5. Reported(a) = seq[a] - 1 /\ Reported(a)' = seq[a] /\ pc'[a] # "emit" /\ seq[a] \in Nat
  BY <1>1, <1>2, TypedState DEF Reported, ToRecord
<1>6. ASSUME NEW m, Holds(a, m)
      PROVE  Taken(prog, ev, m, Does(script'[a], st'[a]), body)
  <2>1. /\ m.calls # <<>> /\ Head(m.calls).call = "send" /\ Head(m.calls).to = out[a].dst
        /\ out[a].msg_id \in DOMAIN body /\ body[out[a].msg_id] = Head(m.calls).body
        /\ script[a] = Tail(m.calls) /\ st[a] = m.st
    BY <1>2, <1>6 DEF Holds
  <2> QED BY <1>1, <1>4, <2>1 DEF Taken
<1>7. \A b \in Actor : b # a => pc'[b] = pc[b]
  BY <1>2, TypedState
<1>8. ev.seq = Reported(a) + 1
  BY <1>4, <1>5
<1> QED BY <1>1, <1>2, <1>3, <1>4, <1>5, <1>6, <1>7, <1>8, ActorTold

\* A step of main or of a task that neither runs a handler nor records.
LEMMA OtherTold ==
    ASSUME TypeInv, writerUp, Cast, Payloads, NEW F, Told(F), RecordProgram,
           \/ MainSteps
           \/ \E a \in Topology(prog) :
                /\ (mailbox[a] # <<>> /\ Start(a)) \/ SendCount(a) \/ SendDeliver(a) \/ Settle(a) \/ NotifyDone(a)
                /\ UNCHANGED recordedVars
    PROVE  \E G : Told(G)'
<1>0. prog' = prog /\ prog \in Program
  BY RecordProgramStep
<1>1. PICK S : body \in Seq(S) /\ Len(body) = msgId
  BY DEF Payloads
<1>2. CASE Origin
  <2>1. UNCHANGED <<recorded, seq, script, st, pc>> /\ body' = Append(body, 1)
        /\ \E e : out' = [out EXCEPT ![World] = e]
    BY <1>2 DEF Origin, ExternalStamp
  <2>2. Extends(body', body)
    BY <1>1, <2>1, AppendExtends
  <2>3. \A b \in Actor : out'[b] = out[b]
    BY <2>1, Roles, TypedState
  <2> QED BY <1>0, <2>1, <2>2, <2>3, QuietlyTold
<1>3. CASE ExternalRecord /\ UNCHANGED recordedVars
  <2>1. PICK ev : ev = EmitEvent(World, 1, out[World])
    OBVIOUS
  <2>2. /\ recorded' = Append(recorded, ev) /\ mpc = "record"
        /\ UNCHANGED <<seq, script, st, pc, out, body>>
    BY <1>3, <2>1 DEF ExternalRecord, Record, recordedVars
  <2>3. ev.actor = World /\ ev.seq = 1 /\ ev.dst = out[World].dst /\ ev.msg_id = out[World].msg_id
    BY <2>1 DEF EmitEvent
  <2>4. PICK n : Justified(prog, recorded, F, body, ev, n)
    BY <2>2, <2>3 DEF Justified, Payloads
  <2>5. ASSUME NEW b \in Actor
        PROVE  Reported(b)' = Reported(b) /\ \A m : Holds(b, m) => Holds(b, m)'
    <3>1. Reported(b)' = Reported(b)
      BY <2>2, Roles DEF Reported, ToRecord
    <3>2. \A m : Holds(b, m) => Holds(b, m)'
      BY <2>2 DEF Holds
    <3> QED BY <3>1, <3>2
  <2>6. ev.seq # 0 /\ recorded \in Seq(Event) /\ \A b \in Actor : b # ev.actor
    BY <2>3, Roles, TypedState
  <2> QED BY <1>0, <2>2, <2>4, <2>5, <2>6, ToldMore
<1>4. CASE \/ ExternalCount \/ ExternalDeliver
           \/ origins = 1 /\ RunUntilQuiescent
           \/ Check \/ Await
  <2>1. UNCHANGED <<recorded, seq, script, st, pc, body>>
    BY <1>4 DEF RecordProgram, MainSteps, TaskSteps, ExternalCount, ExternalDeliver, RunUntilQuiescent, Check, Await,
       recordedVars, Origin, ExternalStamp, MainGoto
  <2>2. \A b \in Actor : out'[b] = out[b]
    BY <1>4, Roles, TypedState DEF ExternalCount, ExternalDeliver, RunUntilQuiescent, Check, Await
  <2>3. Extends(body', body)
    BY <2>1 DEF Extends
  <2> QED BY <1>0, <2>1, <2>2, <2>3, QuietlyTold
<1>5. ASSUME NEW a \in Topology(prog),
             (mailbox[a] # <<>> /\ Start(a)) \/ SendCount(a) \/ SendDeliver(a) \/ Settle(a) \/ NotifyDone(a),
             UNCHANGED recordedVars
      PROVE  \E G : Told(G)'
  <2>1. UNCHANGED <<recorded, seq, script, st, body>> /\ a \in Actor
    BY <1>5 DEF recordedVars, Topology, Start, SendCount, SendDeliver, Settle, NotifyDone
  <2>2. /\ pc[a] # "emit" /\ pc'[a] # "emit"
        /\ \A b \in Actor : b # a => pc'[b] = pc[b] /\ out'[b] = out[b]
    <3>1. CASE Start(a) \/ SendCount(a) \/ Settle(a) \/ NotifyDone(a)
      BY <2>1, <3>1, TypedState DEF Start, SendCount, Settle, NotifyDone, Goto, DecInFlight
    <3>2. CASE SendDeliver(a)
      BY <2>1, <3>2, TypedState DEF SendDeliver, Goto
    <3> QED BY <1>5, <3>1, <3>2
  <2>3. Extends(body', body)
    BY <2>1 DEF Extends
  <2> QED BY <1>0, <2>1, <2>2, <2>3, QuietlyTold
<1>6. MainSteps => \/ Origin \/ (ExternalRecord /\ UNCHANGED recordedVars)
                   \/ ExternalCount \/ ExternalDeliver \/ (origins = 1 /\ RunUntilQuiescent) \/ Check \/ Await
  BY DEF MainSteps
<1> QED BY <1>2, <1>3, <1>4, <1>5, <1>6

LEMMA ToldNext ==
    ASSUME TypeInv, LogInv, writerUp, Cast, Payloads, NEW F, Told(F), RecordProgram
    PROVE  \E G : Told(G)'
<1>1. prog' = prog
  BY RecordProgramStep
<1>2. CASE MainSteps
  BY <1>2, OtherTold
<1>3. ASSUME NEW a \in Topology(prog), TaskSteps(a)
      PROVE  \E G : Told(G)'
  <2>1. CASE Handles(a)
    BY <1>1, <2>1, ReceiptTold
  <2>2. CASE Calls(a)
    BY <1>1, <2>2, CallTold
  <2>3. CASE SendRecord(a) /\ UNCHANGED recordedVars
    BY <1>1, <2>3, EmitTold
  <2>4. CASE /\ (mailbox[a] # <<>> /\ Start(a)) \/ SendCount(a) \/ SendDeliver(a) \/ Settle(a) \/ NotifyDone(a)
             /\ UNCHANGED recordedVars
    BY <2>4, OtherTold
  <2> QED BY <1>3, <2>1, <2>2, <2>3, <2>4 DEF TaskSteps
<1> QED BY <1>2, <1>3 DEF RecordProgram

LEMMA ToldFirst ==
    ASSUME Cast, NEW p \in Program, Spawn(p)
    PROVE  RecordedInv'
<1>1. /\ prog = None /\ prog' = p /\ st' = Fresh(p) /\ UNCHANGED <<vars, phase, script, body>>
      /\ Init /\ script = [a \in Actor |-> <<>>] /\ body = <<>>
  BY DEF Spawn, Cast, runVars, replayVars
<1>2. UNCHANGED <<pc, seq, out, recorded, msgId, mpc, origins, handling>>
  BY <1>1 DEF vars
<1>3. /\ recorded = <<>> /\ msgId = 0 /\ mpc = "setup" /\ origins = 0
      /\ \A a \in Actor : pc[a] = "unpolled" /\ seq[a] = 0
  BY <1>1 DEF Init
<1>4. Payloads'
  <2>1. \E S : body \in Seq(S) /\ Len(body) = msgId
    <3>1. PICK S : S = {1}
      OBVIOUS
    <3>2. <<>> \in Seq(S) /\ Len(<<>>) = 0
      OBVIOUS
    <3> QED BY <1>1, <1>3, <3>2
  <2>2. Payloads
    BY <1>1, <1>3, <2>1 DEF Payloads
  <2> QED BY <1>1, <1>2, <2>2 DEF Payloads, OriginAt
<1>5. PICK F : F = [i \in {} |-> None]
  OBVIOUS
<1>6. Explained(p, recorded, F, body)
  <2>1. DOMAIN recorded = {}
    BY <1>3
  <2> QED BY <2>1 DEF Explained
<1>7. ASSUME NEW a \in Actor
      PROVE  \E m \in Held(p, recorded, F, a, Reported(a)') : Holds(a, m)'
  <2>1. Reported(a)' = 0 /\ pc'[a] # "emit"
    BY <1>2, <1>3, Roles DEF Reported, ToRecord
  <2>2. PICK m : m = Does(<<>>, Fresh(p)[a])
    OBVIOUS
  <2>3. m \in Held(p, recorded, F, a, Reported(a)')
    BY <2>1, <2>2 DEF Held
  <2>4. Holds(a, m)'
    BY <1>1, <2>1, <2>2 DEF Holds
  <2> QED BY <2>3, <2>4
<1>8. Told(F)'
  BY <1>1, <1>2, <1>6, <1>7, Zenon DEF Told
<1> QED BY <1>4, <1>8 DEF RecordedInv

LEMMA RecordedInvNext ==
    ASSUME Cast, RecordingInv, RecordedInv, [ProgramNext]_programVars
    PROVE  RecordedInv'
<1>1. CASE RecordProgram
  <2>1. /\ phase = "recording" /\ prog \in Program /\ prog # None
    BY <1>1, RecordProgramStep DEF RecordProgram
  <2>2. TypeInv /\ LogInv /\ writerUp /\ Payloads
    BY <2>1 DEF RecordingInv, Recording, RecordedInv
  <2>3. PICK F : Told(F)
    BY <2>1 DEF RecordedInv
  <2> QED BY <1>1, <2>2, <2>3, PayloadsNext, ToldNext DEF RecordedInv
<1>2. CASE Redo \/ ReadBack
  BY <1>2, RedoStep DEF ReadBack, RecordedInv
<1>3. CASE UNCHANGED programVars
  <2>1. UNCHANGED <<phase, prog, body, script, st>> /\ UNCHANGED vars
    BY <1>3 DEF programVars, runVars, replayVars, recordedVars
  <2>2. UNCHANGED <<recorded, pc, seq, out, mpc, origins, handling, msgId>>
    BY <2>1 DEF vars
  <2>3. Payloads => Payloads'
    BY <2>1, <2>2 DEF Payloads, OriginAt
  <2>4. ASSUME NEW F, Told(F)
        PROVE  Told(F)'
    <3>1. Extends(body', body)
      BY <2>1 DEF Extends
    <3> QED BY <2>1, <2>2, <2>4, <3>1, QuietlyTold
  <2> QED BY <2>1, <2>3, <2>4 DEF RecordedInv
<1>4. CASE Over /\ UNCHANGED <<prog, recordedVars, redoneVars>>
  BY <1>3, <1>4 DEF Over, programVars
<1> QED BY <1>1, <1>2, <1>3, <1>4, ToldFirst DEF ProgramNext

----------------------------------------------------------------------------
(* The replay follows the explanation                                      *)

FreshInv == prog # None /\ phase \notin Walking => rst = Fresh(prog)

\* Every actor ended the recording with no call left to make.
Closing(F) ==
    \A a \in Actor : \E s \in Nat :
      /\ Does(<<>>, st[a]) \in Held(prog, log, F, a, s)
      /\ \A i \in DOMAIN log : log[i].actor = a => log[i].seq <= s

\* Every actor of the replay holds what it held after as many events, ...
Rejoined(F) ==
    \A a \in Actor :
      Does(IF Driven(a) THEN rscript ELSE <<>>, rst[a]) \in Held(prog, log, F, a, reseq[a])

\* ... and what is on its way carries the payload it carried.
Known(B) == \A env \in pending : env.msg_id \in DOMAIN rbody /\ rbody[env.msg_id] = B[env.msg_id]

Retold(F, B) ==
    /\ Explained(prog, log, F, B) /\ Closing(F)
    /\ phase \in Walking => Rejoined(F) /\ Known(B)

\* The replay is not that of the program which wrote the log, or has gone on
\* beyond it.
Broken == Astray \/ \E a \in Actor : ~Follows(a)

RetoldInv ==
    phase # "recording" =>
      /\ \E i \in DOMAIN log : log[i].actor = World
      /\ \E F, B : Retold(F, B)
      /\ phase \in Walking => ~Broken

LEMMA FreshInvNext ==
    ASSUME Cast, FreshInv, [ProgramNext]_programVars
    PROVE  FreshInv'
<1>1. CASE Redo
  <2>1. prog' = prog /\ prog # None
    BY <1>1, RedoStep, RoleAssumption
  <2>2. CASE Rebuild \/ Reseed \/ Rehandles \/ \E a \in Actor : Recalls(a)
    <3>1. phase' \in Walking
      <4>1. CASE Rebuild
        BY <4>1, Rebuilt DEF Walking
      <4>2. CASE Reseed
        BY <4>2 DEF Reseed, Replay!SeedOrigin, Walking
      <4>3. CASE Rehandles
        BY <4>3, Rehandled DEF Driving, Walking
      <4>4. CASE \E a \in Actor : Recalls(a)
        BY <4>4, Recalled DEF Walking
      <4> QED BY <2>2, <4>1, <4>2, <4>3, <4>4
    <3> QED BY <3>1 DEF FreshInv
  <2>3. CASE ReplayLogStep /\ UNCHANGED systemVars /\ UNCHANGED redoneVars
    BY <2>1, <2>3, ReadingStep DEF FreshInv, redoneVars, Reading, Rejected, Walking
  <2>4. CASE Drives /\ UNCHANGED redoneVars
    BY <2>4, DriveStep DEF FreshInv
  <2> QED BY <1>1, <2>2, <2>3, <2>4, RedoCases
<1>2. CASE RecordProgram
  BY <1>2, RecordProgramStep DEF FreshInv, redoneVars, replayVars, Walking
<1>3. CASE ReadBack
  BY <1>3 DEF ReadBack, FreshInv, redoneVars, Walking
<1>4. CASE \E p \in Program : Spawn(p)
  BY <1>4 DEF Spawn, FreshInv
<1>5. CASE (Over /\ UNCHANGED <<prog, recordedVars, redoneVars>>) \/ UNCHANGED programVars
  BY <1>5 DEF Over, programVars, runVars, replayVars, redoneVars, FreshInv
<1> QED BY <1>1, <1>2, <1>3, <1>4, <1>5 DEF ProgramNext

LEMMA RetoldBegins ==
    ASSUME Cast, RecordingInv, RunInv, RecordedInv, ReadBack
    PROVE  RetoldInv'
<1>1. /\ phase = "recording" /\ phase' = "build" /\ log' = recorded /\ UNCHANGED <<prog, st>>
      /\ mpc = "shutdown"
  BY ReadBackReads DEF ReadBack
<1>2. prog # None
  BY <1>1 DEF Cast, Init
<1>3. Payloads /\ TypeInv /\ LogInv /\ HandlersSend /\ QuiescentShutdown
  BY <1>1, <1>2 DEF RecordedInv, RecordingInv, Recording
<1>4. PICK F : Told(F)
  BY <1>1, <1>2 DEF RecordedInv
<1>5. \E i \in DOMAIN recorded : recorded[i].actor = World
  BY <1>1, <1>3 DEF Payloads, OriginAt
<1>6. Explained(prog, recorded, F, body)
  BY <1>4 DEF Told
<1>7. ASSUME NEW a \in Actor
      PROVE  \E s \in Nat :
               /\ Does(<<>>, st[a]) \in Held(prog, recorded, F, a, s)
               /\ \A i \in DOMAIN recorded : recorded[i].actor = a => recorded[i].seq <= s
  <2>1. ~handling[a] /\ pc[a] # "emit"
    <3>1. Outstanding = {}
      BY <1>1, <1>3 DEF QuiescentShutdown, Down
    <3>2. ~handling[a]
      BY <3>1 DEF Outstanding, InHand
    <3> QED BY <1>3, <3>2 DEF HandlersSend, Sending
  <2>2. PICK m \in Held(prog, recorded, F, a, Reported(a)) : Holds(a, m)
    BY <1>4 DEF Told
  <2>3. m = Does(<<>>, st[a])
    BY <1>3, <2>1, <2>2 DEF Holds, Payloads
  <2>4. Reported(a) \in Nat
    BY <1>3, <2>1, Roles, TypedState DEF Reported, ToRecord
  <2>5. \A i \in DOMAIN recorded : recorded[i].actor = a => recorded[i].seq <= Reported(a)
    BY <1>3 DEF LogInv, Ordered, EventsOf
  <2> QED BY <2>2, <2>3, <2>4, <2>5
<1>8. PICK B : B = body
  OBVIOUS
<1>9. Explained(prog, log, F, B)' /\ Closing(F)'
  <2>1. Explained(prog', log', F, B)
    BY <1>1, <1>6, <1>8
  <2>2. Closing(F)'
    BY <1>1, <1>7 DEF Closing
  <2> QED BY <2>1, <2>2, Zenon
<1>10. phase' \notin Walking
  BY <1>1 DEF Walking
<1> QED BY <1>1, <1>5, <1>9, <1>10 DEF RetoldInv, Retold

\* An actor with no call left to make did next, if anything, receive.
LEMMA NoCallsLeft ==
    ASSUME Sound(log), ReadableLog(log), NEW F, NEW B, Explained(prog, log, F, B),
           NEW a \in Actor, NEW s \in Nat, NEW x, Does(<<>>, x) \in Held(prog, log, F, a, s),
           NEW i, Is(i, a, s + 1)
    PROVE  /\ log[i].op = "recv" /\ log[i].msg_id \in DOMAIN B
           /\ F[i] = Reacts(prog, a, x, B[log[i].msg_id])
<1>1. i \in DOMAIN log /\ log[i].actor = a /\ log[i].seq - 1 = s /\ a # World
  BY Roles DEF Is, Nodes
<1>2. PICK m \in Held(prog, log, F, a, s) : Taken(prog, log[i], m, F[i], B)
  BY <1>1 DEF Explained, Justified
<1>3. m = Does(<<>>, x)
  BY <1>2, OneHeld
<1>4. m.calls = <<>> /\ m.st = x
  BY <1>3 DEF Does
<1> QED BY <1>1, <1>2, <1>4 DEF Taken

\* An actor with a call left to make did next make it.
LEMMA NextCall ==
    ASSUME Legible, NEW F, NEW B, Explained(prog, log, F, B), Closing(F),
           NEW a \in Actor, NEW c, c # <<>>, NEW x, Does(c, x) \in Held(prog, log, F, a, reseq[a])
    PROVE  \E i : /\ Is(i, a, reseq[a] + 1)
                  /\ log[i].op # "recv" /\ F[i] = Does(Tail(c), x)
                  /\ IF log[i].op = "compute" THEN Head(c).call = "compute"
                     ELSE /\ log[i].op = "emit" /\ Head(c).call = "send" /\ Head(c).to = log[i].dst
                          /\ log[i].msg_id \in DOMAIN B /\ B[log[i].msg_id] = Head(c).body
<1>1. ReadableLog(log) /\ Sound(log) /\ ReplayTypes /\ reseq[a] \in Nat /\ a # World
  BY Roles DEF Legible, ReplayTypes
<1>2. PICK s \in Nat : /\ Does(<<>>, st[a]) \in Held(prog, log, F, a, s)
                       /\ \A i \in DOMAIN log : log[i].actor = a => log[i].seq <= s
  BY DEF Closing
<1>3. reseq[a] # s
  <2> SUFFICES ASSUME reseq[a] = s PROVE FALSE
    OBVIOUS
  <2>1. Does(c, x) = Does(<<>>, st[a])
    BY <1>1, <1>2, OneHeld
  <2> QED BY <2>1 DEF Does
<1>4. reseq[a] < s
  <2>1. CASE reseq[a] = 0
    BY <1>1, <1>2, <1>3, <2>1
  <2>2. CASE reseq[a] # 0
    <3>1. PICK k \in DOMAIN log : log[k].actor = a /\ log[k].seq = reseq[a]
      BY <2>2 DEF Held
    <3>2. reseq[a] <= s
      BY <1>2, <3>1
    <3> QED BY <1>1, <1>2, <1>3, <3>2
  <2> QED BY <2>1, <2>2
<1>5. PICK k \in DOMAIN log : log[k].actor = a /\ log[k].seq = s
  <2>1. s # 0
    BY <1>1, <1>4
  <2> QED BY <1>2, <2>1 DEF Held
<1>6. PICK i : Is(i, a, reseq[a] + 1)
  BY <1>1, <1>4, <1>5, NextEvent DEF Nodes
<1>7. i \in DOMAIN log /\ log[i].actor = a /\ log[i].seq - 1 = reseq[a]
  BY <1>1, <1>6 DEF Is, Nodes
<1>8. PICK m \in Held(prog, log, F, a, reseq[a]) : Taken(prog, log[i], m, F[i], B)
  BY <1>1, <1>7 DEF Explained, Justified
<1>9. m = Does(c, x)
  BY <1>1, <1>8, OneHeld
<1>10. m.calls = c /\ m.st = x
  BY <1>9 DEF Does
<1> QED BY <1>6, <1>8, <1>10 DEF Taken

\* Where the replay is, once it has begun.
LEMMA RetoldFacts ==
    ASSUME RunInv, RetoldInv, phase \in Walking
    PROVE  /\ Legible /\ Matches /\ ~Broken /\ OneOrigin(log)
           /\ \E F, B : Explained(prog, log, F, B) /\ Closing(F) /\ Rejoined(F) /\ Known(B)
<1>1. phase # "recording"
  BY DEF Walking
<1>2. ~Broken /\ \E F, B : Retold(F, B)
  BY <1>1 DEF RetoldInv
<1>3. Legible /\ OneOrigin(log)
  BY <1>1 DEF RunInv, ReplayInv, LogFacts, ReadingInv, Legible, OriginInv
<1>4. Matches
  BY <1>2 DEF RunInv, MatchesInv, Broken
<1> QED BY <1>2, <1>3, <1>4 DEF Retold

LEMMA RetoldStays ==
    ASSUME RetoldInv, phase # "recording", UNCHANGED <<log, prog, st>>,
           NEW F, NEW B, Explained(prog, log, F, B), Closing(F),
           phase' \in Walking => Rejoined(F)' /\ Known(B)' /\ ~Broken'
    PROVE  RetoldInv'
<1>1. Explained(prog, log, F, B)'
  <2>1. Explained(prog', log', F, B)
    OBVIOUS
  <2> QED BY <2>1, Zenon
<1>2. Closing(F)'
  BY DEF Closing
<1>3. \E i \in DOMAIN log' : log'[i].actor = World
  BY DEF RetoldInv
<1> QED BY <1>1, <1>2, <1>3 DEF RetoldInv, Retold

\* The handlers that wrote the log leave no actor behind.
LEMMA KeepsUnbroken ==
    ASSUME Sound(log), ReadableLog(log), UNCHANGED <<log, prog, rebuilt, reorigins>>, ~Broken,
           NEW F, NEW B, Explained(prog, log, F, B), Rejoined(F)',
           reseq' \in [Actor -> Nat], \A a \in Actor : Follows(a)'
    PROVE  ~Broken'
<1>1. ~(Len(Replay!EmitsOf(World)) > Len(reorigins))'
  BY SamePlaces DEF Broken, Astray
<1>2. ~(\E i \in Nodes : log[i].actor \notin rebuilt \cup {World})'
  BY SamePlaces DEF Broken, Astray
<1>3. ASSUME NEW a \in Actor, Stuck(a)'
      PROVE  FALSE
  <2>1. PICK s, x : s = reseq'[a] /\ x = rst'[a]
    OBVIOUS
  <2>2. s \in Nat /\ ~Driven(a)'
    BY <1>3, <2>1 DEF Stuck
  <2>3. PICK i : Is(i, a, s + 1) /\ log[i].op # "recv"
    <3>1. \E i \in Nodes : log[i].actor = a /\ log[i].seq = s + 1 /\ log[i].op # "recv"
      BY <1>3, <2>1 DEF Stuck, IsRecv, Is, Nodes
    <3> QED BY <3>1 DEF Is
  <2>4. Does(<<>>, x) \in Held(prog, log, F, a, s)
    <3>1. (Does(IF Driven(a) THEN rscript ELSE <<>>, rst[a]) \in Held(prog, log, F, a, reseq[a]))'
      BY DEF Rejoined
    <3> QED BY <2>1, <2>2, <3>1
  <2> QED BY <2>2, <2>3, <2>4, NoCallsLeft
<1>4. ASSUME NEW a \in Actor
      PROVE  Keeps(a)'
  <2>1. ASSUME NEW k \in 1..reseq'[a], NEW i \in Nodes, Is(i, a, k)
        PROVE  did'[a][k] = Word(log[i])
    <3>1. PICK j \in Nodes' : Is(j, a, k)' /\ did'[a][k] = Word(log[j])'
      BY DEF Follows
    <3>2. Is(j, a, k) /\ Word(log[j])' = Word(log[j])
      BY <3>1, SamePlaces DEF Word
    <3> QED BY <2>1, <3>1, <3>2, OneEvent
  <2>2. \A e : Word(e)' = Word(e)
    BY DEF Word
  <2>3. \A k \in 1..reseq'[a] : \A i \in Nodes' : Is(i, a, k)' => did'[a][k] = Word(log'[i])
    BY <2>1, SamePlaces
  <2> QED BY <2>2, <2>3 DEF Keeps
<1> QED BY <1>1, <1>2, <1>3, <1>4 DEF Broken, Astray

LEMMA FollowsStays ==
    ASSUME UNCHANGED <<log, reseq, did>>, NEW a \in Actor, Follows(a)
    PROVE  Follows(a)'
<1>1. \A e : Word(e)' = Word(e)
  BY DEF Word
<1> QED BY <1>1, SamePlaces DEF Follows

\* A payload more is known.
LEMMA KnownMore ==
    ASSUME NEW B, Known(B), NEW id, NEW v, B[id] = v, rbody' = Put(rbody, id, v),
           \A env \in pending' : env \in pending \/ env.msg_id = id
    PROVE  Known(B)'
<1>1. ASSUME NEW env \in pending'
      PROVE  env.msg_id \in DOMAIN rbody' /\ rbody'[env.msg_id] = B[env.msg_id]
  <2>1. CASE env.msg_id = id
    BY <2>1 DEF Put
  <2>2. CASE env.msg_id # id
    <3>1. env \in pending /\ env.msg_id \in DOMAIN rbody /\ rbody[env.msg_id] = B[env.msg_id]
      BY <2>2 DEF Known
    <3> QED BY <2>2, <3>1 DEF Put
  <2> QED BY <2>1, <2>2
<1> QED BY <1>1 DEF Known

LEMMA RetoldSetUp ==
    ASSUME Cast, RunInv, FreshInv, RetoldInv, Rebuild, UNCHANGED <<prog, st>>
    PROVE  RetoldInv'
<1>1. /\ phase = "timeline" /\ phase' = "origins"
      /\ rebuilt' = Topology(prog) /\ reorigins' = <<[to |-> Entry, typed |-> TRUE]>>
      /\ UNCHANGED <<log, reseq, pending, did, rst>>
  BY SetUpStep DEF Rebuild, redoneVars
<1>2. /\ ReadableLog(log) /\ Sound(log) /\ BuildOk(log) /\ Untouched /\ OneOrigin(log)
      /\ phase # "recording"
  BY <1>1 DEF RunInv, ReplayInv, LogFacts, ReadingInv, Reading, Vetted, OriginInv
<1>3. PICK F, B : Explained(prog, log, F, B) /\ Closing(F)
  BY <1>2 DEF RetoldInv, Retold
<1>4. reseq = [a \in Actor |-> 0] /\ did = [a \in Actor |-> <<>>] /\ pending = {} /\ prog # None
      /\ rst = Fresh(prog)
  BY <1>1, <1>2, RoleAssumption DEF Untouched, Cast, FreshInv, Walking
<1>5. Rejoined(F)'
  <2>1. ASSUME NEW a \in Actor
        PROVE  (Does(IF Driven(a) THEN rscript ELSE <<>>, rst[a]) \in Held(prog, log, F, a, reseq[a]))'
    <3>1. ~Driven(a)' /\ reseq'[a] = 0 /\ rst'[a] = Fresh(prog)[a]
      BY <1>1, <1>4 DEF Driven
    <3>2. Does(<<>>, rst'[a]) \in Held(prog', log', F, a, reseq'[a])
      BY <3>1 DEF Held
    <3> QED BY <3>1, <3>2
  <2> QED BY <2>1 DEF Rejoined
<1>6. Known(B)'
  BY <1>1, <1>4 DEF Known
<1>7. ~Broken'
  <2>1. ~(Len(Replay!EmitsOf(World)) > Len(reorigins))'
    <3>1. Len(reorigins') = 1
      BY <1>1
    <3>2. PICK L : L = Replay!EmitsOf(World)
      OBVIOUS
    <3>3. PICK n \in Nat : /\ Len(L) = n
                           /\ \A k \in 1..n : L[k] \in Emits(World)
                           /\ \A k, l \in 1..n : L[k] = L[l] => k = l
      <4>1. PICK n : n = Cardinality(Emits(World))
        OBVIOUS
      <4> QED BY <1>2, <3>2, <4>1, EmitsOfPlaces
    <3>4. \A i, j \in Emits(World) : i = j
      BY <1>2 DEF OneOrigin, Emits, Nodes
    <3>5. ~(n > 1)
      <4> SUFFICES ASSUME n > 1 PROVE FALSE
        OBVIOUS
      <4>1. 1 \in 1..n /\ 2 \in 1..n
        BY <3>3
      <4> QED BY <3>3, <3>4, <4>1
    <3> QED BY <1>1, <3>1, <3>2, <3>3, <3>5, SamePlaces
  <2>2. ~(\E i \in Nodes : log[i].actor \notin rebuilt \cup {World})'
    BY <1>1, <1>3, SamePlaces DEF Explained, Justified, Nodes
  <2>3. ASSUME NEW a \in Actor
        PROVE  Follows(a)' /\ Keeps(a)' /\ ~Stuck(a)'
    <3>1. reseq'[a] = 0 /\ phase' \notin Walked
      BY <1>1, <1>4 DEF Walked
    <3> QED BY <3>1 DEF Follows, Keeps, Stuck
  <2> QED BY <2>1, <2>2, <2>3 DEF Broken, Astray
<1> QED BY <1>1, <1>2, <1>3, <1>5, <1>6, <1>7, RetoldStays

LEMMA RetoldSeed ==
    ASSUME Cast, RunInv, RunInv', RetoldInv, Reseed, UNCHANGED <<prog, st>>
    PROVE  RetoldInv'
<1>1. /\ phase = "origins" /\ phase' = "origins" /\ rst' = rst
      /\ UNCHANGED <<log, rebuilt, reorigins, reseq, did, driving>>
      /\ next \in DOMAIN Replay!EmitsOf(World)
  BY DEF Reseed, Replay!SeedOrigin, Replay!setupVars, Replay!taskVars
<1>2. /\ Legible /\ ~Broken /\ phase # "recording"
      /\ \E F, B : Explained(prog, log, F, B) /\ Closing(F) /\ Rejoined(F) /\ Known(B)
  BY <1>1, RetoldFacts DEF Walking
<1>3. PICK F, B : Explained(prog, log, F, B) /\ Closing(F) /\ Rejoined(F) /\ Known(B)
  BY <1>2
<1>4. PICK i : i = Replay!EmitsOf(World)[next]
  OBVIOUS
<1>5. i \in Emits(World)
  BY <1>1, <1>2, <1>4, EmitsOfPlaces DEF Legible, TimelineInv
<1>6. B[log[i].msg_id] = 1
  BY <1>3, <1>5 DEF Explained, Justified, Emits, Nodes
<1>7. /\ rbody' = Put(rbody, log[i].msg_id, 1)
      /\ \A env \in pending' : env \in pending \/ env.msg_id = log[i].msg_id
  <2>1. rbody' = Put(rbody, log[i].msg_id, 1)
    BY <1>4 DEF Reseed
  <2>2. \/ pending' = pending
        \/ \E v, l, to, t : pending' = Replay!Stash([vclock |-> v, lamport |-> l, msg_id |-> log[i].msg_id,
                                                    src |-> World, dst |-> to, typed |-> t])
    BY <1>4, Zenon DEF Reseed, Replay!SeedOrigin
  <2>3. \A v, l, to, t : \A env \in Replay!Stash([vclock |-> v, lamport |-> l, msg_id |-> log[i].msg_id,
                                                 src |-> World, dst |-> to, typed |-> t]) :
          env \in pending \/ env.msg_id = log[i].msg_id
    BY DEF Replay!Stash
  <2> QED BY <2>1, <2>2, <2>3
<1>8. Known(B)'
  BY <1>3, <1>6, <1>7, KnownMore
<1>9. Rejoined(F)'
  <2>1. ASSUME NEW a \in Actor
        PROVE  (Does(IF Driven(a) THEN rscript ELSE <<>>, rst[a]) \in Held(prog, log, F, a, reseq[a]))'
    <3>1. ~Driven(a)' /\ ~Driven(a)
      BY <1>1 DEF Driven
    <3>2. Does(<<>>, rst'[a]) \in Held(prog', log', F, a, reseq'[a])
      BY <1>1, <1>3, <3>1 DEF Rejoined
    <3> QED BY <3>1, <3>2
  <2> QED BY <2>1 DEF Rejoined
<1>10. \A a \in Actor : Follows(a)'
  BY <1>1, <1>2, FollowsStays DEF Broken
<1>11. reseq' \in [Actor -> Nat]
  BY DEF RunInv, ReplayInv, ReplayTypes
<1>12. ~Broken'
  BY <1>1, <1>2, <1>3, <1>9, <1>10, <1>11, KeepsUnbroken DEF Legible
<1> QED BY <1>1, <1>2, <1>3, <1>8, <1>9, <1>12, RetoldStays

LEMMA RetoldDrives ==
    ASSUME Cast, RunInv, RunInv', RetoldInv, Drives, UNCHANGED redoneVars, UNCHANGED <<prog, st>>
    PROVE  RetoldInv'
<1>1. /\ phase \in Walking /\ phase' \in Walking \ Driving /\ phase' # "userStarted" /\ rscript = <<>>
      /\ UNCHANGED <<log, rebuilt, reorigins, reseq, pending, rst, rscript, rbody>>
  BY DriveStep DEF redoneVars
<1>2. UNCHANGED did
  BY DEF Drives, Replay!OriginsSeeded, Replay!DriveStarted, Replay!AllStarted, Replay!Unsent, Replay!Complete,
     Replay!Returns
<1>3. /\ Legible /\ ~Broken /\ phase # "recording"
      /\ \E F, B : Explained(prog, log, F, B) /\ Closing(F) /\ Rejoined(F) /\ Known(B)
  BY <1>1, RetoldFacts DEF Walking
<1>4. PICK F, B : Explained(prog, log, F, B) /\ Closing(F) /\ Rejoined(F) /\ Known(B)
  BY <1>3
<1>5. Rejoined(F)'
  <2>1. ASSUME NEW a \in Actor
        PROVE  (Does(IF Driven(a) THEN rscript ELSE <<>>, rst[a]) \in Held(prog, log, F, a, reseq[a]))'
    <3>1. Does(<<>>, rst[a]) \in Held(prog, log, F, a, reseq[a])
      BY <1>1, <1>4 DEF Rejoined
    <3>2. Does(<<>>, rst'[a]) \in Held(prog', log', F, a, reseq'[a]) /\ rscript' = <<>>
      BY <1>1, <3>1
    <3> QED BY <3>2
  <2> QED BY <2>1 DEF Rejoined
<1>6. Known(B)'
  BY <1>1, <1>4 DEF Known
<1>7. \A a \in Actor : Follows(a)'
  BY <1>1, <1>2, <1>3, FollowsStays DEF Broken
<1>8. reseq' \in [Actor -> Nat]
  BY DEF RunInv, ReplayInv, ReplayTypes
<1>9. ~Broken'
  BY <1>1, <1>3, <1>4, <1>5, <1>7, <1>8, KeepsUnbroken DEF Legible
<1> QED BY <1>1, <1>3, <1>4, <1>5, <1>6, <1>9, RetoldStays

\* An actor has come past one event more.
LEMMA RejoinedOn ==
    ASSUME Legible, NEW F, Rejoined(F), NEW a \in Actor, NEW i, Is(i, a, reseq[a] + 1),
           UNCHANGED <<log, prog>>, reseq' = [reseq EXCEPT ![a] = @ + 1],
           Driven(a)', F[i] = Does(rscript', rst'[a]),
           \A b \in Actor : b # a => rst'[b] = rst[b] /\ ~Driven(b) /\ ~Driven(b)'
    PROVE  Rejoined(F)'
<1>1. /\ reseq \in [Actor -> Nat] /\ reseq'[a] = reseq[a] + 1 /\ reseq[a] + 1 # 0
      /\ \A b \in Actor : b # a => reseq'[b] = reseq[b]
  BY DEF Legible, ReplayTypes
<1>2. ASSUME NEW b \in Actor
      PROVE  (Does(IF Driven(b) THEN rscript ELSE <<>>, rst[b]) \in Held(prog, log, F, b, reseq[b]))'
  <2>1. CASE b = a
    <3>1. F[i] \in Held(prog', log', F, a, reseq'[a])
      BY <1>1 DEF Held, Is, Nodes
    <3> QED BY <2>1, <3>1
  <2>2. CASE b # a
    <3>1. Does(<<>>, rst[b]) \in Held(prog, log, F, b, reseq[b])
      BY <2>2 DEF Rejoined
    <3>2. Does(<<>>, rst'[b]) \in Held(prog', log', F, b, reseq'[b])
      BY <1>1, <2>2, <3>1
    <3> QED BY <2>2, <3>2
  <2> QED BY <2>1, <2>2
<1> QED BY <1>2 DEF Rejoined

LEMMA RecallsOn ==
    ASSUME Cast, RunInv', RetoldInv, Legible, ~Broken, NEW a \in Actor, Recalls(a), UNCHANGED <<prog, st>>,
           NEW F, NEW B, Explained(prog, log, F, B), Closing(F), Rejoined(F), Known(B)',
           NEW i, Is(i, a, reseq[a] + 1), F[i] = Does(Tail(rscript), rst[a]), Word(log[i]) \in Words,
           did' = [did EXCEPT ![a] = Append(@, Word(log[i]))], reseq' = [reseq EXCEPT ![a] = @ + 1]
    PROVE  RetoldInv'
<1>1. /\ phase = "userHandle" /\ phase' = phase /\ driving = a /\ driving' = driving
      /\ rscript' = Tail(rscript) /\ rst' = rst
      /\ UNCHANGED <<log, rebuilt, reorigins>>
  BY Recalled, WalkStep
<1>2. Driven(a)' /\ \A b \in Actor : b # a => rst'[b] = rst[b] /\ ~Driven(b) /\ ~Driven(b)'
  BY <1>1 DEF Driven
<1>3. F[i] = Does(rscript', rst'[a])
  BY <1>1
<1>4. Rejoined(F)'
  BY <1>1, <1>2, <1>3, RejoinedOn
<1>5. \A b \in Actor : Follows(b)'
  <2>1. i \in Nodes /\ ReplayTypes
    BY DEF Is, Legible
  <2> QED BY <1>1, <2>1, FollowsOn DEF Broken
<1>6. reseq' \in [Actor -> Nat]
  BY DEF RunInv, ReplayInv, ReplayTypes
<1>7. ~Broken'
  BY <1>1, <1>4, <1>5, <1>6, KeepsUnbroken DEF Legible
<1> QED BY <1>1, <1>4, <1>7, RetoldStays

\* The msg_id of the next send is that of the next emit.
LEMMA NextId ==
    ASSUME Legible, Restamped, NEW a \in Actor, NEW i, Is(i, a, reseq[a] + 1), log[i].op = "emit"
    PROVE  Replay!RecordedId(a, sendCount[a] + 1) = log[i].msg_id
<1>1. PICK j : j = sendCount[a] + 1
  OBVIOUS
<1>2. i \in Nodes /\ log[i].actor = a /\ log[i].seq = reseq[a] + 1
  BY DEF Is
<1>3. j = Cardinality(SentBy(a, log[i].seq))
  <2>1. sendCount[a] = Cardinality(SentBy(a, reseq[a]))
    BY LoggedBefore DEF Restamped
  <2> QED BY <1>1, <1>2, <2>1, SentOnce
<1>4. i \in Emits(a) /\ SentBy(a, log[i].seq) = {k \in Emits(a) : log[k].seq <= log[i].seq}
  BY <1>2 DEF Emits, SentBy
<1>5. j \in DOMAIN Replay!EmitsOf(a) /\ Replay!EmitsOf(a)[j] = i
  BY <1>3, <1>4, EmitsOfPlaces DEF Legible, TimelineInv
<1>6. log[i].msg_id # None
  <2>1. IsEmit(log[i])
    BY StepsAgain DEF IsRecv
  <2> QED BY <2>1 DEF IsEmit
<1> QED BY <1>1, <1>5, <1>6 DEF Replay!RecordedId

LEMMA RetoldRecalls ==
    ASSUME Cast, RunInv, RunInv', RetoldInv, NEW a \in Actor, Recalls(a), UNCHANGED <<prog, st>>
    PROVE  RetoldInv'
<1>1. /\ phase = "userHandle" /\ driving = a /\ rscript # <<>> /\ CallOf(a, Head(rscript))
  BY Recalled
<1>2. /\ Legible /\ Matches /\ ~Broken
      /\ \E F, B : Explained(prog, log, F, B) /\ Closing(F) /\ Rejoined(F) /\ Known(B)
  BY <1>1, RetoldFacts DEF Walking
<1>3. PICK F, B : Explained(prog, log, F, B) /\ Closing(F) /\ Rejoined(F) /\ Known(B)
  BY <1>2
<1>4. Does(rscript, rst[a]) \in Held(prog, log, F, a, reseq[a])
  BY <1>1, <1>3 DEF Rejoined, Driven
<1>5. PICK i : /\ Is(i, a, reseq[a] + 1)
               /\ log[i].op # "recv" /\ F[i] = Does(Tail(rscript), rst[a])
               /\ IF log[i].op = "compute" THEN Head(rscript).call = "compute"
                  ELSE /\ log[i].op = "emit" /\ Head(rscript).call = "send" /\ Head(rscript).to = log[i].dst
                       /\ log[i].msg_id \in DOMAIN B /\ B[log[i].msg_id] = Head(rscript).body
  BY <1>1, <1>2, <1>3, <1>4, NextCall
<1>6. CASE Head(rscript).call = "compute" /\ Replay!Compute(a) /\ UNCHANGED rbody
  <2>1. /\ UNCHANGED pending /\ reseq' = [reseq EXCEPT ![a] = @ + 1]
        /\ did' = [did EXCEPT ![a] = Append(@, <<"compute", None>>)]
    BY <1>6 DEF Replay!Compute
  <2>2. Word(log[i]) = <<"compute", None>> /\ <<"compute", None>> \in Words
    BY <1>5, <1>6 DEF Word, Words
  <2>3. Known(B)'
    BY <1>3, <1>6, <2>1 DEF Known
  <2> QED BY <1>2, <1>3, <1>5, <2>1, <2>2, <2>3, RecallsOn
<1>7. CASE /\ Head(rscript).call = "send" /\ Replay!Send(a, Head(rscript).to)
           /\ rbody' = Put(rbody, Replay!RecordedId(a, sendCount'[a]), Head(rscript).body)
  <2>1. PICK to, v : to = Head(rscript).to /\ v = Head(rscript).body
    OBVIOUS
  <2>2. log[i].op = "emit" /\ log[i].dst = to /\ B[log[i].msg_id] = v /\ to \in Actor
    <3>1. to \in Actor
      BY <1>1, <1>7, <2>1, TargetsAreActors DEF CallOf
    <3> QED BY <1>5, <1>7, <2>1, <3>1
  <2>3. /\ reseq' = [reseq EXCEPT ![a] = @ + 1] /\ sendCount' = [sendCount EXCEPT ![a] = sendCount[a] + 1]
        /\ did' = [did EXCEPT ![a] = Append(@, <<"send", to>>)]
    BY <1>7, <2>1 DEF Replay!Send
  <2>4. Replay!RecordedId(a, sendCount[a] + 1) = log[i].msg_id
    BY <1>2, <1>5, <2>2, NextId DEF Matches
  <2>5. \A env \in pending' : env \in pending \/ env.msg_id = log[i].msg_id
    <3>1. \E env : env.msg_id = Replay!RecordedId(a, sendCount[a] + 1) /\ pending' = Replay!Stash(env)
      BY <1>7 DEF Replay!Send
    <3> QED BY <2>4, <3>1 DEF Replay!Stash
  <2>6. rbody' = Put(rbody, log[i].msg_id, v)
    <3>1. sendCount'[a] = sendCount[a] + 1
      BY <1>2, <2>3 DEF Legible, ReplayTypes
    <3> QED BY <1>7, <2>1, <2>4, <3>1
  <2>7. Known(B)'
    BY <1>3, <2>2, <2>5, <2>6, KnownMore
  <2>8. Word(log[i]) = <<"send", to>> /\ <<"send", to>> \in Words
    BY <2>2 DEF Word, Words
  <2> QED BY <1>2, <1>3, <1>5, <2>3, <2>7, <2>8, RecallsOn
<1> QED BY <1>6, <1>7 DEF Recalls

\* The one origin goes where it went, so no payload is of another type.
LEMMA NotMisused ==
    ASSUME Legible, \E i \in DOMAIN log : log[i].actor = World,
           NEW F, NEW B, Explained(prog, log, F, B), reorigins = <<[to |-> Entry, typed |-> TRUE]>>
    PROVE  ~Misused
<1>1. PICK i \in DOMAIN log : log[i].actor = World
  OBVIOUS
<1>2. i \in Emits(World)
  BY <1>1 DEF Legible, Sound, IsOrigin, IsEmit, Emits, Nodes
<1>3. PICK n : n = Cardinality(Emits(World))
  OBVIOUS
<1>4. 1 \in 1..n
  <2>1. n \in Nat /\ \E k : k \in 1..n
    BY <1>2, <1>3, EmitsOfPlaces DEF Legible, TimelineInv
  <2> QED BY <2>1
<1>5. PICK j : j = Replay!EmitsOf(World)[1]
  OBVIOUS
<1>6. j \in Emits(World)
  BY <1>3, <1>4, <1>5, EmitsOfPlaces DEF Legible, TimelineInv
<1>7. log[j].dst = Entry
  BY <1>6 DEF Explained, Justified, Emits, Nodes
<1>8. PICK o : o = [to |-> Entry, typed |-> TRUE]
  OBVIOUS
<1>9. \A k \in DOMAIN reorigins : k = 1 /\ reorigins[k] = o
  <2>1. \A k \in DOMAIN <<o>> : k = 1 /\ <<o>>[k] = o
    OBVIOUS
  <2>2. reorigins = <<o>>
    BY <1>8
  <2> QED BY <2>1, <2>2
<1>10. o.typed /\ o.to = Entry
  BY <1>8
<1>11. ASSUME NEW k \in DOMAIN reorigins
       PROVE  reorigins[k].typed /\ reorigins[k].to = log[Replay!EmitsOf(World)[k]].dst
  <2>1. reorigins[k] = o /\ log[Replay!EmitsOf(World)[k]].dst = Entry
    BY <1>5, <1>7, <1>9
  <2> QED BY <1>10, <2>1, Zenon
<1> QED BY <1>11, Zenon DEF Misused

LEMMA RetoldRehandles ==
    ASSUME Cast, RunInv, RunInv', RetoldInv, Rehandles, UNCHANGED <<prog, st>>
    PROVE  RetoldInv'
<1>1. Replay!Receive /\ phase = "walk" /\ phase # "recording" /\ UNCHANGED <<log, rebuilt, reorigins, rbody>>
      /\ Replay!Ahead # {}
  BY Rehandled DEF Replay!Receive
<1>2. /\ Legible /\ Matches /\ ~Broken
      /\ \E F, B : Explained(prog, log, F, B) /\ Closing(F) /\ Rejoined(F) /\ Known(B)
  BY <1>1, RetoldFacts DEF Walking
<1>3. PICK F, B : Explained(prog, log, F, B) /\ Closing(F) /\ Rejoined(F) /\ Known(B)
  BY <1>2
<1>4. PICK i, a : i = order[Replay!Place] /\ a = Replay!Receipt.actor
  OBVIOUS
<1>5. i \in Nodes /\ IsRecv(log[i]) /\ Replay!Receipt = log[i]
  BY <1>1, <1>2, <1>4, PlaceIsFirst DEF Legible
<1>6. a \in Actor /\ a = log[i].actor /\ a \in rebuilt /\ a # None /\ a # World
  <2>1. a \in Actor /\ a = log[i].actor
    BY <1>2, <1>4, <1>5 DEF Legible, ReadableLog, Nodes
  <2> QED BY <1>2, <1>5, <2>1, Roles DEF Broken, Astray
<1>7. Is(i, a, reseq[a] + 1)
  BY <1>1, <1>2, <1>4, InTurn DEF Matches, Broken
<1>8. \A b \in Actor : ~Driven(b)
  BY <1>1 DEF Driven
<1>9. /\ log[i].op = "recv" /\ log[i].msg_id \in DOMAIN B
      /\ F[i] = Reacts(prog, a, rst[a], B[log[i].msg_id])
  <2>1. Does(<<>>, rst[a]) \in Held(prog, log, F, a, reseq[a])
    BY <1>3, <1>6, <1>8 DEF Rejoined
  <2>2. reseq[a] \in Nat
    BY <1>2, <1>6 DEF Legible, ReplayTypes
  <2> QED BY <1>2, <1>3, <1>6, <1>7, <2>1, <2>2, NoCallsLeft DEF Legible
<1>10. PICK env \in pending : env.msg_id = log[i].msg_id /\ pending' = pending \ {env}
  BY <1>1, <1>5 DEF Replay!Receive, Replay!Due, Replay!Take
<1>11. rbody[log[i].msg_id] = B[log[i].msg_id]
  BY <1>3, <1>10 DEF Known
<1>12. driving' = a /\ phase' \in Driving
  BY <1>4, <1>6, Rehandled
<1>13. /\ rst' = [rst EXCEPT ![a] = Handle(prog, a, rst[a], B[log[i].msg_id]).st]
       /\ rscript' = Handle(prog, a, rst[a], B[log[i].msg_id]).calls
  BY <1>5, <1>6, <1>11, <1>12, Rehandled
<1>14. F[i] = Does(rscript', rst'[a])
  <2>1. rst = [b \in Actor |-> rst[b]]
    BY DEF Cast
  <2>2. rst'[a] = Handle(prog, a, rst[a], B[log[i].msg_id]).st
    BY <1>6, <1>13, <2>1
  <2> QED BY <1>9, <1>13, <2>2 DEF Reacts
<1>15. phase' = "userHandle"
  <2> SUFFICES ASSUME phase' = "panicked" PROVE FALSE
    BY <1>12 DEF Driving
  <2>1. divergences' = {} /\ intact'
    <3>1. ~Astray /\ \A b \in Actor : Follows(b)
      BY <1>2 DEF Broken
    <3>2. divergences = {}
      BY <1>2, <3>1, FollowedIsClean DEF Matches
    <3> QED BY <1>1, <1>2, <3>1, <3>2, ReceiveMatches DEF RunInv
  <2>2. Misused'
    BY <2>1 DEF RunInv, PanicInv
  <2>3. Misused
    BY <1>1, <2>2, SameEmits DEF Misused
  <2> QED BY <1>1, <1>2, <1>3, <2>3, NotMisused DEF RetoldInv, Cast, Walking
<1>16. /\ reseq' = [reseq EXCEPT ![a] = @ + 1]
       /\ did' = [did EXCEPT ![a] = Append(@, <<"recv", None>>)]
  BY <1>1, <1>4 DEF Replay!Receive
<1>17. Rejoined(F)'
  <2>1. Driven(a)' /\ \A b \in Actor : b # a => rst'[b] = rst[b] /\ ~Driven(b) /\ ~Driven(b)'
    <3>1. rst = [b \in Actor |-> rst[b]]
      BY DEF Cast
    <3> QED BY <1>8, <1>12, <1>13, <1>15, <3>1 DEF Driven
  <2> QED BY <1>1, <1>2, <1>3, <1>6, <1>7, <1>14, <1>16, <2>1, RejoinedOn
<1>18. Known(B)'
  BY <1>1, <1>3, <1>10 DEF Known
<1>19. \A b \in Actor : Follows(b)'
  <2>1. Word(log[i]) = <<"recv", None>> /\ <<"recv", None>> \in Words
    BY <1>9 DEF Word, Words
  <2> QED BY <1>1, <1>2, <1>5, <1>6, <1>7, <1>16, <2>1, FollowsOn DEF Broken, Legible
<1>20. reseq' \in [Actor -> Nat]
  BY DEF RunInv, ReplayInv, ReplayTypes
<1>21. ~Broken'
  BY <1>1, <1>2, <1>3, <1>17, <1>19, <1>20, KeepsUnbroken DEF Legible
<1> QED BY <1>1, <1>3, <1>17, <1>18, <1>21, RetoldStays

LEMMA RetoldNext ==
    ASSUME Cast, RecordingInv, RunInv, RunInv', RecordedInv, FreshInv, RetoldInv, [ProgramNext]_programVars
    PROVE  RetoldInv'
<1>1. CASE Redo
  <2>1. UNCHANGED <<prog, st>> /\ phase # "recording"
    BY <1>1, RedoStep DEF recordedVars
  <2>2. CASE ReplayLogStep /\ UNCHANGED systemVars /\ UNCHANGED redoneVars
    <3>1. log' = log /\ phase' \notin Walking
      BY <2>2, ReadingStep DEF Reading, Rejected, Walking
    <3>2. PICK F, B : Explained(prog, log, F, B) /\ Closing(F)
      BY <2>1 DEF RetoldInv, Retold
    <3> QED BY <2>1, <3>1, <3>2, RetoldStays
  <2> QED BY <1>1, <2>1, <2>2, RedoCases, RetoldSetUp, RetoldSeed, RetoldRehandles, RetoldRecalls, RetoldDrives
<1>2. CASE ReadBack
  BY <1>2, RetoldBegins
<1>3. CASE phase' = "recording"
  BY <1>3 DEF RetoldInv
<1>4. CASE RecordProgram \/ \E p \in Program : Spawn(p)
  <2>1. phase' = "recording"
    <3>1. CASE RecordProgram
      BY <3>1, RecordProgramStep DEF replayVars
    <3>2. CASE \E p \in Program : Spawn(p)
      BY <3>2 DEF Spawn, Cast, runVars, replayVars
    <3> QED BY <1>4, <3>1, <3>2
  <2> QED BY <1>3, <2>1
<1>5. CASE UNCHANGED programVars
  <2>1. /\ UNCHANGED runVars /\ UNCHANGED <<log, prog, st, rst, rscript, rbody, phase, driving, reseq, pending>>
    BY <1>5 DEF programVars, runVars, replayVars, systemVars, recordedVars, redoneVars
  <2>2. CASE phase # "recording"
    <3>1. PICK F, B : Explained(prog, log, F, B) /\ Closing(F) /\ (phase \in Walking => Rejoined(F) /\ Known(B))
      BY <2>2 DEF RetoldInv, Retold
    <3>2. Rejoined(F) => Rejoined(F)'
      <4>1. ASSUME Rejoined(F), NEW a \in Actor
            PROVE  (Does(IF Driven(a) THEN rscript ELSE <<>>, rst[a]) \in Held(prog, log, F, a, reseq[a]))'
        <5>1. Driven(a)' <=> Driven(a)
          BY <2>1 DEF Driven
        <5>2. Does(IF Driven(a) THEN rscript ELSE <<>>, rst[a]) \in Held(prog, log, F, a, reseq[a])
          BY <4>1 DEF Rejoined
        <5>3. Does(IF Driven(a)' THEN rscript' ELSE <<>>, rst'[a]) \in Held(prog', log', F, a, reseq'[a])
          BY <2>1, <5>1, <5>2
        <5> QED BY <5>3
      <4> QED BY <4>1 DEF Rejoined
    <3>3. Known(B) => Known(B)'
      BY <2>1 DEF Known
    <3>4. phase \in Walking => ~Broken'
      <4>1. UNCHANGED <<log, reseq, did>>
        BY <2>1 DEF runVars, replayVars, kahnVars, systemVars
      <4>2. Astray' <=> Astray
        BY <2>1, NothingMatchesLess
      <4>3. \A a \in Actor : Follows(a) => Follows(a)'
        BY <4>1, FollowsStays
      <4> QED BY <2>2, <4>2, <4>3 DEF RetoldInv, Broken
    <3> QED BY <2>1, <2>2, <3>1, <3>2, <3>3, <3>4, RetoldStays
  <2>3. CASE phase = "recording"
    BY <1>3, <2>1, <2>3
  <2> QED BY <2>2, <2>3
<1>6. CASE Over /\ UNCHANGED <<prog, recordedVars, redoneVars>>
  BY <1>5, <1>6 DEF Over, programVars
<1> QED BY <1>1, <1>2, <1>4, <1>5, <1>6 DEF ProgramNext

----------------------------------------------------------------------------
(* The replay of an example                                                *)

\* Who has nothing left to do is where it was at the end of the recording.
LEMMA BackAgain ==
    ASSUME Legible, NEW F, NEW B, Explained(prog, log, F, B), Closing(F), Rejoined(F),
           \A i \in Nodes : Repeated(i), NEW a \in Actor, ~Driven(a)
    PROVE  rst[a] = st[a]
<1>1. PICK s \in Nat : /\ Does(<<>>, st[a]) \in Held(prog, log, F, a, s)
                       /\ \A i \in DOMAIN log : log[i].actor = a => log[i].seq <= s
  BY DEF Closing
<1>2. Does(<<>>, rst[a]) \in Held(prog, log, F, a, reseq[a]) /\ reseq[a] \in Nat /\ a # World
  BY Roles DEF Rejoined, Legible, ReplayTypes
<1>3. s <= reseq[a]
  <2>1. CASE s = 0
    BY <1>2, <2>1
  <2>2. CASE s # 0
    <3>1. PICK i \in DOMAIN log : log[i].actor = a /\ log[i].seq = s
      BY <1>1, <2>2 DEF Held
    <3> QED BY <1>2, <3>1 DEF Repeated, Nodes
  <2> QED BY <2>1, <2>2
<1>4. reseq[a] <= s
  <2>1. CASE reseq[a] = 0
    BY <2>1
  <2>2. CASE reseq[a] # 0
    BY <1>1, <1>2, <2>2 DEF Held
  <2> QED BY <2>1, <2>2
<1>5. reseq[a] = s
  BY <1>2, <1>3, <1>4
<1>6. Does(<<>>, rst[a]) = Does(<<>>, st[a])
  BY <1>1, <1>2, <1>5, OneHeld DEF Legible
<1> QED BY <1>6 DEF Does

LEMMA ReplayEnds ==
    ASSUME Cast, RunInv, RetoldInv
    PROVE  ReplayReproducesState
<1> SUFFICES ASSUME phase \in Replay!Ended
             PROVE  phase = "done" /\ divergences = {} /\ rst = st
  BY DEF ReplayReproducesState
<1>1. phase \in Rejected \cup {"done", "panicked"} /\ phase # "recording"
  BY DEF Replay!Ended, Replay!Rejected, Rejected
<1>2. phase \notin Rejected
  BY <1>1 DEF RunInv, SortedInv
<1>3. /\ Legible /\ Matches /\ ~Broken /\ phase \in Walking
      /\ \E F, B : Explained(prog, log, F, B) /\ Closing(F) /\ Rejoined(F)
  <2>1. phase \in Walking
    BY <1>1, <1>2 DEF Walking
  <2> QED BY <2>1, RetoldFacts
<1>4. PICK F, B : Explained(prog, log, F, B) /\ Closing(F) /\ Rejoined(F)
  BY <1>3
<1>5. divergences = {}
  BY <1>3, FollowedIsClean DEF Matches, Broken
<1>6. phase # "panicked"
  <2> SUFFICES ASSUME phase = "panicked" PROVE FALSE
    OBVIOUS
  <2>1. Misused
    BY <1>5 DEF RunInv, PanicInv
  <2> QED BY <1>1, <1>3, <1>4, <2>1, NotMisused DEF RetoldInv, Cast
<1>7. phase = "done"
  BY <1>1, <1>2, <1>6
<1>8. \A i \in Nodes : Repeated(i)
  <2>1. Unflagged
    BY <1>3, <1>5 DEF RunInv, UnflaggedInv
  <2> QED BY <1>3, <1>7, <2>1 DEF Unflagged, Matches, Restamped
<1>9. \A a \in Actor : rst[a] = st[a]
  BY <1>3, <1>4, <1>7, <1>8, BackAgain DEF Driven
<1>10. rst = st
  BY <1>9 DEF Cast
<1> QED BY <1>5, <1>7, <1>10

ProgramInv ==
    /\ Cast /\ RecordingInv /\ RunInv
    /\ RecordedInv /\ FreshInv /\ RetoldInv

LEMMA ProgramInvHolds == ProgramSpec => []ProgramInv
<1>1. ProgramInit => ProgramInv
  <2> SUFFICES ASSUME ProgramInit PROVE ProgramInv
    OBVIOUS
  <2>1. phase = "recording" /\ prog = None
    BY DEF ProgramInit, RunInit
  <2> QED BY <2>1, CastInit, RecordingInvInit, RunInvInit DEF ProgramInv, RecordedInv, FreshInv, RetoldInv
<1>2. ProgramInv /\ [ProgramNext]_programVars => ProgramInv'
  <2> SUFFICES ASSUME ProgramInv, [ProgramNext]_programVars PROVE ProgramInv'
    OBVIOUS
  <2>1. Cast' /\ RecordingInv' /\ RunInv' /\ RecordedInv' /\ FreshInv'
    BY CastNext, RecordingInvNext, RunInvNext, RecordedInvNext, FreshInvNext DEF ProgramInv
  <2>2. RetoldInv'
    BY <2>1, RetoldNext DEF ProgramInv
  <2> QED BY <2>1, <2>2 DEF ProgramInv
<1> QED BY <1>1, <1>2, PTL DEF ProgramSpec

\* "Any captured log replays deterministically": whatever order the run
\* decided its races in, replay_log accepts the log of an example, the replay
\* with the handlers that wrote it neither panics nor reports a divergence, and
\* it leaves every actor in the state it had, although no payload is logged.
THEOREM ReplayReproducesStateHolds == ProgramSpec => []ReplayReproducesState
<1>1. ProgramInv => ReplayReproducesState
  BY ReplayEnds DEF ProgramInv
<1> QED BY <1>1, ProgramInvHolds, PTL

----------------------------------------------------------------------------
(***************************************************************************)
(* Why the race is visible.  Knowledge flows along the sends, so a clock   *)
(* counts no event of a rival before a message of his has been received:   *)
(* neither the origin, nor the entry, nor the other rival ever does.  What *)
(* a rival sends counts itself, so it is incomparable to all the other     *)
(* rival sends.                                                            *)
(***************************************************************************)

\* The rivals whose events a node never counts.
Unaware(n) ==
    IF n \in {World, Entry} THEN {Left, Right}
    ELSE IF n = Left THEN {Right}
    ELSE IF n = Right THEN {Left}
    ELSE {}

Lacks(n, s) == \A x \in Unaware(n) : s[x] = 0

Apart ==
    /\ \A a \in Actor : Lacks(a, clock[a])
    /\ \A n \in Node : Carries(n) => Lacks(n, out[n].vclock) /\ out[n].dst \in Targets(n)
    /\ \A a \in Actor : \A i \in DOMAIN mailbox[a] : Lacks(a, mailbox[a][i].vclock)
    /\ \A i \in DOMAIN recorded : Lacks(recorded[i].actor, recorded[i].vclock)

ApartInv == phase = "recording" => Apart

\* Who is sent to knows no less than the sender.
LEMMA UnawareFlows ==
    /\ \A n : Unaware(n) \subseteq Actor /\ n \notin Unaware(n)
    /\ \A n : \A to \in Targets(n) : Unaware(to) \subseteq Unaware(n)
  BY Roles DEF Unaware, Targets

LEMMA LacksJoin ==
    ASSUME NEW a \in Actor, NEW s \in VClock, NEW t \in VClock, Lacks(a, s), Lacks(a, t)
    PROVE  Lacks(a, Bump(s, a)) /\ Lacks(a, Bump(Join(s, t), a))
<1>1. Join(s, t) \in VClock
  BY JoinType
<1>2. ASSUME NEW x \in Unaware(a)
      PROVE  Bump(s, a)[x] = 0 /\ Bump(Join(s, t), a)[x] = 0
  <2>1. x \in Node /\ x # a /\ s[x] = 0 /\ t[x] = 0
    BY UnawareFlows DEF Lacks, Node
  <2>2. Join(s, t)[x] = 0
    BY <2>1 DEF Join, Larger, VClock
  <2> QED BY <1>1, <2>1, <2>2 DEF Bump, VClock
<1> QED BY <1>2 DEF Lacks

LEMMA ApartInit == ProgramInit => Apart
<1> SUFFICES ASSUME ProgramInit PROVE Apart
  OBVIOUS
<1>1. Init
  BY DEF ProgramInit, RunInit
<1>2. \A n : Lacks(n, ZeroClock)
  BY UnawareFlows DEF Lacks, ZeroClock, Node
<1>3. \A n \in Node : ~Carries(n)
  BY <1>1 DEF Init, Carries, ToRecord, PastRecord, Node
<1> QED BY <1>1, <1>2, <1>3 DEF Init, Apart

\* A report that lacks what its actor lacks.
LEMMA RecordsApart ==
    ASSUME TypeInv, Apart, NEW ev, Record(ev), Lacks(ev.actor, ev.vclock)
    PROVE  \A i \in DOMAIN recorded' : Lacks(recorded'[i].actor, recorded'[i].vclock)
<1>1. CASE writerUp
  BY <1>1, RecordCases, AppendFacts DEF Apart
<1>2. CASE ~writerUp
  BY <1>2, RecordCases DEF Apart
<1> QED BY <1>1, <1>2

\* What an actor, or main, has in hand stays apart while it is passed on.
LEMMA InHandApart ==
    ASSUME TypeInv, Apart, NEW n \in Node, Carries(n)
    PROVE  /\ out[n] \in Envelope /\ Lacks(n, out[n].vclock)
           /\ out[n].dst \in Actor /\ Lacks(out[n].dst, out[n].vclock)
<1>1. out[n] \in Envelope /\ Lacks(n, out[n].vclock) /\ out[n].dst \in Targets(n)
  BY FifoCarried DEF Apart
<1> QED BY <1>1, UnawareFlows, TargetsAreActors DEF Lacks

LEMMA HandedApart ==
    ASSUME TypeInv, Apart, NEW n \in Node, Carries(n), NEW a \in Actor,
           UNCHANGED <<clock, recorded>>,
           \A m \in Node : Carries(m)' => Carries(m) /\ out'[m] = out[m],
           out[n].dst = a, mailbox' = [mailbox EXCEPT ![a] = Append(@, out[n])]
    PROVE  Apart'
<1>1. mailbox[a] \in Seq(Envelope) /\ mailbox \in [Actor -> Seq(Envelope)]
  BY TypedState
<1>2. ASSUME NEW b \in Actor, NEW i \in DOMAIN mailbox'[b]
      PROVE  Lacks(b, mailbox'[b][i].vclock)
  <2>1. CASE b # a
    BY <1>1, <1>2, <2>1 DEF Apart
  <2>2. CASE b = a
    <3>1. mailbox'[a] = Append(mailbox[a], out[n])
      BY <1>1
    <3>2. \/ i \in DOMAIN mailbox[a] /\ mailbox'[a][i] = mailbox[a][i]
          \/ mailbox'[a][i] = out[n]
      BY <1>1, <1>2, <2>2, <3>1
    <3> QED BY <2>2, <3>2, InHandApart DEF Apart
  <2> QED BY <2>1, <2>2
<1> QED BY <1>2 DEF Apart

LEMMA StampedApart ==
    ASSUME TypeInv, Apart, NEW a \in Actor, NEW to \in Targets(a), SendStamp(a, to)
    PROVE  Apart'
<1>1. /\ clock \in [Actor -> VClock] /\ a # World /\ World \notin Actor
      /\ \A b \in Actor : clock[b] \in VClock
      /\ out \in [Node -> Envelope \cup {None}] /\ pc \in [Actor -> ActorPc] /\ Actor \subseteq Node
  BY TypedState
<1>2. PICK env : /\ out' = [out EXCEPT ![a] = env] /\ env.vclock = Bump(clock[a], a) /\ env.dst = to
  <2>1. PICK typed : out' = [out EXCEPT ![a] = [vclock |-> Bump(clock[a], a), lamport |-> Tick(lamport[a]),
                                    msg_id |-> msgId + 1, src |-> a, dst |-> to, typed |-> typed]]
    BY DEF SendStamp
  <2>2. PICK env : env = [vclock |-> Bump(clock[a], a), lamport |-> Tick(lamport[a]),
                          msg_id |-> msgId + 1, src |-> a, dst |-> to, typed |-> typed]
    OBVIOUS
  <2>3. env.vclock = Bump(clock[a], a) /\ env.dst = to
    BY <2>2
  <2> QED BY <2>1, <2>2, <2>3
<1>3. /\ clock' = [clock EXCEPT ![a] = Bump(@, a)] /\ UNCHANGED <<mailbox, recorded, mpc>>
      /\ pc' = [pc EXCEPT ![a] = "emit"]
  BY DEF SendStamp, Goto
<1>4. Lacks(a, Bump(clock[a], a))
  BY <1>1, LacksJoin DEF Apart
<1>5. \A b \in Actor : Lacks(b, clock'[b])
  BY <1>1, <1>3, <1>4 DEF Apart
<1>6. ASSUME NEW m \in Node, Carries(m)'
      PROVE  Lacks(m, out'[m].vclock) /\ out'[m].dst \in Targets(m)
  <2>1. CASE m = a
    BY <1>1, <1>2, <1>4, <2>1
  <2>2. CASE m # a
    <3>1. out'[m] = out[m]
      BY <1>1, <1>2, <2>2
    <3>2. m # World => pc'[m] = pc[m]
      BY <1>1, <1>3, <2>2, TypedState
    <3>3. Carries(m)
      BY <1>3, <1>6, <3>2 DEF Carries, ToRecord, PastRecord
    <3> QED BY <3>1, <3>3 DEF Apart
  <2> QED BY <2>1, <2>2
<1> QED BY <1>3, <1>5, <1>6 DEF Apart

LEMMA OriginApart ==
    ASSUME TypeInv, Apart, ExternalStamp(Entry)
    PROVE  Apart'
<1>1. /\ World \notin Actor /\ World \in Node
      /\ out \in [Node -> Envelope \cup {None}]
  BY TypedState
<1>2. PICK env : /\ out' = [out EXCEPT ![World] = env]
                 /\ env.vclock = Bump(ZeroClock, World) /\ env.dst = Entry
  <2>1. PICK typed : out' = [out EXCEPT ![World] = [vclock |-> Bump(ZeroClock, World), lamport |-> 1,
                                    msg_id |-> msgId + 1, src |-> World, dst |-> Entry, typed |-> typed]]
    BY DEF ExternalStamp
  <2>2. PICK env : env = [vclock |-> Bump(ZeroClock, World), lamport |-> 1,
                          msg_id |-> msgId + 1, src |-> World, dst |-> Entry, typed |-> typed]
    OBVIOUS
  <2>3. env.vclock = Bump(ZeroClock, World) /\ env.dst = Entry
    BY <2>2
  <2> QED BY <2>1, <2>2, <2>3
<1>3. UNCHANGED <<clock, mailbox, recorded, pc>>
  BY DEF ExternalStamp
<1>4. Lacks(World, Bump(ZeroClock, World))
  BY UnawareFlows, <1>1 DEF Lacks, Bump, ZeroClock, Node
<1>5. ASSUME NEW m \in Node, Carries(m)'
      PROVE  Lacks(m, out'[m].vclock) /\ out'[m].dst \in Targets(m)
  <2>1. CASE m = World
    BY <1>1, <1>2, <1>4, <2>1 DEF Targets
  <2>2. CASE m # World
    <3>1. out'[m] = out[m] /\ Carries(m)
      BY <1>1, <1>2, <1>3, <1>5, <2>2 DEF Carries, ToRecord, PastRecord
    <3> QED BY <3>1 DEF Apart
  <2> QED BY <2>1, <2>2
<1> QED BY <1>3, <1>5 DEF Apart

LEMMA ReceivedApart ==
    ASSUME TypeInv, Apart, NEW a \in Actor, Recv(a)
    PROVE  Apart'
<1>1. /\ clock \in [Actor -> VClock] /\ clock[a] \in VClock /\ mailbox[a] \in Seq(Envelope)
      /\ mailbox \in [Actor -> Seq(Envelope)] /\ pc \in [Actor -> ActorPc] /\ World \notin Actor
      /\ mailbox[a] # <<>>
  BY TypedState DEF Recv
<1>2. PICK env, vc, lam, ev :
        /\ env = Head(mailbox[a]) /\ vc = Bump(Join(clock[a], env.vclock), a)
        /\ ev = RecvEvent(a, seq[a] + 1, vc, lam, env) /\ Record(ev)
        /\ clock' = [clock EXCEPT ![a] = vc] /\ mailbox' = [mailbox EXCEPT ![a] = Tail(@)]
        /\ UNCHANGED <<out, mpc>>
        /\ \E label \in {"user", "mistyped"} : pc' = [pc EXCEPT ![a] = label]
  <2>1. PICK env : env = Head(mailbox[a])
    OBVIOUS
  <2>2. PICK vc : vc = Bump(Join(clock[a], env.vclock), a)
    OBVIOUS
  <2>3. PICK lam : lam = Update(lamport[a], env.lamport)
    OBVIOUS
  <2> QED BY <2>1, <2>2, <2>3 DEF Recv, Goto
<1>3. env \in Envelope /\ env = mailbox[a][1] /\ 1 \in DOMAIN mailbox[a]
  BY <1>1, <1>2
<1>4. Lacks(a, env.vclock) /\ env.vclock \in VClock /\ Lacks(a, clock[a])
  BY <1>3 DEF Apart, Envelope
<1>5. Lacks(a, vc)
  BY <1>1, <1>2, <1>4, LacksJoin
<1>6. \A b \in Actor : Lacks(b, clock'[b])
  BY <1>1, <1>2, <1>5 DEF Apart
<1>7. ev.actor = a /\ ev.vclock = vc
  BY <1>2 DEF RecvEvent
<1>8. \A i \in DOMAIN recorded' : Lacks(recorded'[i].actor, recorded'[i].vclock)
  BY <1>2, <1>5, <1>7, RecordsApart
<1>9. ASSUME NEW b \in Actor, NEW i \in DOMAIN mailbox'[b]
      PROVE  Lacks(b, mailbox'[b][i].vclock)
  <2>1. CASE b # a
    BY <1>1, <1>2, <1>9, <2>1 DEF Apart
  <2>2. CASE b = a
    <3>1. mailbox'[a] = Tail(mailbox[a])
      BY <1>1, <1>2
    <3>2. i + 1 \in DOMAIN mailbox[a] /\ mailbox'[a][i] = mailbox[a][i + 1]
      BY <1>1, <1>9, <2>2, <3>1
    <3> QED BY <2>2, <3>2 DEF Apart
  <2> QED BY <2>1, <2>2
<1>10. ASSUME NEW m \in Node, Carries(m)'
       PROVE  Lacks(m, out'[m].vclock) /\ out'[m].dst \in Targets(m)
  <2>1. Carries(m)
    BY <1>1, <1>2, <1>10 DEF Carries, ToRecord, PastRecord
  <2> QED BY <1>2, <2>1 DEF Apart
<1> QED BY <1>6, <1>8, <1>9, <1>10 DEF Apart

LEMMA ComputedApart ==
    ASSUME TypeInv, Apart, NEW a \in Actor, Compute(a)
    PROVE  Apart'
<1>1. clock \in [Actor -> VClock] /\ clock[a] \in VClock
  BY TypedState
<1>2. PICK vc, ev : /\ vc = Bump(clock[a], a) /\ ev.actor = a /\ ev.vclock = vc /\ Record(ev)
                    /\ clock' = [clock EXCEPT ![a] = vc] /\ UNCHANGED <<pc, out, mailbox, mpc>>
  <2>1. PICK vc : vc = Bump(clock[a], a)
    OBVIOUS
  <2>2. PICK ev : ev = ComputeEvent(a, seq[a] + 1, vc, Tick(lamport[a]))
    OBVIOUS
  <2>3. ev.actor = a /\ ev.vclock = vc
    BY <2>2 DEF ComputeEvent
  <2> QED BY <2>1, <2>2, <2>3 DEF Compute
<1>3. Lacks(a, vc)
  BY <1>1, <1>2, LacksJoin DEF Apart
<1>4. \A b \in Actor : Lacks(b, clock'[b])
  BY <1>1, <1>2, <1>3 DEF Apart
<1>5. \A i \in DOMAIN recorded' : Lacks(recorded'[i].actor, recorded'[i].vclock)
  BY <1>2, <1>3, RecordsApart
<1>6. \A m \in Node : Carries(m)' => Carries(m)
  BY <1>2 DEF Carries, ToRecord, PastRecord
<1> QED BY <1>2, <1>4, <1>5, <1>6 DEF Apart

\* A send, or the origin, is reported as it was stamped.
LEMMA ReportedApart ==
    ASSUME TypeInv, Apart, NEW n \in Node, Carries(n), NEW s, Record(EmitEvent(n, s, out[n])),
           UNCHANGED <<clock, out, mailbox>>, \A m \in Node : Carries(m)' => Carries(m)
    PROVE  Apart'
<1>1. PICK ev : ev = EmitEvent(n, s, out[n])
  OBVIOUS
<1>2. ev.actor = n /\ ev.vclock = out[n].vclock
  BY <1>1 DEF EmitEvent
<1>3. \A i \in DOMAIN recorded' : Lacks(recorded'[i].actor, recorded'[i].vclock)
  BY <1>1, <1>2, InHandApart, RecordsApart
<1> QED BY <1>3 DEF Apart

\* Steps that stamp, record and deliver nothing.
LEMMA QuietlyApart ==
    ASSUME Apart, UNCHANGED <<clock, mailbox, recorded>>,
           \A m \in Node : Carries(m)' => Carries(m) /\ out'[m] = out[m]
    PROVE  Apart'
  BY DEF Apart

LEMMA TaskApart ==
    ASSUME TypeInv, Apart, Cast, prog \in Program, NEW a \in Topology(prog), TaskSteps(a)
    PROVE  Apart'
<1>1. /\ a \in Actor /\ a \in Node /\ a # World /\ pc \in [Actor -> ActorPc]
      /\ World \notin Actor /\ out \in [Node -> Envelope \cup {None}]
      /\ \A n \in Node : n # World => n \in Actor
  BY TypedState DEF Topology
<1> USE DEF Goto
<1>2. CASE Handles(a)
  BY <1>1, <1>2, ReceivedApart DEF Handles
<1>3. CASE Calls(a)
  <2>1. CallOf(a, Head(script[a]))
    BY <1>1, <1>3, ProperCalls DEF Cast, Calls
  <2>2. Compute(a) \/ \E to \in Targets(a) : SendStamp(a, to)
    BY <1>3, <2>1 DEF Calls, CallOf
  <2> QED BY <1>1, <2>2, ComputedApart, StampedApart
<1>4. CASE SendRecord(a)
  <2>1. /\ Record(EmitEvent(a, seq[a], out[a])) /\ pc[a] = "emit" /\ pc' = [pc EXCEPT ![a] = "count"]
        /\ UNCHANGED <<clock, out, mailbox, mpc>>
    BY <1>4 DEF SendRecord
  <2>2. Carries(a) /\ \A m \in Node : Carries(m)' => Carries(m)
    BY <1>1, <2>1 DEF Carries, ToRecord, PastRecord
  <2> QED BY <1>1, <2>1, <2>2, ReportedApart
<1>5. CASE SendDeliver(a)
  <2>1. pc[a] = "deliver" /\ UNCHANGED <<clock, recorded, mpc>> /\ Carries(a)
    BY <1>1, <1>5 DEF SendDeliver, Carries, PastRecord
  <2>2. out[a].dst \in Actor
    BY <1>1, <2>1, InHandApart
  <2>3. CASE pc' = [pc EXCEPT ![a] = "undo"] /\ UNCHANGED <<mailbox, out>>
    <3>1. \A m \in Node : Carries(m)' => Carries(m)
      BY <1>1, <2>1, <2>3 DEF Carries, ToRecord, PastRecord
    <3> QED BY <2>1, <2>3, <3>1, QuietlyApart
  <2>4. CASE /\ mailbox' = [mailbox EXCEPT ![out[a].dst] = Append(@, out[a])]
             /\ out' = [out EXCEPT ![a] = None] /\ pc' = [pc EXCEPT ![a] = "user"]
    <3>1. \A m \in Node : Carries(m)' => Carries(m) /\ out'[m] = out[m]
      BY <1>1, <2>1, <2>4 DEF Carries, ToRecord, PastRecord
    <3> QED BY <1>1, <2>1, <2>2, <2>4, <3>1, HandedApart
  <2> QED BY <1>5, <2>3, <2>4 DEF SendDeliver
<1>6. CASE Start(a) \/ SendCount(a) \/ Settle(a) \/ NotifyDone(a)
  <2>1. UNCHANGED <<clock, mailbox, recorded, out>> /\ mpc' \in {mpc, "check"}
    BY <1>6 DEF Start, SendCount, Settle, NotifyDone, NotifyOne, MainGoto
  <2>2. pc[a] = "count" \/ (pc'[a] \notin {"emit", "count", "deliver", "undo"})
    BY <1>1, <1>6 DEF Start, SendCount, Settle, NotifyDone, DecInFlight
  <2>3. \A m \in Actor : m # a => pc'[m] = pc[m]
    BY <1>1, <1>6 DEF Start, SendCount, Settle, NotifyDone, DecInFlight
  <2>4. \A m \in Node : Carries(m)' => Carries(m)
    BY <1>1, <2>1, <2>2, <2>3 DEF Carries, ToRecord, PastRecord
  <2> QED BY <2>1, <2>4, QuietlyApart
<1> QED BY <1>2, <1>3, <1>4, <1>5, <1>6 DEF TaskSteps

LEMMA MainApart ==
    ASSUME TypeInv, Apart, MainSteps
    PROVE  Apart'
<1>1. World \notin Actor /\ World \in Node /\ out \in [Node -> Envelope \cup {None}]
  BY TypedState
<1> USE DEF MainGoto
<1>2. CASE Origin
  BY <1>2, OriginApart DEF Origin
<1>3. CASE ExternalRecord
  <2>1. /\ Record(EmitEvent(World, 1, out[World])) /\ mpc = "record" /\ mpc' = "count"
        /\ UNCHANGED <<clock, out, mailbox, pc>>
    BY <1>3 DEF ExternalRecord
  <2>2. Carries(World) /\ \A m \in Node : Carries(m)' => Carries(m)
    BY <1>1, <2>1 DEF Carries, ToRecord, PastRecord
  <2> QED BY <1>1, <2>1, <2>2, ReportedApart
<1>4. CASE ExternalDeliver
  <2>1. /\ mpc = "deliver" /\ mpc' = "setup" /\ UNCHANGED <<clock, recorded, pc>> /\ Carries(World)
        /\ out' = [out EXCEPT ![World] = None]
        /\ \/ mailbox' = mailbox
           \/ mailbox' = [mailbox EXCEPT ![out[World].dst] = Append(@, out[World])]
    BY <1>1, <1>4 DEF ExternalDeliver, Carries, PastRecord
  <2>2. out[World].dst \in Actor
    BY <1>1, <2>1, InHandApart
  <2>3. \A m \in Node : Carries(m)' => Carries(m) /\ out'[m] = out[m]
    BY <1>1, <2>1 DEF Carries, ToRecord, PastRecord
  <2> QED BY <1>1, <2>1, <2>2, <2>3, HandedApart, QuietlyApart
<1>5. CASE ExternalCount \/ RunUntilQuiescent \/ Check \/ Await
  <2>1. /\ UNCHANGED <<clock, mailbox, recorded, out, pc>>
        /\ mpc = "count" \/ mpc' \notin {"record", "count", "deliver"}
    BY <1>5 DEF ExternalCount, RunUntilQuiescent, Check, Await
  <2>2. \A m \in Node : Carries(m)' => Carries(m)
    BY <1>1, <2>1 DEF Carries, ToRecord, PastRecord
  <2> QED BY <2>1, <2>2, QuietlyApart
<1> QED BY <1>2, <1>3, <1>4, <1>5 DEF MainSteps

LEMMA ApartNext ==
    ASSUME Cast, RecordingInv, ApartInv, [ProgramNext]_programVars
    PROVE  ApartInv'
<1> SUFFICES ASSUME phase' = "recording" PROVE Apart'
  BY DEF ApartInv
<1>1. CASE RecordProgram
  <2>1. phase = "recording" /\ prog \in Program
    BY <1>1, RecordProgramStep
  <2>2. TypeInv /\ Apart
    BY <2>1 DEF RecordingInv, Recording, ApartInv
  <2> QED BY <1>1, <2>1, <2>2, TaskApart, MainApart DEF RecordProgram
<1>2. CASE UNCHANGED <<vars, phase>>
  <2>1. Apart /\ UNCHANGED <<clock, out, mailbox, recorded, pc, mpc>>
    BY <1>2 DEF ApartInv, vars
  <2>2. \A m \in Node : Carries(m)' => Carries(m)
    BY <2>1 DEF Carries, ToRecord, PastRecord
  <2> QED BY <2>1, <2>2, QuietlyApart
<1>3. CASE Redo
  BY <1>3, RedoStep
<1>4. CASE (\E p \in Program : Spawn(p)) \/ Over \/ UNCHANGED programVars
  <2>1. UNCHANGED runVars
    BY <1>4 DEF Spawn, Over, programVars
  <2> QED BY <1>2, <2>1 DEF runVars, replayVars
<1> QED BY <1>1, <1>3, <1>4 DEF ProgramNext, ReadBack

\* A log that shows the race, and that has the events of the join in order.
Raced(l) ==
    /\ \A i, j \in DOMAIN l : l[i].actor = Left /\ l[j].actor = Right =>
         /\ DeskConcurrent(l[i], l[j])
         /\ (IF i < j THEN <<i, j>> ELSE <<j, i>>) \in ConcurrentPairs(l)
    /\ \A i, j \in DOMAIN l : l[i].actor = Meet /\ l[j].actor = Meet /\ i < j => l[i].seq < l[j].seq

RacedInv == phase # "recording" => Raced(log)

LEMMA PairApart ==
    ASSUME NEW l, NEW i \in DOMAIN l, NEW j \in DOMAIN l, i < j,
           <<i, j>> \notin Reach(l), <<j, i>> \notin Reach(l)
    PROVE  <<i, j>> \in ConcurrentPairs(l)
<1>1. PICK R : R = Reach(l)
  OBVIOUS
<1>2. PICK e : e = <<i, j>>
  OBVIOUS
<1>3. e \in Pairs(l) /\ e[1] = i /\ e[2] = j
  BY <1>2 DEF Pairs
<1>4. e \in {d \in Pairs(l) : d[1] < d[2] /\ d \notin R /\ <<d[2], d[1]>> \notin R}
  BY <1>1, <1>2, <1>3
<1> QED BY <1>1, <1>2, <1>4 DEF ConcurrentPairs

LEMMA RecordingRaced ==
    ASSUME Recording, Worldly, Apart
    PROVE  Raced(recorded)
<1>1. /\ TypeInv /\ LogInv /\ DeriveInv /\ recorded \in Seq(Event) /\ DOMAIN recorded \subseteq Nat
  BY TypedState DEF Recording
<1>2. ASSUME NEW i \in DOMAIN recorded, NEW j \in DOMAIN recorded,
             recorded[i].actor = Left, recorded[j].actor = Right
      PROVE  /\ DeskConcurrent(recorded[i], recorded[j])
             /\ (IF i < j THEN <<i, j>> ELSE <<j, i>>) \in ConcurrentPairs(recorded)
  <2>1. recorded[i].vclock[Right] = 0 /\ recorded[j].vclock[Left] = 0
    BY <1>2, Roles DEF Apart, Lacks, Unaware
  <2>2. recorded[i].vclock[Left] = recorded[i].seq /\ recorded[j].vclock[Right] = recorded[j].seq
    BY <1>1, <1>2, Roles DEF LogInv, Ordered, EventsOf
  <2>3. /\ recorded[i].seq \in Nat /\ recorded[i].seq >= 1
        /\ recorded[j].seq \in Nat /\ recorded[j].seq >= 1
    BY <1>1, EventNumbers
  <2>4. Left \in Node /\ Right \in Node /\ recorded[i].vclock \in VClock /\ recorded[j].vclock \in VClock
    BY <1>1, Roles, RecordedTypes DEF Node
  <2>5. DeskConcurrent(recorded[i], recorded[j])
    BY <2>1, <2>2, <2>3, <2>4 DEF DeskConcurrent, DeskLeq
  <2>6. ~Leq(recorded[i].vclock, recorded[j].vclock) /\ ~Leq(recorded[j].vclock, recorded[i].vclock)
    BY <2>1, <2>2, <2>3, <2>4 DEF Leq, VClock
  <2>7. <<i, j>> \notin Reach(recorded) /\ <<j, i>> \notin Reach(recorded)
    BY <1>1, <2>6, ReachedIsLess DEF Less
  <2>8. i # j /\ i \in Nat /\ j \in Nat
    BY <1>1, <1>2, Roles
  <2>9. i < j => <<i, j>> \in ConcurrentPairs(recorded)
    BY <2>7, PairApart
  <2>10. j < i => <<j, i>> \in ConcurrentPairs(recorded)
    BY <2>7, PairApart
  <2> QED BY <2>5, <2>8, <2>9, <2>10
<1>3. ASSUME NEW i \in DOMAIN recorded, NEW j \in DOMAIN recorded,
             recorded[i].actor = Meet, recorded[j].actor = Meet, i < j
      PROVE  recorded[i].seq < recorded[j].seq
  BY <1>1, <1>3, Roles DEF LogInv, Ordered, EventsOf
<1> QED BY <1>2, <1>3 DEF Raced

LEMMA RacedNext ==
    ASSUME Cast, RecordingInv, RunInv, ApartInv, RacedInv, [ProgramNext]_programVars
    PROVE  RacedInv'
<1>1. CASE ReadBack
  <2>1. phase = "recording" /\ log' = recorded
    BY <1>1, ReadBackReads
  <2>2. Raced(recorded)
    BY <2>1, RecordingRaced DEF RecordingInv, ApartInv
  <2>3. Raced(log)'
    BY <2>1, <2>2, Zenon
  <2> QED BY <2>3 DEF RacedInv
<1>2. ASSUME phase' # "recording", ~ReadBack
      PROVE  phase # "recording" /\ log' = log
  <2>1. CASE RecordProgram
    BY <1>2, <2>1, RecordProgramStep DEF replayVars
  <2>2. CASE UNCHANGED runVars
    BY <1>2, <2>2 DEF runVars, replayVars
  <2>3. CASE Redo
    <3>1. ReplayStep /\ phase # "recording"
      BY <2>3, RedoStep
    <3>2. CASE ReplayLogStep
      BY <3>1, <3>2, ReadingStep
    <3>3. CASE \E actors, stimuli : Replay!SetUp(actors, stimuli)
      BY <3>1, <3>3, SetUpStep
    <3>4. CASE Replay!Driver \/ \E a \in Actor : Replay!UserCode(a)
      BY <3>1, <3>4, WalkStep
    <3> QED BY <3>1, <3>2, <3>3, <3>4 DEF ReplayStep
  <2> QED BY <1>2, <2>1, <2>2, <2>3 DEF ProgramNext, Spawn, Over, programVars
<1>3. CASE phase' # "recording" /\ ~ReadBack
  <2>1. Raced(log) /\ log' = log
    BY <1>2, <1>3 DEF RacedInv
  <2>2. Raced(log)'
    BY <2>1, Zenon
  <2> QED BY <2>2 DEF RacedInv
<1> QED BY <1>1, <1>3 DEF RacedInv

LEMMA RacedInvHolds == ProgramSpec => [](ProgramInv /\ ApartInv /\ RacedInv)
<1>1. ProgramInit => ApartInv /\ RacedInv
  BY ApartInit DEF ApartInv, RacedInv, ProgramInit, RunInit
<1>2. ProgramInv /\ ApartInv /\ RacedInv /\ [ProgramNext]_programVars => ApartInv' /\ RacedInv'
  BY ApartNext, RacedNext DEF ProgramInv
<1> QED BY <1>1, <1>2, ProgramInvHolds, PTL DEF ProgramSpec

\* Who came first, told by the numbers of the receipts and not by their places.
FirstTwo(E) ==
    \E e, f \in E :
      /\ e.seq < f.seq /\ \A g \in E : g.seq < f.seq => g = e
      /\ e.src = Left /\ f.src = Right

Arrived(t) == {t[k] : k \in Arrivals(t)}

LEMMA FirstByNumber ==
    ASSUME NEW t, DOMAIN t \subseteq Nat, \A k \in Arrivals(t) : t[k].seq \in Nat,
           \A k, l \in Arrivals(t) : k < l => t[k].seq < t[l].seq
    PROVE  FastFirst(t) <=> FirstTwo(Arrived(t))
<1>1. Arrivals(t) \subseteq Nat
  BY DEF Arrivals
<1>2. \A k, l \in Arrivals(t) : k < l <=> t[k].seq < t[l].seq
  BY <1>1
<1>3. \A k, l \in Arrivals(t) : k = l <=> t[k] = t[l]
  BY <1>1, <1>2
<1>4. ASSUME FastFirst(t)
      PROVE  FirstTwo(Arrived(t))
  <2>1. PICK k \in Arrivals(t), l \in Arrivals(t) :
          /\ k < l /\ \A m \in Arrivals(t) : m < l => m = k
          /\ t[k].src = Left /\ t[l].src = Right
    BY <1>4 DEF FastFirst
  <2>2. t[k].seq < t[l].seq /\ \A m \in Arrivals(t) : t[m].seq < t[l].seq => t[m] = t[k]
    BY <1>2, <2>1
  <2>3. t[k] \in Arrived(t) /\ t[l] \in Arrived(t)
    BY DEF Arrived
  <2>4. \A g \in Arrived(t) : g.seq < t[l].seq => g = t[k]
    BY <2>2 DEF Arrived
  <2> QED BY <2>1, <2>2, <2>3, <2>4 DEF FirstTwo
<1>5. ASSUME FirstTwo(Arrived(t))
      PROVE  FastFirst(t)
  <2>1. PICK k \in Arrivals(t), l \in Arrivals(t) :
          /\ t[k].seq < t[l].seq /\ \A g \in Arrived(t) : g.seq < t[l].seq => g = t[k]
          /\ t[k].src = Left /\ t[l].src = Right
    BY <1>5 DEF FirstTwo, Arrived
  <2>2. \A m \in Arrivals(t) : m < l => m = k
    BY <1>2, <1>3, <2>1 DEF Arrived
  <2> QED BY <1>2, <2>1, <2>2 DEF FastFirst
<1> QED BY <1>4, <1>5

\* The timeline has the receipts of the log, in the order of their numbers.
LEMMA SameFirst ==
    ASSUME ReadableLog(log), Sound(log), Tables, TimelineInv, Raced(log)
    PROVE  FastFirst(Timeline) <=> FastFirst(log)
<1>1. log \in Seq(Event) /\ DOMAIN log \subseteq Nat /\ \A i \in DOMAIN log : log[i].seq \in Nat
  BY LogTypes DEF ReadableLog
<1>2. /\ DOMAIN Timeline = DOMAIN order /\ DOMAIN order \subseteq Nat
      /\ \A k \in DOMAIN order : order[k] \in DOMAIN log /\ Timeline[k] = log[order[k]]
  BY DEF Timeline, Tables, Nodes
<1>3. Arrived(Timeline) = Arrived(log)
  <2>1. \A k \in Arrivals(Timeline) : order[k] \in Arrivals(log) /\ Timeline[k] = log[order[k]]
    BY <1>2 DEF Arrivals
  <2>2. ASSUME NEW i \in Arrivals(log)
        PROVE  \E k \in Arrivals(Timeline) : Timeline[k] = log[i]
    <3>1. PICK k \in DOMAIN order : order[k] = i
      BY <2>2, EverythingIsPlaced DEF Arrivals, Nodes
    <3> QED BY <1>2, <2>2, <3>1 DEF Arrivals
  <2> QED BY <2>1, <2>2 DEF Arrived
<1>4. FastFirst(log) <=> FirstTwo(Arrived(log))
  <2>1. \A k, l \in Arrivals(log) : k < l => log[k].seq < log[l].seq
    BY DEF Raced, Arrivals
  <2>2. \A k \in Arrivals(log) : log[k].seq \in Nat
    BY <1>1 DEF Arrivals
  <2> QED BY <1>1, <2>1, <2>2, FirstByNumber
<1>5. ASSUME NEW k \in Arrivals(Timeline), NEW l \in Arrivals(Timeline), k < l
      PROVE  Timeline[k].seq < Timeline[l].seq
  <2>1. /\ k \in DOMAIN order /\ l \in DOMAIN order
        /\ log[order[k]].actor = Meet /\ log[order[l]].actor = Meet
        /\ log[order[k]].seq \in Nat /\ log[order[l]].seq \in Nat
    BY <1>1, <1>2 DEF Arrivals
  <2>2. SUFFICES ASSUME log[order[l]].seq <= log[order[k]].seq PROVE FALSE
    BY <1>2, <2>1
  <2>3. Meet \in Actor /\ Meet # World
    BY Roles
  <2>4. \A i, j \in Nodes : Is(i, Meet, log[j].seq) /\ log[j].actor = Meet => i = j
    BY <2>3 DEF Sound, Is, Nodes
  <2>5. order[k] # order[l]
    BY <1>2, <1>5, <2>1 DEF TimelineInv, CausesFirst
  <2>6. log[order[l]].seq < log[order[k]].seq
    BY <1>2, <2>1, <2>2, <2>4, <2>5 DEF Is, Nodes
  <2>7. log[order[l]].seq >= 1
    BY <1>2, <2>1, <2>3, SoundStep
  <2>8. PICK q \in 1..(k - 1) : q \in DOMAIN order /\ Is(order[q], Meet, log[order[l]].seq)
    BY <2>1, <2>3, <2>6, <2>7, EarlierIsPlacedEarlier
  <2>9. order[q] = order[l]
    BY <1>2, <2>1, <2>4, <2>8 DEF Nodes
  <2>10. q = l
    BY <2>1, <2>8, <2>9 DEF TimelineInv, CausesFirst
  <2> QED BY <1>2, <1>5, <2>1, <2>8, <2>10
<1>6. FastFirst(Timeline) <=> FirstTwo(Arrived(Timeline))
  <2>1. \A k \in Arrivals(Timeline) : Timeline[k].seq \in Nat
    BY <1>1, <1>2 DEF Arrivals
  <2> QED BY <1>2, <1>5, <2>1, FirstByNumber
<1> QED BY <1>3, <1>4, <1>6

LEMMA ReadRace ==
    ASSUME RunInv, RacedInv
    PROVE  RaceIsVisible
<1> SUFFICES ASSUME phase = "timeline"
             PROVE  /\ \A i \in Quotes(Left), j \in Quotes(Right) :
                         /\ DeskConcurrent(log[i], log[j])
                         /\ (IF i < j THEN <<i, j>> ELSE <<j, i>>) \in ConcurrentPairs(log)
                    /\ FastFirst(Timeline) <=> FastFirst(log)
  BY DEF RaceIsVisible
<1>1. Raced(log)
  BY DEF RacedInv
<1>2. ReadableLog(log) /\ Sound(log) /\ Tables
  BY DEF RunInv, ReplayInv, LogFacts, ReadingInv
<1>3. TimelineInv
  <2>1. KahnInv /\ Vetted
    BY DEF RunInv, ReplayInv, ReadingInv, Reading
  <2> QED BY <2>1 DEF TimelineInv, KahnInv, Complete, Vetted
<1>4. FastFirst(Timeline) <=> FastFirst(log)
  BY <1>1, <1>2, <1>3, SameFirst
<1>5. \A i \in Quotes(Left), j \in Quotes(Right) :
        i \in DOMAIN log /\ j \in DOMAIN log /\ log[i].actor = Left /\ log[j].actor = Right
  BY DEF Quotes
<1>6. \A i \in Quotes(Left), j \in Quotes(Right) :
        /\ DeskConcurrent(log[i], log[j])
        /\ (IF i < j THEN <<i, j>> ELSE <<j, i>>) \in ConcurrentPairs(log)
  BY <1>1, <1>5 DEF Raced
<1> QED BY <1>4, <1>6

\* In whatever order the rivals ran, what they sent to the join is concurrent
\* in the log, by the desk's comparison of the wire maps and by the pairs that
\* replay finds, and the timeline, which is sorted by stamps and not by time,
\* tells which of them the join received first as the log does.
THEOREM RaceIsVisibleHolds == ProgramSpec => []RaceIsVisible
<1>1. ProgramInv /\ ApartInv /\ RacedInv => RaceIsVisible
  BY ReadRace DEF ProgramInv
<1> QED BY <1>1, RacedInvHolds, PTL
=============================================================================
