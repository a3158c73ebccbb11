------------------------------- MODULE Reexec -------------------------------
(***************************************************************************)
(* ReplaySystem::replay (lichtung-replay, reexec.rs): re-run the handlers  *)
(* of a rebuilt topology along the timeline of a recorded log, give every  *)
(* send the id it had in the recording, and compare every event produced   *)
(* with the recorded one.                                                  *)
(*                                                                         *)
(* One thread drives everything, so a handler's send is one step.  What    *)
(* the handlers do is left open, as in ActorRuntime: the program being     *)
(* replayed may or may not be the one that was recorded.                   *)
(***************************************************************************)
EXTENDS ReplayLog, Integers

CONSTANTS
    Actor, World,
    Starters,    \* actors whose started() sends or computes
    Mistyped,    \* actors reachable through an Addr of the wrong type
    OneMsgType,  \* do all actors have the same message type?
    MaxBeyond,   \* bound: user code acts until this many events are not in the log
    MaxDrift     \* bound: ... or this many other divergences are found

VARIABLES
    rebuilt,               \* the actors spawned in the ReplaySystem
    origins,               \* the re-supplied origins, in order
    clock, lamport, seq,   \* per actor: its stamps
    pending,               \* envelopes sent and not yet received, one per msg_id
    sendCount,             \* per actor: sends so far
    divergences,           \* mismatches found, as a set
    produced,              \* coordinates of the events produced
    next,                  \* loop index: origin, actor or place on the timeline
    driving,               \* the actor whose code runs
    did                    \* history: per actor, what it did

taskVars   == <<clock, lamport, seq>>
stateVars  == <<pending, sendCount, divergences, produced>>
setupVars  == <<rebuilt, origins>>
reexecVars == <<setupVars, taskVars, stateVars, next, driving, did>>
replayVars == <<log, kahnVars, phase, reexecVars>>

Ended == Rejected \cup {"done", "panicked"}

\* The members of a set, sorted by a key that tells them apart.
InOrder(S, key) ==
    [k \in 1..Cardinality(S) |->
        CHOOSE x \in S : Cardinality({y \in S : key[y] <= key[x]}) = k]

Seqs == [i \in Nodes |-> log[i].seq]

\* RecordedIndex: an actor's emits in seq order, and the events by coordinate.
EmitsOf(n) == InOrder({i \in Nodes : log[i].actor = n /\ log[i].op = "emit"}, Seqs)

Coordinate(ev) == <<ev.actor, ev.seq>>

Divergence(at, what) == [at |-> at, what |-> what]

Flag(found) == divergences' = divergences \cup found

\* Mutant: an event that was not recorded goes unnoticed.
MismatchLenient(ev) ==
    LET same == {i \in Nodes : Coordinate(log[i]) = Coordinate(ev)}
    IN  IF \E i \in same : log[i] # ev THEN {Divergence(Coordinate(ev), "mismatch")} ELSE {}

\* Mutant: the address of a message is not compared.
MismatchAnyDst(ev) ==
    LET same == {i \in Nodes : Coordinate(log[i]) = Coordinate(ev)}
    IN  IF \E i \in same : [log[i] EXCEPT !.dst = ev.dst] = ev THEN {}
        ELSE {Divergence(Coordinate(ev), IF same = {} THEN "unrecorded" ELSE "mismatch")}

\* verify: what is wrong with a re-produced event.
Mismatch(ev) ==
    LET same == {i \in Nodes : Coordinate(log[i]) = Coordinate(ev)}
    IN  IF \E i \in same : log[i] = ev THEN {}
        ELSE {Divergence(Coordinate(ev), IF same = {} THEN "unrecorded" ELSE "mismatch")}

\* HashMap::insert on pending.
Stash(env) == {e \in pending : e.msg_id # env.msg_id} \cup {env}

AddrTypes(to) == IF to \in Mistyped THEN BOOLEAN ELSE {TRUE}

ReplayInit ==
    /\ KahnInit
    /\ rebuilt = {} /\ origins = <<>>
    /\ clock = [a \in Actor |-> [n \in Actor \cup {World} |-> 0]]
    /\ lamport = [a \in Actor |-> 0]
    /\ seq = [a \in Actor |-> 0]
    /\ pending = {} /\ sendCount = [a \in Actor |-> 0]
    /\ divergences = {} /\ produced = {}
    /\ next = 1 /\ driving = None
    /\ did = [a \in Actor |-> <<>>]

----------------------------------------------------------------------------
(* The driver *)

\* spawn and origin.  replay_log looks at neither, so they may come after it.
SetUp(actors, stimuli) ==
    /\ phase = "timeline"
    /\ rebuilt' = actors
    /\ origins' = stimuli
    /\ Enter("origins")
    /\ UNCHANGED <<log, kahnVars, taskVars, stateVars, next, driving, did>>

\* The k-th recorded world emit meets the k-th re-supplied origin.  The clock
\* comes off the log; neither the address nor the payload is compared.
SeedOrigin ==
    /\ phase = "origins"
    /\ next \in DOMAIN EmitsOf(World)
    /\ LET we    == log[EmitsOf(World)[next]]
           lost  == IF we.msg_id = None THEN "malformed id" ELSE "no origin"
           found == we.msg_id # None /\ next \in DOMAIN origins
       IN  IF ~found
           THEN Flag({Divergence(Coordinate(we), lost)}) /\ UNCHANGED <<produced, pending>>
           ELSE /\ produced' = produced \cup {Coordinate(we)}
                /\ pending' = Stash([vclock |-> we.vclock, lamport |-> we.lamport,
                                     msg_id |-> we.msg_id, src |-> World,
                                     dst |-> origins[next].to, typed |-> origins[next].typed])
                /\ UNCHANGED divergences
    /\ next' = next + 1
    /\ UNCHANGED <<log, kahnVars, phase, setupVars, taskVars, sendCount, driving, did>>

OriginsSeeded ==
    /\ phase = "origins"
    /\ next \notin DOMAIN EmitsOf(World)
    /\ next' = 1
    /\ Enter("started")
    /\ UNCHANGED <<log, kahnVars, setupVars, taskVars, stateVars, driving, did>>

Names == InOrder(rebuilt, Rank)

\* started() of every actor, in the order of names.
DriveStarted ==
    /\ phase = "started"
    /\ next \in DOMAIN Names
    /\ next' = next + 1
    /\ IF Names[next] \in Starters THEN driving' = Names[next] ELSE UNCHANGED driving
    /\ Enter(IF Names[next] \in Starters THEN "userStarted" ELSE "started")
    /\ UNCHANGED <<log, kahnVars, setupVars, taskVars, stateVars, did>>

AllStarted ==
    /\ phase = "started"
    /\ next \notin DOMAIN Names
    /\ next' = 1
    /\ Enter("walk")
    /\ UNCHANGED <<log, kahnVars, setupVars, taskVars, stateVars, driving, did>>

\* The walk skips everything but receipts; build has rejected those without id.
Ahead   == {k \in DOMAIN order : k >= next /\ IsRecv(log[order[k]])}
Place   == CHOOSE k \in Ahead : \A l \in Ahead : k <= l
Receipt == Timeline[Place]

Due == {env \in pending : env.msg_id = Receipt.msg_id}

\* Nobody has re-produced the message.
Unsent ==
    /\ phase = "walk"
    /\ Ahead # {}
    /\ Due = {}
    /\ Flag({Divergence(Coordinate(Receipt), "not sent")})
    /\ next' = Place + 1
    /\ UNCHANGED <<log, kahnVars, phase, setupVars, taskVars, pending, sendCount, produced, driving, did>>

\* The message goes to the actor of the recorded receipt, whatever address it
\* was sent to; a payload of another type than that actor's panics.
Fits(env, a) == env.typed /\ (OneMsgType \/ env.dst = a)

\* Mutant: the message is not taken out.
TakeCopy(env) == pending

\* HashMap::remove on pending.
Take(env) == pending \ {env}

\* Take the message, stamp and verify the receipt, run the handler.
Receive ==
    /\ phase = "walk"
    /\ Ahead # {}
    /\ \E env \in Due :
         LET a   == Receipt.actor
             vc  == Bump(Join(clock[a], env.vclock), a)
             lam == Update(lamport[a], env.lamport)
             ev  == RecvEvent(a, seq[a] + 1, vc, lam, env)
             missing == IF a \in rebuilt THEN {}
                        ELSE {Divergence(Coordinate(Receipt), "not rebuilt")}
         IN  /\ clock' = [clock EXCEPT ![a] = vc]
             /\ lamport' = [lamport EXCEPT ![a] = lam]
             /\ seq' = [seq EXCEPT ![a] = @ + 1]
             /\ Flag(Mismatch(ev) \cup missing)
             /\ produced' = produced \cup {Coordinate(ev)}
             /\ pending' = Take(env)
             /\ did' = [did EXCEPT ![a] = Append(@, <<"recv", None>>)]
             /\ driving' = IF a \in rebuilt THEN a ELSE None
             /\ Enter(CASE a \notin rebuilt -> "walk"
                       [] a \in rebuilt /\ Fits(env, a) -> "userHandle"
                       [] a \in rebuilt /\ ~Fits(env, a) -> "panicked")
    /\ next' = Place + 1
    /\ UNCHANGED <<log, kahnVars, setupVars, sendCount>>

\* Completeness: every recorded event must have been produced.
Complete ==
    /\ phase = "walk"
    /\ Ahead = {}
    /\ Flag({Divergence(Coordinate(log[i]), "not produced") :
                i \in {j \in Nodes : Coordinate(log[j]) \notin produced}})
    /\ Enter("done")
    /\ UNCHANGED <<log, kahnVars, setupVars, taskVars, pending, sendCount, produced, next, driving, did>>

----------------------------------------------------------------------------
(* Context over ReplayDispatch, as the driven actor calls it *)

InUserCode(a) == driving = a /\ phase \in {"userStarted", "userHandle"}

Acts(a) ==
    /\ InUserCode(a)
    /\ Cardinality({d \in divergences : d.what = "unrecorded"}) < MaxBeyond
    /\ Cardinality({d \in divergences : d.what \notin {"unrecorded", "more sends"}}) < MaxDrift

Compute(a) ==
    /\ Acts(a)
    /\ LET vc  == Bump(clock[a], a)
           lam == Tick(lamport[a])
           ev  == ComputeEvent(a, seq[a] + 1, vc, lam)
       IN  /\ clock' = [clock EXCEPT ![a] = vc]
           /\ lamport' = [lamport EXCEPT ![a] = lam]
           /\ Flag(Mismatch(ev))
           /\ produced' = produced \cup {Coordinate(ev)}
    /\ seq' = [seq EXCEPT ![a] = @ + 1]
    /\ did' = [did EXCEPT ![a] = Append(@, <<"compute", None>>)]
    /\ UNCHANGED <<log, kahnVars, phase, setupVars, pending, sendCount, next, driving>>

\* Mutants: sends are counted from zero; they are counted over all actors.
RecordedIdNext(a, j) ==
    IF j + 1 \in DOMAIN EmitsOf(a) THEN log[EmitsOf(a)[j + 1]].msg_id ELSE -j
RecordedIdGlobal(a, j) ==
    LET all == InOrder({i \in Nodes : IsEmit(log[i]) /\ log[i].actor # World}, [i \in Nodes |-> i])
    IN  IF j \in DOMAIN all THEN log[all[j]].msg_id ELSE -j

\* The id the j-th send of an actor had in the recording; u64::MAX - j, here
\* -j, if it had none.
RecordedId(a, j) ==
    IF j \in DOMAIN EmitsOf(a) /\ log[EmitsOf(a)[j]].msg_id # None
    THEN log[EmitsOf(a)[j]].msg_id ELSE -j

Send(a, to) ==
    /\ Acts(a)
    /\ LET vc  == Bump(clock[a], a)
           lam == Tick(lamport[a])
           j   == sendCount[a] + 1
           id  == RecordedId(a, j)
       IN  /\ clock' = [clock EXCEPT ![a] = vc]
           /\ lamport' = [lamport EXCEPT ![a] = lam]
           /\ sendCount' = [sendCount EXCEPT ![a] = j]
           /\ \E typed \in AddrTypes(to) :
                LET env == [vclock |-> vc, lamport |-> lam, msg_id |-> id,
                            src |-> a, dst |-> to, typed |-> typed]
                    ev  == EmitEvent(a, seq[a] + 1, env)
                    over == IF id < 0 THEN {Divergence(<<a, id>>, "more sends")} ELSE {}
                IN  /\ Flag(over \cup Mismatch(ev))
                    /\ produced' = produced \cup {Coordinate(ev)}
                    /\ pending' = Stash(env)
    /\ seq' = [seq EXCEPT ![a] = @ + 1]
    /\ did' = [did EXCEPT ![a] = Append(@, <<"send", to>>)]
    /\ UNCHANGED <<log, kahnVars, phase, setupVars, next, driving>>

Returns(a) ==
    /\ InUserCode(a)
    /\ driving' = None
    /\ Enter(IF phase = "userStarted" THEN "started" ELSE "walk")
    /\ UNCHANGED <<log, kahnVars, setupVars, taskVars, stateVars, next, did>>

Driver == SeedOrigin \/ OriginsSeeded \/ DriveStarted \/ AllStarted \/ Unsent \/ Receive \/ Complete

UserCode(a) == Compute(a) \/ (\E to \in Actor : Send(a, to)) \/ Returns(a)

----------------------------------------------------------------------------
(* Properties *)

\* What the log says an actor did, in the words of `did`.
Script(a) ==
    LET events == InOrder({i \in Nodes : log[i].actor = a}, Seqs)
    IN  [k \in DOMAIN events |->
            LET ev == log[events[k]]
            IN  CASE ev.op = "recv"    -> <<"recv", None>>
                  [] ev.op = "compute" -> <<"compute", None>>
                  [] ev.op = "emit"    -> <<"send", ev.dst>>]

\* The rebuilt system is the one that was recorded, and asked the same.
SameSystem ==
    /\ Len(origins) >= Len(EmitsOf(World))
    /\ {log[i].actor : i \in Nodes} \subseteq rebuilt \cup {World}

\* It did the same, to the end of the log and no further.
SameRun == SameSystem /\ \A a \in Actor : did[a] = Script(a)

\* It did the same to the end of the log.  Handlers know nothing of the place
\* where a log was cut: those of the recorded program go on beyond it.
SameProgram ==
    /\ SameSystem
    /\ \A a \in Actor : \A k \in DOMAIN Script(a) : k <= Len(did[a]) /\ did[a][k] = Script(a)[k]

\* What verify and next_msg_id find in that which actors do beyond the log.
PastTheLog ==
    UNION {{Divergence(<<a, s>>, "unrecorded") : s \in 1..seq[a] \ DOMAIN Script(a)} \cup
           {Divergence(<<a, -j>>, "more sends") : j \in 1..sendCount[a] \ DOMAIN EmitsOf(a)}
           : a \in Actor}

\* "Empty divergences == faithful replay": a replay that reports nothing has
\* done, actor by actor, what the log records.  The log may be cut or damaged,
\* but the id text of an event is taken to be that of its actor and seq.
FaithfulIsSame == phase = "done" /\ divergences = {} => SameRun

\* Nor has it left messages over or handled one that is not in the log: what
\* is still pending are the recorded sends without a recorded receipt.
NoGhosts ==
    LET Ids(op) == {log[i].msg_id : i \in {j \in Nodes : log[j].op = op}}
    IN  phase = "done" /\ divergences = {} =>
          {env.msg_id : env \in pending} = Ids("emit") \ Ids("recv")
=============================================================================
