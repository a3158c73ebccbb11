------------------------------ MODULE Programs ------------------------------
(***************************************************************************)
(* The example programs (fanout.rs, emit_fanout_viz.rs, emit_race_viz.rs,  *)
(* risk_desk.rs), recorded and then replayed with the same handlers.  All  *)
(* have one shape: an entry actor splits the work between two rivals, who  *)
(* report to one join; the desk's join, the book, reports to a risk actor. *)
(*                                                                         *)
(* A handler is a sequence of calls of its Context and a next actor state. *)
(* The desk has one symbol; prices are two numbers, scaled by ten in the   *)
(* EWMA, such that the risk actor logs a breach or not, and so the log has *)
(* another shape, depending on which quote comes first.                    *)
(***************************************************************************)
EXTENDS RecordReplay

CONSTANTS
    Entry, Left, Right, Meet, Beyond,   \* the roles: entry, rivals, join, and the desk's risk
    Program,                            \* which of the examples are run
    Ticks,                              \* the desk's market ticks
    Milestones                          \* of the desk's slow pricer, four in the source

ASSUME RoleAssumption ==
    /\ Actor = {Entry, Left, Right, Meet, Beyond}
    /\ None \notin Actor \cup Program
    /\ LET role == <<Entry, Left, Right, Meet, Beyond>>
       IN  \A r, s \in 1..5 : role[r] = role[s] => r = s
    /\ Program \subseteq {"fanout", "race", "desk"}
    /\ Ticks \in Nat /\ Milestones \in Nat

\* The examples keep the default started(), take every Addr from spawn, which
\* gives it its type, and send one origin.
ASSUME ExampleAssumption == Starters = {} /\ Mistyped = {} /\ MaxOrigins = 1

VARIABLES
    prog,                     \* the example that is run
    st, script, body,         \* recording: actor states, calls a handler has still to make,
                              \* and the payload of each message
    rst, rscript, rbody       \* the same in the replay, where one handler runs at a time

recordedVars == <<st, script, body>>
redoneVars   == <<rst, rscript, rbody>>
programVars  == <<runVars, prog, recordedVars, redoneVars>>

----------------------------------------------------------------------------
(* The handlers *)

ComputeCall == [call |-> "compute", to |-> None, body |-> None]
SendTo(to, m) == [call |-> "send", to |-> to, body |-> m]

Does(calls, s) == [calls |-> calls, st |-> s]

Steps(n) == [k \in 1..n |-> ComputeCall]

\* fanout.rs
Source(n) == <<SendTo(Left, n), SendTo(Right, n + 100)>>
Worker(n) == Steps(1) \o <<SendTo(Meet, n * 2)>>
Sink      == Steps(1)

\* emit_race_viz.rs
Importer(n) == <<SendTo(Left, n), SendTo(Right, n)>>
ComputeFast(n) == Steps(1) \o <<SendTo(Meet, n)>>
ComputeSlow(n) == Steps(4) \o <<SendTo(Meet, n)>>
Exporter       == Steps(1)

\* risk_desk.rs
Feed == [k \in 1..(2 * Ticks) |-> SendTo(IF k % 2 = 1 THEN Left ELSE Right, (k - 1) \div 2)]

Price(kind) == IF kind = "fast" THEN 1000 ELSE 2000
Limit == 1500
Quote(tick, kind) == [tick |-> tick, kind |-> kind, price |-> Price(kind)]
FastPricer(tick) == Steps(1) \o <<SendTo(Meet, Quote(tick, "fast"))>>
SlowPricer(tick) == Steps(Milestones) \o <<SendTo(Meet, Quote(tick, "slow"))>>

BookCell == [ewma |-> 0, folds |-> 0, last_tick |-> 0, fast |-> FALSE]
Fold(cell, q) ==
    LET newest == q.tick >= cell.last_tick
    IN  [ewma      |-> IF cell.folds = 0 THEN q.price
                       ELSE (3 * q.price + 7 * cell.ewma) \div 10,
         folds     |-> cell.folds + 1,
         last_tick |-> IF newest THEN q.tick ELSE cell.last_tick,
         fast      |-> IF newest THEN q.kind = "fast" ELSE cell.fast]
Book(cell, q) ==
    Does(Steps(1) \o <<SendTo(Beyond, Fold(cell, q).ewma)>>, Fold(cell, q))

Portfolio == [rv |-> 0, last_ewma |-> 0, seen |-> 0, breaches |-> 0]
Risk(p, ewma) ==
    LET breach == IF ewma > Limit THEN 1 ELSE 0
        move   == IF p.seen > 0 THEN ewma - p.last_ewma ELSE 0
    IN  Does(Steps(breach), [rv |-> p.rv + move * move, last_ewma |-> ewma,
                             seen |-> p.seen + 1, breaches |-> p.breaches + breach])

\* Only the desk's book and risk keep a state.
Fresh(p) == [a \in Actor |-> CASE p = "desk" /\ a = Meet   -> BookCell
                              [] p = "desk" /\ a = Beyond -> Portfolio
                              [] OTHER -> None]

Handle(p, a, s, m) ==
    CASE p = "fanout" /\ a = Entry           -> Does(Source(m), s)
      [] p = "fanout" /\ a \in {Left, Right} -> Does(Worker(m), s)
      [] p = "fanout" /\ a = Meet            -> Does(Sink, s)
      [] p = "race" /\ a = Entry             -> Does(Importer(m), s)
      [] p = "race" /\ a = Left              -> Does(ComputeFast(m), s)
      [] p = "race" /\ a = Right             -> Does(ComputeSlow(m), s)
      [] p = "race" /\ a = Meet              -> Does(Exporter, s)
      [] p = "desk" /\ a = Entry             -> Does(Feed, s)
      [] p = "desk" /\ a = Left              -> Does(FastPricer(m), s)
      [] p = "desk" /\ a = Right             -> Does(SlowPricer(m), s)
      [] p = "desk" /\ a = Meet              -> Book(s, m)
      [] p = "desk" /\ a = Beyond            -> Risk(s, m)

----------------------------------------------------------------------------
(* The recording: main spawns the topology, sends one origin, and runs the *)
(* system.  Interleavings that no handler and no log can tell apart are    *)
(* left out here, other runs have them: the tasks run while the main task  *)
(* waits, and a step that only counts, settles or polls goes first.        *)

Topology(p) == IF p = "desk" THEN Actor ELSE Actor \ {Beyond}

\* An actor that is not spawned is never polled, and nobody sends to it.
Spawn(p) ==
    /\ prog = None
    /\ prog' = p
    /\ st' = Fresh(p)
    /\ rst' = Fresh(p)
    /\ UNCHANGED <<runVars, script, body, rscript, rbody>>

Origin == ExternalStamp(Entry) /\ body' = Append(body, 1) /\ UNCHANGED <<st, script>>

MainSteps ==
    \/ Origin
    \/ /\ \/ ExternalRecord \/ ExternalCount \/ ExternalDeliver
          \/ origins = 1 /\ RunUntilQuiescent
          \/ Check \/ Await
       /\ UNCHANGED recordedVars

Handles(a) ==
    /\ Recv(a)
    /\ LET r == Handle(prog, a, st[a], body[Head(mailbox[a]).msg_id])
       IN  /\ st' = [st EXCEPT ![a] = r.st]
           /\ script' = [script EXCEPT ![a] = r.calls]
    /\ UNCHANGED body

Calls(a) ==
    /\ script[a] # <<>>
    /\ LET c == Head(script[a])
       IN  \/ c.call = "compute" /\ Compute(a) /\ UNCHANGED body
           \/ c.call = "send" /\ SendStamp(a, c.to) /\ body' = Append(body, c.body)
    /\ script' = [script EXCEPT ![a] = Tail(@)]
    /\ UNCHANGED st

Silent(a) ==
    \/ pc[a] \in {"count", "notifyDone"}
    \/ pc[a] = "unpolled" /\ mailbox[a] # <<>>
    \/ pc[a] = "user" /\ script[a] = <<>>

TaskSteps(a) ==
    \/ Handles(a) \/ Calls(a)
    \/ /\ \/ mailbox[a] # <<>> /\ Start(a)
          \/ SendRecord(a) \/ SendCount(a) \/ SendDeliver(a)
          \/ script[a] = <<>> /\ Settle(a)
          \/ NotifyDone(a)
       /\ UNCHANGED recordedVars

RecordProgram ==
    /\ phase = "recording" /\ prog # None
    /\ \/ MainSteps
       \/ /\ mpc = "parked"
          /\ \E a \in Topology(prog) :
               TaskSteps(a) /\ (Silent(a) \/ \A b \in Actor : ~Silent(b))
    /\ UNCHANGED <<intact, replayVars, prog, redoneVars>>

\* The example reads its log when run_until_quiescent has returned.  Once the
\* main task has left its loop no handler runs, so the log is complete: the
\* shutdown is left out here.
ReadBack ==
    /\ phase = "recording"
    /\ mpc = "shutdown"
    /\ log' = recorded
    /\ phase' = "build"
    /\ Exited
    /\ script' = [a \in Actor |-> <<>>] /\ body' = <<>>
    /\ UNCHANGED <<intact, kahnVars, systemVars, prog, st, redoneVars>>

----------------------------------------------------------------------------
(* The replay, by the same handlers *)

Put(f, k, v) == [x \in DOMAIN f \cup {k} |-> IF x = k THEN v ELSE f[x]]

Rebuild == Replay!SetUp(Topology(prog), <<[to |-> Entry, typed |-> TRUE]>>) /\ UNCHANGED redoneVars

Reseed ==
    /\ Replay!SeedOrigin
    /\ rbody' = Put(rbody, log[Replay!EmitsOf(World)[next]].msg_id, 1)
    /\ UNCHANGED <<rst, rscript>>

Rehandles ==
    /\ Replay!Receive
    /\ LET a == driving'
           r == Handle(prog, a, rst[a], rbody[Replay!Receipt.msg_id])
       IN  IF a = None THEN UNCHANGED <<rst, rscript>>
           ELSE rst' = [rst EXCEPT ![a] = r.st] /\ rscript' = r.calls
    /\ UNCHANGED rbody

Recalls(a) ==
    /\ rscript # <<>>
    /\ LET c == Head(rscript)
       IN  \/ c.call = "compute" /\ Replay!Compute(a) /\ UNCHANGED rbody
           \/ /\ c.call = "send"
              /\ Replay!Send(a, c.to)
              /\ rbody' = Put(rbody, Replay!RecordedId(a, sendCount'[a]), c.body)
    /\ rscript' = Tail(rscript)
    /\ UNCHANGED rst

Redo ==
    /\ \/ Rebuild \/ Reseed \/ Rehandles \/ \E a \in Actor : Recalls(a)
       \/ /\ \/ ReplayLogStep /\ UNCHANGED systemVars
             \/ Replay!OriginsSeeded \/ Replay!DriveStarted \/ Replay!AllStarted
             \/ Replay!Unsent \/ Replay!Complete
             \/ rscript = <<>> /\ \E a \in Actor : Replay!Returns(a)
          /\ UNCHANGED redoneVars
    /\ UNCHANGED <<vars, intact, prog, recordedVars>>

ProgramInit ==
    /\ RunInit
    /\ prog = None
    /\ st = [a \in Actor |-> None] /\ script = [a \in Actor |-> <<>>] /\ body = <<>>
    /\ rst = [a \in Actor |-> None] /\ rscript = <<>> /\ rbody = <<>>

ProgramNext ==
    \/ \E p \in Program : Spawn(p)
    \/ RecordProgram \/ ReadBack \/ Redo
    \/ Over /\ UNCHANGED <<prog, recordedVars, redoneVars>>

ProgramSpec == ProgramInit /\ [][ProgramNext]_programVars

----------------------------------------------------------------------------
(* The examples' readback *)

\* Mutant: a name missing from one of the clocks is not compared.
DeskLeqCommon(u, v) == \A n \in Node : u[n] > 0 /\ v[n] > 0 => u[n] <= v[n]

\* leq on the wire maps: every entry there is in u; a missing one in v is 0.
DeskLeq(u, v) == \A n \in Node : u[n] > 0 => u[n] <= v[n]

DeskConcurrent(e, f) == ~DeskLeq(e.vclock, f.vclock) /\ ~DeskLeq(f.vclock, e.vclock)

\* What a rival sent to the join, and what the join received, in an order.
Quotes(a) == {i \in DOMAIN log : log[i].op = "emit" /\ log[i].actor = a /\ log[i].dst = Meet}

Arrivals(t) == {k \in DOMAIN t : t[k].actor = Meet /\ t[k].op = "recv"}

FastFirst(t) ==
    \E k, l \in Arrivals(t) :
      /\ k < l /\ \A m \in Arrivals(t) : m < l => m = k
      /\ t[k].src = Left /\ t[l].src = Right

----------------------------------------------------------------------------
(* Properties *)

\* "The original run is non-reproducible, but any captured log replays
\* deterministically": although the payloads are not in the log, the replay
\* of a log with the handlers that wrote it reports no divergence and leaves
\* every actor in the state it had, whatever order the race was decided in.
ReplayReproducesState ==
    phase \in Replay!Ended => phase = "done" /\ divergences = {} /\ rst = st

\* The log shows the race and its outcome: what the rivals send to the join is
\* spacelike, by the desk's comparison of clocks and by replay's poset alike,
\* and the timeline keeps which came first.
RaceIsVisible ==
    phase = "timeline" =>
      /\ \A i \in Quotes(Left), j \in Quotes(Right) :
           /\ DeskConcurrent(log[i], log[j])
           /\ (IF i < j THEN <<i, j>> ELSE <<j, i>>) \in ConcurrentPairs(log)
      /\ FastFirst(Timeline) <=> FastFirst(log)
=============================================================================
