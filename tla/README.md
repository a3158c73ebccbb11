# A verification project for lichtung

lichtung is an actor library that records, for every run, a causal log: each
actor stamps its events with a vector clock, and a recorded log can be replayed
through one linear extension of its happens-before order. This directory holds
TLA+ modules that model its core, TLC configurations that check them on small
instances, and theorems about them that TLAPS proves for every value of the
constants. Paths below are relative to `src/crates/`.

## The system

| Component | Code | State it keeps | Operations |
|---|---|---|---|
| Clocks | `lichtung-clock/src/lib.rs` | a Lamport number; a map actor → counter | tick, update; set, increment, merge, compare |
| Event records | `lichtung-log/src/lib.rs`, `lichtung-core/src/event.rs` | none | build emit / recv / compute events; read and write JSON lines |
| Actor API | `lichtung-core/src/{context,addr,actor,envelope,dispatch,mailbox}.rs` | borrows an actor's clock, lamport, seq | `Context::send`, `Context::compute` |
| Actor tasks, mailboxes | `lichtung-prod/src/{system,dispatch,mailbox}.rs` | per task: clock, lamport, seq; per actor: an unbounded FIFO mailbox | started, receive-stamp-handle loop, deliver |
| Shared runtime | `lichtung-prod/src/shared.rs` | message id counter, in-flight counter, `Notify`, sender of the event channel | next id, record, inc, dec |
| System | `lichtung-prod/src/system.rs` | join handles, the writer's handle | spawn, `send_external`, `run_until_quiescent` |
| Log writer | `lichtung-prod/src/logwriter.rs` | receiver of the event channel, `BufWriter`, count | receive, drain, flush |
| Poset | `lichtung-replay/src/poset.rs` | none (built from a log) | build, validate |
| Linearization | `lichtung-replay/src/extension.rs` | in-degrees, ready heap, order | Kahn's algorithm |
| Readback | `lichtung-replay/src/engine.rs` | none | concurrent pairs, timeline |
| Re-execution | `lichtung-replay/src/reexec.rs` | pending envelopes, send counters, per-actor clocks, divergences | match origins, run started(), drive handlers along the timeline, verify |
| Example programs | `lichtung-replay/examples/*.rs` | the handlers' own state (book, portfolio) | record a run, replay it, compare the states, show the concurrent pairs |

**How they interact.** Every actor is a tokio task; all of them, the main task
and the log writer run in parallel. An actor that sends bumps its own clock,
draws a message id from a shared atomic, records the emit on the event channel,
adds one to the in-flight counter and pushes the envelope into the receiver's
mailbox. The receiver merges the clock, records the receipt, runs the handler,
and only then takes one off the counter; whoever takes it to zero calls
`notify_one`. The main task injects origins under the synthetic actor `world`,
then waits for the counter to be zero, aborts and joins all tasks, closes the
event channel and awaits the writer. Replay reads the log back, rebuilds the
happens-before poset from program order and message ids, checks it against the
clocks, linearizes it, and re-runs the handlers along it.

**What is hard.** The counter, the notification and the mailboxes are touched
by parallel tasks with no lock around them. A notification is given and awaited
in two steps each. Tasks may panic, be aborted, or find a mailbox closed. The
log writer may stop. The log is written in whatever order the tasks reach the
channel, and its clocks have to be exact all the same. Replay may be given a log
that is cut short, out of order or damaged, and a program that is not the one
recorded; it has to tell a faithful replay from every other one although the
log holds no payloads and the origins are matched by position alone.

**What makes each component correct.**

- *Clocks*: the code's order is the product order; merge is the least upper
  bound; equal clocks have equal wire forms.
- *Runtime*: the counter never undercounts; the main task is always woken; the
  system goes down only when nothing is in flight; every message is accounted
  for once.
- *Log*: every prefix is causally closed; the clocks embed happens-before
  exactly; every log a run writes is accepted by replay.
- *Writer*: the file is a prefix of the accepted events, complete when the
  writer says so.
- *Linearization*: the schedule respects every edge, never stalls on a log whose
  clocks were validated, and does not depend on the order of the input.
- *Re-execution*: replaying an intact log with the same program reports what its
  handlers do beyond the end of the log and nothing else, so nothing if the log
  is whole; and a replay that reports nothing did what the log records. The list
  of divergences holds no false alarm, and an empty one is no false all-clear.
- *Examples*: a captured race replays to the same state, and the log shows it.

## The modules

| Module | What it is | Code it stands for |
|---|---|---|
| `CausalClock` | operators on Lamport stamps and vector clocks, as maps and as total stamps | `lichtung-clock`, `hb_strict`, `vclock_from` |
| `ClockCell`, `MCClockCell` | one clock driven by its public operations beside a clock off the wire | `VectorClock`'s methods |
| `CausalEvent` | the event records | `event.rs`, `CausalEvent` |
| `Poset` | the poset of a log: rejections, edges, validation, reachability | `poset.rs`, `concurrent_pairs` |
| `ActorRuntime` | the production runtime: one action per shared access | `system.rs`, `dispatch.rs`, `shared.rs`, `context.rs` |
| `Quiescence` | abstract: a detector of "no work left" | what `run_until_quiescent` promises |
| `RuntimeProperties` | the properties of `ActorRuntime` and the refinement | |
| `MCRuntime` | instances for TLC | |
| `RuntimeProofs` | theorems and proofs: types, accounting, wake-ups, shutdown, clocks, the exact counter, the steps of `Quiescence` | |
| `LogProofs` | theorems and proofs: the recorded log, its poset and its clocks; the order and the end of a message, a send, a run | |
| `ClockProofs` | theorems and proofs about `ClockCell` | |
| `LogWriter`, `MCLogWriter` | the writer task, its buffer, the file, reading it back | `logwriter.rs`, `read_events` |
| `DurableLog` | abstract: an append-only store | what the writer promises |
| `LogWriterProofs` | theorems and proofs: the writer, the file, the steps of `DurableLog` | |
| `System`, `MCSystem` | `ActorRuntime` and `LogWriter` as one run | `System::new` to the result of `run_until_quiescent` |
| `SystemProofs` | theorems and proofs: a run of both, what its result means, what its file is good for | |
| `ReplayLog` | from a log to its timeline: build, validate, Kahn's algorithm | `replay_log`, `extension.rs` |
| `ReplayLogProofs` | theorems and proofs about `ReplayLog` | |
| `Reexec` | `ReplaySystem::replay`, with user code left open | `reexec.rs` |
| `RecordReplay`, `MCRecordReplay` | `ActorRuntime`, a log on its way, and `Reexec` with any topology, origins and handlers | a recording and its replay |
| `RecordReplayProofs` | theorems and proofs: recording and replay together | |
| `Programs`, `MCPrograms` | the example programs: the same handlers recorded and replayed | `fanout.rs`, `emit_fanout_viz.rs`, `emit_race_viz.rs`, `risk_desk.rs` |
| `ProgramProofs` | theorems and proofs about the examples: the state a replay reproduces, the race its log shows | |

### ActorRuntime and the code

`pc[a]` is the place of actor a's task in `actor_loop` and `Context::send`;
`mpc` that of the main task in `send_external` and `run_until_quiescent`. A
step is a stretch of code with at most one access to state that another task
can see:

| Code | Actions |
|---|---|
| `actor_loop` up to `started()` | `Start`, `StartedReturns` |
| `rx.recv().await` with nothing to do | `Park` |
| a received envelope: merge, increment, `recv_event`, downcast | `Recv` |
| `handle()` returns, or the downcast failed: `dec_in_flight` | `Settle`, then `NotifyDone` if the count reached zero |
| `Context::compute` | `Compute` |
| `Context::send` | `SendStamp`, `SendRecord`, `SendCount`, `SendDeliver`, and `SendUndo`, `NotifyUndo` for a closed mailbox |
| a panic in user code; an aborted task is dropped | `Panic`, `Cancel` |
| `send_external` | `ExternalStamp`, `ExternalRecord`, `ExternalCount`, `ExternalDeliver` |
| `run_until_quiescent` | `RunUntilQuiescent`, `Check`, `Await`, `Abort`, `Close` |
| the writer stops on an I/O error | `WriterFails` |

What a handler computes is open: inside user code a task may log compute events
and send to any actor, in any order, up to the bounds. `Starters` are the actors
whose `started()` does so too; everybody else has the default, empty
`started()`. tokio's part is modelled from how the code uses it: `Notify` keeps
one permit; an abort takes effect only where a task is suspended; a task
suspends when its mailbox is empty or its poll budget is used up (`Park` is
always possible); dropping a task drops its mailbox.

Taking an envelope off the mailbox and recording its receipt are one step,
since the first commutes with everything other tasks do. Bumping the clock and
drawing a message id are one step for the same reason: the clock is private.

### LogWriter and the code

| Code | Actions |
|---|---|
| `record` while the writer lives; the last sender is dropped | `Produce`, `Close` |
| `while let Some(ev) = rx.recv().await` | `Recv`, `Finish` |
| `write_one`: text, then newline | `WriteChunk`, three times |
| `BufWriter` emptying itself before a write that does not fit | `Spill`, `WriteOut`, `Flushed` |
| `while let Ok(ev) = rx.try_recv()` | `Drain`, `Drained` |
| `bw.flush()?`, in the loop and after it; `Ok(written)` | `WriteOut`, `Flushed` |
| `?` on an I/O error, then the drop of receiver and buffer | `Fail` |
| the process dies | `Crash` |

The text of an event is two chunks, so that a line can be torn inside it, and
the newline a third. The size of the buffer is not a constant: any chunk may
find it full. A write takes any non-empty part of what it is given, as
`Write::write` may. `BufWriter`'s drop writes the buffer once more, so after an
error any part of it can still reach the file.

### System

`System` runs the two side by side. A step of the runtime that records is also
the writer's `Produce`; the `Close` that drops the last `Arc<SharedRuntime>` is
the writer's `Close`; the writer's `Fail` is the runtime's `WriterFails`;
`Return` is `writer.await`; `Die` stops everything. `LogWriter`'s `accepted` is
the length of `recorded`, and its `open` is `mpc # "closed"`.

### ReplayLog and the code

| Code | Actions |
|---|---|
| `Poset::build`, with its three errors in the order of its checks | `Build` |
| `Poset::validate` | `Validate` |
| the tables of `linearize`: in-degrees, heap | `Linearize` |
| one round of `while let Some(..) = heap.pop()` | `Pop` |
| the length check after the loop, `CycleDetected` | `Drained` |

`edges` keeps the two kinds apart, because `Poset::edges` is a `Vec`: an actor
that receives next what it just sent to itself has a program edge and a message
edge between the same two events, and both count in the in-degree. `Rank` stands
for the order of actor names, which is all the heap's key uses of them. The
timeline is the log in the order of the schedule.

### Reexec and the code

| Code | Actions |
|---|---|
| `spawn`, `origin` | `SetUp` |
| the recorded world emits, zipped with the origins | `SeedOrigin`, `OriginsSeeded` |
| `on_started` of each actor, by name | `DriveStarted`, `AllStarted` |
| a receipt on the timeline: take the envelope, merge, verify, `drive` | `Receive`, `Unsent` |
| `Context::send` over `ReplayDispatch` | `Send` |
| `Context::compute` | `Compute` |
| a handler returns | `Returns` |
| the completeness check | `Complete` |

One thread does all of it, so each of these is one step. `divergences` is the
set of mismatches, by kind and event; the wording of the messages is left out.
An over-send gets the id `u64::MAX - j`, here the negative number `-j`, which no
recorded message has; two actors get the same one, and the second send takes the
place of the first in `pending`. The id text of an event, `"<actor>:<seq>"`,
stands for its actor and seq: an event whose id alone was damaged, so that the
two disagree, is not modelled. A payload of the wrong type panics in `drive`
(`panicked`): the runtime skips such a message, the replay does not.

### RecordReplay

The runtime records a run to its end; the process exits; what is left is the
log. It arrives whole, cut anywhere, or in reverse order (`Intact`), or with one
event lost, doubled, or with its message id, Lamport stamp or clock overwritten
(`Damaged`). Then any subset of the actors is rebuilt, any origins are supplied,
and the handlers do anything. `did` is a history variable: what user code did,
actor by actor, so that "the same run" can be said without looking at what the
replay computes. Names in `Reexec` that `ActorRuntime` also uses are given names
of their own through `INSTANCE ... WITH`.

### Programs

The examples have one shape: an entry actor gives work to two rivals, who report
to one join; the desk's book reports to a risk actor. A handler is a sequence of
calls and a next actor state, and the same operator `Handle` drives recording
and replay. `body` and `rbody` are the payloads, which the log does not hold:
the replay computes them again. The desk has one symbol, two prices and an EWMA
in tenths, chosen such that whether the risk actor logs a breach, and so the
shape of the log, depends on which quote came first.

`RoleAssumption` says that the five roles are five different actors, and
`ExampleAssumption` what all the examples have in common: nobody overrides
`started()`, every `Addr` comes from `spawn` and so has the right type, and main
sends one origin.

Three reductions keep this run small. The tasks run while the main task waits;
a step that only counts, settles or polls goes first (`Silent`); the shutdown
after the loop is left out. None changes what a handler sees or what is
recorded: counting and settling touch only the in-flight count, and a run in
which main and the tasks interleave freely records the same logs. The runs
`runtime_core` to `system` check the interleavings left out here. No example sends
from started(), so when the main task leaves its loop nothing is recorded any
more (`QuiescentShutdownHolds`).

## The runs

| Run | Configuration | Question and result |
|---|---|---|
| `clock_cell` | 3 actors, counters ≤ 2 | Do order, merge and wire form agree with total stamps, explicit zeros on the wire included? Yes. |
| `runtime_core` | 2 actors, 2 origins, 3 messages, mistyped payloads, fairness | Is the in-flight count exact, is the main task always woken, does the system go down only when quiet, has every message then been received? Does `run_until_quiescent` get there, and does the runtime implement `Quiescence`? Yes. |
| `replay` | 2 actors, one with a started(), 1 origin, 2 messages, a compute event each, any log damage, any rebuilt topology, two events beyond the log, one other divergence | Does replay accept and sort every log the runtime writes, whole, cut or reversed? Does the same program diverge only beyond the end of the log, and does a replay without divergences do the same run? Does the drain keep causes first and never report a cycle? Does an intact log panic only by misuse? Yes. |
| `examples` | 3 programs, 5 roles, 1 tick | Does the replay of a captured log, with the handlers that wrote it, report nothing and reach the same states? Does the log show the race and its outcome? Yes. |
| `runtime_relay` | 3 actors, 1 origin, 4 messages | Do the clocks order two events exactly when a chain of edges connects them, does replay accept every log, are pairs FIFO, does no clock run ahead? Yes. |
| `runtime_panic` | 2 panicking actors, mistyped payloads, 2 origins, 2 messages, a compute event each, one sends from started(), the log writer may stop | With closed mailboxes and dropped tasks: does the counter still never undercount, is an undeliverable send always undone, is every recorded prefix causally closed, is a closed system final? Yes. |
| `log_writer` | 5 events, spills and short writes anywhere, I/O errors, a crash anywhere, fairness | Is the file a prefix of the accepted events, torn in its last line at most, complete on Ok, and flushed whenever the writer waits? Does closing the channel end the writer, and does it implement `DurableLog`? Yes. |
| `system` | 2 actors, 1 origin, 2 messages, compute events, I/O errors, a crash anywhere | Does Ok mean the whole run is in the file; does replay accept whatever untorn file is left? Yes. |
| `started_race` | one actor sends from started(), no origin | "Drive to quiescence (no messages in flight)": violated. |
| `panic_hang` | one handler may panic | Is the absence of messages noticed? Violated: the count leaks. |
| `lost_origin` | one started() may panic | Is a refused origin taken off the counter? Violated. |
| `two_origins` | 2 origins | Does replay accept the log? Violated: (world, 1) twice. |

**Bounds.** `MaxMsgs` bounds the messages of a run, `MaxOrigins` the calls of
`send_external`, `MaxSeq` the compute events (an actor at that seq logs no
more), `MaxEvents` the events accepted by the writer (in `System` it is larger
than the other bounds allow), `MaxCount` the counters of `ClockCell`. They stop what the program could
do, never what the runtime does: every bound sits in the guard of a choice that
belongs to user code (`SendStamp`, `ExternalStamp`, `Compute`,
`IncrementLocal`, `Produce`). Two actors and two or three messages are enough for the
races: a count that reaches zero, rises and reaches zero again, a stored permit
that is stale, a handler that is sending while the other one finishes. Three
actors and four messages are the least at which two causal paths of different
length lead to one actor.

In `replay`, two bounds stop user code once divergences have been found.
`MaxBeyond = 2` lets handlers produce two events that the log does not have:
that is what the recorded program does when the log was cut inside a handler,
and the least at which two sends beyond the log, of two actors, overwrite each
other in `pending`. `MaxDrift = 1` is the bound on all others, apart from "more
sends", which never comes alone: the event of such a send is unrecorded or a
mismatch. One is enough: `FaithfulIsSame` and `NoGhosts` speak of replays that end without any,
`PanicIsMisuse` of what happens before the first, and
`OnlyTheCutDiverges` of the recorded program, which has none. Two messages and a cut, doubled or overwritten event reach
every error of `replay_log` except `Cycle`, every kind of divergence, and a
panic. In `examples`, `Ticks` is the number of market ticks (one tick is a full
race of the two pricers) and `Milestones` the slow pricer's progress events,
four in the source and one here; `MaxMsgs`, `MaxSeq`, `MaxBeyond` and `MaxDrift`
are larger than the programs need.

**Symmetry.** Actors are interchangeable where `Starters`, `PanicStart`,
`PanicHandle` and `Mistyped` are all of them or none: `runtime_relay`, `system`
and `two_origins` use it. Runs with temporal properties do not.

**Fairness.** `FairSpec` adds weak fairness of the main task and of every actor
task. tokio polls a task that was woken again after finitely many others, and a
poll ends because handlers are synchronous and assumed to return; a send never
blocks since all channels are unbounded. A task that panics needs no fairness,
nor does the failure of the writer. The writer task gets weak fairness for the
same reason, and because a write to the file returns. Events come to an end by
the bound, so a producer that never lets `try_recv` find the channel empty, and
so keeps the writer from flushing, is not covered.

**Deadlock** is checked where the system cannot stop. It is off in
`runtime_panic`, `panic_hang` and `lost_origin`, where a leaked count really
leaves the main task waiting for ever, and in `runtime_core`, whose `Terminates`
says more.

In `replay` and `examples` every state without a successor but the stated end
(`Over`) would be reported.

## The disagreements found

Four runs check what the repository says and the code does not do.

1. `started_race`: an actor is not counted before its first poll. A system
   whose work begins in `started()` can be aborted under its own messages.
2. `panic_hang`: the decrement is not run on unwinding, so a panic in a handler
   leaves `run_until_quiescent` waiting with nothing in flight.
3. `lost_origin`: `send_external` discards the error of a closed mailbox after
   counting, where `ProdDispatch::deliver` undoes the count.
4. `two_origins`: every origin is recorded as `(world, 1)`, and `Poset::build`
   rejects the second one, while `ReplaySystem` has an API for several.

## What is proved

`RuntimeProofs` proves, for every set of actors that is finite, every program
and every bound (the assumptions named in `ActorRuntime`):

- `TypeCorrect`: `Spec => []TypeOK`. The types alone (`Typing`) are not
  inductive: an action uses the envelope in `out` where `pc` says there is one,
  and a counter of type Nat can only be decremented by somebody who holds a
  token. `TypeInv` adds `Shape` (where a task is tells what it holds), and the
  counter is an integer until the accounting invariant shows it is a natural.
- `NeverUndercountsHolds`: `Spec => []NeverUndercounts`. `Outstanding` is a set
  of tokens: one for every queued envelope, one for every message being
  handled, one for every sender between counting and delivering. Each action
  keeps, adds, removes or moves at most one token, and the lemmas `TokensStay`,
  `TokenAdded`, `TokenRemoved`, `TokenMoved` turn that into facts about
  `Cardinality`. `Accounts` also carries that the set is finite.
- `NoLostWakeupHolds`: `Spec => []NoLostWakeup`. Needs `Accounts`: a task that
  is about to count (and raises the counter from zero) or to decrement must not
  be able to destroy the due notification.
- `QuiescentShutdownHolds`: if `Starters = {}`, the system goes down only when
  quiet. The strengthening `HandlersSend` says that whoever is in user code or
  inside a send is handling a message, so a zero counter means nobody can send.
  Without the hypothesis it is false: run `started_race`.
- `NoClockAheadHolds`: `Spec => []NoClockAhead`.

It then turns "never too small" into "exact":

- `ExactWhileAliveHolds`: `Spec => []ExactWhileAlive`. `Covered` bounds the
  counter from above by the tokens; the lemmas `CoveredKept`, `CoveredUp`,
  `CoveredDown`, `CoveredMoved` follow each step's tokens forwards, where those
  above follow them backwards. It holds while no task has been
  dropped; a panic drops messages that stay counted (run `panic_hang`).
- `RefinesQuiescence`: if `Starters`, `PanicStart` and `PanicHandle` are empty,
  the runtime starts in an initial state of `Quiescence`, and each step is one
  of `Quiescence`'s or a stutter. The invariant `RefInv` adds `Orderly` (a task
  is dropped or aborted only once the system is down) to the above, so that the
  counter is the cardinality in every state, and a step of the one is a step of
  the other. The fairness half of the refinement stays with the run
  `runtime_core`.

`LogProofs` proves what the runtime promises about its log:

- `CausallyClosedHolds`: `Spec => []CausallyClosed`, whatever panics, aborts
  and writer failures. The invariant `LogInv` says how far the log is behind the
  tasks: a task between its stamp and its record is one event ahead
  (`Reported`), and every envelope in a mailbox or past the record step has its
  emit in the log (`Linked`), until the writer stops; from then on the log does
  not change. `Ordered` and `Fresh` are what makes seq numbers and message ids
  unique.
- `ReplayAcceptsHolds`: if `MaxOrigins <= 1`, `Spec => []ReplayAccepts`. Program
  edges hold by `Ordered`, message edges by `CausallyClosed` and `Fresh`, and
  `Worldly` says that only one event has the coordinates `<<World, 1>>`. Without
  the hypothesis it is false: run `two_origins`.
- `ExactEmbeddingHolds`: if `MaxOrigins <= 1`, `Spec => []ExactEmbedding`: clocks
  order nothing but what the edges order. Three steps lead there. `DeriveInv`
  says that the log can be computed again from what it says itself: each event
  is one step (`Stepped`) from what its actor remembers (`Memory`) and, if it is
  a receipt, from the clock of an emit earlier in the log. `Reach`, the
  reachability `concurrent_pairs` computes, is the least transitive relation that
  contains the edges: `ReachTransitive` by a count of the intermediate events
  allowed, not by paths. And if the clock of an event counts another event that
  does not reach it, the earliest such event has a predecessor, by program or by
  message, that already counts it: a contradiction. With two origins the world's
  two events share their coordinates, so the hypothesis is that of
  `ReplayAcceptsHolds`.

Of how messages, sends and runs end, it proves:

- `PairwiseFifoHolds`: `Spec => []PairwiseFifo`. `Fifo` orders the ids of one
  sender across the three places its envelopes pass through: its hands, the
  receiver's mailbox, the receiver's events.
- `DeliveredWhenClosedHolds`: with `Quiet` (the three sets of `RefinesQuiescence`
  are empty) and a log writer that lasts (`~WriterCanFail`),
  `Spec => []DeliveredWhenClosed`. The invariant `NoneMissing` says where each
  announced message is: received, in its sender's hands, or waiting in its
  receiver's mailbox; and `RefInv`, that once the main task has left its loop
  the last two are empty, so that the aborts lose nothing.
- `ClosedIsFinalHolds`: `Spec => ClosedIsFinal`, without hypotheses: the channel
  is closed only once every task is gone (`Joined`).
- `SendersSettleUpHolds`: `Spec => SendersSettleUp`, without hypotheses. The same
  of `World` is false: run `lost_origin`.

`LogProofs` uses one more assumption on `None`, that it is no message id
(`NoIdAssumption`).

`ClockProofs` proves the properties of `VectorClock` for every set of actors and
every bound: `ClockTypeCorrect`, `WireFormIsCanonicalHolds`,
`OrderIsProductHolds`, `ReplayOrderAgreesHolds`, `MergeIsLeastUpperBoundHolds`.
The invariant is that the local clock stores no zero (`ClockInv`); the clock
read from the wire may store some, and the order is right all the same.

`ReplayLogProofs` proves three facts about `replay_log` alone, for every finite
log, whatever stamps and names it carries:

- `KahnInvHolds`: the invariant of the drain. An in-degree is the number of edges
  from events not yet scheduled (`Counted`), and the heap holds only unscheduled
  events of in-degree zero. Scheduling i takes from j exactly the edges
  `Between(i, j)`, a subset of `Causes(j)`, so the `usize` cannot underflow. The
  property alone is not inductive: that a popped event has no causes ahead is
  only known through the counts.
- `CausesFirstHolds`: `ReplayLogSpec => []CausesFirst`, from `KahnInv`.
- `NeverCyclesHolds`: `ReplayLogSpec => []NeverCycles`, if the clocks of the log
  hold natural numbers (`NaturalClocks`; `u64` on the wire). `HbIsOrder` shows the
  comparison of wire clocks is a strict order although missing entries count as zero; `EarliestExists` that a
  finite set of events has one that no other is before, because strict inclusion
  of the sets of events behind is well-founded; `Ready` says that every
  unscheduled event of in-degree zero is in the heap. So an empty heap leaves
  nothing unscheduled, and a schedule without repetitions is as long as the log.
  `Checked`, that the edges are those of a validated log, is what it rests on: the
  guard `CycleDetected` can only be reached by calling `linearize` without
  `validate`.

`LogWriterProofs` proves the writer's properties for every number of events:

- `WriterTypeCorrect`, `NothingLostHolds`, `FileIsPrefixHolds`, `OkIsCompleteHolds`,
  `IdleIsFlushedHolds`. The property `NothingLost` concatenates the four places
  a chunk can be in; the invariant says the same by position: each of file,
  buffer, rest of the line and queue is the slice of the accepted lines that
  begins where the one before ends (`Slices`). Every action moves one boundary.
  After an error or a crash only the file's slice is left, which still begins at
  the first chunk. `Lines` is a function of the position, not a recursion, so
  reading back is arithmetic: a file of 3n chunks, or of 3n + 2, whose last line
  lacks only its newline, is readable and gives n or n + 1 events.
- `RefinesDurableLog`: the writer starts in an initial state of `DurableLog`, and
  each step is one of its steps or a stutter. Its fairness stays with the run
  `log_writer`.

`SystemProofs` composes the two:

- `RunIsBoth`: a run of `System` satisfies the specification of `ActorRuntime`
  and that of `LogWriter` (by `INSTANCE` with `accepted` as the length of
  `recorded`), so every theorem about either holds of it.
- `OkIsTheWholeRunHolds`: if `Starters = {}`, a result Ok means that everything
  the run recorded is in the file and that nothing was in flight at its end.
  Without the hypothesis it is false for the reason `started_race` shows.
- `FileReplaysHolds`: if `MaxOrigins <= 1`, any untorn file, whatever error or
  crash left it, is accepted by replay: it is a prefix of the recorded events,
  and `ReplayAccepts` speaks of prefixes.

`RecordReplayProofs` follows a run from its first event to the end of the replay
of its log. `RecordInv` carries the invariants of `LogProofs` to the moment the
log is read. From there only the log counts, and `Sound` is what is left of
`DeriveInv` when the places of events are forgotten: cutting or reversing an
intact log keeps it, damaging it does not. No bound and no program is assumed.

- `ReplayTypesHold`: `RunSpec => []ReplayTypeOK`, for damaged logs too.
- `FaithfulIsSameHolds`, `NoGhostsHolds`: without hypotheses, for every log. The
  invariant `Unflagged` says that as long as nothing was reported every actor
  did what the log says so far (`Retraced`), and what is pending is what the
  produced events sent and did not receive (`Underway`). The difficulty is that
  `verify` compares one event at a time by its coordinates: that no event is
  skipped, and that nothing is produced twice, follows from counting.
- `PanicIsMisuseHolds`: if `Mistyped = {}`, from the same invariant: whatever is
  pending repeats the recorded emit with its id, or an origin (`Repeats`).
- `TimelineIsSortedHolds`: if `MaxOrigins <= 1`. Lamport stamps grow along every
  edge (`SoundEdge`), so a ready event that is smaller than all other ready ones
  is smaller than all that are not scheduled (`ReadyComesFirst`), and the order
  in which the drain pops is the order of the keys. With two origins the log is
  rejected (run `two_origins`).
- `OnlyTheCutDivergesHolds`: without hypotheses. The property speaks of the end
  of a replay: what the handlers did begins with what the log says. Handlers know
  nothing of the place where a log was cut, so those of the recorded program go
  on beyond it: `verify` then reports an event without a recorded counterpart,
  and `next_msg_id` a send too many. The property says that the divergences are
  exactly these (`PastTheLog`); if the log is whole there are none. Going back
  from the end, a replay has not been the recorded program as soon as an actor
  deviated from the log or stopped short of an event that is not a receipt
  (`Astray`), and this never heals (`AstrayStays`). Until then every actor that
  has not gone beyond its log has the clocks, counters and sends of the log after
  as many steps, and what was reported is what actors did beyond it (`Restamped`);
  every message sent again waits until it is received again, with its recorded id
  and stamps (`Resending`), among others with sentinel ids that nobody receives;
  and the receipts come in the order of the timeline (`InStep`). A step within
  the log reports nothing (`ComputeMatches`, `SendMatches`), one beyond it
  reports itself and touches nothing recorded (`BeyondMatches`).
  `InTurn` shows that the timeline asks of an actor the receipt that is next in
  its own order, `NothingIsUnsent` that the message is there, and
  `EverythingIsRepeated` that nothing is missing at the end. All three need that
  an actor stops only at a receipt and that the timeline keeps causes first.

`ProgramProofs` proves the two properties of the examples, for any number of
market ticks and of the slow pricer's milestones. Every step of an example but
the reading of its log is a step of `RecordReplay` (`ProgramStep`), so the
invariants above hold of it (`RunInv`); no theorem about `RunSpec` is repeated.

- `ReplayReproducesStateHolds`: `ProgramSpec => []ReplayReproducesState`. It goes
  beyond `OnlyTheCutDivergesHolds`, whose hypothesis is that the handlers did the
  same: here they do, because they are given the same payloads, although the log
  holds none. To every event of the log belongs what its actor held after it, its
  state and the calls it had still to make, and that follows from what it held
  before: a call is the head of what was left, a receipt is what `Handle` makes of
  the state and of the payload that the msg_id tells, and an emit tells the
  payload of its own (`Justified`, `Explained`). While the run is recorded, `Told`
  extends that explanation event by event and ties it to the actors' current
  states and scripts. When the log is read only `Explained` is left, and
  `Rejoined` says of the replay that every actor holds what the explanation says
  after as many events; `Known`, that pending messages have the payloads they had.
  So the next call of an actor is its next event in the log and it never goes
  beyond it, which keeps `Broken` false (`KeepsUnbroken`), hence `Matches` of the
  proof before this one true: the replay reports nothing (`FollowedIsClean`), `NotMisused` rules out a panic, and at its end every
  event is repeated, so every actor is in its last state (`BackAgain`).
- `RaceIsVisibleHolds`: `ProgramSpec => []RaceIsVisible`. Knowledge flows along the
  sends only, and nobody who sends to a rival ever hears of the other: `Apart`
  says of every clock, envelope and event which rival's events it cannot count
  (`Unaware`). A rival's own events count themselves (`Ordered`), so two of them
  have incomparable clocks, which is all that the desk's comparison looks at; and
  `ReachedIsLess` of `LogProofs` excludes a chain of edges. For the outcome, the
  join's receipts stand in the order of their numbers in the log as recorded, and
  on the timeline because it keeps causes first (`EarlierIsPlacedEarlier`) and
  leaves nothing out; whoever came first by number came first in both.

Only model-checked: liveness (`Terminates`, `WriterEnds`), and the fairness that
the refinements of `Quiescence` and `DurableLog` also state, which need ENABLED
and so are beyond the prover; `RefinesQuiescence` and `RefinesDurableLog` prove
those refinements step by step. Every invariant and every action property that
a passing run checks is stated by a theorem.

## What is not modelled

- The 64-bit width of clocks, seq, message ids and of the counter: 2^64 events
  are out of reach of a run. That the counter does not go below zero is checked
  and proved.
- Memory orderings weaker than sequential consistency. The message id is
  `Relaxed`, but only its uniqueness is used; the counter is `AcqRel`.
- The contents of messages, `value`, `payload_hash`, and the visual artifacts.
- Two actors of one name, or one named `world`: `spawn` accepts them, the model
  assumes names are distinct.
- Payloads are not in the log, so a replay whose handlers send other payloads and
  make the same calls reports nothing; neither does a re-supplied origin with
  another payload. The model says so by leaving the payload out of `Mismatch`.
- In the examples: the JSON they print, the pricing formulas, the loading of
  market data, and `emit_race_viz`'s retry until the fast side wins. Prices are
  two numbers.
- Benches and the tests' own code.

Three more places where a comment and the code differ, without a run of their
own: `reexec.rs:204` says that the completeness check flags an over-send, while
the divergence is reported by `next_msg_id` itself and the left-over message is
never looked at; a message of the wrong type is skipped by the runtime and
panics in the replay; the header of `risk_desk.rs` names other defaults (ticks,
steps, a seeded random walk) than its code.

## Plan

The order in which the modules were written, most important first.

1. `CausalClock`, `ClockCell`.
2. `ActorRuntime`, `RuntimeProperties`, `Quiescence`.
3. `Poset` on recorded logs.
4. `RuntimeProofs`: types, accounting, wake-ups, shutdown, clocks.
5. `LogWriter`, `DurableLog`, `System`.
6. `ReplayLog`: linearization as a state machine; `ReplayLogProofs`.
7. `Reexec` and `RecordReplay`: any log, any program.
8. `Programs`: the examples, recorded and replayed by the same handlers.
9. `ClockProofs`, `LogProofs`, the refinement of `Quiescence`.
10. `LogWriterProofs`, `SystemProofs`.
11. `RecordReplayProofs`.
12. `ProgramProofs`: the examples' states and their race, for every number of
    ticks and milestones.
