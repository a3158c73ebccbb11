---------------------------- MODULE SystemProofs ----------------------------
(***************************************************************************)
(* Machine-checked: a whole run is at once a run of the actor runtime and  *)
(* a run of the log writer, so what was proved of either holds of it; and  *)
(* together they give what the caller of run_until_quiescent gets.         *)
(***************************************************************************)
EXTENDS System, LogProofs

\* The writer of this system, with what was proved of it.
W == INSTANCE LogWriterProofs WITH
    accepted <- Len(recorded),
    open     <- mpc # "closed",
    CanFail  <- WriterCanFail

USE DEF taskVars, sharedVars, mainVars, logVars, Goto, MainGoto

----------------------------------------------------------------------------
(* A run of the runtime *)

LEMMA RuntimeRun ==
    ASSUME [SystemNext]_systemVars
    PROVE  [Next]_vars
<1>1. CASE RuntimeStep
  BY <1>1 DEF RuntimeStep, Next
<1>2. CASE WriterDrops
  BY <1>2 DEF WriterDrops, Next
<1>3. CASE WriterStep \/ Return \/ Die \/ Stopped \/ UNCHANGED systemVars
  BY <1>3 DEF WriterStep, Return, Die, Stopped, systemVars
<1> QED BY <1>1, <1>2, <1>3 DEF SystemNext

----------------------------------------------------------------------------
(* A run of the writer *)

\* The event channel is never opened again.
LEMMA StaysClosed ==
    ASSUME mpc = "closed", Main \/ \E a \in Actor : Task(a) \/ Panic(a)
    PROVE  mpc' = "closed"
<1>1. ASSUME Main PROVE FALSE
  BY <1>1 DEF Main, ExternalStamp, ExternalRecord, ExternalCount, ExternalDeliver,
              RunUntilQuiescent, Check, Await, Abort, Close
<1>2. ASSUME NEW a \in Actor, Task(a) \/ Panic(a)
      PROVE  mpc' = "closed"
  BY <1>2 DEF Task, Panic, Start, StartedReturns, Park, Recv, Settle, NotifyDone, NotifyOne,
              Compute, SendStamp, SendRecord, SendCount, SendDeliver, SendUndo, NotifyUndo, Cancel
<1> QED BY <1>1, <1>2

LEMMA WriterNext ==
    ASSUME [SystemNext]_systemVars
    PROVE  [W!Next]_(W!vars)
<1> USE DEF writerVars, Writer!channelVars, W!channelVars, W!vars
<1>1. ASSUME UNCHANGED <<recorded, mpc, writerVars>>
      PROVE  UNCHANGED W!vars
  BY <1>1
<1>2. CASE RuntimeStep
  <2>1. CASE recorded' # recorded /\ Writer!Produce
    BY <2>1 DEF Writer!Produce, Writer!Running, Writer!Flushing, W!Next, W!Produce, W!Running, W!Flushing
  <2>2. CASE mpc # "closed" /\ mpc' = "closed" /\ Writer!Close
    BY <2>2 DEF Writer!Close, W!Next, W!Close
  <2>3. CASE recorded' = recorded /\ (mpc' = "closed" => mpc = "closed") /\ UNCHANGED writerVars
    <3>1. (mpc # "closed")' = (mpc # "closed")
      BY <1>2, <2>3, StaysClosed DEF RuntimeStep
    <3> QED BY <2>3, <3>1
  <2> QED BY <1>2, <2>1, <2>2, <2>3 DEF RuntimeStep
<1>3. CASE WriterStep
  <2>1. Writer!Writer
    BY <1>3 DEF WriterStep
  <2>2. W!Writer
    BY <2>1
    DEF Writer!Writer, Writer!Recv, Writer!Finish, Writer!WriteChunk, Writer!Spill, Writer!WriteOut,
        Writer!Flushed, Writer!Drain, Writer!Drained, Writer!Take, Writer!AfterFlush, Writer!Line,
        Writer!Flushing,
        W!Writer, W!Recv, W!Finish, W!WriteChunk, W!Spill, W!WriteOut,
        W!Flushed, W!Drain, W!Drained, W!Take, W!AfterFlush, W!Line, W!Flushing
  <2> QED BY <2>2 DEF W!Next
<1>4. CASE WriterDrops
  <2>1. W!Fail
    BY <1>4 DEF WriterDrops, Writer!Fail, Writer!Flushing, W!Fail, W!Flushing
  <2> QED BY <2>1 DEF W!Next
<1>5. CASE Die
  <2>1. W!Crash
    BY <1>5 DEF Die, Writer!Crash, Writer!Running, Writer!Flushing, W!Crash, W!Running, W!Flushing
  <2> QED BY <2>1 DEF W!Next
<1>6. CASE Return \/ Stopped \/ UNCHANGED systemVars
  BY <1>1, <1>6 DEF Return, Stopped, systemVars, vars
<1> QED BY <1>2, <1>3, <1>4, <1>5, <1>6 DEF SystemNext

LEMMA SystemStarts == SystemInit => Init /\ W!Init
BY DEF SystemInit, Writer!Init, W!Init

\* A whole run is a run of the runtime and a run of the writer.
THEOREM RunIsBoth == SystemSpec => Spec /\ W!Spec
<1> QED BY RuntimeRun, WriterNext, SystemStarts, PTL DEF SystemSpec, Spec, W!Spec

\* The invariant of the writer holds in a whole run.
LEMMA WriterInvariantHolds == SystemSpec => [](W!WInv)
<1>1. W!Spec => [](W!WInv)
  BY W!WriterInvariant, SystemAssumption, ProgramAssumption
<1> QED BY <1>1, RunIsBoth, PTL

----------------------------------------------------------------------------
(* What run_until_quiescent returns *)

\* Once the result is there, the writer has returned and the channel is closed.
ResultInv == result = "ok" => wpc = "ok" /\ mpc = "closed"

LEMMA ResultInvNext ==
    ASSUME ResultInv, [SystemNext]_systemVars
    PROVE  ResultInv'
<1> SUFFICES ASSUME result' = "ok"
             PROVE  wpc' = "ok" /\ mpc' = "closed"
  BY DEF ResultInv
<1>1. CASE RuntimeStep
  <2>1. wpc = "ok" /\ mpc = "closed"
    BY <1>1 DEF RuntimeStep, ResultInv
  <2>2. mpc' = "closed"
    BY <1>1, <2>1, StaysClosed DEF RuntimeStep
  <2>3. wpc' = wpc
    BY <1>1 DEF RuntimeStep, Writer!Produce, Writer!Close, writerVars
  <2> QED BY <2>1, <2>2, <2>3
<1>2. CASE WriterStep \/ WriterDrops \/ Die
  <2>1. UNCHANGED result /\ wpc \in Writer!Running
    BY <1>2
    DEF WriterStep, WriterDrops, Die, Writer!Writer, Writer!Recv, Writer!Finish, Writer!WriteChunk,
        Writer!Spill, Writer!WriteOut, Writer!Flushed, Writer!Drain, Writer!Drained, Writer!Fail,
        Writer!Crash, Writer!Running, Writer!Flushing
  <2>2. wpc # "ok"
    BY <2>1 DEF Writer!Running, Writer!Flushing
  <2> QED BY <2>1, <2>2 DEF ResultInv
<1>3. CASE Return
  BY <1>3 DEF Return, vars, writerVars
<1>4. CASE Stopped \/ UNCHANGED systemVars
  BY <1>4 DEF Stopped, systemVars, vars, writerVars, ResultInv
<1> QED BY <1>1, <1>2, <1>3, <1>4 DEF SystemNext

\* What is read from n whole lines is the first n events recorded.
LEMMA ReadBackOf ==
    ASSUME NEW n \in Nat, W!ReadEvents(file) = W!UpTo(n)
    PROVE  ReadBack = [i \in 1..n |-> recorded[i]]
<1>1. W!UpTo(n) = [i \in 1..n |-> i]
  BY DEF W!UpTo
<1>2. Writer!ReadEvents(file) = [i \in 1..n |-> i]
  <2>1. Writer!ReadEvents(file) = W!ReadEvents(file)
    <3>1. Writer!Heads(file) = W!Heads(file)
      BY DEF Writer!Heads, W!Heads
    <3>2. \A S : Writer!Cardinality(S) = W!Cardinality(S)
      BY DEF Writer!Cardinality, W!Cardinality
    <3>3. \A k : Writer!LineStart(file, k) = W!LineStart(file, k)
      BY <3>1, <3>2 DEF Writer!LineStart, W!LineStart
    <3> QED BY <3>1, <3>2, <3>3 DEF Writer!ReadEvents, W!ReadEvents
  <2> QED BY <1>1, <2>1
<1> DEFINE numbers == Writer!ReadEvents(file)
<1>3. ReadBack = [i \in DOMAIN numbers |-> recorded[numbers[i]]]
  BY DEF ReadBack
<1>4. DOMAIN numbers = 1..n /\ \A i \in 1..n : numbers[i] = i
  BY <1>2
<1> HIDE DEF numbers
<1> QED BY <1>3, <1>4

\* OkIsTheWholeRun: if run_until_quiescent returns Ok(n), the file holds the n
\* events recorded, in their order, and no message was left over.  As in
\* QuiescentShutdownHolds, no started() sends.
THEOREM OkIsTheWholeRunHolds ==
    ASSUME Starters = {}
    PROVE  SystemSpec => []OkIsTheWholeRun
<1>1. SystemInit => ResultInv
  BY DEF SystemInit, ResultInv
<1>2. ASSUME ResultInv, TypeInv, QuiescentShutdown, W!OkIsComplete
      PROVE  OkIsTheWholeRun
  <2> SUFFICES ASSUME result = "ok"
               PROVE  /\ Writer!ReadOk(file) /\ ReadBack = recorded
                      /\ written = Len(recorded) /\ Outstanding = {}
    BY DEF OkIsTheWholeRun
  <2>1. wpc = "ok" /\ mpc = "closed"
    BY <1>2 DEF ResultInv
  <2>2. W!ReadOk(file) /\ W!ReadEvents(file) = W!UpTo(Len(recorded)) /\ written = Len(recorded)
    BY <1>2, <2>1 DEF W!OkIsComplete
  <2>3. Writer!ReadOk(file)
    BY <2>2 DEF Writer!ReadOk, W!ReadOk, Writer!ParsesAt, W!ParsesAt
  <2>4. recorded \in Seq(Event) /\ Len(recorded) \in Nat
    BY <1>2 DEF TypeInv, Typing, MessageTypes
  <2>5. ReadBack = recorded
    BY <2>2, <2>4, ReadBackOf
  <2>6. Outstanding = {}
    BY <1>2, <2>1 DEF QuiescentShutdown, Down
  <2> QED BY <2>2, <2>3, <2>5, <2>6
<1>3. Spec => []QuiescentShutdown
  BY QuiescentShutdownHolds
<1>4. W!Spec => [](W!OkIsComplete)
  BY W!OkIsCompleteHolds, SystemAssumption, ProgramAssumption
<1> QED BY <1>1, <1>2, <1>3, <1>4, RunIsBoth, ResultInvNext, TypingHolds, PTL DEF SystemSpec

----------------------------------------------------------------------------
(* What a file left behind replays as.  A log is accepted when it is written *)
(* and only grows, so every prefix of it was accepted before.                *)

Prefix(n) == [i \in 1..n |-> recorded[i]]

PrefixesAccepted ==
    \A n \in 0..Len(recorded) : BuildOk(Prefix(n)) /\ Valid(Prefix(n))

LEMMA PrefixWhole ==
    ASSUME recorded \in Seq(Event)
    PROVE  Prefix(Len(recorded)) = recorded
BY DEF Prefix

LEMMA PrefixesNext ==
    ASSUME TypeInv, TypeInv', PrefixesAccepted, ReplayAccepts', [SystemNext]_systemVars
    PROVE  PrefixesAccepted'
<1>1. recorded \in Seq(Event) /\ recorded' \in Seq(Event) /\ Len(recorded) \in Nat
  BY DEF TypeInv, Typing, MessageTypes
<1>2. recorded' = recorded \/ \E e : recorded' = Append(recorded, e)
  BY RuntimeRun
  DEF Next, vars, Main, Task, Panic, Done, WriterFails, Start, StartedReturns, Park, Recv, Settle,
      NotifyDone, Compute, SendStamp, SendRecord, SendCount, SendDeliver, SendUndo, NotifyUndo, Cancel,
      Record, ExternalStamp, ExternalRecord, ExternalCount, ExternalDeliver, RunUntilQuiescent,
      Check, Await, Abort, Close
<1>3. CASE recorded' = recorded
  BY <1>3 DEF PrefixesAccepted, Prefix
<1>4. ASSUME NEW e, recorded' = Append(recorded, e)
      PROVE  PrefixesAccepted'
  <2>1. /\ Len(recorded') = Len(recorded) + 1
        /\ \A i \in 1..Len(recorded) : recorded'[i] = recorded[i]
    BY <1>1, <1>4
  <2>2. ASSUME NEW n \in 0..Len(recorded')
        PROVE  BuildOk(Prefix(n)') /\ Valid(Prefix(n)')
    <3>1. CASE n = Len(recorded')
      <4>1. Prefix(n)' = recorded'
        BY <1>1, <3>1 DEF Prefix
      <4> QED BY <4>1 DEF ReplayAccepts
    <3>2. CASE n # Len(recorded')
      <4>1. n \in 0..Len(recorded)
        BY <1>1, <2>1, <3>2
      <4>2. Prefix(n)' = Prefix(n)
        BY <1>1, <2>1, <4>1 DEF Prefix
      <4> QED BY <4>1, <4>2 DEF PrefixesAccepted
    <3> QED BY <3>1, <3>2
  <2> QED BY <2>2 DEF PrefixesAccepted
<1> QED BY <1>2, <1>3, <1>4

\* FileReplays: wherever the process dies or the file fails, a file without a
\* torn line is accepted by replay.  As in ReplayAcceptsHolds, two origins
\* would share their coordinates.
THEOREM FileReplaysHolds ==
    ASSUME MaxOrigins <= 1
    PROVE  SystemSpec => []FileReplays
<1>1. SystemInit /\ TypeInv /\ ReplayAccepts => PrefixesAccepted
  <2> SUFFICES ASSUME SystemInit, TypeInv, ReplayAccepts
               PROVE  PrefixesAccepted
    OBVIOUS
  <2>1. recorded = <<>> /\ Len(recorded) = 0 /\ recorded \in Seq(Event)
    BY DEF SystemInit, Init, TypeInv, Typing, MessageTypes
  <2>2. Prefix(0) = recorded
    BY <2>1, PrefixWhole
  <2> QED BY <2>1, <2>2 DEF PrefixesAccepted, ReplayAccepts
<1>2. ASSUME TypeInv, PrefixesAccepted, W!WInv
      PROVE  FileReplays
  <2>1. PICK n \in 0..Len(recorded) : W!ReadEvents(file) = W!UpTo(n)
    BY <1>2, W!FileReadsBack, SystemAssumption, ProgramAssumption
  <2>2. n \in Nat
    BY <1>2 DEF TypeInv, Typing, MessageTypes
  <2>3. ReadBack = Prefix(n)
    BY <2>1, <2>2, ReadBackOf DEF Prefix
  <2> QED BY <1>2, <2>1, <2>3 DEF PrefixesAccepted, FileReplays
<1>3. Spec => []ReplayAccepts
  BY ReplayAcceptsHolds
<1> QED BY <1>1, <1>2, <1>3, WriterInvariantHolds, RunIsBoth, PrefixesNext, TypingHolds, PTL DEF SystemSpec
=============================================================================
