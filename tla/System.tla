------------------------------- MODULE System -------------------------------
(***************************************************************************)
(* A whole run: the actor runtime, the log writer at the other end of its  *)
(* event channel, and the main task that awaits both.  The events the      *)
(* channel accepted are those recorded; its last sender goes when the      *)
(* runtime is dropped; the runtime sees of the writer only whether it      *)
(* still holds the receiver.                                               *)
(***************************************************************************)
EXTENDS RuntimeProperties

CONSTANTS CanCrash,     \* may the process die?
          MaxEvents     \* bound: events in a run, more than MaxMsgs and MaxSeq allow

ASSUME SystemAssumption == CanCrash \in BOOLEAN /\ MaxEvents \in Nat

VARIABLES queue, todo, buf, file, written, wpc,   \* LogWriter
          result    \* of run_until_quiescent: "pending", "ok" or "error"

writerVars == <<queue, todo, buf, file, written, wpc>>
systemVars == <<vars, writerVars, result>>

Writer == INSTANCE LogWriter WITH
    accepted <- Len(recorded),
    open     <- mpc # "closed",
    CanFail  <- WriterCanFail

SystemInit == Init /\ Writer!Init /\ result = "pending"

Alive == wpc # "crashed"

\* A step of a task either records, or closes the channel, or does neither.
RuntimeStep ==
    /\ Alive
    /\ Main \/ \E a \in Actor : Task(a) \/ Panic(a)
    /\ \/ recorded' # recorded /\ Writer!Produce
       \/ mpc # "closed" /\ mpc' = "closed" /\ Writer!Close
       \/ recorded' = recorded /\ (mpc' = "closed" => mpc = "closed") /\ UNCHANGED writerVars
    /\ UNCHANGED result

WriterStep == UNCHANGED <<vars, result>> /\ Writer!Writer

WriterDrops == WriterFails /\ Writer!Fail /\ UNCHANGED result

\* Mutant: the writer is not awaited.
ReturnEarly ==
    /\ Alive
    /\ mpc = "closed"
    /\ result = "pending"
    /\ result' = "ok"
    /\ UNCHANGED <<vars, writerVars>>

\* writer.await: run_until_quiescent returns what the writer task returned.
Return ==
    /\ mpc = "closed"
    /\ wpc \in {"ok", "failed"}
    /\ result = "pending"
    /\ result' = IF wpc = "ok" THEN "ok" ELSE "error"
    /\ UNCHANGED <<vars, writerVars>>

\* The process dies, and with it every task.
Die == UNCHANGED <<vars, result>> /\ Writer!Crash

Stopped == (result # "pending" \/ ~Alive) /\ UNCHANGED systemVars

SystemNext == RuntimeStep \/ WriterStep \/ WriterDrops \/ Return \/ Die \/ Stopped

SystemSpec == SystemInit /\ [][SystemNext]_systemVars

----------------------------------------------------------------------------
(* Properties *)

\* The log as read_events would return it from the file of this moment.
ReadBack == LET numbers == Writer!ReadEvents(file)
            IN  [i \in DOMAIN numbers |-> recorded[numbers[i]]]

\* "Returns the number of events written": Ok(n) means that the file holds
\* the n events that were recorded, in their order, and that the events of
\* every message sent are among them.
OkIsTheWholeRun ==
    result = "ok" => /\ Writer!ReadOk(file)
                     /\ ReadBack = recorded
                     /\ written = Len(recorded)
                     /\ Outstanding = {}

\* Wherever the process dies or the file fails: if the file has no torn line,
\* replay accepts it.
FileReplays ==
    Writer!ReadOk(file) => BuildOk(ReadBack) /\ Valid(ReadBack)
=============================================================================
