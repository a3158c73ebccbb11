----------------------------- MODULE LogWriter -----------------------------
(***************************************************************************)
(* The dedicated log writer (lichtung-prod/src/logwriter.rs): an event     *)
(* channel, a BufWriter, a file.                                           *)
(*                                                                         *)
(* Events are numbered in the order the channel accepted them.  A line is  *)
(* three chunks: the JSON text is written piecemeal, so it can be torn     *)
(* between its head and its tail, and the newline is a write of its own.   *)
(* The capacity of the buffer is left open: any write may find it full and *)
(* spill it first, and the file takes any part of what it is given.        *)
(***************************************************************************)
EXTENDS Naturals, Sequences, SequencesExt

CONSTANTS MaxEvents,   \* bound: events accepted in a run
          CanFail,     \* may the file return an I/O error?
          CanCrash     \* may the process die?

ASSUME WriterAssumption == MaxEvents \in Nat /\ CanFail \in BOOLEAN /\ CanCrash \in BOOLEAN

VARIABLES
    accepted,   \* number of events the channel accepted
    open,       \* is there a sender left?
    queue,      \* accepted events not yet taken by the writer
    todo,       \* chunks of the current line still to be written
    buf,        \* the BufWriter's buffer
    file,       \* the chunks that reached the file
    written,    \* the writer's count
    wpc         \* where the writer task is

channelVars == <<accepted, open>>
vars == <<channelVars, queue, todo, buf, file, written, wpc>>

(***************************************************************************)
(* wpc:  recv        in rx.recv().await                                    *)
(*       write       in write_one                                          *)
(*       spill       in write_one, emptying a full buffer                  *)
(*       drain       about to try_recv                                     *)
(*       flush       in bw.flush() after a burst; finalFlush: after the loop*)
(*       ok, failed  the task returned;  crashed: the process is gone      *)
(***************************************************************************)
Flushing == {"spill", "flush", "finalFlush"}
Running  == Flushing \cup {"recv", "write", "drain"}
Ended    == {"ok", "failed", "crashed"}

Line(n) == <<<<n, "head">>, <<n, "tail">>, <<n, "newline">>>>

Init ==
    /\ accepted = 0
    /\ open = TRUE
    /\ queue = <<>>
    /\ todo = <<>>
    /\ buf = <<>>
    /\ file = <<>>
    /\ written = 0
    /\ wpc = "recv"

----------------------------------------------------------------------------
(* The senders.  Once the writer has dropped its end, record() ignores the  *)
(* error and nothing changes.                                               *)

Produce ==
    /\ open
    /\ wpc \in Running
    /\ accepted < MaxEvents
    /\ accepted' = accepted + 1
    /\ queue' = Append(queue, accepted + 1)
    /\ UNCHANGED <<open, todo, buf, file, written, wpc>>

Close == /\ open
         /\ wpc # "crashed"
         /\ open' = FALSE
         /\ UNCHANGED <<accepted, queue, todo, buf, file, written, wpc>>

----------------------------------------------------------------------------
(* The writer task *)

\* Mutant: the newest event is taken first.
TakeNewest == /\ queue # <<>>
              /\ todo' = Line(Last(queue))
              /\ queue' = Front(queue)
              /\ wpc' = "write"
              /\ UNCHANGED <<channelVars, buf, file, written>>

Take == /\ queue # <<>>
        /\ todo' = Line(Head(queue))
        /\ queue' = Tail(queue)
        /\ wpc' = "write"
        /\ UNCHANGED <<channelVars, buf, file, written>>

Recv == wpc = "recv" /\ Take

\* recv() returns None: the channel is closed and empty.
Finish == /\ wpc = "recv"
          /\ queue = <<>>
          /\ ~open
          /\ wpc' = "finalFlush"
          /\ UNCHANGED <<channelVars, queue, todo, buf, file, written>>

\* Mutants: chunks are counted instead of lines; a chunk overtakes the buffer.
WriteChunkCounted ==
    /\ wpc = "write"
    /\ buf' = Append(buf, Head(todo))
    /\ todo' = Tail(todo)
    /\ written' = written + 1
    /\ wpc' = IF Len(todo) = 1 THEN "drain" ELSE wpc
    /\ UNCHANGED <<channelVars, queue, file>>
WriteChunkUnbuffered ==
    /\ wpc = "write"
    /\ \/ buf' = Append(buf, Head(todo)) /\ UNCHANGED file
       \/ file' = Append(file, Head(todo)) /\ UNCHANGED buf
    /\ todo' = Tail(todo)
    /\ IF Len(todo) = 1 THEN written' = written + 1 /\ wpc' = "drain"
                        ELSE UNCHANGED <<written, wpc>>
    /\ UNCHANGED <<channelVars, queue>>

\* A chunk that fits goes into the buffer; the last one completes the line.
WriteChunk ==
    /\ wpc = "write"
    /\ buf' = Append(buf, Head(todo))
    /\ todo' = Tail(todo)
    /\ IF Len(todo) = 1 THEN written' = written + 1 /\ wpc' = "drain"
                        ELSE UNCHANGED <<written, wpc>>
    /\ UNCHANGED <<channelVars, queue, file>>

\* A chunk that does not fit has the buffer emptied first.
Spill == /\ wpc = "write"
         /\ buf # <<>>
         /\ wpc' = "spill"
         /\ UNCHANGED <<channelVars, queue, todo, buf, file, written>>

\* Mutant: a short write is taken for a complete one.
WriteOutShort ==
    /\ wpc \in Flushing
    /\ \E n \in 1..Len(buf) : file' = file \o SubSeq(buf, 1, n)
    /\ buf' = <<>>
    /\ UNCHANGED <<channelVars, queue, todo, written, wpc>>

\* One write to the file, which takes at least one chunk.
WriteOut ==
    /\ wpc \in Flushing
    /\ \E n \in 1..Len(buf) : /\ file' = file \o SubSeq(buf, 1, n)
                              /\ buf' = SubSeq(buf, n + 1, Len(buf))
    /\ UNCHANGED <<channelVars, queue, todo, written, wpc>>

\* Where the writer goes on: with the line, the loop, or by returning.
AfterFlush == CASE wpc = "spill" -> "write" [] wpc = "flush" -> "recv" [] wpc = "finalFlush" -> "ok"

\* Mutants: no flush empties the buffer, only a spill does; a burst is not
\* flushed.  (Without the flush after the loop alone nothing would be lost: the
\* buffer is empty there, see IdleIsFlushed.)
FlushedEarly ==
    /\ wpc \in Flushing
    /\ wpc' = AfterFlush
    /\ buf = <<>> \/ wpc # "spill"
    /\ UNCHANGED <<channelVars, queue, todo, buf, file, written>>
BurstUnflushed ==
    /\ wpc \in Flushing
    /\ wpc' = AfterFlush
    /\ buf = <<>> \/ wpc = "flush"
    /\ UNCHANGED <<channelVars, queue, todo, buf, file, written>>

Flushed ==
    /\ wpc \in Flushing
    /\ buf = <<>>
    /\ wpc' = AfterFlush
    /\ UNCHANGED <<channelVars, queue, todo, buf, file, written>>

Drain == wpc = "drain" /\ Take

\* Mutant: a closed channel is taken for one that will have more.
DrainedWhileOpen == /\ wpc = "drain"
                    /\ queue = <<>>
                    /\ open
                    /\ wpc' = "flush"
                    /\ UNCHANGED <<channelVars, queue, todo, buf, file, written>>

Drained == /\ wpc = "drain"
           /\ queue = <<>>
           /\ wpc' = "flush"
           /\ UNCHANGED <<channelVars, queue, todo, buf, file, written>>

\* An I/O error ends the task: the channel is dropped with what it holds, and
\* dropping the BufWriter tries once more to write the buffer.
Fail == /\ CanFail
        /\ wpc \in Flushing
        /\ \E n \in 0..Len(buf) : file' = file \o SubSeq(buf, 1, n)
        /\ buf' = <<>>
        /\ todo' = <<>>
        /\ queue' = <<>>
        /\ wpc' = "failed"
        /\ UNCHANGED <<channelVars, written>>

\* The process dies: the buffer and the channel are gone.
Crash == /\ CanCrash
         /\ wpc \in Running
         /\ wpc' = "crashed"
         /\ buf' = <<>>
         /\ todo' = <<>>
         /\ queue' = <<>>
         /\ UNCHANGED <<channelVars, file, written>>

Done == wpc \in Ended /\ UNCHANGED vars

Writer == Recv \/ Finish \/ WriteChunk \/ Spill \/ WriteOut \/ Flushed \/ Drain \/ Drained

Next == Produce \/ Close \/ Writer \/ Fail \/ Crash \/ Done

Spec == Init /\ [][Next]_vars

\* tokio polls the writer again after every wake-up, and writes return.
FairSpec == Spec /\ WF_vars(Writer)

----------------------------------------------------------------------------
(* Reading the log back: read_events fails on the first line that is not an *)
(* event; a last line without newline is a line.                            *)

ParsesAt(f, i) ==
    CASE f[i][2] = "head"    -> i < Len(f) /\ f[i + 1] = <<f[i][1], "tail">>
      [] f[i][2] = "tail"    -> /\ i > 1 /\ f[i - 1] = <<f[i][1], "head">>
                                /\ i < Len(f) => f[i + 1][2] = "newline"
      [] f[i][2] = "newline" -> TRUE

ReadOk(f) == \A i \in DOMAIN f : ParsesAt(f, i)

\* Where the lines begin, and where the k-th one does.
Heads(f) == {i \in DOMAIN f : f[i][2] = "head"}
LineStart(f, k) == CHOOSE i \in Heads(f) : Cardinality({j \in Heads(f) : j <= i}) = k

\* One event a line, in the order of the file.
ReadEvents(f) == [k \in 1..Cardinality(Heads(f)) |-> f[LineStart(f, k)][1]]

----------------------------------------------------------------------------
(* Properties *)

Chunk == (1..MaxEvents) \X {"head", "tail", "newline"}

TypeOK ==
    /\ accepted \in 0..MaxEvents
    /\ open \in BOOLEAN
    /\ queue \in Seq(1..MaxEvents)
    /\ todo \in Seq(Chunk) /\ buf \in Seq(Chunk) /\ file \in Seq(Chunk)
    /\ written \in 0..MaxEvents
    /\ wpc \in Running \cup Ended

\* The lines of some events, end to end: three chunks each.
Lines(events) == [k \in 1..(3 * Len(events)) |-> Line(events[(k + 2) \div 3])[((k + 2) % 3) + 1]]
UpTo(n) == [i \in 1..n |-> i]

\* No chunk is lost, repeated or reordered between the channel and the file:
\* file, buffer, rest of the line and queue always spell the accepted events.
NothingLost ==
    wpc \in Running =>
      file \o buf \o todo \o Lines(queue) = Lines(UpTo(accepted))

\* However the run ends, the file is a prefix of the accepted events; only
\* its last line can be torn, so dropping at most one chunk makes it readable,
\* and what is read back is the first events in order.
FileIsPrefix ==
    /\ IsPrefix(file, Lines(UpTo(accepted)))
    /\ \E n \in {0, 1} : n <= Len(file) /\ ReadOk(SubSeq(file, 1, Len(file) - n))
    /\ ReadOk(file) => IsPrefix(ReadEvents(file), UpTo(accepted))

\* Ok(written) means that everything ever recorded is in the file and counted.
OkIsComplete ==
    wpc = "ok" => /\ ~open
                  /\ ReadOk(file)
                  /\ ReadEvents(file) = UpTo(accepted)
                  /\ written = accepted

\* "Flush only when the channel is momentarily empty": a writer that waits for
\* events has flushed all it took, so a quiet system has its log in the file.
IdleIsFlushed == wpc = "recv" => buf = <<>> /\ Len(file) = 3 * written

\* Closing the channel ends the writer.
WriterEnds == ~open ~> wpc \in Ended

\* The writer implements the append-only store.
Stored == Cardinality({i \in DOMAIN file : file[i][2] = "newline"})
Store == INSTANCE DurableLog WITH
    stored  <- Stored,
    outcome <- IF wpc \in Running THEN "running" ELSE wpc
ImplementsDurableLog == Store!Spec
=============================================================================
