--------------------------- MODULE LogWriterProofs ---------------------------
(***************************************************************************)
(* Machine-checked: what the log writer owes its callers holds for every   *)
(* number of events, every capacity of the buffer, every short write,      *)
(* error and crash, and every step of it is a step or a stutter of         *)
(* DurableLog.                                                             *)
(*                                                                         *)
(* The argument is by positions.  The accepted events spell one stream of  *)
(* chunks; the file, the buffer and the rest of the current line are       *)
(* consecutive slices of it, and the queue holds the events after them.    *)
(***************************************************************************)
EXTENDS LogWriter, FiniteSetTheorems, SequenceTheorems, TLAPS

\* The k-th chunk of the stream.
ChunkAt(k) == Line((k + 2) \div 3)[((k + 2) % 3) + 1]

\* s is the slice of the stream that follows its first n chunks.
Spells(s, n) == \A k \in 1..Len(s) : s[k] = ChunkAt(n + k)

AnyChunk == Nat \X {"head", "tail", "newline"}

WriterTypes ==
    /\ accepted \in 0..MaxEvents
    /\ open \in BOOLEAN
    /\ queue \in Seq(Nat)
    /\ todo \in Seq(AnyChunk) /\ buf \in Seq(AnyChunk) /\ file \in Seq(AnyChunk)
    /\ written \in 0..accepted
    /\ wpc \in Running \cup Ended

\* Where each slice stands in the stream.
Slices ==
    /\ Spells(file, 0)
    /\ Spells(buf, Len(file))
    /\ Spells(todo, Len(file) + Len(buf))
    /\ \A k \in 1..Len(queue) : queue[k] = accepted - Len(queue) + k

\* How long the slices are, and what the writer has counted.
Tally ==
    /\ Len(file) + Len(buf) + Len(todo) + 3 * Len(queue) <= 3 * accepted
    /\ wpc \in Running \cup {"ok"} =>
         Len(file) + Len(buf) + Len(todo) + 3 * Len(queue) = 3 * accepted
    /\ wpc \in {"write", "spill"} =>
         Len(todo) \in 1..3 /\ Len(file) + Len(buf) + Len(todo) = 3 * written + 3
    /\ wpc \in {"recv", "drain", "flush", "finalFlush", "ok"} =>
         todo = <<>> /\ Len(file) + Len(buf) = 3 * written

\* What is known where the writer stands.
Phases ==
    /\ wpc = "recv" => buf = <<>>
    /\ wpc \in {"finalFlush", "ok"} => ~open /\ queue = <<>>
    /\ wpc \in Ended => queue = <<>> /\ todo = <<>> /\ buf = <<>>

WInv == WriterTypes /\ Slices /\ Tally /\ Phases

----------------------------------------------------------------------------
(* The stream *)

LEMMA ThreeChunks ==
    ASSUME NEW n \in Nat
    PROVE  /\ ChunkAt(3 * n + 1) = <<n + 1, "head">>
           /\ ChunkAt(3 * n + 2) = <<n + 1, "tail">>
           /\ ChunkAt(3 * n + 3) = <<n + 1, "newline">>
<1>1. /\ (3 * n + 1 + 2) \div 3 = n + 1 /\ (3 * n + 1 + 2) % 3 = 0
      /\ (3 * n + 2 + 2) \div 3 = n + 1 /\ (3 * n + 2 + 2) % 3 = 1
      /\ (3 * n + 3 + 2) \div 3 = n + 1 /\ (3 * n + 3 + 2) % 3 = 2
  OBVIOUS
<1> QED BY <1>1 DEF ChunkAt, Line

\* Every position is the head, the tail or the newline of one event.
LEMMA PositionCases ==
    ASSUME NEW k \in Nat, k > 0
    PROVE  \E n \in Nat : k = 3 * n + 1 \/ k = 3 * n + 2 \/ k = 3 * n + 3
<1>1. k \div 3 \in Nat /\ k % 3 \in 0..2 /\ k = 3 * (k \div 3) + (k % 3)
  OBVIOUS
<1>2. CASE k % 3 = 0
  <2>1. k \div 3 - 1 \in Nat /\ k = 3 * (k \div 3 - 1) + 3
    BY <1>1, <1>2
  <2> QED BY <2>1
<1>3. CASE k % 3 \in 1..2
  BY <1>1, <1>3
<1> QED BY <1>1, <1>2, <1>3

LEMMA ChunkType ==
    ASSUME NEW k \in Nat, k > 0, NEW m \in Nat, k <= 3 * m
    PROVE  ChunkAt(k) \in (1..m) \X {"head", "tail", "newline"}
<1>1. PICK n \in Nat : k = 3 * n + 1 \/ k = 3 * n + 2 \/ k = 3 * n + 3
  BY PositionCases
<1>2. n + 1 \in 1..m
  BY <1>1
<1>3. CASE k = 3 * n + 1
  BY <1>2, <1>3, ThreeChunks
<1>4. CASE k = 3 * n + 2
  BY <1>2, <1>4, ThreeChunks
<1>5. CASE k = 3 * n + 3
  BY <1>2, <1>5, ThreeChunks
<1> QED BY <1>1, <1>3, <1>4, <1>5

----------------------------------------------------------------------------
(* Slices of the stream *)

LEMMA SpellsAppend ==
    ASSUME NEW S, NEW s \in Seq(S), NEW n \in Nat, Spells(s, n)
    PROVE  Spells(Append(s, ChunkAt(n + Len(s) + 1)), n)
BY DEF Spells

LEMMA SpellsTail ==
    ASSUME NEW S, NEW s \in Seq(S), NEW n \in Nat, s # <<>>, Spells(s, n)
    PROVE  /\ s[1] = ChunkAt(n + 1)
           /\ Spells(Tail(s), n + 1)
<1>1. Len(s) \in Nat /\ Len(s) > 0 /\ Len(Tail(s)) = Len(s) - 1
  OBVIOUS
<1>2. s[1] = ChunkAt(n + 1)
  BY <1>1 DEF Spells
<1>3. ASSUME NEW k \in 1..Len(Tail(s))
      PROVE  Tail(s)[k] = ChunkAt(n + 1 + k)
  <2>1. Tail(s)[k] = s[k + 1] /\ k + 1 \in 1..Len(s)
    BY <1>1
  <2>2. n + (k + 1) = n + 1 + k
    BY <1>1
  <2> QED BY <2>1, <2>2 DEF Spells
<1> QED BY <1>2, <1>3 DEF Spells

LEMMA SpellsCat ==
    ASSUME NEW S, NEW s \in Seq(S), NEW t \in Seq(S), NEW n \in Nat,
           Spells(s, n), Spells(t, n + Len(s))
    PROVE  /\ Len(s \o t) = Len(s) + Len(t)
           /\ Spells(s \o t, n)
<1>1. Len(s) \in Nat /\ Len(t) \in Nat /\ Len(s \o t) = Len(s) + Len(t)
  OBVIOUS
<1>2. ASSUME NEW k \in 1..Len(s \o t)
      PROVE  (s \o t)[k] = ChunkAt(n + k)
  <2>1. CASE k <= Len(s)
    BY <1>1, <2>1 DEF Spells
  <2>2. CASE k > Len(s)
    <3>1. (s \o t)[k] = t[k - Len(s)] /\ k - Len(s) \in 1..Len(t)
      BY <1>1, <2>2
    <3>2. n + Len(s) + (k - Len(s)) = n + k
      BY <1>1
    <3> QED BY <3>1, <3>2 DEF Spells
  <2> QED BY <1>1, <2>1, <2>2
<1> QED BY <1>1, <1>2 DEF Spells

LEMMA SpellsCut ==
    ASSUME NEW S, NEW s \in Seq(S), NEW n \in Nat, Spells(s, n), NEW m \in 0..Len(s)
    PROVE  /\ SubSeq(s, 1, m) \in Seq(S) /\ Len(SubSeq(s, 1, m)) = m
           /\ SubSeq(s, m + 1, Len(s)) \in Seq(S)
           /\ Len(SubSeq(s, m + 1, Len(s))) = Len(s) - m
           /\ Spells(SubSeq(s, 1, m), n)
           /\ Spells(SubSeq(s, m + 1, Len(s)), n + m)
<1>1. Len(s) \in Nat /\ m \in Nat
  OBVIOUS
<1>2. SubSeq(s, 1, m) \in Seq(S) /\ Len(SubSeq(s, 1, m)) = m
  BY <1>1, SubSeqProperties
<1>3. /\ SubSeq(s, m + 1, Len(s)) \in Seq(S)
      /\ Len(SubSeq(s, m + 1, Len(s))) = Len(s) - m
  BY <1>1, SubSeqProperties
<1>4. ASSUME NEW k \in 1..m
      PROVE  SubSeq(s, 1, m)[k] = ChunkAt(n + k)
  BY <1>1, SubSeqProperties DEF Spells
<1>5. ASSUME NEW k \in 1..(Len(s) - m)
      PROVE  SubSeq(s, m + 1, Len(s))[k] = ChunkAt(n + m + k)
  <2>1. SubSeq(s, m + 1, Len(s))[k] = s[m + k] /\ m + k \in 1..Len(s)
    BY <1>1, SubSeqProperties
  <2>2. n + (m + k) = n + m + k
    BY <1>1
  <2> QED BY <2>1, <2>2 DEF Spells
<1> QED BY <1>2, <1>3, <1>4, <1>5 DEF Spells

LEMMA SpellsLine ==
    ASSUME NEW n \in Nat
    PROVE  /\ Line(n + 1) \in Seq(AnyChunk) /\ Len(Line(n + 1)) = 3
           /\ Spells(Line(n + 1), 3 * n)
<1>1. Line(n + 1) \in Seq(AnyChunk) /\ Len(Line(n + 1)) = 3
  BY DEF Line, AnyChunk
<1>2. /\ Line(n + 1)[1] = ChunkAt(3 * n + 1)
      /\ Line(n + 1)[2] = ChunkAt(3 * n + 2)
      /\ Line(n + 1)[3] = ChunkAt(3 * n + 3)
  BY ThreeChunks DEF Line
<1> QED BY <1>1, <1>2 DEF Spells

----------------------------------------------------------------------------
(* The invariant is kept.  Five steps change the slices; for the others only *)
(* the place of the writer matters.                                          *)

LEMMA WInvInit == Init => WInv
BY WriterAssumption DEF Init, WInv, WriterTypes, Slices, Tally, Phases, Spells, Running, Ended, Flushing

LEMMA ProduceKeeps == ASSUME WInv, Produce PROVE WInv'
<1>1. WriterTypes /\ accepted \in Nat /\ Len(queue) \in Nat /\ Len(file) \in Nat /\ Len(buf) \in Nat /\ Len(todo) \in Nat
  BY WriterAssumption DEF WInv, WriterTypes
<1>2. /\ queue' = Append(queue, accepted + 1) /\ accepted' = accepted + 1
      /\ queue' \in Seq(Nat) /\ Len(queue') = Len(queue) + 1
  BY <1>1 DEF Produce, WriterTypes
<1>3. WriterTypes'
  BY <1>1, <1>2, WriterAssumption DEF Produce, WriterTypes
<1>4. ASSUME NEW k \in 1..Len(queue')
      PROVE  queue'[k] = accepted' - Len(queue') + k
  <2>1. CASE k = Len(queue')
    BY <1>1, <1>2, <2>1 DEF WriterTypes
  <2>2. CASE k # Len(queue')
    <3>1. k \in 1..Len(queue) /\ queue'[k] = queue[k]
      BY <1>1, <1>2, <2>2 DEF WriterTypes
    <3> QED BY <1>1, <1>2, <3>1 DEF WInv, Slices
  <2> QED BY <2>1, <2>2
<1>5. Slices'
  BY <1>4 DEF WInv, Slices, Produce, Spells
<1>6. Tally'
  BY <1>1, <1>2 DEF WInv, Tally, Produce, Running, Flushing
<1>7. Phases'
  BY DEF WInv, Phases, Produce, Running, Ended, Flushing
<1> QED BY <1>3, <1>5, <1>6, <1>7 DEF WInv

LEMMA TakeKeeps == ASSUME WInv, Recv \/ Drain PROVE WInv'
<1>1. /\ WriterTypes /\ accepted \in Nat /\ written \in Nat /\ Len(queue) \in Nat
      /\ Len(file) \in Nat /\ Len(buf) \in Nat /\ Take /\ wpc \in {"recv", "drain"}
  BY WriterAssumption DEF WInv, WriterTypes, Recv, Drain
<1>2. /\ queue # <<>> /\ Len(queue) > 0 /\ queue' = Tail(queue)
      /\ queue' \in Seq(Nat) /\ Len(queue') = Len(queue) - 1
      /\ \A k \in 1..Len(queue') : queue'[k] = queue[k + 1]
  BY <1>1 DEF Take, WriterTypes
<1>3. /\ todo = <<>> /\ Len(todo) = 0 /\ Len(file) + Len(buf) = 3 * written
      /\ Len(file) + Len(buf) + 3 * Len(queue) = 3 * accepted
  BY <1>1 DEF WInv, Tally, Running, Flushing
<1>4. Head(queue) = written + 1
  <2>1. Head(queue) = queue[1] /\ queue[1] = accepted - Len(queue) + 1
    BY <1>1, <1>2 DEF WInv, Slices, WriterTypes
  <2> QED BY <1>1, <1>3, <2>1
<1>5. /\ todo' = Line(written + 1) /\ todo' \in Seq(AnyChunk) /\ Len(todo') = 3
      /\ Spells(todo', 3 * written)
  BY <1>1, <1>4, SpellsLine DEF Take
<1>6. /\ UNCHANGED <<accepted, open, buf, file, written>> /\ wpc' = "write"
  BY <1>1 DEF Take, channelVars
<1>7. WriterTypes'
  BY <1>1, <1>2, <1>5, <1>6 DEF WriterTypes, Running, Flushing
<1>8. ASSUME NEW k \in 1..Len(queue')
      PROVE  queue'[k] = accepted' - Len(queue') + k
  <2>1. k + 1 \in 1..Len(queue) /\ queue'[k] = queue[k + 1]
    BY <1>1, <1>2
  <2>2. queue[k + 1] = accepted - Len(queue) + (k + 1)
    BY <2>1 DEF WInv, Slices
  <2> QED BY <1>1, <1>2, <1>6, <2>1, <2>2
<1>9. Slices'
  <2>1. Spells(file', 0) /\ Spells(buf', Len(file'))
    BY <1>6 DEF WInv, Slices, Spells
  <2>2. Spells(todo', Len(file') + Len(buf'))
    BY <1>3, <1>5, <1>6
  <2> QED BY <1>8, <2>1, <2>2 DEF Slices
<1>10. Tally'
  <2>1. /\ Len(file') = Len(file) /\ Len(buf') = Len(buf) /\ Len(todo') = 3
        /\ Len(queue') = Len(queue) - 1
        /\ written' = written /\ accepted' = accepted /\ wpc' = "write"
    BY <1>2, <1>5, <1>6
  <2>2. /\ accepted \in Nat /\ written \in Nat /\ Len(queue) \in Nat
        /\ Len(file) \in Nat /\ Len(buf) \in Nat
    BY <1>1
  <2>3. /\ Len(file') + Len(buf') + Len(todo') + 3 * Len(queue') = 3 * accepted'
        /\ Len(file') + Len(buf') + Len(todo') = 3 * written' + 3
        /\ 3 * accepted' <= 3 * accepted'
    BY <1>3, <2>1, <2>2
  <2> QED BY <2>1, <2>3 DEF Tally
<1>11. Phases'
  BY <1>6 DEF Phases, Ended
<1> QED BY <1>7, <1>9, <1>10, <1>11 DEF WInv

LEMMA WriteChunkKeeps == ASSUME WInv, WriteChunk PROVE WInv'
<1>1. /\ WriterTypes /\ accepted \in Nat /\ written \in Nat /\ Len(queue) \in Nat
      /\ Len(file) \in Nat /\ Len(buf) \in Nat /\ Len(todo) \in Nat /\ wpc = "write"
  BY WriterAssumption DEF WInv, WriterTypes, WriteChunk
<1>2. /\ Len(todo) \in 1..3 /\ Len(file) + Len(buf) + Len(todo) = 3 * written + 3
      /\ Len(file) + Len(buf) + Len(todo) + 3 * Len(queue) = 3 * accepted
  BY <1>1 DEF WInv, Tally, Running, Flushing
<1>3. /\ todo # <<>> /\ Head(todo) = todo[1] /\ Head(todo) \in AnyChunk
      /\ todo' = Tail(todo) /\ todo' \in Seq(AnyChunk) /\ Len(todo') = Len(todo) - 1
      /\ buf' = Append(buf, Head(todo)) /\ buf' \in Seq(AnyChunk) /\ Len(buf') = Len(buf) + 1
      /\ UNCHANGED <<accepted, open, queue, file>>
  BY <1>1, <1>2 DEF WriteChunk, WriterTypes, channelVars
<1>4. /\ todo[1] = ChunkAt(Len(file) + Len(buf) + 1)
      /\ Spells(todo', Len(file) + Len(buf) + 1)
  <2>1. Len(file) + Len(buf) \in Nat /\ Spells(todo, Len(file) + Len(buf)) /\ todo \in Seq(AnyChunk)
    BY <1>1 DEF WInv, Slices, WriterTypes
  <2> QED BY <1>3, <2>1, SpellsTail
<1>5. Spells(buf', Len(file))
  <2>1. buf \in Seq(AnyChunk) /\ Spells(buf, Len(file))
    BY <1>1 DEF WInv, Slices, WriterTypes
  <2> QED BY <1>1, <1>3, <1>4, <2>1, SpellsAppend
<1>6. Slices'
  <2>1. Len(file') + Len(buf') = Len(file) + Len(buf) + 1
    BY <1>1, <1>3
  <2>2. Spells(buf', Len(file')) /\ Spells(todo', Len(file') + Len(buf'))
    BY <1>3, <1>4, <1>5, <2>1
  <2>3. Spells(file', 0) /\ \A k \in 1..Len(queue') : queue'[k] = accepted' - Len(queue') + k
    BY <1>3 DEF WInv, Slices
  <2> QED BY <2>2, <2>3 DEF Slices
<1>7. CASE Len(todo) = 1
  <2>1. written' = written + 1 /\ wpc' = "drain" /\ Len(todo') = 0 /\ todo' = <<>>
    BY <1>1, <1>3, <1>7 DEF WriteChunk
  <2>2. WriterTypes'
    BY <1>1, <1>2, <1>3, <2>1 DEF WriterTypes, Running, Flushing
  <2>3. /\ Len(file') + Len(buf') + Len(todo') + 3 * Len(queue') = 3 * accepted'
        /\ Len(file') + Len(buf') = 3 * written' /\ 3 * accepted' <= 3 * accepted'
    <3>1. /\ Len(file') = Len(file) /\ Len(queue') = Len(queue) /\ accepted' = accepted
          /\ Len(buf') = Len(buf) + 1
      BY <1>3
    <3>2. /\ accepted \in Nat /\ written \in Nat /\ Len(queue) \in Nat
          /\ Len(file) \in Nat /\ Len(buf) \in Nat
      BY <1>1
    <3> QED BY <1>2, <1>7, <2>1, <3>1, <3>2
  <2>4. Tally' /\ Phases'
    BY <2>1, <2>3 DEF Tally, Phases, Ended
  <2> QED BY <1>6, <2>2, <2>4 DEF WInv
<1>8. CASE Len(todo) # 1
  <2>1. UNCHANGED <<written, wpc>>
    BY <1>8 DEF WriteChunk
  <2>2. WriterTypes'
    BY <1>1, <1>2, <1>3, <2>1 DEF WriterTypes
  <2>3. /\ Len(file') + Len(buf') + Len(todo') + 3 * Len(queue') = 3 * accepted'
        /\ Len(file') + Len(buf') + Len(todo') = 3 * written' + 3
        /\ Len(todo') \in 1..3 /\ 3 * accepted' <= 3 * accepted' /\ wpc' = "write"
    <3>1. /\ Len(file') = Len(file) /\ Len(queue') = Len(queue) /\ accepted' = accepted
          /\ Len(buf') = Len(buf) + 1 /\ Len(todo') = Len(todo) - 1
          /\ wpc' = "write" /\ written' = written
      BY <1>1, <1>3, <2>1
    <3>2. /\ accepted \in Nat /\ written \in Nat /\ Len(queue) \in Nat
          /\ Len(file) \in Nat /\ Len(buf) \in Nat /\ Len(todo) \in Nat
      BY <1>1
    <3>3. Len(todo') \in 1..3
      BY <1>2, <1>8, <3>1, <3>2
    <3>4. Len(file') + Len(buf') + Len(todo') = Len(file) + Len(buf) + Len(todo)
      BY <3>1, <3>2
    <3>5. Len(file') + Len(buf') + Len(todo') + 3 * Len(queue') = 3 * accepted'
      BY <1>2, <3>1, <3>4
    <3>6. Len(file') + Len(buf') + Len(todo') = 3 * written' + 3
      BY <1>2, <3>1, <3>4
    <3>7. 3 * accepted' <= 3 * accepted'
      BY <3>1, <3>2
    <3> QED BY <3>1, <3>3, <3>5, <3>6, <3>7
  <2>4. Tally' /\ Phases'
    BY <2>3 DEF Tally, Phases, Ended
  <2> QED BY <1>6, <2>2, <2>4 DEF WInv
<1> QED BY <1>7, <1>8

LEMMA WriteOutKeeps == ASSUME WInv, WriteOut PROVE WInv'
<1>1. /\ WriterTypes /\ accepted \in Nat /\ written \in Nat /\ Len(queue) \in Nat
      /\ Len(file) \in Nat /\ Len(buf) \in Nat /\ Len(todo) \in Nat /\ wpc \in Flushing
      /\ UNCHANGED <<accepted, open, queue, todo, written, wpc>>
  BY WriterAssumption DEF WInv, WriterTypes, WriteOut, channelVars
<1>2. PICK n \in 1..Len(buf) : /\ file' = file \o SubSeq(buf, 1, n)
                               /\ buf' = SubSeq(buf, n + 1, Len(buf))
  BY DEF WriteOut
<1>3. /\ SubSeq(buf, 1, n) \in Seq(AnyChunk) /\ Len(SubSeq(buf, 1, n)) = n
      /\ buf' \in Seq(AnyChunk) /\ Len(buf') = Len(buf) - n
      /\ Spells(SubSeq(buf, 1, n), Len(file)) /\ Spells(buf', Len(file) + n)
  <2>1. n \in 0..Len(buf) /\ Spells(buf, Len(file)) /\ buf \in Seq(AnyChunk)
    BY <1>1 DEF WInv, Slices, WriterTypes
  <2> QED BY <1>1, <1>2, <2>1, SpellsCut
<1>4. /\ file' \in Seq(AnyChunk) /\ Len(file') = Len(file) + n
      /\ Spells(file', 0)
  <2>1. Spells(file, 0) /\ file \in Seq(AnyChunk)
    BY <1>1 DEF WInv, Slices, WriterTypes
  <2>2. Spells(SubSeq(buf, 1, n), 0 + Len(file))
    BY <1>1, <1>3
  <2>3. Len(file \o SubSeq(buf, 1, n)) = Len(file) + n /\ Spells(file \o SubSeq(buf, 1, n), 0)
    BY <1>3, <2>1, <2>2, SpellsCat
  <2> QED BY <1>2, <1>3, <2>1, <2>3
<1>5. WriterTypes'
  BY <1>1, <1>3, <1>4 DEF WriterTypes
<1>6. Len(file') + Len(buf') = Len(file) + Len(buf)
  BY <1>1, <1>3, <1>4
<1>7. Slices'
  BY <1>1, <1>3, <1>4, <1>6 DEF WInv, Slices
<1>8. Tally'
  BY <1>1, <1>6 DEF WInv, Tally
<1>9. Phases'
  BY <1>1 DEF WInv, Phases, Flushing, Ended
<1> QED BY <1>5, <1>7, <1>8, <1>9 DEF WInv

LEMMA FailKeeps == ASSUME WInv, Fail PROVE WInv'
<1>1. /\ WriterTypes /\ accepted \in Nat /\ written \in Nat /\ Len(queue) \in Nat
      /\ Len(file) \in Nat /\ Len(buf) \in Nat /\ Len(todo) \in Nat
      /\ UNCHANGED <<accepted, open, written>>
      /\ queue' = <<>> /\ todo' = <<>> /\ buf' = <<>> /\ wpc' = "failed"
  BY WriterAssumption DEF WInv, WriterTypes, Fail, channelVars
<1>2. PICK n \in 0..Len(buf) : file' = file \o SubSeq(buf, 1, n)
  BY DEF Fail
<1>3. /\ SubSeq(buf, 1, n) \in Seq(AnyChunk) /\ Len(SubSeq(buf, 1, n)) = n
      /\ Spells(SubSeq(buf, 1, n), Len(file))
  <2>1. Spells(buf, Len(file)) /\ buf \in Seq(AnyChunk)
    BY <1>1 DEF WInv, Slices, WriterTypes
  <2> QED BY <1>1, <1>2, <2>1, SpellsCut
<1>4. file' \in Seq(AnyChunk) /\ Len(file') = Len(file) + n /\ Spells(file', 0)
  <2>1. Spells(file, 0) /\ file \in Seq(AnyChunk)
    BY <1>1 DEF WInv, Slices, WriterTypes
  <2>2. Spells(SubSeq(buf, 1, n), 0 + Len(file))
    BY <1>1, <1>3
  <2>3. Len(file \o SubSeq(buf, 1, n)) = Len(file) + n /\ Spells(file \o SubSeq(buf, 1, n), 0)
    BY <1>3, <2>1, <2>2, SpellsCat
  <2> QED BY <1>2, <1>3, <2>1, <2>3
<1>5. WriterTypes'
  BY <1>1, <1>4 DEF WriterTypes, Ended
<1>6. Slices'
  BY <1>1, <1>4 DEF Slices, Spells
<1>7. Tally'
  BY <1>1, <1>2, <1>4 DEF WInv, Tally, Running, Flushing
<1>8. Phases'
  BY <1>1 DEF Phases
<1> QED BY <1>5, <1>6, <1>7, <1>8 DEF WInv

LEMMA CrashKeeps == ASSUME WInv, Crash PROVE WInv'
<1>1. /\ WriterTypes /\ accepted \in Nat /\ Len(queue) \in Nat
      /\ Len(file) \in Nat /\ Len(buf) \in Nat /\ Len(todo) \in Nat
      /\ UNCHANGED <<accepted, open, file, written>>
      /\ queue' = <<>> /\ todo' = <<>> /\ buf' = <<>> /\ wpc' = "crashed"
  BY WriterAssumption DEF WInv, WriterTypes, Crash, channelVars
<1>2. WriterTypes'
  BY <1>1 DEF WriterTypes, Ended
<1>3. Slices'
  BY <1>1 DEF WInv, Slices, Spells
<1>4. Tally'
  BY <1>1 DEF WInv, Tally, Running, Flushing
<1>5. Phases'
  BY <1>1 DEF Phases
<1> QED BY <1>2, <1>3, <1>4, <1>5 DEF WInv

\* The steps that only move the writer, or close the channel.
LEMMA MoveKeeps ==
    ASSUME WInv, Close \/ Finish \/ Spill \/ Flushed \/ Drained
    PROVE  WInv'
<1>1. /\ WriterTypes /\ accepted \in Nat /\ written \in Nat /\ Len(queue) \in Nat
      /\ Len(file) \in Nat /\ Len(buf) \in Nat /\ Len(todo) \in Nat
  BY WriterAssumption DEF WInv, WriterTypes
<1>2. UNCHANGED <<accepted, queue, todo, buf, file, written>>
  BY DEF Close, Finish, Spill, Flushed, Drained, channelVars
<1>3. Slices'
  BY <1>2 DEF WInv, Slices, Spells
<1>4. WriterTypes' /\ Tally' /\ Phases'
  <2>1. CASE Close
    BY <1>1, <1>2, <2>1 DEF WInv, WriterTypes, Tally, Phases, Close
  <2>2. CASE Finish
    BY <1>1, <1>2, <2>2 DEF WInv, WriterTypes, Tally, Phases, Finish, channelVars, Running, Flushing, Ended
  <2>3. CASE Spill
    BY <1>1, <1>2, <2>3 DEF WInv, WriterTypes, Tally, Phases, Spill, channelVars, Running, Flushing, Ended
  <2>4. CASE Flushed
    BY <1>1, <1>2, <2>4 DEF WInv, WriterTypes, Tally, Phases, Flushed, AfterFlush, channelVars, Running, Flushing, Ended
  <2>5. CASE Drained
    BY <1>1, <1>2, <2>5 DEF WInv, WriterTypes, Tally, Phases, Drained, channelVars, Running, Flushing, Ended
  <2> QED BY <2>1, <2>2, <2>3, <2>4, <2>5
<1> QED BY <1>3, <1>4 DEF WInv

LEMMA WInvStep == ASSUME WInv, [Next]_vars PROVE WInv'
<1>1. CASE UNCHANGED vars
  BY <1>1 DEF vars, channelVars, WInv, WriterTypes, Slices, Spells, Tally, Phases
<1> QED
  BY <1>1, ProduceKeeps, TakeKeeps, WriteChunkKeeps, WriteOutKeeps, FailKeeps, CrashKeeps, MoveKeeps
  DEF Next, Writer, Done

\* The slices of the stream and the tally hold in every state.
THEOREM WriterInvariant == Spec => []WInv
<1> QED BY WInvInit, WInvStep, PTL DEF Spec

----------------------------------------------------------------------------
(* What a slice from the start of the stream reads as.                      *)

LEMMA SliceAt ==
    ASSUME NEW f \in Seq(AnyChunk), Spells(f, 0), NEW n \in Nat
    PROVE  /\ 3 * n + 1 <= Len(f) => f[3 * n + 1] = <<n + 1, "head">>
           /\ 3 * n + 2 <= Len(f) => f[3 * n + 2] = <<n + 1, "tail">>
           /\ 3 * n + 3 <= Len(f) => f[3 * n + 3] = <<n + 1, "newline">>
<1>1. Len(f) \in Nat /\ \A k \in 1..Len(f) : f[k] = ChunkAt(k)
  BY DEF Spells
<1>2. 3 * n + 1 \in Nat /\ 3 * n + 2 \in Nat /\ 3 * n + 3 \in Nat
      /\ 3 * n + 1 > 0 /\ 3 * n + 2 > 0 /\ 3 * n + 3 > 0
  OBVIOUS
<1> QED BY <1>1, <1>2, ThreeChunks

\* Every line but a torn last one parses: q lines have begun, and the last one
\* has more than its head.
LEMMA SliceReads ==
    ASSUME NEW f \in Seq(AnyChunk), Spells(f, 0),
           NEW q \in Nat, Len(f) \in (3 * q - 1)..(3 * q)
    PROVE  ReadOk(f)
<1>1. Len(f) \in Nat /\ DOMAIN f = 1..Len(f)
  OBVIOUS
<1> SUFFICES ASSUME NEW i \in 1..Len(f)
             PROVE  ParsesAt(f, i)
  BY <1>1 DEF ReadOk
<1>2. PICK n \in Nat : i = 3 * n + 1 \/ i = 3 * n + 2 \/ i = 3 * n + 3
  <2>1. i \in Nat /\ i > 0
    BY <1>1
  <2> QED BY <2>1, PositionCases
<1>3. CASE i = 3 * n + 1
  <2>1. i < Len(f) /\ i + 1 = 3 * n + 2 /\ 3 * n + 1 <= Len(f) /\ 3 * n + 2 <= Len(f)
    BY <1>3
  <2>2. f[i] = <<n + 1, "head">> /\ f[i + 1] = <<n + 1, "tail">>
    BY <1>3, <2>1, SliceAt
  <2> QED BY <2>1, <2>2 DEF ParsesAt
<1>4. CASE i = 3 * n + 2
  <2>1. i > 1 /\ i - 1 = 3 * n + 1 /\ i + 1 = 3 * n + 3
        /\ 3 * n + 1 <= Len(f) /\ 3 * n + 2 <= Len(f)
    BY <1>4
  <2>2. f[i] = <<n + 1, "tail">> /\ f[i - 1] = <<n + 1, "head">>
    BY <1>4, <2>1, SliceAt
  <2>3. ASSUME i < Len(f)
        PROVE  f[i + 1][2] = "newline"
    <3>1. 3 * n + 3 <= Len(f)
      BY <1>4, <2>3
    <3>2. f[i + 1] = <<n + 1, "newline">>
      BY <2>1, <3>1, SliceAt
    <3> QED BY <3>2
  <2> QED BY <2>1, <2>2, <2>3 DEF ParsesAt
<1>5. CASE i = 3 * n + 3
  <2>1. 3 * n + 3 <= Len(f)
    BY <1>5
  <2>2. f[i] = <<n + 1, "newline">>
    BY <1>5, <2>1, SliceAt
  <2> QED BY <2>2 DEF ParsesAt
<1> QED BY <1>2, <1>3, <1>4, <1>5

\* The c-th chunks of the first n lines.
Column(n, c) == {3 * (k - 1) + c : k \in 1..n}

LEMMA ColumnSize ==
    ASSUME NEW n \in Nat, NEW c \in 1..3
    PROVE  IsFiniteSet(Column(n, c)) /\ Cardinality(Column(n, c)) = n
<1> DEFINE g == [k \in 1..n |-> 3 * (k - 1) + c]
<1>1. g \in [1..n -> Column(n, c)]
  BY DEF Column
<1>2. \A j, k \in 1..n : g[j] = g[k] => j = k
  OBVIOUS
<1>3. \A t \in Column(n, c) : \E k \in 1..n : g[k] = t
  BY DEF Column
<1>4. g \in Bijection(1..n, Column(n, c))
  <2> HIDE DEF g
  <2>1. DOMAIN g = 1..n
    BY <1>1
  <2> QED BY <1>1, <1>2, <1>3, <2>1 DEF Bijection, Injection, Surjection, IsInjective
<1>5. IsFiniteSet(1..n) /\ Cardinality(1..n) = n
  BY FS_Interval
<1>6. ExistsBijection(1..n, Column(n, c))
  BY <1>4 DEF ExistsBijection
<1> QED BY <1>5, <1>6, FS_Bijection

\* The positions of a kind of chunk in a slice that has n of them.
LEMMA ColumnOfSlice ==
    ASSUME NEW f \in Seq(AnyChunk), Spells(f, 0), NEW n \in Nat
    PROVE  /\ Len(f) \in (3 * n - 2)..(3 * n) => Heads(f) = Column(n, 1)
           /\ Len(f) \in (3 * n)..(3 * n + 2) =>
                {i \in DOMAIN f : f[i][2] = "newline"} = Column(n, 3)
<1>1. Len(f) \in Nat /\ DOMAIN f = 1..Len(f)
  OBVIOUS
<1>2. ASSUME NEW i \in 1..Len(f)
      PROVE  \E m \in Nat : /\ i \in {3 * m + 1, 3 * m + 2, 3 * m + 3}
                            /\ f[i][2] = "head" <=> i = 3 * m + 1
                            /\ f[i][2] = "newline" <=> i = 3 * m + 3
  <2>1. PICK m \in Nat : i = 3 * m + 1 \/ i = 3 * m + 2 \/ i = 3 * m + 3
    <3>1. i \in Nat /\ i > 0
      BY <1>1
    <3> QED BY <3>1, PositionCases
  <2>2. CASE i = 3 * m + 1
    <3>1. f[i] = <<m + 1, "head">> /\ i # 3 * m + 3
      BY <2>2, SliceAt
    <3> QED BY <2>2, <3>1
  <2>3. CASE i = 3 * m + 2
    <3>1. f[i] = <<m + 1, "tail">> /\ i # 3 * m + 3 /\ i # 3 * m + 1
      BY <2>3, SliceAt
    <3> QED BY <2>3, <3>1
  <2>4. CASE i = 3 * m + 3
    <3>1. f[i] = <<m + 1, "newline">> /\ i # 3 * m + 1
      BY <2>4, SliceAt
    <3> QED BY <2>4, <3>1
  <2> QED BY <2>1, <2>2, <2>3, <2>4
<1>3. ASSUME Len(f) \in (3 * n - 2)..(3 * n)
      PROVE  Heads(f) = Column(n, 1)
  <2>1. ASSUME NEW i \in 1..Len(f), f[i][2] = "head"
        PROVE  i \in Column(n, 1)
    <3>1. PICK m \in Nat : i = 3 * m + 1
      BY <1>2, <2>1
    <3>2. m + 1 \in 1..n /\ i = 3 * ((m + 1) - 1) + 1
      BY <1>3, <3>1
    <3> QED BY <3>2 DEF Column
  <2>2. ASSUME NEW k \in 1..n
        PROVE  /\ 3 * (k - 1) + 1 \in 1..Len(f)
               /\ f[3 * (k - 1) + 1][2] = "head"
    <3>1. k - 1 \in Nat /\ 3 * (k - 1) + 1 <= Len(f) /\ 3 * (k - 1) + 1 \in 1..Len(f)
      BY <1>1, <1>3
    <3>2. f[3 * (k - 1) + 1] = <<k - 1 + 1, "head">>
      BY <3>1, SliceAt
    <3> QED BY <3>1, <3>2
  <2> QED BY <1>1, <2>1, <2>2 DEF Heads, Column
<1>4. ASSUME Len(f) \in (3 * n)..(3 * n + 2)
      PROVE  {i \in DOMAIN f : f[i][2] = "newline"} = Column(n, 3)
  <2>1. ASSUME NEW i \in 1..Len(f), f[i][2] = "newline"
        PROVE  i \in Column(n, 3)
    <3>1. PICK m \in Nat : i = 3 * m + 3
      BY <1>2, <2>1
    <3>2. m + 1 \in 1..n /\ i = 3 * ((m + 1) - 1) + 3
      BY <1>4, <3>1
    <3> QED BY <3>2 DEF Column
  <2>2. ASSUME NEW k \in 1..n
        PROVE  /\ 3 * (k - 1) + 3 \in 1..Len(f)
               /\ f[3 * (k - 1) + 3][2] = "newline"
    <3>1. k - 1 \in Nat /\ 3 * (k - 1) + 3 <= Len(f) /\ 3 * (k - 1) + 3 \in 1..Len(f)
      BY <1>1, <1>4
    <3>2. f[3 * (k - 1) + 3] = <<k - 1 + 1, "newline">>
      BY <3>1, SliceAt
    <3> QED BY <3>1, <3>2
  <2> QED BY <1>1, <2>1, <2>2 DEF Column
<1> QED BY <1>3, <1>4

\* If n lines have begun, the first n events are read, in order.
LEMMA SliceEvents ==
    ASSUME NEW f \in Seq(AnyChunk), Spells(f, 0),
           NEW n \in Nat, Len(f) \in (3 * n - 2)..(3 * n)
    PROVE  ReadEvents(f) = UpTo(n)
<1>1. Len(f) \in Nat
  OBVIOUS
<1>2. Heads(f) = Column(n, 1)
  BY ColumnOfSlice
<1>3. Cardinality(Heads(f)) = n
  BY <1>2, ColumnSize
<1>4. ASSUME NEW k \in 1..n
      PROVE  /\ 3 * (k - 1) + 1 \in Heads(f)
             /\ Cardinality({j \in Heads(f) : j <= 3 * (k - 1) + 1}) = k
  <2>1. {j \in Heads(f) : j <= 3 * (k - 1) + 1} = Column(k, 1)
    BY <1>2 DEF Column
  <2>2. Cardinality(Column(k, 1)) = k
    BY ColumnSize
  <2>3. 3 * (k - 1) + 1 \in Column(n, 1)
    BY DEF Column
  <2> QED BY <1>2, <2>1, <2>2, <2>3
<1>5. ASSUME NEW k \in 1..n
      PROVE  f[LineStart(f, k)][1] = k
  <2>1. /\ LineStart(f, k) \in Heads(f)
        /\ Cardinality({j \in Heads(f) : j <= LineStart(f, k)}) = k
    BY <1>4 DEF LineStart
  <2>2. PICK m \in 1..n : LineStart(f, k) = 3 * (m - 1) + 1
    BY <1>2, <2>1 DEF Column
  <2>3. m = k
    BY <1>4, <2>1, <2>2
  <2>4. k - 1 \in Nat /\ 3 * (k - 1) + 1 <= Len(f)
    BY <1>1
  <2>5. f[3 * (k - 1) + 1] = <<k - 1 + 1, "head">>
    BY <2>4, SliceAt
  <2>6. k - 1 + 1 = k
    OBVIOUS
  <2> QED BY <2>2, <2>3, <2>5, <2>6
<1> QED BY <1>3, <1>5 DEF ReadEvents, UpTo

----------------------------------------------------------------------------
(* What the writer owes *)

LEMMA LinesAt ==
    ASSUME NEW events \in Seq(Nat)
    PROVE  /\ Lines(events) \in Seq(AnyChunk) /\ Len(Lines(events)) = 3 * Len(events)
           /\ \A n \in Nat : n + 1 <= Len(events) =>
                /\ Lines(events)[3 * n + 1] = <<events[n + 1], "head">>
                /\ Lines(events)[3 * n + 2] = <<events[n + 1], "tail">>
                /\ Lines(events)[3 * n + 3] = <<events[n + 1], "newline">>
<1> DEFINE At(k) == Line(events[(k + 2) \div 3])[((k + 2) % 3) + 1]
<1>1. Len(events) \in Nat /\ Lines(events) = [k \in 1..(3 * Len(events)) |-> At(k)]
  BY DEF Lines
<1>2. ASSUME NEW n \in Nat, n + 1 <= Len(events)
      PROVE  /\ At(3 * n + 1) = <<events[n + 1], "head">>
             /\ At(3 * n + 2) = <<events[n + 1], "tail">>
             /\ At(3 * n + 3) = <<events[n + 1], "newline">>
  <2>1. /\ (3 * n + 1 + 2) \div 3 = n + 1 /\ (3 * n + 1 + 2) % 3 = 0
        /\ (3 * n + 2 + 2) \div 3 = n + 1 /\ (3 * n + 2 + 2) % 3 = 1
        /\ (3 * n + 3 + 2) \div 3 = n + 1 /\ (3 * n + 3 + 2) % 3 = 2
    OBVIOUS
  <2> QED BY <2>1 DEF Line
<1> HIDE DEF At
<1>3. ASSUME NEW k \in 1..(3 * Len(events))
      PROVE  At(k) \in AnyChunk
  <2>1. PICK n \in Nat : k = 3 * n + 1 \/ k = 3 * n + 2 \/ k = 3 * n + 3
    <3>1. k \in Nat /\ k > 0
      BY <1>1
    <3> QED BY <3>1, PositionCases
  <2>2. n + 1 \in 1..Len(events) /\ n + 1 <= Len(events)
    BY <1>1, <2>1
  <2>3. \A kind \in {"head", "tail", "newline"} : <<events[n + 1], kind>> \in AnyChunk
    BY <2>2 DEF AnyChunk
  <2>4. /\ At(3 * n + 1) \in AnyChunk
        /\ At(3 * n + 2) \in AnyChunk
        /\ At(3 * n + 3) \in AnyChunk
    BY <1>2, <2>2, <2>3
  <2> QED BY <2>1, <2>4
<1>4. Lines(events) \in Seq(AnyChunk) /\ Len(Lines(events)) = 3 * Len(events)
  BY <1>1, <1>3
<1>5. ASSUME NEW n \in Nat, n + 1 <= Len(events)
      PROVE  /\ Lines(events)[3 * n + 1] = <<events[n + 1], "head">>
             /\ Lines(events)[3 * n + 2] = <<events[n + 1], "tail">>
             /\ Lines(events)[3 * n + 3] = <<events[n + 1], "newline">>
  <2>1. /\ 3 * n + 1 \in 1..(3 * Len(events))
        /\ 3 * n + 2 \in 1..(3 * Len(events))
        /\ 3 * n + 3 \in 1..(3 * Len(events))
    BY <1>1, <1>5
  <2> QED BY <1>1, <1>2, <1>5, <2>1
<1> QED BY <1>4, <1>5

\* Consecutive events make a slice.
LEMMA LinesSpell ==
    ASSUME NEW events \in Seq(Nat), NEW m \in Nat,
           \A k \in 1..Len(events) : events[k] = m + k
    PROVE  Spells(Lines(events), 3 * m)
<1>1. Len(events) \in Nat /\ Len(Lines(events)) = 3 * Len(events)
  BY LinesAt
<1> SUFFICES ASSUME NEW k \in 1..(3 * Len(events))
             PROVE  Lines(events)[k] = ChunkAt(3 * m + k)
  BY <1>1 DEF Spells
<1>2. PICK n \in Nat : k = 3 * n + 1 \/ k = 3 * n + 2 \/ k = 3 * n + 3
  <2>1. k \in Nat /\ k > 0
    BY <1>1
  <2> QED BY <2>1, PositionCases
<1>3. n + 1 \in 1..Len(events) /\ n + 1 <= Len(events) /\ m + n \in Nat
  BY <1>1, <1>2
<1>4. events[n + 1] = m + n + 1
  BY <1>3
<1>5. CASE k = 3 * n + 1
  <2>1. 3 * m + k = 3 * (m + n) + 1
    BY <1>5
  <2> QED BY <1>3, <1>4, <1>5, <2>1, LinesAt, ThreeChunks
<1>6. CASE k = 3 * n + 2
  <2>1. 3 * m + k = 3 * (m + n) + 2
    BY <1>6
  <2> QED BY <1>3, <1>4, <1>6, <2>1, LinesAt, ThreeChunks
<1>7. CASE k = 3 * n + 3
  <2>1. 3 * m + k = 3 * (m + n) + 3
    BY <1>7
  <2> QED BY <1>3, <1>4, <1>7, <2>1, LinesAt, ThreeChunks
<1> QED BY <1>2, <1>5, <1>6, <1>7

LEMMA UpToLines ==
    ASSUME NEW n \in Nat
    PROVE  /\ UpTo(n) \in Seq(Nat) /\ Len(UpTo(n)) = n
           /\ Lines(UpTo(n)) \in Seq(AnyChunk) /\ Len(Lines(UpTo(n))) = 3 * n
           /\ Spells(Lines(UpTo(n)), 0)
<1>1. UpTo(n) \in Seq(Nat) /\ Len(UpTo(n)) = n /\ \A k \in 1..n : UpTo(n)[k] = 0 + k
  BY DEF UpTo
<1>2. Spells(Lines(UpTo(n)), 3 * 0)
  BY <1>1, LinesSpell
<1> QED BY <1>1, <1>2, LinesAt

LEMMA NothingLostFollows == ASSUME WInv PROVE NothingLost
<1> SUFFICES ASSUME wpc \in Running
             PROVE  file \o buf \o todo \o Lines(queue) = Lines(UpTo(accepted))
  BY DEF NothingLost
<1>1. /\ accepted \in Nat /\ Len(file) \in Nat /\ Len(buf) \in Nat /\ Len(todo) \in Nat /\ Len(queue) \in Nat
      /\ file \in Seq(AnyChunk) /\ buf \in Seq(AnyChunk) /\ todo \in Seq(AnyChunk) /\ queue \in Seq(Nat)
  BY WriterAssumption DEF WInv, WriterTypes
<1>2. Len(file) + Len(buf) + Len(todo) + 3 * Len(queue) = 3 * accepted
  BY DEF WInv, Tally
<1>3. Lines(queue) \in Seq(AnyChunk) /\ Len(Lines(queue)) = 3 * Len(queue)
      /\ Spells(Lines(queue), Len(file) + Len(buf) + Len(todo))
  <2>1. accepted - Len(queue) \in Nat
        /\ 3 * (accepted - Len(queue)) = Len(file) + Len(buf) + Len(todo)
    <3>1. /\ accepted \in Nat /\ Len(file) \in Nat /\ Len(buf) \in Nat
          /\ Len(todo) \in Nat /\ Len(queue) \in Nat
      BY <1>1
    <3> QED BY <1>2, <3>1
  <2>2. \A k \in 1..Len(queue) : queue[k] = (accepted - Len(queue)) + k
    BY DEF WInv, Slices
  <2> QED BY <1>1, <2>1, <2>2, LinesAt, LinesSpell
<1>4. /\ file \o buf \in Seq(AnyChunk) /\ Len(file \o buf) = Len(file) + Len(buf)
      /\ Spells(file \o buf, 0)
  <2>1. Spells(file, 0) /\ Spells(buf, 0 + Len(file))
    BY <1>1 DEF WInv, Slices
  <2> QED BY <1>1, <2>1, SpellsCat
<1>5. /\ file \o buf \o todo \in Seq(AnyChunk)
      /\ Len(file \o buf \o todo) = Len(file) + Len(buf) + Len(todo)
      /\ Spells(file \o buf \o todo, 0)
  <2>1. Spells(todo, 0 + Len(file \o buf))
    BY <1>1, <1>4 DEF WInv, Slices
  <2>2. /\ Len(file \o buf \o todo) = Len(file \o buf) + Len(todo)
        /\ Spells(file \o buf \o todo, 0)
    BY <1>1, <1>4, <2>1, SpellsCat
  <2>3. file \o buf \o todo \in Seq(AnyChunk)
    BY <1>1, <1>4
  <2> QED BY <1>4, <2>2, <2>3
<1>6. /\ file \o buf \o todo \o Lines(queue) \in Seq(AnyChunk)
      /\ Len(file \o buf \o todo \o Lines(queue)) = 3 * accepted
      /\ Spells(file \o buf \o todo \o Lines(queue), 0)
  <2>1. Spells(Lines(queue), 0 + Len(file \o buf \o todo))
    BY <1>1, <1>3, <1>5
  <2>2. /\ Len(file \o buf \o todo \o Lines(queue)) = Len(file \o buf \o todo) + Len(Lines(queue))
        /\ Spells(file \o buf \o todo \o Lines(queue), 0)
    BY <1>3, <1>5, <2>1, SpellsCat
  <2> QED BY <1>2, <1>3, <1>5, <2>2
<1>7. ASSUME NEW s \in Seq(AnyChunk), NEW t \in Seq(AnyChunk),
             Len(s) = Len(t), Spells(s, 0), Spells(t, 0)
      PROVE  s = t
  BY <1>7 DEF Spells
<1> QED BY <1>1, <1>6, <1>7, UpToLines

LEMMA FileFacts ==
    ASSUME WInv
    PROVE  /\ accepted \in Nat /\ Len(file) \in Nat /\ file \in Seq(AnyChunk)
           /\ Spells(file, 0) /\ Len(file) <= 3 * accepted
<1>1. /\ accepted \in Nat /\ Len(file) \in Nat /\ Len(buf) \in Nat
      /\ Len(todo) \in Nat /\ Len(queue) \in Nat
  BY WriterAssumption DEF WInv, WriterTypes
<1>2. Len(file) + Len(buf) + Len(todo) + 3 * Len(queue) <= 3 * accepted
  BY DEF WInv, Tally
<1>3. Len(file) <= 3 * accepted
  BY <1>1, <1>2
<1> QED BY <1>1, <1>3 DEF WInv, WriterTypes, Slices

\* Some number of lines has begun in the file; that many events are read back.
LEMMA FileReadsBack ==
    ASSUME WInv
    PROVE  \E q \in 0..accepted : /\ Len(file) \in (3 * q - 2)..(3 * q)
                                  /\ ReadEvents(file) = UpTo(q)
<1>1. /\ accepted \in Nat /\ Len(file) \in Nat /\ file \in Seq(AnyChunk)
      /\ Spells(file, 0) /\ Len(file) <= 3 * accepted
  BY FileFacts
<1>2. PICK q \in Nat : Len(file) \in (3 * q - 2)..(3 * q)
  <2>1. CASE Len(file) = 0
    <3>1. Len(file) \in (3 * 0 - 2)..(3 * 0)
      BY <2>1
    <3> QED BY <3>1
  <2>2. CASE Len(file) > 0
    <3>1. PICK n \in Nat : Len(file) = 3 * n + 1 \/ Len(file) = 3 * n + 2 \/ Len(file) = 3 * n + 3
      BY <1>1, <2>2, PositionCases
    <3>2. n + 1 \in Nat /\ Len(file) \in (3 * (n + 1) - 2)..(3 * (n + 1))
      BY <3>1
    <3> QED BY <3>2
  <2> QED BY <1>1, <2>1, <2>2
<1>3. ReadEvents(file) = UpTo(q)
  BY <1>1, <1>2, SliceEvents
<1>4. q \in 0..accepted
  BY <1>1, <1>2
<1> QED BY <1>2, <1>3, <1>4

LEMMA FileIsPrefixFollows == ASSUME WInv PROVE FileIsPrefix
<1>1. /\ accepted \in Nat /\ Len(file) \in Nat /\ file \in Seq(AnyChunk)
      /\ Spells(file, 0) /\ Len(file) <= 3 * accepted
  BY FileFacts
<1>2. PICK q \in 0..accepted : /\ Len(file) \in (3 * q - 2)..(3 * q)
                               /\ ReadEvents(file) = UpTo(q)
  BY FileReadsBack
<1>3. IsPrefix(file, Lines(UpTo(accepted)))
  <2>1. /\ Lines(UpTo(accepted)) \in Seq(AnyChunk)
        /\ Len(Lines(UpTo(accepted))) = 3 * accepted
        /\ \A k \in 1..(3 * accepted) : Lines(UpTo(accepted))[k] = ChunkAt(0 + k)
    BY <1>1, UpToLines DEF Spells
  <2>2. \A k \in 1..Len(file) : k \in 1..(3 * accepted) /\ file[k] = Lines(UpTo(accepted))[k]
    BY <1>1, <2>1 DEF Spells
  <2> QED BY <1>1, <2>1, <2>2 DEF IsPrefix
<1>4. \E n \in {0, 1} : n <= Len(file) /\ ReadOk(SubSeq(file, 1, Len(file) - n))
  <2>1. ASSUME NEW n \in {0, 1}, n <= Len(file), Len(file) - n \in (3 * q - 1)..(3 * q)
        PROVE  ReadOk(SubSeq(file, 1, Len(file) - n))
    <3>1. Len(file) - n \in 0..Len(file)
      BY <1>1, <2>1
    <3>2. /\ SubSeq(file, 1, Len(file) - n) \in Seq(AnyChunk)
          /\ Len(SubSeq(file, 1, Len(file) - n)) = Len(file) - n
          /\ Spells(SubSeq(file, 1, Len(file) - n), 0)
      BY <1>1, <3>1, SpellsCut
    <3>3. q \in Nat
      BY <1>1
    <3> QED BY <2>1, <3>2, <3>3, SliceReads
  <2>2. CASE Len(file) = 3 * q - 2
    <3>1. q - 1 \in Nat /\ Len(file) - 1 = 3 * (q - 1) /\ 1 <= Len(file)
      BY <1>1, <2>2
    <3>2. Len(file) - 1 \in 0..Len(file)
      BY <1>1, <3>1
    <3>3. /\ SubSeq(file, 1, Len(file) - 1) \in Seq(AnyChunk)
          /\ Len(SubSeq(file, 1, Len(file) - 1)) = Len(file) - 1
          /\ Spells(SubSeq(file, 1, Len(file) - 1), 0)
      BY <1>1, <3>2, SpellsCut
    <3>4. Len(SubSeq(file, 1, Len(file) - 1)) \in (3 * (q - 1) - 1)..(3 * (q - 1))
      BY <3>1, <3>3
    <3>5. ReadOk(SubSeq(file, 1, Len(file) - 1))
      BY <3>1, <3>3, <3>4, SliceReads
    <3> QED BY <3>1, <3>5
  <2>3. CASE Len(file) # 3 * q - 2
    <3>1. Len(file) - 0 \in (3 * q - 1)..(3 * q) /\ 0 <= Len(file)
      BY <1>1, <1>2, <2>3
    <3> QED BY <2>1, <3>1
  <2> QED BY <2>2, <2>3
<1>5. IsPrefix(ReadEvents(file), UpTo(accepted))
  <2>1. q \in Nat /\ q <= accepted /\ ReadEvents(file) = UpTo(q)
    BY <1>1, <1>2
  <2> QED BY <1>1, <2>1 DEF IsPrefix, UpTo
<1> QED BY <1>3, <1>4, <1>5 DEF FileIsPrefix

LEMMA OkIsCompleteFollows == ASSUME WInv PROVE OkIsComplete
<1> SUFFICES ASSUME wpc = "ok"
             PROVE  ~open /\ ReadOk(file) /\ ReadEvents(file) = UpTo(accepted) /\ written = accepted
  BY DEF OkIsComplete
<1>1. accepted \in Nat /\ written \in Nat /\ file \in Seq(AnyChunk) /\ Spells(file, 0)
  BY WriterAssumption DEF WInv, WriterTypes, Slices
<1>2. ~open /\ buf = <<>> /\ todo = <<>> /\ queue = <<>>
  BY DEF WInv, Phases, Ended
<1>3. Len(file) = 3 * accepted /\ Len(file) = 3 * written
  <2>1. /\ Len(file) + Len(buf) + Len(todo) + 3 * Len(queue) = 3 * accepted
        /\ Len(file) + Len(buf) = 3 * written
    BY DEF WInv, Tally
  <2>2. Len(buf) = 0 /\ Len(todo) = 0 /\ Len(queue) = 0 /\ Len(file) \in Nat
    BY <1>1, <1>2
  <2> QED BY <1>1, <2>1, <2>2
<1>4. /\ Len(file) \in (3 * accepted - 1)..(3 * accepted)
      /\ Len(file) \in (3 * accepted - 2)..(3 * accepted)
  BY <1>1, <1>3
<1>5. written = accepted
  BY <1>1, <1>3
<1> QED BY <1>1, <1>2, <1>4, <1>5, SliceReads, SliceEvents

LEMMA IdleIsFlushedFollows == ASSUME WInv PROVE IdleIsFlushed
<1> SUFFICES ASSUME wpc = "recv"
             PROVE  buf = <<>> /\ Len(file) = 3 * written
  BY DEF IdleIsFlushed
<1>1. buf = <<>> /\ Len(buf) = 0 /\ Len(file) \in Nat
  BY DEF WInv, Phases, WriterTypes
<1>2. Len(file) + Len(buf) = 3 * written
  BY DEF WInv, Tally
<1> QED BY <1>1, <1>2

LEMMA Retyped ==
    ASSUME NEW S, NEW s \in Seq(S), NEW T, \A k \in 1..Len(s) : s[k] \in T
    PROVE  s \in Seq(T)
OBVIOUS

LEMMA TypeOKFollows == ASSUME WInv PROVE TypeOK
<1>1. /\ accepted \in 0..MaxEvents /\ accepted \in Nat /\ open \in BOOLEAN
      /\ queue \in Seq(Nat) /\ todo \in Seq(AnyChunk) /\ buf \in Seq(AnyChunk)
      /\ file \in Seq(AnyChunk) /\ written \in 0..MaxEvents /\ wpc \in Running \cup Ended
  BY WriterAssumption DEF WInv, WriterTypes
<1>2. /\ Len(file) \in Nat /\ Len(buf) \in Nat /\ Len(todo) \in Nat /\ Len(queue) \in Nat
  BY <1>1
<1>3. Len(file) + Len(buf) + Len(todo) + 3 * Len(queue) <= 3 * accepted
  BY DEF WInv, Tally
<1>4. ASSUME NEW s \in Seq(AnyChunk), NEW n \in Nat, Spells(s, n), n + Len(s) <= 3 * accepted
      PROVE  s \in Seq(Chunk)
  <2>1. ASSUME NEW k \in 1..Len(s)
        PROVE  s[k] \in Chunk
    <3>1. n + k \in Nat /\ n + k > 0 /\ n + k <= 3 * accepted /\ s[k] = ChunkAt(n + k)
      BY <1>1, <1>4 DEF Spells
    <3>2. ChunkAt(n + k) \in (1..accepted) \X {"head", "tail", "newline"}
      BY <1>1, <3>1, ChunkType
    <3>3. 1..accepted \subseteq 1..MaxEvents
      BY <1>1, WriterAssumption
    <3> QED BY <3>1, <3>2, <3>3 DEF Chunk
  <2> QED BY <2>1
<1>5. file \in Seq(Chunk)
  <2>1. 0 + Len(file) <= 3 * accepted
    BY <1>1, <1>2, <1>3
  <2> QED BY <1>1, <1>4, <2>1 DEF WInv, Slices
<1>6. buf \in Seq(Chunk)
  <2>1. Len(file) + Len(buf) <= 3 * accepted
    BY <1>1, <1>2, <1>3
  <2> QED BY <1>1, <1>2, <1>4, <2>1 DEF WInv, Slices
<1>7. todo \in Seq(Chunk)
  <2>1. Len(file) + Len(buf) + Len(todo) <= 3 * accepted /\ Len(file) + Len(buf) \in Nat
    BY <1>1, <1>2, <1>3
  <2> QED BY <1>1, <1>2, <1>4, <2>1 DEF WInv, Slices
<1>8. queue \in Seq(1..MaxEvents)
  <2>1. Len(queue) <= accepted
    BY <1>1, <1>2, <1>3
  <2>2. ASSUME NEW k \in 1..Len(queue)
        PROVE  queue[k] \in 1..MaxEvents
    <3>1. queue[k] = accepted - Len(queue) + k
      BY DEF WInv, Slices
    <3> QED BY <1>1, <1>2, <2>1, <3>1, WriterAssumption
  <2> QED BY <1>1, <2>2, Retyped
<1> QED BY <1>1, <1>5, <1>6, <1>7, <1>8 DEF TypeOK

\* TypeOK: the types, and the bound on what is accepted.
THEOREM WriterTypeCorrect == Spec => []TypeOK
<1> QED BY WriterInvariant, TypeOKFollows, PTL

\* NothingLost: while the writer runs, file, buffer, the rest of the line and
\* the queue spell the accepted events.
THEOREM NothingLostHolds == Spec => []NothingLost
<1> QED BY WriterInvariant, NothingLostFollows, PTL

\* FileIsPrefix: whatever fails, the file holds the first events in order, and
\* no line but the last can be torn.
THEOREM FileIsPrefixHolds == Spec => []FileIsPrefix
<1> QED BY WriterInvariant, FileIsPrefixFollows, PTL

\* OkIsComplete: Ok(written) means that every accepted event is in the file.
THEOREM OkIsCompleteHolds == Spec => []OkIsComplete
<1> QED BY WriterInvariant, OkIsCompleteFollows, PTL

\* IdleIsFlushed: a writer that waits for events has flushed what it took.
THEOREM IdleIsFlushedHolds == Spec => []IdleIsFlushed
<1> QED BY WriterInvariant, IdleIsFlushedFollows, PTL

----------------------------------------------------------------------------
(* The refinement of DurableLog.  The whole lines in the file are counted by *)
(* their newlines; a slice from the start has one for every three chunks.    *)

LEMMA StoredCounts ==
    ASSUME NEW f \in Seq(AnyChunk), Spells(f, 0)
    PROVE  LET n == Cardinality({i \in DOMAIN f : f[i][2] = "newline"})
           IN  n \in Nat /\ Len(f) \in (3 * n)..(3 * n + 2)
<1>1. PICK n \in Nat : Len(f) \in (3 * n)..(3 * n + 2)
  <2>1. Len(f) \in Nat
    OBVIOUS
  <2>2. Len(f) \div 3 \in Nat /\ Len(f) % 3 \in 0..2
        /\ Len(f) = 3 * (Len(f) \div 3) + (Len(f) % 3)
    BY <2>1
  <2>3. Len(f) \in (3 * (Len(f) \div 3))..(3 * (Len(f) \div 3) + 2)
    BY <2>2
  <2> QED BY <2>2, <2>3
<1>2. {i \in DOMAIN f : f[i][2] = "newline"} = Column(n, 3)
  BY <1>1, ColumnOfSlice
<1>3. Cardinality({i \in DOMAIN f : f[i][2] = "newline"}) = n
  <2>1. 3 \in 1..3
    OBVIOUS
  <2>2. Cardinality(Column(n, 3)) = n
    BY <2>1, ColumnSize
  <2> QED BY <1>2, <2>2
<1> QED BY <1>1, <1>3

LEMMA StoredOfFile ==
    ASSUME WInv
    PROVE  Stored \in Nat /\ Len(file) \in (3 * Stored)..(3 * Stored + 2)
<1>1. file \in Seq(AnyChunk) /\ Spells(file, 0)
  BY DEF WInv, WriterTypes, Slices
<1> QED BY <1>1, StoredCounts DEF Stored

LEMMA DurableInit == Init => Store!Init
<1> SUFFICES ASSUME Init PROVE Store!Init
  OBVIOUS
<1>1. WInv /\ Len(file) = 0
  BY WInvInit DEF Init
<1>2. Stored = 0
  BY <1>1, StoredOfFile
<1> QED BY <1>2 DEF Init, Store!Init, Running

LEMMA DurableStep == ASSUME WInv, [Next]_vars PROVE [Store!Next]_(Store!vars)
<1> USE DEF channelVars
<1>1. WInv'
  BY WInvStep
<1>2. /\ Stored \in Nat /\ Stored' \in Nat /\ accepted \in Nat
      /\ Len(file) \in (3 * Stored)..(3 * Stored + 2)
      /\ Len(file') \in (3 * Stored')..(3 * Stored' + 2)
      /\ Len(file) \in Nat /\ Len(buf) \in Nat /\ Len(todo) \in Nat /\ Len(queue) \in Nat
  <2>1. Stored' \in Nat /\ Len(file') \in (3 * Stored')..(3 * Stored' + 2)
    <3>1. file' \in Seq(AnyChunk) /\ Spells(file', 0)
      BY <1>1 DEF WInv, WriterTypes, Slices
    <3> QED BY <3>1, StoredCounts DEF Stored
  <2> QED BY <2>1, StoredOfFile, WriterAssumption DEF WInv, WriterTypes
<1>3. Len(file) + Len(buf) + Len(todo) + 3 * Len(queue) <= 3 * accepted
  BY DEF WInv, Tally
<1>4. ASSUME UNCHANGED file
      PROVE  UNCHANGED Stored
  BY <1>4 DEF Stored
<1>5. ASSUME NEW n \in 0..Len(buf), file' = file \o SubSeq(buf, 1, n), UNCHANGED accepted
      PROVE  Stored' \in Stored..accepted
  <2>1. Len(SubSeq(buf, 1, n)) = n /\ SubSeq(buf, 1, n) \in Seq(AnyChunk)
    <3>1. buf \in Seq(AnyChunk) /\ Spells(buf, Len(file))
      BY DEF WInv, WriterTypes, Slices
    <3> QED BY <1>2, <3>1, SpellsCut
  <2>2. Len(file') = Len(file) + n
    <3>1. file \in Seq(AnyChunk)
      BY DEF WInv, WriterTypes
    <3> QED BY <1>5, <2>1, <3>1
  <2> QED BY <1>2, <1>3, <2>2
<1>6. CASE Produce
  BY <1>4, <1>6 DEF Produce, Store!Next, Store!Accept
<1>7. CASE Close
  BY <1>4, <1>7 DEF Close, Store!Next, Store!Close
<1>8. CASE Recv \/ Finish \/ WriteChunk \/ Spill \/ Drain \/ Drained
  <2>1. UNCHANGED <<accepted, open, file>> /\ wpc \in Running /\ wpc' \in Running
    BY <1>8 DEF Recv, Drain, Take, Finish, WriteChunk, Spill, Drained, Running, Flushing
  <2> QED BY <1>4, <2>1 DEF Store!vars
<1>9. CASE WriteOut
  <2>1. UNCHANGED <<accepted, open, wpc>> /\ wpc \in Running
    BY <1>9 DEF WriteOut, Running
  <2>2. Stored' \in Stored..accepted
    <3>1. PICK n \in 1..Len(buf) : file' = file \o SubSeq(buf, 1, n)
      BY <1>9 DEF WriteOut
    <3>2. n \in 0..Len(buf)
      BY <1>2
    <3> QED BY <1>5, <2>1, <3>1, <3>2
  <2>3. CASE Stored' = Stored
    BY <2>1, <2>3 DEF Store!vars
  <2>4. CASE Stored' # Stored
    <3>1. Stored < accepted /\ Stored' \in (Stored + 1)..accepted
      BY <1>2, <2>2, <2>4
    <3> QED BY <2>1, <3>1 DEF Store!Next, Store!Store
  <2> QED BY <2>3, <2>4
<1>10. CASE Flushed
  <2>1. UNCHANGED <<accepted, open, file>> /\ wpc \in Flushing /\ buf = <<>>
    BY <1>10 DEF Flushed
  <2>2. CASE wpc # "finalFlush"
    <3>1. wpc \in Running /\ wpc' \in Running
      BY <1>10, <2>2 DEF Flushed, AfterFlush, Running, Flushing
    <3> QED BY <1>4, <2>1, <3>1 DEF Store!vars
  <2>3. CASE wpc = "finalFlush"
    <3>1. wpc' = "ok" /\ ~open /\ queue = <<>> /\ todo = <<>> /\ wpc \in Running /\ "ok" \notin Running
      BY <1>10, <2>3 DEF Flushed, AfterFlush, WInv, Phases, Tally, Running, Flushing
    <3>2. Stored = accepted
      <4>1. Len(file) + Len(buf) + Len(todo) + 3 * Len(queue) = 3 * accepted
        BY <3>1 DEF WInv, Tally
      <4>2. Len(buf) = 0 /\ Len(todo) = 0 /\ Len(queue) = 0
        BY <2>1, <3>1
      <4> QED BY <1>2, <4>1, <4>2
    <3> QED BY <1>4, <2>1, <3>1, <3>2 DEF Store!Next, Store!Succeed
  <2> QED BY <2>2, <2>3
<1>11. CASE Fail
  <2>1. UNCHANGED <<accepted, open>> /\ wpc \in Running /\ wpc' = "failed" /\ "failed" \notin Running
    BY <1>11 DEF Fail, Running, Flushing
  <2>2. Stored' \in Stored..accepted
    <3>1. PICK n \in 0..Len(buf) : file' = file \o SubSeq(buf, 1, n)
      BY <1>11 DEF Fail
    <3> QED BY <1>5, <2>1, <3>1
  <2> QED BY <2>1, <2>2 DEF Store!Next, Store!Fail
<1>12. CASE Crash
  <2>1. /\ UNCHANGED <<accepted, open, file>> /\ wpc \in Running /\ wpc' = "crashed"
        /\ "crashed" \notin Running
    BY <1>12 DEF Crash, Running, Flushing
  <2> QED BY <1>4, <2>1 DEF Store!Next, Store!Crash
<1>13. CASE UNCHANGED vars
  BY <1>4, <1>13 DEF vars, Store!vars
<1> QED
  BY <1>6, <1>7, <1>8, <1>9, <1>10, <1>11, <1>12, <1>13 DEF Next, Writer, Done

\* Every step of the writer is a step of the append-only store or invisible to it.
THEOREM RefinesDurableLog == Spec => Store!Init /\ [][Store!Next]_(Store!vars)
<1> QED BY WriterInvariant, DurableInit, DurableStep, PTL DEF Spec
=============================================================================
