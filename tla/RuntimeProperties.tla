-------------------------- MODULE RuntimeProperties --------------------------
(***************************************************************************)
(* What ActorRuntime promises: its accounting of messages in flight, its   *)
(* shutdown, and the causal log it records.                                *)
(***************************************************************************)
EXTENDS ActorRuntime, Poset

(***************************************************************************)
(* The messages really in flight, as tokens: those queued, those in the    *)
(* hands of a handler, and those a sender has counted and not yet          *)
(* delivered or taken back.                                                *)
(***************************************************************************)
Queued    == UNION {{<<"queued", a, i>> : i \in DOMAIN mailbox[a]} : a \in Actor}
InHand    == {<<"handled", a, 0>> : a \in {b \in Actor : handling[b]}}
Delivering(n) == IF n = World THEN mpc = "deliver" ELSE pc[n] \in {"deliver", "undo"}
InTransit == {<<"sent", n, 0>> : n \in {m \in Node : Delivering(m)}}

Outstanding == Queued \cup InHand \cup InTransit

TaskTypes ==
    /\ clock \in [Actor -> VClock]
    /\ lamport \in [Actor -> Nat]
    /\ seq \in [Actor -> Nat]
    /\ pc \in [Actor -> ActorPc]
    /\ handling \in [Actor -> BOOLEAN]

MessageTypes ==
    /\ out \in [Node -> Envelope \cup {None}]
    /\ mailbox \in [Actor -> Seq(Envelope)]
    /\ msgId \in Nat
    /\ recorded \in Seq(Event)

ControlTypes ==
    /\ permit \in BOOLEAN
    /\ writerUp \in BOOLEAN
    /\ mpc \in MainPc
    /\ aborted \subseteq Actor
    /\ origins \in Nat

TypeOK == TaskTypes /\ MessageTypes /\ ControlTypes /\ inFlight \in Nat

----------------------------------------------------------------------------
(* Accounting and shutdown *)

\* The counter never falls below the messages really in flight, so the main
\* task cannot see a transient zero: the promise of counting before delivery
\* (dispatch.rs).  It holds even when actors panic or are cancelled.
NeverUndercounts == inFlight >= Cardinality(Outstanding)

\* While no task has been dropped, the counter is exact: every path through
\* send, handle and the mistyped message returns what it took.
ExactWhileAlive ==
    (\A a \in Actor : ~Gone(a)) => inFlight = Cardinality(Outstanding)

\* Whoever is waiting for quiescence will be told: when the counter is zero
\* and the main task waits, a permit is stored for it or a notify_one is due.
\* The counter is tested and waited for in two steps, and decremented and
\* notified in two more; this is what makes their interleavings harmless.
NoLostWakeup ==
    inFlight = 0 =>
      LET due == \E a \in Actor : pc[a] \in {"notifyDone", "notifyUndo"}
      IN  /\ mpc = "await" => permit \/ due
          /\ mpc = "parked" => due

\* "Drive to quiescence (no messages in flight), then shut down cleanly": once
\* the main task has left its loop, no message is queued, handled or sent.
QuiescentShutdown == mpc \in Down => Outstanding = {}

\* When run_until_quiescent returns, every message of the log was received.
DeliveredWhenClosed ==
    mpc = "closed" =>
      \A i \in DOMAIN recorded : IsEmit(recorded[i]) =>
        \E j \in DOMAIN recorded : /\ IsRecv(recorded[j])
                                   /\ recorded[j].msg_id = recorded[i].msg_id
                                   /\ recorded[j].dst = recorded[i].dst

\* The tasks are joined before the event channel is closed, so nothing is
\* recorded once the writer has seen the end of the channel, and a task that
\* is gone never runs again.
ClosedIsFinal ==
    [][ /\ mpc = "closed" => recorded' = recorded /\ mpc' = mpc
        /\ \A a \in Actor : Gone(a) => pc'[a] = pc[a] /\ seq'[a] = seq[a] ]_vars

\* An envelope leaves its sender's hands in one of two ways: into a mailbox,
\* or off the counter again ("this message will never be handled, so undo the
\* in-flight increment to preserve quiescence accounting").
SettlesUp(n) ==
    out[n] # None /\ out'[n] = None =>
      \/ \E a \in Actor : Len(mailbox'[a]) > Len(mailbox[a])
      \/ inFlight' = inFlight - 1
SendersSettleUp == [][\A a \in Actor : SettlesUp(a)]_vars
OriginsSettleUp == [][SettlesUp(World)]_vars

\* Once nothing is in flight any more, the main task leaves its loop.
QuiescenceIsNoticed ==
    (mpc = "parked" /\ Outstanding = {}) ~> (mpc \in Down \/ Outstanding # {})

\* The main task returns: run_until_quiescent cannot wait for ever.
Terminates == <>(mpc = "closed")

\* The runtime implements the abstract detector: what its main task infers
\* from a shared counter and a Notify is what Quiescence defines on the
\* messages really in flight.
Detector == INSTANCE Quiescence WITH
    work  <- Cardinality(Outstanding),
    phase <- CASE mpc \in {"setup", "record", "count", "deliver"} -> "open"
               [] mpc \in {"check", "await", "parked"}             -> "driving"
               [] mpc \in Down                                    -> "down"
ImplementsQuiescence == Detector!Spec

----------------------------------------------------------------------------
(* The causal log *)

EventsOf(a) == {i \in DOMAIN recorded : recorded[i].actor = a}

\* Every prefix of the log is causally closed: the emit of a received message
\* stands before the receipt, with a smaller clock and Lamport stamp, and an
\* actor's events stand in seq order without a gap.  A log cut short by a
\* failing writer can therefore still be replayed.
CausallyClosed ==
    /\ \A j \in DOMAIN recorded : IsRecv(recorded[j]) =>
         \E i \in 1..(j - 1) :
           /\ IsEmit(recorded[i])
           /\ recorded[i].msg_id = recorded[j].msg_id
           /\ Less(recorded[i].vclock, recorded[j].vclock)
           /\ recorded[i].lamport < recorded[j].lamport
    /\ \A a \in Actor : \A j \in EventsOf(a) :
         recorded[j].seq = Cardinality({i \in EventsOf(a) : i <= j})

\* lichtung-replay accepts every log the runtime writes: Poset::build raises
\* none of its errors and Poset::validate finds every edge in the clocks.
ReplayAccepts == BuildOk(recorded) /\ Valid(recorded)

\* "The exact happens-before embedding": in the log of a finished run the
\* clocks order two events exactly when a chain of program-order and message
\* edges connects them, and the pairs replay reports as concurrent are those
\* the clocks cannot order.  Every log grows into one of a finished run, and
\* later events add no chain between earlier ones.
ExactEmbedding ==
    mpc = "closed" =>
      LET R     == Reach(recorded)
          vc(i) == recorded[i].vclock
      IN  /\ \A e \in Pairs(recorded) : e \in R <=> HappensBefore(vc(e[1]), vc(e[2]))
          /\ ConcurrentPairs(recorded) =
               {e \in Pairs(recorded) : e[1] < e[2] /\ Concurrent(vc(e[1]), vc(e[2]))}

\* Nobody knows more of an actor than the actor itself has done: no clock of
\* an actor, of a queued envelope or of one being sent runs ahead of the seq
\* of the actor it speaks of.  A stamp is never invented.
Grounded(vc, s) == \A n \in Node : vc[n] <= IF n = World THEN 1 ELSE s[n]
NoClockAhead ==
    /\ \A a \in Actor : Grounded(clock[a], seq) /\ clock[a][a] = seq[a]
    /\ \A a \in Actor : \A i \in DOMAIN mailbox[a] : Grounded(mailbox[a][i].vclock, seq)
    /\ \A n \in Node : out[n] # None => Grounded(out[n].vclock, seq)

\* Messages between one pair of actors are received in the order in which
\* they were sent: a mailbox is a queue, and a send delivers before the next
\* one is stamped.
PairwiseFifo ==
    \A i, j \in DOMAIN recorded :
      /\ i < j
      /\ IsRecv(recorded[i]) /\ IsRecv(recorded[j])
      /\ recorded[i].src = recorded[j].src
      /\ recorded[i].dst = recorded[j].dst
      => recorded[i].msg_id < recorded[j].msg_id
=============================================================================
