---------------------------- MODULE RecordReplay ----------------------------
(***************************************************************************)
(* Record a run, replay its log: the production runtime (lichtung-prod) up *)
(* to the end of its run, the log it leaves, and a ReplaySystem            *)
(* (lichtung-replay) that is given this log.                               *)
(*                                                                         *)
(* The log reaches the replay whole or cut short, in recording order or    *)
(* reversed, or with one event damaged.  Neither the topology that is      *)
(* rebuilt, nor the origins that are re-supplied, nor what the handlers do *)
(* the second time need be those of the recording.                         *)
(***************************************************************************)
EXTENDS RuntimeProperties, ReplayLog

CONSTANTS
    OneMsgType,  \* do all actors have the same message type?
    MaxBeyond,   \* bound: replayed code acts until this many events are not in the log
    MaxDrift     \* bound: ... or this many other divergences are found

ASSUME RankAssumption ==
    /\ Rank \in [Node -> Nat]
    /\ \A m, n \in Node : Rank[m] = Rank[n] => m = n

VARIABLES
    intact,     \* is the log as the runtime wrote it, or a prefix of that?
    rebuilt, reorigins, reclock, relamport, reseq,            \* ReplaySystem
    pending, sendCount, divergences, produced, next, driving, did

Replay == INSTANCE Reexec WITH
    origins <- reorigins, clock <- reclock, lamport <- relamport, seq <- reseq

systemVars == <<rebuilt, reorigins, reclock, relamport, reseq, pending, sendCount,
                divergences, produced, next, driving, did>>
replayVars == <<log, kahnVars, phase, systemVars>>
runVars    == <<vars, intact, replayVars>>

RunInit == Init /\ intact = TRUE /\ log = <<>> /\ phase = "recording" /\ Replay!ReplayInit

RecordStep ==
    /\ phase = "recording"
    /\ Main \/ \E a \in Actor : Task(a) \/ Panic(a)
    /\ UNCHANGED <<intact, replayVars>>

----------------------------------------------------------------------------
(* The log between the two programs *)

Reversed(l) == [i \in DOMAIN l |-> l[Len(l) + 1 - i]]

\* A writer that died leaves a prefix; merging files may change the order.
Intact(l) == UNION {{SubSeq(l, 1, n), Reversed(SubSeq(l, 1, n))} : n \in 0..Len(l)}

\* One event is lost, doubled, or has a field overwritten.
Ids(l) == {l[i].msg_id : i \in DOMAIN l} \cup {None}

Overwritten(ev, l) ==
    {[ev EXCEPT !.msg_id = m] : m \in Ids(l)} \cup
    {[ev EXCEPT !.lamport = n] : n \in {0, Len(l) + 1}} \cup
    {[ev EXCEPT !.vclock = ZeroClock]}

Damaged(l) ==
    UNION {{SubSeq(l, 1, i - 1) \o SubSeq(l, i + 1, Len(l)), Append(l, l[i])} \cup
           {[l EXCEPT ![i] = ev] : ev \in Overwritten(l[i], l)} : i \in DOMAIN l}

\* The recording process has ended; what is left of it is the log.
Exited ==
    /\ clock' = [a \in Actor |-> ZeroClock]
    /\ lamport' = [a \in Actor |-> 0]
    /\ seq' = [a \in Actor |-> 0]
    /\ msgId' = 0
    /\ inFlight' = 0
    /\ permit' = FALSE
    /\ recorded' = <<>>
    /\ origins' = 0
    /\ UNCHANGED <<pc, handling, out, mailbox, writerUp, mpc, aborted>>

ReadLog ==
    /\ phase = "recording"
    /\ mpc = "closed"
    /\ \/ log' \in Intact(recorded) /\ intact' = TRUE
       \/ log' \in Damaged(recorded) /\ intact' = (log' \in Intact(recorded))
    /\ phase' = "build"
    /\ Exited
    /\ UNCHANGED <<kahnVars, systemVars>>

----------------------------------------------------------------------------
(* The replay *)

Stimulus == {o \in [to : Actor, typed : BOOLEAN] : o.typed \in AddrTypes(o.to)}

ReplayStep ==
    /\ \/ ReplayLogStep /\ UNCHANGED systemVars
       \/ \E actors \in SUBSET Actor, stimuli \in UNION {[1..n -> Stimulus] : n \in 0..MaxOrigins} :
            Replay!SetUp(actors, stimuli)
       \/ Replay!Driver
       \/ \E a \in Actor : Replay!UserCode(a)
    /\ UNCHANGED <<vars, intact>>

Over == phase \in Replay!Ended /\ UNCHANGED runVars

RunNext == RecordStep \/ ReadLog \/ ReplayStep \/ Over

RunSpec == RunInit /\ [][RunNext]_runVars

----------------------------------------------------------------------------
(* Properties *)

\* The in-degrees among them are of type usize: they must not drop below zero.
ReplayTypeOK ==
    /\ log \in Seq(Event)
    /\ indeg \in [DOMAIN indeg -> Nat] /\ DOMAIN indeg \subseteq DOMAIN log
    /\ heap \subseteq DOMAIN log
    /\ order \in Seq(DOMAIN log)
    /\ rebuilt \subseteq Actor
    /\ reclock \in [Actor -> VClock]
    /\ pending \subseteq [vclock : VClock, lamport : Nat, msg_id : Int, src : Node,
                          dst : Actor, typed : BOOLEAN]
    /\ driving \in Actor \cup {None}

FaithfulIsSame == Replay!FaithfulIsSame
NoGhosts       == Replay!NoGhosts

\* replay_log accepts every log the runtime wrote, whole or cut anywhere, and
\* sorts its timeline by Lamport stamp, name and seq.  These say nothing of the
\* place of an event in the file, so the timeline of a set of events does not
\* depend on the order in which they were recorded.
TimelineIsSorted ==
    LET key(ev) == <<ev.lamport, Rank[ev.actor], ev.seq>>
        t == Timeline
    IN  intact => /\ phase \notin Rejected
                  /\ \A k \in 2..Len(t) : Smaller(key(t[k - 1]), key(t[k]))

\* Replaying an intact log with the program that was recorded, its topology
\* and its origins, reports what its handlers do beyond the end of the log and
\* nothing else.  Up to there the timeline delivers every message after it was
\* re-sent, and every stamp and id is computed again, however many messages of
\* unrecorded sends are pending.  If the log is whole, nothing is reported.
OnlyTheCutDiverges ==
    phase = "done" /\ intact /\ Replay!SameProgram => divergences = Replay!PastTheLog

\* "A usage error in the replay harness": replaying an intact log panics only
\* if an origin was re-supplied to another actor or through an Addr of the
\* wrong type, or the handlers had already diverged.
PanicIsMisuse ==
    phase = "panicked" /\ intact =>
      \/ divergences # {}
      \/ \E k \in DOMAIN reorigins :
           ~reorigins[k].typed \/ reorigins[k].to # log[Replay!EmitsOf(World)[k]].dst
=============================================================================
