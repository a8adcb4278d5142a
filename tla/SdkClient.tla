------------------------------ MODULE SdkClient ------------------------------
(****************************************************************************)
(* The Python SDK (sdk/hermes_monitor/client.py): application threads queue *)
(* events under a lock; the daemon thread, explicit flush() and shutdown()  *)
(* calls and the atexit hook each swap the queue for an empty one under     *)
(* that lock and post the batch outside it.                                 *)
(*                                                                          *)
(* The sections under the lock are short and never block, so each is one    *)
(* action.  Posting is another, later action: meanwhile other threads       *)
(* queue, flush or stop, and the process may end.                           *)
(*                                                                          *)
(* External, modelled from how client.py uses them: the interpreter's exit  *)
(* (non-daemon threads finish, atexit hooks run, daemon threads are         *)
(* abandoned) and the HTTP library, which sends a batch at most once.       *)
(****************************************************************************)
EXTENDS Sequences, Naturals, FiniteSets

CONSTANTS
    Events,
    Unserializable,     \* events json.dumps cannot encode
    Threads,            \* application threads
    Daemon,             \* hermes-monitor-flush
    AtExit,             \* the main thread, running the atexit hook
    NetFaults           \* a post may fail

Flushers == Threads \cup {Daemon, AtExit}

ASSUME SdkAssumption ==
    /\ Unserializable \subseteq Events
    /\ IsFiniteSet(Events) /\ IsFiniteSet(Threads)
    /\ Daemon \notin Threads /\ AtExit \notin Threads /\ Daemon # AtExit
    /\ NetFaults \in BOOLEAN

VARIABLES
    queue,      \* HermesMonitor._queue
    stop,       \* HermesMonitor._stop
    pc,         \* Flushers -> where the thread is in the SDK
    hand,       \* Flushers -> the local variable batch
    process,    \* the interpreter
    recorded,   \* the events record() or Span.finish() was called for
    received,   \* Events -> how often the monitor has received it
    lost,       \* the events of batches that were given up
    raised      \* the application threads an SDK call has raised into

vars == <<queue, stop, pc, hand, process, recorded, received, lost, raised>>

----------------------------------------------------------------------------
\* "out" of the SDK; inside flush(), called by the application, by
\* shutdown() or by a tick of the daemon; "ended" for good.
PCs == {"out", "flush", "shutdown", "tick", "ended"}

InHand(f) == {hand[f][i] : i \in DOMAIN hand[f]}

Queued == {queue[i] : i \in DOMAIN queue}

TypeOK ==
    /\ queue \in Seq(Events)
    /\ stop \in BOOLEAN
    /\ pc \in [Flushers -> PCs]
    /\ hand \in [Flushers -> Seq(Events)]
    /\ process \in {"up", "exiting", "exited", "killed"}
    /\ recorded \subseteq Events
    /\ received \in [Events -> Nat]
    /\ lost \subseteq Events
    /\ raised \subseteq Threads

Init ==
    /\ queue = << >>
    /\ stop = FALSE
    /\ pc = [f \in Flushers |-> "out"]
    /\ hand = [f \in Flushers |-> << >>]
    /\ process = "up"
    /\ recorded = {}
    /\ received = [e \in Events |-> 0]
    /\ lost = {}
    /\ raised = {}

Running == process \in {"up", "exiting"}

----------------------------------------------------------------------------
\* The application.

\* record() and Span.finish(): one append under the lock.
Record(t, e) ==
    /\ process = "up"
    /\ pc[t] = "out"
    /\ e \notin recorded
    /\ recorded' = recorded \cup {e}
    /\ queue' = Append(queue, e)
    /\ UNCHANGED <<stop, pc, hand, process, received, lost, raised>>

CallFlush(t) ==
    /\ process = "up"
    /\ pc[t] = "out"
    /\ pc' = [pc EXCEPT ![t] = "flush"]
    /\ UNCHANGED <<queue, stop, hand, process, recorded, received, lost, raised>>

CallShutdown(t) ==
    /\ process = "up"
    /\ pc[t] = "out"
    /\ stop' = TRUE
    /\ pc' = [pc EXCEPT ![t] = "shutdown"]
    /\ UNCHANGED <<queue, hand, process, recorded, received, lost, raised>>

----------------------------------------------------------------------------
\* _flush_loop.

\* _stop.wait timed out: the tick goes on even if stop is set meanwhile.
Tick ==
    /\ Running
    /\ pc[Daemon] = "out"
    /\ ~stop
    /\ pc' = [pc EXCEPT ![Daemon] = "tick"]
    /\ UNCHANGED <<queue, stop, hand, process, recorded, received, lost, raised>>

DaemonEnds ==
    /\ Running
    /\ pc[Daemon] = "out"
    /\ stop
    /\ pc' = [pc EXCEPT ![Daemon] = "ended"]
    /\ UNCHANGED <<queue, stop, hand, process, recorded, received, lost, raised>>

----------------------------------------------------------------------------
\* flush().

Flushing(f) == Running /\ pc[f] \in {"flush", "shutdown", "tick"}

\* A daemon whose loop lets the exception through; the thread is dead.
FragileReturn(f) ==
    IF f = AtExit \/ (f = Daemon /\ InHand(f) \cap Unserializable # {})
    THEN "ended" ELSE "out"

\* Where a thread is once its flush is over: the loop and shutdown() swallow
\* whatever flush raised.
Return(f) == IF f = AtExit THEN "ended" ELSE "out"

\* A shutdown that leaves the rest to a tick under way.
LazyNothingToSend(f) == queue = << >> \/ (pc[f] = "shutdown" /\ pc[Daemon] = "tick")

NothingToSend(f) == queue = << >>

FlushNothing(f) ==
    /\ Flushing(f)
    /\ hand[f] = << >>
    /\ NothingToSend(f)
    /\ pc' = [pc EXCEPT ![f] = Return(f)]
    /\ UNCHANGED <<queue, stop, hand, process, recorded, received, lost, raised>>

Swap(f) ==
    /\ Flushing(f)
    /\ hand[f] = << >>
    /\ ~NothingToSend(f)
    /\ hand' = [hand EXCEPT ![f] = queue]
    /\ queue' = << >>
    /\ UNCHANGED <<stop, pc, process, recorded, received, lost, raised>>

\* _post_json returns whatever the server answered and swallows what the
\* HTTP library raises; nothing is sent twice.
Sending(f) == Flushing(f) /\ hand[f] # << >> /\ InHand(f) \cap Unserializable = {}

Delivered(S) == [e \in Events |-> IF e \in S THEN received[e] + 1 ELSE received[e]]

\* Clearing the queue once the batch has been posted.
ClearedAfterPost == << >>

QueueAfterPost == queue

Post(f) ==
    /\ Sending(f)
    /\ received' = Delivered(InHand(f))
    /\ queue' = QueueAfterPost
    /\ hand' = [hand EXCEPT ![f] = << >>]
    /\ pc' = [pc EXCEPT ![f] = Return(f)]
    /\ UNCHANGED <<stop, process, recorded, lost, raised>>

\* A retry queued after a timeout, when the monitor may have the batch.
RequeueAfterFailure(f) == hand[f] \o queue

QueueAfterFailure(f) == queue

PostFails(f) ==
    /\ Sending(f)
    /\ NetFaults
    /\ lost' = lost \cup InHand(f)
    /\ queue' = QueueAfterFailure(f)
    /\ hand' = [hand EXCEPT ![f] = << >>]
    /\ pc' = [pc EXCEPT ![f] = Return(f)]
    /\ UNCHANGED <<stop, process, recorded, received, raised>>

\* A loop and a shutdown() that let what flush raises through.
UncaughtIn(f) == {f}

\* Where the TypeError surfaces: in the application's own flush().
RaisedIn(f) == IF pc[f] = "flush" /\ f \in Threads THEN {f} ELSE {}

\* json.dumps is outside the try: the batch, already swapped out, is gone,
\* and the TypeError reaches whoever called flush() directly.
DumpsRaises(f) ==
    /\ Flushing(f)
    /\ InHand(f) \cap Unserializable # {}
    /\ lost' = lost \cup InHand(f)
    /\ hand' = [hand EXCEPT ![f] = << >>]
    /\ pc' = [pc EXCEPT ![f] = Return(f)]
    /\ raised' = raised \cup RaisedIn(f)
    /\ UNCHANGED <<queue, stop, process, recorded, received>>

----------------------------------------------------------------------------
\* The interpreter.

\* The non-daemon threads are over: the atexit hook calls flush().
Exit ==
    /\ process = "up"
    /\ \A t \in Threads : pc[t] = "out"
    /\ process' = "exiting"
    /\ pc' = [pc EXCEPT ![AtExit] = "flush"]
    /\ UNCHANGED <<queue, stop, hand, recorded, received, lost, raised>>

\* The daemon is abandoned where it is; the bytes of its post may be out.
Exited ==
    /\ process = "exiting"
    /\ pc[AtExit] = "ended"
    /\ process' = "exited"
    /\ hand' = [hand EXCEPT ![Daemon] = << >>]
    /\ \/ lost' = lost \cup InHand(Daemon) /\ UNCHANGED received
       \/ /\ InHand(Daemon) \cap Unserializable = {}
          /\ received' = Delivered(InHand(Daemon))
          /\ UNCHANGED lost
    /\ UNCHANGED <<queue, stop, pc, recorded, raised>>

Kill ==
    /\ Running
    /\ process' = "killed"
    /\ UNCHANGED <<queue, stop, pc, hand, recorded, received, lost, raised>>

Flush(f) == FlushNothing(f) \/ Swap(f) \/ Post(f) \/ PostFails(f) \/ DumpsRaises(f)

Next ==
    \/ \E t \in Threads : CallFlush(t) \/ CallShutdown(t) \/ \E e \in Events : Record(t, e)
    \/ Tick \/ DaemonEnds
    \/ \E f \in Flushers : Flush(f)
    \/ Exit \/ Exited \/ Kill

Spec == Init /\ [][Next]_vars

\* The threads run, the timer fires and every post has a timeout.  The
\* application owes no call, and the process need never end.
Fairness ==
    /\ WF_vars(Tick)
    /\ \A f \in Flushers : WF_vars(Flush(f))
    /\ WF_vars(Exited)

FairSpec == Spec /\ Fairness

----------------------------------------------------------------------------
(* Properties. *)

Copies(s, e) == Cardinality({i \in DOMAIN s : s[i] = e})

\* An event is in one place: the queue, one thread's batch, the monitor, or
\* given up.  No two flushes send it, however they interleave, and none
\* overwrites what was queued while it posted.
OnePlace ==
    \A e \in recorded :
        LET holders == {f \in Flushers : e \in InHand(f)}
        IN  /\ Copies(queue, e) + Cardinality(holders) + received[e]
                 + (IF e \in lost THEN 1 ELSE 0) = 1
            /\ \A f \in holders : Copies(hand[f], e) = 1

\* While the monitor is not stopped, every queued event is taken up by the
\* daemon's next tick, also after events that could not be sent.
EventsTakenUp ==
    \A e \in Events :
        (process = "up" /\ e \in Queued) ~> (e \notin Queued \/ stop \/ process # "up")

\* What was queued when shutdown() was called does not stay behind.
ShutdownDrains ==
    \A e \in Events, t \in Threads :
        (pc[t] = "shutdown" /\ hand[t] = << >> /\ e \in Queued)
            ~> (e \notin Queued \/ process = "killed")

\* The SDK keeps the promise of ReportChannel.
Fate(e) ==
    IF e \notin recorded THEN "new"
    ELSE CASE received[e] = 1 /\ e \notin lost -> "delivered"
           [] received[e] = 0 /\ e \in lost -> "lost"
           [] received[e] = 0 /\ e \notin lost -> "held"
           [] OTHER -> "sent again"

Channel == INSTANCE ReportChannel WITH fate <- [e \in Events |-> Fate(e)]

ChannelSpec == Channel!Spec

----------------------------------------------------------------------------
(* A statement of the documentation that the code does not keep. *)

\* sdk/README.md: events are flushed on a timer and at process exit.
ExitReportsAll ==
    process = "exited" => \A e \in recorded : received[e] = 1
==============================================================================
