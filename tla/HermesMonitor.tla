---------------------------- MODULE HermesMonitor ----------------------------
(****************************************************************************)
(* The SDK and the monitor together: SdkClient and Ingestion, joined by the *)
(* HTTP requests between them.                                              *)
(*                                                                          *)
(* Each component takes its own steps.  A post, one step of SdkClient, is   *)
(* here what it is in the system: the batch goes out (Send), the monitor    *)
(* turns it away (Refuse) or begins to handle it (Serve), tries its events  *)
(* and closes the session, and the SDK either hears of it (Reply) or has    *)
(* stopped waiting (GiveUp), before, while or after the monitor stores the  *)
(* batch.  Requests overtake each other; a request whose sender has given   *)
(* up or died is served all the same.                                       *)
(*                                                                          *)
(* SdkClient's "received" is here what the SDK believes: the post returned. *)
(* External: the connections, modelled as client.py and ingestion.py use    *)
(* them.                                                                    *)
(****************************************************************************)
EXTENDS SequencesExt, Naturals, FiniteSets

CONSTANTS
    Events, Unserializable, Threads, Daemon, AtExit, NetFaults,
    Traces, NoTrace, Sessions, NoSession, BadSession, LockFaults,
    MaxEvents, MaxRequests,
    Content         \* Events -> what Ingestion makes of them

VARIABLES
    queue, stop, pc, hand, process, recorded, received, lost, raised,
    open, handled, sound, active, pending, tx, wrote, db, answers, skipped,
    flight,         \* Flushers -> its post: "none", "sent" or "replied"
    wire,           \* the batches sent and not taken up, in any order
    serving,        \* the batch of the open session
    batches,        \* history: the batch of every request handled
    refused         \* history: the events of the requests turned away

Sdk == INSTANCE SdkClient

Ing == INSTANCE Ingestion

sdkVars == <<queue, stop, pc, hand, process, recorded, received, lost, raised>>
monitorVars == <<open, handled, sound, active, pending, tx, wrote, db, answers, skipped>>
joint == <<flight, wire, serving, batches, refused>>
vars == <<sdkVars, monitorVars, joint>>

\* What SdkClient and Ingestion assume of their constants.
ASSUME PartsAssumption ==
    /\ Unserializable \subseteq Events
    /\ IsFiniteSet(Events) /\ IsFiniteSet(Threads)
    /\ Daemon \notin Threads /\ AtExit \notin Threads /\ Daemon # AtExit
    /\ NetFaults \in BOOLEAN /\ LockFaults \in BOOLEAN
    /\ NoTrace \notin Traces
    /\ NoSession \notin Sessions /\ BadSession \notin Sessions /\ NoSession # BadSession
    /\ MaxEvents \in Nat /\ MaxRequests \in Nat

ASSUME ContentAssumption ==
    /\ Content \in [Events -> Ing!BatchEvents]
    /\ MaxEvents >= Cardinality(Events)

----------------------------------------------------------------------------
RangeOf(s) == {s[i] : i \in DOMAIN s}

TypeOK ==
    /\ flight \in [Sdk!Flushers -> {"none", "sent", "replied"}]
    /\ \A f \in Sdk!Flushers : flight[f] # "none" => hand[f] # << >>
    /\ wire \in Seq(Seq(Events)) /\ << >> \notin RangeOf(wire)
    /\ serving \in Seq(Events)
    /\ open <=> serving # << >>
    /\ handled <= Len(serving)
    /\ batches \in Seq(Seq(Events))
    /\ Len(batches) = Len(answers)
    /\ refused \subseteq Events

Init ==
    /\ Sdk!Init
    /\ Ing!Init
    /\ flight = [f \in Sdk!Flushers |-> "none"]
    /\ wire = << >>
    /\ serving = << >>
    /\ batches = << >>
    /\ refused = {}

----------------------------------------------------------------------------
\* Steps of the SDK alone.

Alone == UNCHANGED <<monitorVars, joint>>

Application ==
    /\ \E t \in Threads :
          Sdk!CallFlush(t) \/ Sdk!CallShutdown(t) \/ \E e \in Events : Sdk!Record(t, e)
    /\ Alone

Daemons == (Sdk!Tick \/ Sdk!DaemonEnds) /\ Alone

\* What the abandoned daemon has on the wire is still served.
ProcessEnds ==
    /\ Sdk!Exited
    /\ flight' = [flight EXCEPT ![Daemon] = "none"]
    /\ UNCHANGED <<received, monitorVars, wire, serving, batches, refused>>

Ending == (Sdk!Exit \/ Sdk!Kill) /\ Alone

FlushAlone(f) == (Sdk!FlushNothing(f) \/ Sdk!Swap(f) \/ Sdk!DumpsRaises(f)) /\ Alone

----------------------------------------------------------------------------
\* A post.

Send(f) ==
    /\ Sdk!Sending(f)
    /\ flight[f] = "none"
    /\ flight' = [flight EXCEPT ![f] = "sent"]
    /\ wire' = Append(wire, hand[f])
    /\ UNCHANGED <<sdkVars, monitorVars, serving, batches, refused>>

\* A post that has failed and still counts as under way.
LingeringOver(f) == UNCHANGED <<monitorVars, joint>>

Over(f) ==
    /\ flight' = [flight EXCEPT ![f] = "none"]
    /\ UNCHANGED <<monitorVars, wire, serving, batches, refused>>

\* _post_json looks at no answer: 200, 401 and 500 are one.
Reply(f) == flight[f] = "replied" /\ Sdk!Post(f) /\ Over(f)

\* No connection, a broken one, or the timeout.
GiveUp(f) == Sdk!PostFails(f) /\ Over(f)

Flush(f) == FlushAlone(f) \/ Send(f) \/ Reply(f) \/ GiveUp(f)

----------------------------------------------------------------------------
\* The monitor.

\* A request that breaks off on its way, its body perhaps half read by
\* request.json(); with a restart, all of them do.
Drop ==
    /\ NetFaults
    /\ \E i \in DOMAIN wire : wire' = RemoveAt(wire, i)
    /\ UNCHANGED <<sdkVars, monitorVars, flight, serving, batches, refused>>

\* The senders that wait for an answer to the batch b hear it.
Answered(b) ==
    [f \in Sdk!Flushers |->
        IF flight[f] = "sent" /\ hand[f] = b THEN "replied" ELSE flight[f]]

\* An answer that is given before the batch is looked at: the 401 of
\* require_write - a token may be saved, changed or taken from the environment
\* between any two requests - or the 500 of a body request.json() cannot read.
Refuse ==
    /\ ~open
    /\ \E i \in DOMAIN wire :
          /\ wire' = RemoveAt(wire, i)
          /\ refused' = refused \cup RangeOf(wire[i])
          /\ flight' = Answered(wire[i])
    /\ UNCHANGED <<sdkVars, monitorVars, serving, batches>>

\* The token has passed and the body has arrived: from here to its end the
\* handler does not await.
Serve ==
    /\ Ing!Begin
    /\ \E i \in DOMAIN wire : serving' = wire[i] /\ wire' = RemoveAt(wire, i)
    /\ UNCHANGED <<sdkVars, flight, batches, refused>>

TryEvent ==
    /\ handled < Len(serving)
    /\ LET e == Content[serving[handled + 1]]
       IN  Ing!Ignore(e) \/ Ing!FailCost(e) \/ Ing!FailTouch(e) \/ Ing!FailFlush(e) \/ Ing!Store(e)
    /\ UNCHANGED <<sdkVars, joint>>

\* A sender that still waits for this batch is answered, unless there is no
\* answer.
Closed ==
    /\ batches' = Append(batches, serving)
    /\ serving' = << >>
    /\ flight' = IF Last(answers').code = 0 THEN flight ELSE Answered(serving)
    /\ UNCHANGED <<sdkVars, refused>>

EndBatch ==
    /\ handled = Len(serving)
    /\ Ing!Commit \/ Ing!CommitFails
    /\ Closed
    /\ UNCHANGED wire

Crash == Ing!Crash /\ Closed /\ wire' = << >>

Monitor == Refuse \/ Serve \/ TryEvent \/ EndBatch

Next ==
    \/ Application \/ Daemons \/ ProcessEnds \/ Ending
    \/ \E f \in Sdk!Flushers : Flush(f)
    \/ Monitor \/ Drop \/ Crash

Spec == Init /\ [][Next]_vars

\* The SDK's threads run and its posts time out; the monitor takes up what
\* has arrived and handles it.
Fairness ==
    /\ WF_vars(Daemons)
    /\ \A f \in Sdk!Flushers : WF_vars(Flush(f))
    /\ WF_vars(ProcessEnds)
    /\ WF_vars(Monitor)

FairSpec == Spec /\ Fairness

----------------------------------------------------------------------------
(* Properties. *)

RowsFor(e) == {r \in db.rows : batches[r.req][r.idx] = e}

\* In a request that the monitor has not answered.
Underway(e) ==
    \/ e \in RangeOf(serving)
    \/ \E i \in DOMAIN wire : e \in RangeOf(wire[i])

\* Still on its way to the database.
Held(e) ==
    \/ Sdk!Running /\ (e \in Sdk!Queued \/ \E f \in Sdk!Flushers : e \in Sdk!InHand(f))
    \/ Underway(e)

Fate(e) ==
    IF e \notin recorded THEN "new"
    ELSE CASE Cardinality(RowsFor(e)) > 1 -> "stored again"
           [] Cardinality(RowsFor(e)) = 1 -> "delivered"
           [] OTHER -> IF Held(e) THEN "held" ELSE "lost"

\* From the application to the database an event is stored at most once and
\* stays stored, and one that is neither stored nor on its way never comes
\* back, although the SDK gives posts up that the monitor goes on to store and
\* hears nothing of what went wrong there.
Channel == INSTANCE ReportChannel WITH fate <- [e \in Events |-> Fate(e)]

StoredOnceAtMost == Channel!Spec

\* What a returned post means, whose status nobody looked at: the event is on
\* its way no more.  Either its request was turned away, or its batch was
\* answered 500: then it is not stored, and never will be.  Or the batch was
\* answered 200: then it is stored if it is sound, whatever the other events
\* of the batch did to the session.  (_post_json; ingestion.)
HeardOfIsSettled ==
    \A e \in Events : received[e] > 0 =>
        /\ ~Underway(e)
        /\ \/ e \in refused /\ RowsFor(e) = {}
           \/ \E n \in DOMAIN batches :
                 /\ e \in RangeOf(batches[n])
                 /\ \/ answers[n].code = 500 /\ RowsFor(e) = {}
                    \/ answers[n].code = 200 /\ (Content[e].kind = "good" => RowsFor(e) # {})

\* While the monitor is not shut down, an event on its way arrives or is lost:
\* no queue, batch or request keeps it for ever.
EventsSettle == \A e \in Events : Fate(e) = "held" ~> (Fate(e) # "held" \/ stop)
==============================================================================
