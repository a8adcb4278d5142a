------------------------------ MODULE Ingestion ------------------------------
(****************************************************************************)
(* The write path of the monitor: POST /api/public/ingestion                *)
(* (backend/app/ingestion.py) and record_generation (recording.py), which   *)
(* the proxy shares, on top of session_scope (db.py).                       *)
(*                                                                          *)
(* A batch is one database transaction.  Every event is tried on its own    *)
(* and its exception is only logged, but what the failed attempt did to the *)
(* SQLAlchemy session stays: objects left pending are inserted by a later   *)
(* flush or by the commit, and a failed flush rolls the whole transaction   *)
(* back and makes the session refuse everything until the end of the batch. *)
(*                                                                          *)
(* The handler is synchronous from the opening of the session to its close, *)
(* so no other write of the process comes between; another process may hold *)
(* SQLite's write lock for longer than the busy timeout, which the first    *)
(* statement that writes then meets.                                        *)
(*                                                                          *)
(* External, modelled from how the code uses it: the SQLAlchemy session     *)
(* (pending objects, flush, deactivation) and SQLite's lock.                *)
(****************************************************************************)
EXTENDS Sequences, Naturals, FiniteSets

CONSTANTS
    Traces, NoTrace,
    Sessions, NoSession,
    BadSession,     \* a session id that SQLite cannot bind, such as an object
    LockFaults,     \* another process may hold the write lock
    MaxEvents,      \* bound: events of one batch
    MaxRequests     \* bound: batches and proxied calls

ASSUME IngestionAssumption ==
    /\ NoTrace \notin Traces
    /\ NoSession \notin Sessions /\ BadSession \notin Sessions
    /\ NoSession # BadSession
    /\ LockFaults \in BOOLEAN
    /\ MaxEvents \in Nat /\ MaxRequests \in Nat

VARIABLES
    open,       \* a session is open: its batch is being handled
    handled,    \* how many events of the open batch have been tried
    sound,      \* which of them are "good"
    active,     \* the session has not met a failed flush
    pending,    \* objects added and not flushed: [traces, rows, unbindable]
    tx,         \* the database as the open transaction sees it
    wrote,      \* the transaction holds the write lock
    db,         \* the committed database: [rows, traces, calls]
    answers,    \* every request answered so far: [code, sound]
    skipped     \* history: rows stored, or to be, whose session upsert raised

vars == <<open, handled, sound, active, pending, tx, wrote, db, answers, skipped>>

----------------------------------------------------------------------------
\* What an event can be.  "ignored" is no generation event, or one whose body
\* is no object; "badmodel" has a model that compute_cost cannot read, "badcol"
\* a field that SQLite cannot bind, such as a provider that is an object.
Kinds == {"ignored", "badmodel", "badcol", "good"}

BatchEvents == [kind : Kinds \ {"ignored"}, trace : Traces \cup {NoTrace},
                session : Sessions \cup {NoSession, BadSession}]
               \cup [kind : {"ignored"}, trace : {NoTrace}, session : {NoSession}]

Rows == [req : Nat, idx : Nat, trace : Traces \cup {NoTrace},
         session : Sessions \cup {NoSession, BadSession}]

Databases == [rows : SUBSET Rows, traces : SUBSET Traces, calls : [Sessions -> Nat]]

Nothing == [traces |-> [t \in Traces |-> 0], rows |-> {}, unbindable |-> FALSE]

Codes == {200, 500, 0}      \* 0: the process died before it answered

TypeOK ==
    /\ open \in BOOLEAN /\ active \in BOOLEAN /\ wrote \in BOOLEAN
    /\ handled \in 0 .. MaxEvents
    /\ sound \subseteq 1 .. handled
    /\ pending.traces \in [Traces -> Nat]
    /\ pending.rows \subseteq Rows
    /\ pending.unbindable \in BOOLEAN
    /\ tx \in Databases
    /\ db \in Databases
    /\ answers \in Seq([code : Codes, sound : SUBSET Nat])
    /\ skipped \subseteq Rows
    /\ ~open => ~wrote /\ pending = Nothing /\ handled = 0

Init ==
    /\ open = FALSE
    /\ handled = 0
    /\ sound = {}
    /\ active = TRUE
    /\ pending = Nothing
    /\ db = [rows |-> {}, traces |-> {}, calls |-> [s \in Sessions |-> 0]]
    /\ tx = db
    /\ wrote = FALSE
    /\ answers = << >>
    /\ skipped = {}

Request == Len(answers) + 1

----------------------------------------------------------------------------
\* The session.

\* Another process holds the lock, unless this transaction does.
MayLock == LockFaults /\ ~wrote

\* A flush fails on a value it cannot bind, and on two traces of one id.
Flushable(p) == ~p.unbindable /\ \A t \in Traces : p.traces[t] <= 1

Flushed(d, p) ==
    [d EXCEPT !.rows = @ \cup p.rows,
              !.traces = @ \cup {t \in Traces : p.traces[t] > 0}]

\* upsert_trace asks the database, which knows no pending object.
NeedsTrace(e) == e.trace # NoTrace /\ e.trace \notin tx.traces

WithTrace(e) ==
    IF NeedsTrace(e)
    THEN [pending EXCEPT !.traces[e.trace] = @ + 1,
                         !.unbindable = @ \/ e.session = BadSession]
    ELSE pending

Row(e) ==
    [req |-> Request, idx |-> handled + 1,
     trace |-> e.trace, session |-> e.session]

\* record_generation up to its first statement that writes.
WithRow(e) ==
    [WithTrace(e) EXCEPT !.rows = @ \cup {Row(e)},
                         !.unbindable = @ \/ e.kind = "badcol"]

\* The upsert of _touch_session.
CallsAfter(d, s) == [d.calls EXCEPT ![s] = @ + 1]

Touched(d, e) ==
    IF e.session \in Sessions THEN [d EXCEPT !.calls = CallsAfter(d, e.session)] ELSE d

\* A rollback that keeps the session counts, and one that keeps everything.
CountingRollback == [db EXCEPT !.calls = tx.calls]

NoRollback == tx

\* What a rollback leaves.
RolledBack == db

\* The session's close leaves the connection inside its transaction.
LeakedAfterClose == wrote

WroteAfterClose == FALSE

\* The end of the session: the database it leaves and the answer.
Close(code, d) ==
    /\ open' = FALSE
    /\ handled' = 0
    /\ sound' = {}
    /\ active' = TRUE
    /\ pending' = Nothing
    /\ wrote' = WroteAfterClose
    /\ db' = d
    /\ tx' = d
    /\ answers' = Append(answers, [code |-> code, sound |-> sound])
    /\ skipped' = skipped \cap d.rows

Refused(code) == Close(code, RolledBack)

----------------------------------------------------------------------------
\* ingestion().

\* The request has passed require_write and its body could be read; one that
\* is refused before that changes nothing here (HermesMonitor!Refuse).
Begin ==
    /\ ~open
    /\ Len(answers) < MaxRequests
    /\ open' = TRUE
    /\ UNCHANGED <<handled, sound, active, pending, tx, wrote, db, answers, skipped>>

NextEvent(e) ==
    /\ open
    /\ handled < MaxEvents
    /\ handled' = handled + 1
    /\ sound' = IF e.kind = "good" THEN sound \cup {handled + 1} ELSE sound

\* An event of another type is acknowledged; one whose body is no object, and
\* any generation event after a failed flush, is logged.
Ignore(e) ==
    /\ e.kind = "ignored" \/ ~active
    /\ NextEvent(e)
    /\ UNCHANGED <<open, active, pending, tx, wrote, db, answers, skipped>>

\* compute_cost raises once the trace has been added.
FailCost(e) ==
    /\ active /\ e.kind = "badmodel"
    /\ NextEvent(e)
    /\ pending' = WithTrace(e)
    /\ UNCHANGED <<open, active, tx, wrote, db, answers, skipped>>

\* The upsert of the session row raises once the generation has been added.
FailTouch(e) ==
    /\ active /\ e.kind \in {"badcol", "good"}
    /\ e.session = BadSession \/ (e.session \in Sessions /\ MayLock)
    /\ NextEvent(e)
    /\ pending' = WithRow(e)
    /\ skipped' = skipped \cup {Row(e)}
    /\ UNCHANGED <<open, active, tx, wrote, db, answers>>

\* The flush raises: the transaction is gone and the session refuses to go on.
FailFlush(e) ==
    /\ active /\ e.kind \in {"badcol", "good"}
    /\ e.session # BadSession
    /\ ~Flushable(WithRow(e)) \/ (e.session = NoSession /\ MayLock)
    /\ NextEvent(e)
    /\ active' = FALSE
    /\ pending' = Nothing
    /\ tx' = RolledBack
    /\ wrote' = FALSE
    /\ UNCHANGED <<open, db, answers, skipped>>

\* The upsert and the flush succeed, and take along whatever was pending.
Store(e) ==
    /\ active /\ e.kind = "good"
    /\ e.session # BadSession
    /\ Flushable(WithRow(e))
    /\ NextEvent(e)
    /\ pending' = Nothing
    /\ tx' = Flushed(Touched(tx, e), WithRow(e))
    /\ wrote' = TRUE
    /\ UNCHANGED <<open, active, db, answers, skipped>>

\* An event whose type is no string raises outside the try: the batch is over.
AbortBatch ==
    /\ open
    /\ handled < MaxEvents
    /\ Refused(500)

\* Acknowledging a batch whose commit raised.
HastyFailedAnswer == 200

FailedAnswer == 500

\* session.commit() flushes what is pending first.
CommitFails ==
    /\ open
    /\ ~active \/ ~Flushable(pending) \/ (pending # Nothing /\ MayLock)
    /\ Refused(FailedAnswer)

\* The process may still die between the commit and the answer.
Commit ==
    /\ open
    /\ active /\ Flushable(pending)
    /\ \E code \in {200, 0} : Close(code, Flushed(tx, pending))

Crash ==
    /\ open
    /\ Refused(0)

\* _record of the proxy: one event in a session of its own, whose failure
\* leaves session_scope and rolls everything back.
ProxyEvents == {e \in BatchEvents : e.kind # "ignored"}

Storable(e) == e.kind = "good" /\ e.session # BadSession

ProxyRecord(e) ==
    /\ ~open
    /\ Len(answers) < MaxRequests
    /\ \/ /\ Storable(e)
          /\ db' = Flushed(Touched(db, e), WithRow(e))
          /\ answers' = Append(answers, [code |-> 200, sound |-> {1}])
       \/ /\ ~Storable(e) \/ MayLock
          /\ answers' = Append(answers, [code |-> 500, sound |-> {}])
          /\ UNCHANGED db
    /\ tx' = db'
    /\ UNCHANGED <<open, handled, sound, active, pending, wrote, skipped>>

Next ==
    \/ Begin \/ AbortBatch \/ CommitFails \/ Commit \/ Crash
    \/ \E e \in BatchEvents : Ignore(e) \/ FailCost(e) \/ FailTouch(e) \/ FailFlush(e) \/ Store(e)
    \/ \E e \in ProxyEvents : ProxyRecord(e)

Spec == Init /\ [][Next]_vars

----------------------------------------------------------------------------
(* Properties. *)

RowsOf(n) == {r.idx : r \in {x \in db.rows : x.req = n}}

\* A batch answered 200 has every sound event of it in the database, also
\* those whose own attempt failed and those beside an event that failed.
\* (The SDK never sends an acknowledged event again.)
AckedEventsStored ==
    \A n \in DOMAIN answers : answers[n].code = 200 => answers[n].sound \subseteq RowsOf(n)

\* A batch answered 500 leaves nothing behind, and one whose answer was lost
\* leaves all of its sound events or nothing: a batch is one transaction.
AllOrNothing ==
    \A n \in DOMAIN answers :
        /\ answers[n].code = 500 => RowsOf(n) = {}
        /\ answers[n].code = 0 => RowsOf(n) = {} \/ answers[n].sound \subseteq RowsOf(n)

RowsIn(s) == {r \in db.rows : r.session = s}

\* The call count of a session row is the number of stored calls whose own
\* upsert went through: what was rolled back is not counted, and what failed
\* beside it is not missed.
SessionCountsUpserts ==
    \A s \in Sessions : db.calls[s] = Cardinality(RowsIn(s) \ skipped)
==============================================================================
