------------------------------ MODULE ProxyCall ------------------------------
(****************************************************************************)
(* The recording reverse proxy (backend/app/proxy.py): what happens to the  *)
(* chat and completion calls of several clients that share one event loop,  *)
(* one pooled httpx client, one settings table and one SQLite database.     *)
(*                                                                          *)
(* An action is one await-free segment of a handler: the loop interleaves   *)
(* handlers only at their awaits, and everything the database does          *)
(* (session_scope, config reads) is synchronous.                            *)
(*                                                                          *)
(* External, modelled from how proxy.py uses them: the upstream providers,  *)
(* httpx and its connection pool, the ASGI server that cancels or drops a   *)
(* streaming response whose client has left.                                *)
(****************************************************************************)
EXTENDS Upstreams, FiniteSets

CONSTANTS
    Calls,          \* one element per HTTP call a client makes
    UpstreamCodes,  \* HTTP status codes an upstream answers with
    Configs,        \* settings a user may save: [upstreams, timeout]
    Fallbacks,      \* what a read gives that the table fails: the environment's
    NoClient,       \* _shared_client is None
    PoolSize,       \* connections the shared httpx client may hold
    MaxLines,       \* bound: lines of one upstream stream
    MaxCrashes      \* bound: process crashes

ASSUME ProxyAssumption ==
    /\ IsFiniteSet(Calls)
    /\ UpstreamCodes \subseteq 100 .. 599
    /\ \A s \in Configs \cup Fallbacks :
          /\ DOMAIN s = {"upstreams", "timeout"}
          /\ s.upstreams \in Seq(Providers)
          /\ s.timeout # NoClient
    /\ Configs # {}
    /\ PoolSize \in Nat \ {0} /\ MaxLines \in Nat /\ MaxCrashes \in Nat

VARIABLES
    call,           \* Calls -> the local variables of the call's handler
    settings,       \* the saved settings: every property re-reads the table
    clientTimeout,  \* timeout frozen in _shared_client, or NoClient
    pool,           \* the calls holding a connection of the shared client
    generations,    \* Calls -> the generation rows committed for that call
    lost,           \* the calls whose _record failed and logged the failure
    gone,           \* the calls whose HTTP client has disconnected
    crashes

vars == <<call, settings, clientTimeout, pool, generations, lost, gone, crashes>>

----------------------------------------------------------------------------
\* What a client can send.  "plain" and "stream" reach a recorded route,
\* "pass" any other route; "odd" is a body whose JSON is neither an object
\* nor falsy, for which body.get raises.
Kinds == {"plain", "stream", "pass", "odd"}

\* A line of an upstream stream: "text" carries delta content, "blank" is
\* any line the parser skips or that adds no text (an empty line, [DONE],
\* undecodable JSON, a usage chunk), "odd" is JSON that is not an object.
Lines == {"text", "blank", "odd"}
NoLine == "none"

\* How the generator replay() was left.
Exits == {"none", "eof", "break", "odd", "cancelled", "dropped"}

PCs == {"idle", "body", "queued", "sent", "reading", "yielding", "closing",
        "done", "crashed"}

Idle == [pc |-> "idle", kind |-> "plain", model |-> NoModel,
         route |-> NoProvider, code |-> 0, line |-> NoLine, lines |-> 0,
         texts |-> 0, captured |-> 0, exit |-> "none", resp |-> 0]

CallStates ==
    [pc : PCs, kind : Kinds, model : Models \cup {NoModel},
     route : Providers \cup {NoProvider}, code : Nat,
     line : Lines \cup {NoLine}, lines : Nat, texts : Nat, captured : Nat,
     exit : Exits, resp : Nat]

Rows == [status : {"success", "error"}, provider : Providers \cup {NoProvider},
         text : Nat]

At(c, pc) == call[c].pc = pc

\* The locals of call c after a step; no other call has any part in it.
Become(c, k) == call' = [call EXCEPT ![c] = k]

\* Calls that have left the proxy for an upstream and are not settled.
InFlight(c) == call[c].pc \in {"queued", "sent", "reading", "yielding", "closing"}

Recorded(c) == call[c].kind \in {"plain", "stream"}

\* Client errors of the upstream taken for answers.
LenientIsError(code) == code >= 500

IsError(code) == code >= 400

TypeOK ==
    /\ call \in [Calls -> CallStates]
    /\ settings \in Configs
    /\ clientTimeout \in {s.timeout : s \in Configs \cup Fallbacks} \cup {NoClient}
    /\ pool \subseteq Calls
    /\ generations \in [Calls -> Seq(Rows)]
    /\ lost \subseteq Calls
    /\ gone \subseteq Calls
    /\ crashes \in Nat

Init ==
    /\ call = [c \in Calls |-> Idle]
    /\ settings \in Configs
    /\ clientTimeout = NoClient
    /\ pool = {}
    /\ generations = [c \in Calls |-> << >>]
    /\ lost = {}
    /\ gone = {}
    /\ crashes = 0

----------------------------------------------------------------------------
\* Recording.  _record opens a session of its own, commits, and swallows
\* every exception: a call leaves a row or a line in the log.

\* Resolving the upstream again when the row is written.
LateRecordedProvider(c) == ResolveUpstream(settings.upstreams, call[c].model)

\* The provider label written to the row: the upstream_config the handler holds.
RecordedProvider(c) == call[c].route

\* The payload, which _payload_for_storage may cut, redact or keep, is left out.
Row(c, status, text) ==
    [status |-> status, provider |-> RecordedProvider(c), text |-> text]

\* Writing again after a write that had been committed.
RetriedRecord(c, status, text) ==
    /\ generations' = [generations EXCEPT ![c] =
                         @ \o << Row(c, status, text), Row(c, status, text) >>]
    /\ UNCHANGED lost

Record(c, status, text) ==
    \/ /\ generations' = [generations EXCEPT ![c] = Append(@, Row(c, status, text))]
       /\ UNCHANGED lost
    \/ /\ lost' = lost \cup {c}
       /\ UNCHANGED generations

NoRecord == UNCHANGED <<generations, lost>>

\* Only the completion routes are observed; a pass-through leaves no row.
RecordIf(c, status) == IF Recorded(c) THEN Record(c, status, 0) ELSE NoRecord

\* A stream cut off under a status that GenStatus does not have.
PartialStreamStatus(c) ==
    IF call[c].exit = "break" THEN "partial"
    ELSE IF IsError(call[c].code) THEN "error" ELSE "success"

\* GenStatus of a finished stream: the upstream's status line alone decides.
StreamStatus(c) == IF IsError(call[c].code) THEN "error" ELSE "success"

\* The reconstructed completion; an error stream stores none.
StreamText(c) == IF IsError(call[c].code) THEN 0 ELSE call[c].captured

----------------------------------------------------------------------------
\* What a read of the settings gives: _db_or_env takes the environment's value
\* for one the table does not give, and for one it cannot read.
Readings == {settings} \cup Fallbacks

\* _handle, up to its first await.

Refuse(c) ==
    /\ At(c, "idle")
    /\ \E s \in Readings : s.upstreams = << >>
    /\ \E k \in Kinds :
          Become(c, [Idle EXCEPT !.pc = "done", !.kind = k, !.resp = 503])
    /\ UNCHANGED <<settings, clientTimeout, pool, generations, lost, gone, crashes>>

Arrive(c) ==
    /\ At(c, "idle")
    /\ \E s \in Readings : s.upstreams # << >>
    /\ \E k \in Kinds, m \in Models \cup {NoModel} :
          Become(c, [Idle EXCEPT !.pc = "body", !.kind = k, !.model = m])
    /\ UNCHANGED <<settings, clientTimeout, pool, generations, lost, gone, crashes>>

\* await request.body() raises ClientDisconnect.
BodyAborted(c) ==
    /\ At(c, "body")
    /\ c \in gone
    /\ Become(c, [call[c] EXCEPT !.pc = "done"])
    /\ UNCHANGED <<settings, clientTimeout, pool, generations, lost, gone, crashes>>

\* body.get raises AttributeError: the server answers 500.
RejectOdd(c) ==
    /\ At(c, "body")
    /\ call[c].kind = "odd"
    /\ Become(c, [call[c] EXCEPT !.pc = "done", !.resp = 500])
    /\ UNCHANGED <<settings, clientTimeout, pool, generations, lost, gone, crashes>>

\* _get_client freezes the timeout the first time it is called.
GetClient ==
    IF clientTimeout = NoClient
    THEN \E s \in Readings : clientTimeout' = s.timeout
    ELSE UNCHANGED clientTimeout

\* A call that is answered without being sent, once the client is there.
NotSent(c, code) ==
    /\ At(c, "body")
    /\ call[c].kind # "odd"
    /\ GetClient
    /\ Become(c, [call[c] EXCEPT !.pc = "done", !.resp = code])
    /\ UNCHANGED <<settings, pool, generations, lost, gone, crashes>>

\* The upstreams are read again after the await; they may be gone by now.
NoRoute(c) ==
    /\ \E s \in Readings : ResolveUpstream(s.upstreams, call[c].model) = NoProvider
    /\ NotSent(c, 503)

\* A URL or header that httpx refuses (InvalidURL, no RequestError): 500.
Unsendable(c) ==
    /\ \E s \in Readings : ResolveUpstream(s.upstreams, call[c].model) # NoProvider
    /\ NotSent(c, 500)

\* The handler snapshots its route and awaits a connection of the pool.
Send(c) ==
    /\ At(c, "body")
    /\ call[c].kind # "odd"
    /\ GetClient
    /\ \E p \in {ResolveUpstream(s.upstreams, call[c].model) : s \in Readings} :
          /\ p # NoProvider
          /\ Become(c, [call[c] EXCEPT !.pc = "queued", !.route = p])
    /\ UNCHANGED <<settings, pool, generations, lost, gone, crashes>>

----------------------------------------------------------------------------
\* The request to the upstream.

Acquire(c) ==
    /\ At(c, "queued")
    /\ Cardinality(pool) < PoolSize
    /\ pool' = pool \cup {c}
    /\ Become(c, [call[c] EXCEPT !.pc = "sent"])
    /\ UNCHANGED <<settings, clientTimeout, generations, lost, gone, crashes>>

\* A pool without a timeout.
PatientRequestErrorGuard(c) == At(c, "sent")

\* httpx.RequestError: PoolTimeout for a call that waits while the pool is
\* full, any connect, write, read or protocol error once it has a connection.
RequestErrorGuard(c) ==
    \/ At(c, "queued") /\ Cardinality(pool) >= PoolSize
    \/ At(c, "sent")

\* The client's answer: 502 for a plain call, the default 200 of
\* StreamingResponse for a stream, 500 where nothing catches the exception.
RequestErrorAnswer(c) ==
    CASE call[c].kind = "plain" -> 502
      [] call[c].kind = "stream" -> 200
      [] OTHER -> 500

RequestError(c) ==
    /\ RequestErrorGuard(c)
    /\ pool' = pool \ {c}
    /\ RecordIf(c, "error")
    /\ Become(c, [call[c] EXCEPT !.pc = "done", !.resp = RequestErrorAnswer(c)])
    /\ UNCHANGED <<settings, clientTimeout, gone, crashes>>

\* client.post / client.request return the whole answer.
RespondPlain(c) ==
    /\ At(c, "sent")
    /\ call[c].kind \in {"plain", "pass"}
    /\ pool' = pool \ {c}
    /\ \E code \in UpstreamCodes :
          /\ RecordIf(c, IF IsError(code) THEN "error" ELSE "success")
          /\ Become(c, [call[c] EXCEPT !.pc = "done", !.code = code, !.resp = code])
    /\ UNCHANGED <<settings, clientTimeout, gone, crashes>>

----------------------------------------------------------------------------
\* replay(): the generator behind the StreamingResponse.

\* client.send(stream=True) returns with the status line and headers.
StreamOpened(c) ==
    /\ At(c, "sent")
    /\ call[c].kind = "stream"
    /\ \E code \in UpstreamCodes :
          Become(c, [call[c] EXCEPT !.pc = "reading", !.code = code, !.resp = code])
    /\ UNCHANGED <<settings, clientTimeout, pool, generations, lost, gone, crashes>>

\* A line arrives and is handed to the client before it is parsed.
UpstreamLine(c) ==
    /\ At(c, "reading")
    /\ call[c].lines < MaxLines
    /\ \E l \in Lines :
          Become(c, [call[c] EXCEPT !.pc = "yielding", !.line = l,
                               !.lines = @ + 1,
                               !.texts = IF l = "text" THEN @ + 1 ELSE @])
    /\ UNCHANGED <<settings, clientTimeout, pool, generations, lost, gone, crashes>>

\* Taking the first line for the role chunk that carries no text.
LateCapturedAfter(c) ==
    IF call[c].line = "text" /\ call[c].lines > 1
    THEN call[c].captured + 1 ELSE call[c].captured

\* What parsing adds to captured_text.
CapturedAfter(c) ==
    IF call[c].line = "text" THEN call[c].captured + 1 ELSE call[c].captured

\* The yield returns: the line is parsed and the generator reads on.
ResumeAfterYield(c) ==
    /\ At(c, "yielding")
    /\ call[c].line # "odd"
    /\ Become(c, [call[c] EXCEPT !.pc = "reading", !.line = NoLine,
                               !.captured = CapturedAfter(c)])
    /\ UNCHANGED <<settings, clientTimeout, pool, generations, lost, gone, crashes>>

\* chunk.get on a chunk that is no object raises through the generator.
ResumeOnOddLine(c) ==
    /\ At(c, "yielding")
    /\ call[c].line = "odd"
    /\ Become(c, [call[c] EXCEPT !.pc = "closing", !.exit = "odd"])
    /\ UNCHANGED <<settings, clientTimeout, pool, generations, lost, gone, crashes>>

\* The client left while the server was sending: the generator is dropped at
\* its yield, the line in hand is never parsed.
Dropped(c) ==
    /\ At(c, "yielding")
    /\ c \in gone
    /\ Become(c, [call[c] EXCEPT !.pc = "closing", !.exit = "dropped"])
    /\ UNCHANGED <<settings, clientTimeout, pool, generations, lost, gone, crashes>>

\* The client left while the generator awaited the upstream: CancelledError.
Cancelled(c) ==
    /\ At(c, "reading")
    /\ c \in gone
    /\ Become(c, [call[c] EXCEPT !.pc = "closing", !.exit = "cancelled"])
    /\ pool' = pool \ {c}
    /\ UNCHANGED <<settings, clientTimeout, generations, lost, gone, crashes>>

\* The stream ends, or breaks (ReadTimeout, ReadError, RemoteProtocolError);
\* httpx gives the connection back in both cases.
UpstreamEnds(c, how) ==
    /\ At(c, "reading")
    /\ Become(c, [call[c] EXCEPT !.pc = "closing", !.exit = how])
    /\ pool' = pool \ {c}
    /\ UNCHANGED <<settings, clientTimeout, generations, lost, gone, crashes>>

UpstreamEOF(c) == UpstreamEnds(c, "eof")

\* Recording the broken stream in an except clause, before the finally block.
EagerUpstreamBreak(c) ==
    /\ At(c, "reading")
    /\ Become(c, [call[c] EXCEPT !.pc = "closing", !.exit = "break"])
    /\ pool' = pool \ {c}
    /\ Record(c, "error", 0)
    /\ UNCHANGED <<settings, clientTimeout, gone, crashes>>

UpstreamBreak(c) == UpstreamEnds(c, "break")

\* A finally block that records without closing the response.
LeakyPoolAfterClose(c) == pool

\* The connections left once the finally block has closed the response.
PoolAfterClose(c) == pool \ {c}

\* The finally block: aclose, its errors swallowed, then _record.
Finish(c) ==
    /\ At(c, "closing")
    /\ pool' = PoolAfterClose(c)
    /\ Record(c, StreamStatus(c), StreamText(c))
    /\ Become(c, [call[c] EXCEPT !.pc = "done"])
    /\ UNCHANGED <<settings, clientTimeout, gone, crashes>>

----------------------------------------------------------------------------
\* The environment.

Disconnect(c) ==
    /\ call[c].pc \notin {"idle", "done", "crashed"}
    /\ gone' = gone \cup {c}
    /\ UNCHANGED <<call, settings, clientTimeout, pool, generations, lost, crashes>>

\* set_all_config: the whole form in one transaction.
SaveSettings ==
    /\ settings' \in Configs
    /\ UNCHANGED <<call, clientTimeout, pool, generations, lost, gone, crashes>>

\* The process dies with every handler and the shared client; the tables stay.
Crash ==
    /\ crashes < MaxCrashes
    /\ crashes' = crashes + 1
    /\ call' = [c \in Calls |->
                  IF call[c].pc \in {"idle", "done"} THEN call[c]
                  ELSE [call[c] EXCEPT !.pc = "crashed"]]
    /\ pool' = {}
    /\ clientTimeout' = NoClient
    /\ UNCHANGED <<settings, generations, lost, gone>>

Step(c) ==
    \/ Refuse(c) \/ Arrive(c) \/ BodyAborted(c) \/ RejectOdd(c) \/ NoRoute(c)
    \/ Unsendable(c) \/ Send(c) \/ Acquire(c) \/ RequestError(c) \/ RespondPlain(c)
    \/ StreamOpened(c) \/ UpstreamLine(c) \/ ResumeAfterYield(c)
    \/ ResumeOnOddLine(c) \/ Dropped(c) \/ Cancelled(c) \/ UpstreamEOF(c)
    \/ UpstreamBreak(c) \/ Finish(c) \/ Disconnect(c)

Next == SaveSettings \/ Crash \/ \E c \in Calls : Step(c)

Spec == Init /\ [][Next]_vars

(****************************************************************************)
(* Fairness.  The loop runs a ready handler, httpx bounds every wait for a  *)
(* connection and for a line by its timeouts, and the server notices that a *)
(* client has left at its next send or receive.  A connected client owes    *)
(* nothing: it may stop reading, or stop sending its body, for ever.        *)
(****************************************************************************)
Upstream(c) ==
    RequestError(c) \/ RespondPlain(c) \/ StreamOpened(c) \/ UpstreamLine(c)
        \/ UpstreamEOF(c) \/ UpstreamBreak(c)

LeaveYield(c) == ResumeAfterYield(c) \/ ResumeOnOddLine(c) \/ Dropped(c)

Fairness ==
    \A c \in Calls :
        /\ WF_vars(Acquire(c) \/ Upstream(c))
        /\ WF_vars(c \in gone /\ LeaveYield(c))
        /\ WF_vars(Finish(c))

FairSpec == Spec /\ Fairness

----------------------------------------------------------------------------
(* Properties. *)

OneRow(c) ==
    Len(generations[c]) =
        IF /\ At(c, "done")
           /\ Recorded(c)
           /\ call[c].route # NoProvider
           /\ c \notin lost
        THEN 1 ELSE 0

\* Every call sent to an upstream on a recorded route leaves exactly one row
\* or one logged failure, however it ended: answered, refused by the network,
\* broken mid-stream, left by its client.  Refused calls and other routes
\* leave none.  (The finally block of replay and the three _record calls.)
RecordedOnce == \A c \in Calls : OneRow(c)

Attributed(c) ==
    \A i \in DOMAIN generations[c] :
        /\ call[c].route \in Providers
        /\ generations[c][i].provider = call[c].route

\* A row names the provider whose URL and key the call used, although the
\* settings may have changed between the routing and the recording.
\* (upstream_config is resolved once, after the body was read.)
RowsAttributed == \A c \in Calls : Attributed(c)

\* No upstream answered, or it answered 400 or above.
Failed(c) == call[c].code = 0 \/ call[c].code >= 400

Truthful(c) ==
    \A i \in DOMAIN generations[c] :
        /\ (generations[c][i].status = "error") <=> Failed(c)
        /\ call[c].kind = "plain" => (call[c].resp >= 400 <=> Failed(c))

\* A row says "error" exactly when its call failed, and a plain call's client
\* saw an error code in the same cases.  (is_error, and the 502 answer.)
StatusTruthful == \A c \in Calls : Truthful(c)

\* A text line the client was handed and the generator has not parsed.
InHand(c) == (At(c, "yielding") \/ call[c].exit = "dropped") /\ call[c].line = "text"

Faithful(c) ==
    /\ call[c].pc # "crashed" =>
         call[c].captured = (IF InHand(c) THEN call[c].texts - 1 ELSE call[c].texts)
    /\ \A i \in DOMAIN generations[c] :
         generations[c][i].status = "success" => generations[c][i].text = call[c].captured

\* The captured completion holds every text line handed to the client, less
\* the one in hand while the generator is suspended, or was dropped, at its
\* yield; a successful row stores that completion.  (The loop of replay.)
CaptureFaithful == \A c \in Calls : Faithful(c)

\* A call waiting on an upstream, or whose response is not closed yet.
HoldsConnection(c) ==
    \/ call[c].pc \in {"sent", "reading", "yielding"}
    \/ call[c].pc = "closing" /\ call[c].exit \in {"odd", "dropped"}

\* A connection is held exactly by the calls that use one: no exit from the
\* generator leaks one, and the limit of the shared client holds.
PoolAccounting ==
    /\ pool = {c \in Calls : HoldsConnection(c)}
    /\ Cardinality(pool) <= PoolSize

\* A call that was sent ends, or is waiting for its own client to read: it
\* never waits for another call's client, because a full pool times out.
CallsSettle ==
    \A c \in Calls :
        At(c, "queued") ~> call[c].pc \in {"yielding", "done", "crashed"}

\* Once its client has left, a call that was sent settles and gives its
\* connection back.
LeftCallsSettle ==
    \A c \in Calls :
        (InFlight(c) /\ c \in gone) ~> (~InFlight(c) /\ c \notin pool)

\* The proxy keeps the promise of CallLedger.
Phase(c) ==
    CASE call[c].pc \in {"idle", "body"} -> "new"
      [] InFlight(c) -> "open"
      [] OTHER -> "closed"

Entry(row) == [provider |-> row.provider, status |-> row.status]

Ledger == INSTANCE CallLedger WITH
    Statuses <- {"success", "error"},
    phase <- [c \in Calls |-> Phase(c)],
    target <- [c \in Calls |-> call[c].route],
    ledger <- [c \in Calls |->
                 [i \in DOMAIN generations[c] |-> Entry(generations[c][i])]]

LedgerSpec == Ledger!Spec

----------------------------------------------------------------------------
(* A statement of a comment that the code does not keep. *)

\* proxy.py, module docstring: a failure in the recording path never breaks
\* the user's LLM call - parsing a chunk for the record is that path.
RecordingNeverBreaksCall == \A c \in Calls : call[c].exit # "odd"
==============================================================================
