--------------------------- MODULE ProxyCallProofs ---------------------------
(****************************************************************************)
(* Safety of the recording proxy, for any set of calls, providers, settings *)
(* and status codes, any pool size and any length of a stream.              *)
(*                                                                          *)
(* resolve_upstream is a choice of least positions; what it returns comes   *)
(* first, since every call rests on it.                                     *)
(*                                                                          *)
(* TypeOK is inductive by itself.  The properties of the rows are not: what *)
(* a finished call recorded depends on what its handler held when it was    *)
(* in flight.  CallInv(c) therefore adds Handler(c), which says at each     *)
(* program counter which locals the handler has, and ProxyInv adds the      *)
(* pool.  CallInv(c) speaks of call c alone, so a step of another call      *)
(* preserves it (CallInvFrame) and each action needs one case.              *)
(****************************************************************************)
EXTENDS ProxyCall, FiniteSetTheorems, TLAPS

(* Routing: what resolve_upstream returns. *)

\* First is well defined: a non-empty set of positions has a least element.
\* (The intervals 1..i, ordered by strict inclusion, are well founded.)
LEMMA FirstInSet ==
    ASSUME NEW n \in Nat, NEW S \in SUBSET (1 .. n), S # {}
    PROVE  First(S) \in S /\ \A j \in S : First(S) <= j
<1> DEFINE T == {1 .. i : i \in S}
<1>1. IsWellFoundedOn(StrictSubsetOrdering(1 .. n), SUBSET (1 .. n))
  <2>1. IsFiniteSet(1 .. n)
    BY FS_Interval
  <2>2. FiniteSubsetsOf(1 .. n) = SUBSET (1 .. n)
    BY <2>1, FS_FiniteSubsetsOfFinite
  <2>3. QED BY <2>2, FS_StrictSubsetOrderingWellFounded
<1>2. T # {} /\ T \subseteq SUBSET (1 .. n)
  <2>1. PICK i \in S : TRUE
    OBVIOUS
  <2>2. 1 .. i \in T
    OBVIOUS
  <2>3. \A k \in S : 1 .. k \subseteq 1 .. n
    OBVIOUS
  <2>4. QED BY <2>2, <2>3
<1>3. PICK X \in T : \A Y \in T : ~(<<Y, X>> \in StrictSubsetOrdering(1 .. n))
  BY <1>1, <1>2, WFMin, Zenon
<1>4. PICK i \in S : X = 1 .. i
  OBVIOUS
<1>5. ASSUME NEW j \in S, j < i PROVE FALSE
  <2>1. 1 .. j \in T /\ 1 .. j \subseteq X /\ 1 .. j # X
    BY <1>4, <1>5
  <2>2. QED BY <1>2, <1>3, <2>1 DEF StrictSubsetOrdering
<1>6. \A j \in S : i <= j
  BY <1>5
<1>7. QED BY <1>6 DEF First

LEMMA PositionsType ==
    ASSUME NEW ups \in Seq(Providers), NEW model
    PROVE  /\ Matching(ups, model) \in SUBSET (1 .. Len(ups))
           /\ Defaults(ups) \in SUBSET (1 .. Len(ups))
BY DEF Matching, Defaults

\* The provider at the first of a non-empty set of positions is configured.
LEMMA FirstIsConfigured ==
    ASSUME NEW ups \in Seq(Providers), NEW S \in SUBSET (1 .. Len(ups)), S # {}
    PROVE  First(S) \in 1 .. Len(ups) /\ ups[First(S)] \in Providers
<1>1. Len(ups) \in Nat
  OBVIOUS
<1>2. First(S) \in S
  BY <1>1, FirstInSet
<1>3. First(S) \in 1 .. Len(ups)
  BY <1>2
<1>4. QED BY <1>3

\* A call is routed to a configured provider exactly when there is one.
THEOREM ResolveUpstreamType ==
    ASSUME NEW ups \in Seq(Providers), NEW model
    PROVE  IF ups = << >> THEN ResolveUpstream(ups, model) = NoProvider
                          ELSE ResolveUpstream(ups, model) \in Providers
<1>1. CASE ups = << >>
  BY <1>1 DEF ResolveUpstream
<1>2. CASE ups # << >>
  <2>1. ups[1] \in Providers
    BY <1>2
  <2>2. Matching(ups, model) # {} => ups[First(Matching(ups, model))] \in Providers
    BY PositionsType, FirstIsConfigured
  <2>3. Defaults(ups) # {} => ups[First(Defaults(ups))] \in Providers
    BY PositionsType, FirstIsConfigured
  <2>4. QED BY <1>2, <2>1, <2>2, <2>3 DEF ResolveUpstream
<1>3. QED BY <1>1, <1>2

\* The first provider that lists a fitting pattern wins: the chosen one fits
\* and no provider before it does.  (CHANGELOG.md: first matching rule wins.)
THEOREM FirstMatchWins ==
    ASSUME NEW ups \in Seq(Providers), NEW model \in Models,
           NEW k \in 1 .. Len(ups), MatchesModel(ups[k], model)
    PROVE  \E i \in 1 .. k :
              /\ ResolveUpstream(ups, model) = ups[i]
              /\ MatchesModel(ups[i], model)
              /\ \A j \in 1 .. (i - 1) : ~MatchesModel(ups[j], model)
<1> DEFINE M == Matching(ups, model)
<1>1. k \in M /\ M \in SUBSET (1 .. Len(ups))
  BY PositionsType DEF Matching
<1>2. First(M) \in M /\ \A j \in M : First(M) <= j
  <2>1. Len(ups) \in Nat /\ M # {}
    BY <1>1
  <2> HIDE DEF M
  <2>2. QED BY <1>1, <2>1, FirstInSet
<1>3. ResolveUpstream(ups, model) = ups[First(M)]
  BY <1>1, UpstreamsAssumption DEF ResolveUpstream
<1>4. MatchesModel(ups[First(M)], model)
  BY <1>2 DEF Matching
<1>5. First(M) \in 1 .. k
  BY <1>1, <1>2
<1>6. ASSUME NEW j \in 1 .. (First(M) - 1), MatchesModel(ups[j], model) PROVE FALSE
  <2>1. j \in M
    BY <1>1, <1>2, <1>6 DEF Matching
  <2>2. QED BY <1>1, <1>2, <1>6, <2>1
<1>7. QED BY <1>3, <1>4, <1>5, <1>6

\* A model that fits no pattern goes to the first provider without patterns,
\* wherever it stands, and to the first of all when every provider has some: a
\* provider with "*" has fitted already.
THEOREM DefaultOtherwise ==
    ASSUME NEW ups \in Seq(Providers), ups # << >>, NEW model \in Models,
           \A k \in DOMAIN ups : ~MatchesModel(ups[k], model)
    PROVE  \/ \E i \in DOMAIN ups :
                 /\ PatternsOf[ups[i]] = {} /\ ResolveUpstream(ups, model) = ups[i]
                 /\ \A j \in 1 .. (i - 1) : PatternsOf[ups[j]] # {}
           \/ /\ ResolveUpstream(ups, model) = ups[1]
              /\ \A i \in DOMAIN ups : PatternsOf[ups[i]] # {}
<1> DEFINE D == Defaults(ups)
<1>1. Matching(ups, model) = {}
  BY DEF Matching
<1>2. D = {i \in DOMAIN ups : PatternsOf[ups[i]] = {}}
  BY UpstreamsAssumption DEF Defaults, MatchesModel
<1>3. D \in SUBSET (1 .. Len(ups)) /\ Len(ups) \in Nat /\ DOMAIN ups = 1 .. Len(ups)
  BY <1>2
<1>4. CASE D = {}
  <2>1. ResolveUpstream(ups, model) = ups[1]
    BY <1>1, <1>4 DEF ResolveUpstream
  <2>2. QED BY <1>2, <1>4, <2>1
<1>5. CASE D # {}
  <2>1. ResolveUpstream(ups, model) = ups[First(D)]
    BY <1>1, <1>5 DEF ResolveUpstream
  <2>2. First(D) \in D /\ \A j \in D : First(D) <= j
    <3> HIDE DEF D
    <3>1. QED BY <1>3, <1>5, FirstInSet
  <2> DEFINE i == First(D)
  <2> HIDE DEF D, i
  <2>3. i \in D /\ \A j \in D : i <= j
    BY <2>2 DEF i
  <2>4. i \in 1 .. Len(ups) /\ i \in DOMAIN ups /\ PatternsOf[ups[i]] = {}
    BY <1>2, <1>3, <2>3
  <2>5. \A j \in 1 .. (i - 1) : j \in DOMAIN ups /\ j \notin D
    BY <1>3, <2>3, <2>4
  <2>6. QED BY <1>2, <2>1, <2>4, <2>5 DEF i
<1>6. QED BY <1>4, <1>5

----------------------------------------------------------------------------
(* The inductive invariant. *)

\* What the handler of a call that has not settled holds.
Handler(c) ==
    /\ call[c].pc \in {"idle", "body"} =>
          /\ call[c].route = NoProvider
          /\ call[c].code = 0
    /\ InFlight(c) => call[c].route \in Providers
    /\ call[c].pc \in {"idle", "body", "queued", "sent"} =>
          /\ call[c].code = 0
          /\ call[c].texts = 0 /\ call[c].captured = 0
          /\ call[c].line = NoLine
    /\ call[c].pc \in {"idle", "body", "queued", "sent", "reading", "yielding"} =>
          call[c].exit = "none"
    /\ call[c].pc = "reading" => call[c].line = NoLine
    /\ call[c].pc \in {"reading", "yielding", "closing"} =>
          /\ call[c].kind = "stream"
          /\ call[c].code \in UpstreamCodes
    /\ call[c].pc \in {"queued", "sent"} => call[c].kind # "odd"
    /\ call[c].pc \notin {"done", "crashed"} => c \notin lost

CallInv(c) == OneRow(c) /\ Attributed(c) /\ Truthful(c) /\ Faithful(c) /\ Handler(c)

ProxyInv == TypeOK /\ PoolAccounting /\ \A c \in Calls : CallInv(c)

----------------------------------------------------------------------------
(* Types. *)

LEMMA ReadingType ==
    ASSUME TypeOK, NEW s \in Readings
    PROVE  /\ s.upstreams \in Seq(Providers)
           /\ s.timeout \in {t.timeout : t \in Configs \cup Fallbacks}
BY ProxyAssumption DEF TypeOK, Readings

LEMMA RouteType ==
    ASSUME TypeOK, NEW c \in Calls, NEW s \in Readings
    PROVE  ResolveUpstream(s.upstreams, call[c].model) \in Providers \cup {NoProvider}
BY ReadingType, ResolveUpstreamType

\* The provider a call is sent to is one of the reading that named it.
LEMMA SendRoute ==
    ASSUME TypeOK, NEW c \in Calls, Send(c)
    PROVE  \E p \in Providers : Become(c, [call[c] EXCEPT !.pc = "queued", !.route = p])
<1>1. PICK s \in Readings :
         /\ ResolveUpstream(s.upstreams, call[c].model) # NoProvider
         /\ Become(c, [call[c] EXCEPT !.pc = "queued",
                                      !.route = ResolveUpstream(s.upstreams, call[c].model)])
  BY DEF Send
<1>2. QED BY <1>1, RouteType

LEMMA TimeoutType ==
    ASSUME TypeOK, GetClient
    PROVE  clientTimeout' \in {s.timeout : s \in Configs \cup Fallbacks} \cup {NoClient}
BY ReadingType DEF TypeOK, GetClient

LEMMA RowType ==
    ASSUME TypeOK, NEW c \in Calls, NEW status \in {"success", "error"}, NEW text \in Nat
    PROVE  Row(c, status, text) \in Rows
BY DEF TypeOK, CallStates, Row, Rows, RecordedProvider

LEMMA RecordType ==
    ASSUME TypeOK, NEW c \in Calls, NEW status \in {"success", "error"}, NEW text \in Nat,
           Record(c, status, text)
    PROVE  generations' \in [Calls -> Seq(Rows)] /\ lost' \subseteq Calls
<1> DEFINE r == Row(c, status, text)
<1>1. r \in Rows
  BY RowType
<1> HIDE DEF r
<1>2. generations[c] \in Seq(Rows)
  BY DEF TypeOK
<1>3. Append(generations[c], r) \in Seq(Rows)
  BY <1>1, <1>2
<1>4. CASE generations' = [generations EXCEPT ![c] = Append(@, r)] /\ UNCHANGED lost
  BY <1>3, <1>4 DEF TypeOK
<1>5. CASE lost' = lost \cup {c} /\ UNCHANGED generations
  BY <1>5 DEF TypeOK
<1>6. QED BY <1>4, <1>5 DEF Record, r

LEMMA IdleType == Idle \in CallStates
BY DEF Idle, CallStates, PCs, Kinds, NoLine, Exits

LEMMA TypeInit == Init => TypeOK
BY IdleType, ProxyAssumption DEF Init, TypeOK

\* A step types the calls if the record it puts at c is typed.
LEMMA BecomeType ==
    ASSUME TypeOK, NEW c \in Calls, NEW k \in CallStates, Become(c, k)
    PROVE  call' \in [Calls -> CallStates]
BY DEF TypeOK, Become

LEMMA LocalsType ==
    ASSUME TypeOK, NEW c \in Calls
    PROVE  call[c] \in CallStates
BY DEF TypeOK

\* The records the actions build.
LEMMA EndType ==
    ASSUME NEW k \in CallStates, NEW pc \in PCs
    PROVE  [k EXCEPT !.pc = pc] \in CallStates
BY DEF CallStates

LEMMA AnswerType ==
    ASSUME NEW k \in CallStates, NEW code \in Nat
    PROVE  [k EXCEPT !.pc = "done", !.resp = code] \in CallStates
BY DEF CallStates, PCs

LEMMA RefuseType ==
    ASSUME NEW k \in Kinds
    PROVE  [Idle EXCEPT !.pc = "done", !.kind = k, !.resp = 503] \in CallStates
<1>1. \A code \in Nat : [Idle EXCEPT !.pc = "done", !.kind = k, !.resp = code] \in CallStates
  BY IdleType DEF CallStates, PCs
<1>2. 503 \in Nat
  OBVIOUS
<1>3. QED BY <1>1, <1>2

LEMMA LineType ==
    ASSUME NEW k \in CallStates, NEW l \in Lines
    PROVE  [k EXCEPT !.pc = "yielding", !.line = l, !.lines = @ + 1,
                     !.texts = IF l = "text" THEN @ + 1 ELSE @] \in CallStates
<1>1. ASSUME NEW n \in Nat, NEW t \in Nat
      PROVE  [k EXCEPT !.pc = "yielding", !.line = l, !.lines = n, !.texts = t] \in CallStates
  BY DEF CallStates, PCs
<1>2. k.lines + 1 \in Nat /\ (IF l = "text" THEN k.texts + 1 ELSE k.texts) \in Nat
  BY DEF CallStates
<1>3. QED BY <1>1, <1>2

LEMMA CodeType ==
    ASSUME NEW k \in CallStates, NEW pc \in PCs, NEW code \in UpstreamCodes
    PROVE  [k EXCEPT !.pc = pc, !.code = code, !.resp = code] \in CallStates
<1>1. code \in Nat
  BY ProxyAssumption
<1>2. QED BY <1>1 DEF CallStates

LEMMA ExitType ==
    ASSUME NEW k \in CallStates, NEW how \in Exits
    PROVE  [k EXCEPT !.pc = "closing", !.exit = how] \in CallStates
BY DEF CallStates, PCs

\* The state a step leaves to the handler of c, to the pool and to the rows.
LEMMA TypeStep ==
    ASSUME TypeOK, NEW c \in Calls, Step(c)
    PROVE  TypeOK'
<1>0. call[c] \in CallStates
  BY LocalsType
<1>1. CASE Refuse(c)
  <2>1. PICK k \in Kinds : Become(c, [Idle EXCEPT !.pc = "done", !.kind = k, !.resp = 503])
    BY <1>1 DEF Refuse
  <2>2. [Idle EXCEPT !.pc = "done", !.kind = k, !.resp = 503] \in CallStates
    BY RefuseType
  <2>3. QED BY <1>1, <2>1, <2>2, BecomeType DEF Refuse, TypeOK
<1>2. CASE Arrive(c)
  <2>1. PICK k \in Kinds, m \in Models \cup {NoModel} :
           Become(c, [Idle EXCEPT !.pc = "body", !.kind = k, !.model = m])
    BY <1>2 DEF Arrive
  <2>2. [Idle EXCEPT !.pc = "body", !.kind = k, !.model = m] \in CallStates
    BY IdleType DEF CallStates, PCs
  <2>3. QED BY <1>2, <2>1, <2>2, BecomeType DEF Arrive, TypeOK
<1>3. CASE BodyAborted(c)
  <2>1. [call[c] EXCEPT !.pc = "done"] \in CallStates
    BY <1>0, EndType DEF PCs
  <2>2. QED BY <1>3, <2>1, BecomeType DEF BodyAborted, TypeOK
<1>4. CASE RejectOdd(c)
  <2>1. [call[c] EXCEPT !.pc = "done", !.resp = 500] \in CallStates
    <3>1. 500 \in Nat
      OBVIOUS
    <3>2. QED BY <1>0, <3>1, AnswerType, Zenon
  <2>2. QED BY <1>4, <2>1, BecomeType DEF RejectOdd, TypeOK
<1>5. CASE NoRoute(c) \/ Unsendable(c)
  <2>1. PICK code \in Nat :
           GetClient /\ Become(c, [call[c] EXCEPT !.pc = "done", !.resp = code])
    <3>1. 500 \in Nat /\ 503 \in Nat
      OBVIOUS
    <3>2. NotSent(c, 500) \/ NotSent(c, 503)
      BY <1>5 DEF NoRoute, Unsendable
    <3>3. QED BY <3>1, <3>2, Zenon DEF NotSent
  <2>2. [call[c] EXCEPT !.pc = "done", !.resp = code] \in CallStates
    BY <1>0, AnswerType
  <2>3. QED BY <1>5, <2>1, <2>2, BecomeType, TimeoutType
            DEF NoRoute, Unsendable, NotSent, TypeOK
<1>6. CASE Send(c)
  <2>1. PICK p \in Providers : Become(c, [call[c] EXCEPT !.pc = "queued", !.route = p])
    BY <1>6, SendRoute
  <2>2. [call[c] EXCEPT !.pc = "queued", !.route = p] \in CallStates
    BY <1>0 DEF CallStates, PCs
  <2>3. QED BY <1>6, <2>1, <2>2, BecomeType, TimeoutType DEF Send, TypeOK
<1>7. CASE Acquire(c)
  <2>1. [call[c] EXCEPT !.pc = "sent"] \in CallStates
    BY <1>0, EndType DEF PCs
  <2>2. QED BY <1>7, <2>1, BecomeType DEF Acquire, TypeOK
<1>8. CASE RequestError(c)
  <2>1. generations' \in [Calls -> Seq(Rows)] /\ lost' \subseteq Calls
    BY <1>8, RecordType DEF RequestError, RecordIf, NoRecord, TypeOK
  <2>2. RequestErrorAnswer(c) \in Nat
    BY DEF RequestErrorAnswer
  <2>3. [call[c] EXCEPT !.pc = "done", !.resp = RequestErrorAnswer(c)] \in CallStates
    BY <1>0, <2>2, AnswerType
  <2>4. QED BY <1>8, <2>1, <2>3, BecomeType DEF RequestError, TypeOK
<1>9. CASE RespondPlain(c)
  <2>1. PICK code \in UpstreamCodes :
           /\ RecordIf(c, IF IsError(code) THEN "error" ELSE "success")
           /\ Become(c, [call[c] EXCEPT !.pc = "done", !.code = code, !.resp = code])
    BY <1>9 DEF RespondPlain
  <2>2. generations' \in [Calls -> Seq(Rows)] /\ lost' \subseteq Calls
    BY <2>1, RecordType DEF RecordIf, NoRecord, TypeOK
  <2>3. [call[c] EXCEPT !.pc = "done", !.code = code, !.resp = code] \in CallStates
    BY <1>0, CodeType DEF PCs
  <2>4. QED BY <1>9, <2>1, <2>2, <2>3, BecomeType DEF RespondPlain, TypeOK
<1>10. CASE StreamOpened(c)
  <2>1. PICK code \in UpstreamCodes :
           Become(c, [call[c] EXCEPT !.pc = "reading", !.code = code, !.resp = code])
    BY <1>10 DEF StreamOpened
  <2>2. [call[c] EXCEPT !.pc = "reading", !.code = code, !.resp = code] \in CallStates
    BY <1>0, CodeType DEF PCs
  <2>3. QED BY <1>10, <2>1, <2>2, BecomeType DEF StreamOpened, TypeOK
<1>11. CASE UpstreamLine(c)
  <2>1. PICK l \in Lines :
           Become(c, [call[c] EXCEPT !.pc = "yielding", !.line = l, !.lines = @ + 1,
                                     !.texts = IF l = "text" THEN @ + 1 ELSE @])
    BY <1>11 DEF UpstreamLine
  <2>2. [call[c] EXCEPT !.pc = "yielding", !.line = l, !.lines = @ + 1,
                        !.texts = IF l = "text" THEN @ + 1 ELSE @] \in CallStates
    BY <1>0, LineType
  <2>3. QED BY <1>11, <2>1, <2>2, BecomeType DEF UpstreamLine, TypeOK
<1>12. CASE ResumeAfterYield(c)
  <2>1. CapturedAfter(c) \in Nat
    BY <1>0 DEF CapturedAfter, CallStates
  <2>2. [call[c] EXCEPT !.pc = "reading", !.line = NoLine, !.captured = CapturedAfter(c)]
           \in CallStates
    BY <1>0, <2>1 DEF CallStates, PCs
  <2>3. QED BY <1>12, <2>2, BecomeType DEF ResumeAfterYield, TypeOK
<1>13. CASE ResumeOnOddLine(c)
  <2>1. [call[c] EXCEPT !.pc = "closing", !.exit = "odd"] \in CallStates
    BY <1>0, ExitType DEF Exits
  <2>2. QED BY <1>13, <2>1, BecomeType DEF ResumeOnOddLine, TypeOK
<1>14. CASE Dropped(c)
  <2>1. [call[c] EXCEPT !.pc = "closing", !.exit = "dropped"] \in CallStates
    BY <1>0, ExitType DEF Exits
  <2>2. QED BY <1>14, <2>1, BecomeType DEF Dropped, TypeOK
<1>15. CASE Cancelled(c)
  <2>1. [call[c] EXCEPT !.pc = "closing", !.exit = "cancelled"] \in CallStates
    BY <1>0, ExitType DEF Exits
  <2>2. QED BY <1>15, <2>1, BecomeType DEF Cancelled, TypeOK
<1>16. ASSUME NEW how \in Exits, UpstreamEnds(c, how) PROVE TypeOK'
  <2>1. [call[c] EXCEPT !.pc = "closing", !.exit = how] \in CallStates
    BY <1>0, ExitType
  <2>2. QED BY <1>16, <2>1, BecomeType DEF UpstreamEnds, TypeOK
<1>17. CASE Finish(c)
  <2>1. StreamStatus(c) \in {"success", "error"} /\ StreamText(c) \in Nat
    BY <1>0 DEF StreamStatus, StreamText, CallStates
  <2>2. generations' \in [Calls -> Seq(Rows)] /\ lost' \subseteq Calls
    BY <1>17, <2>1, RecordType DEF Finish
  <2>3. [call[c] EXCEPT !.pc = "done"] \in CallStates
    BY <1>0, EndType DEF PCs
  <2>4. QED BY <1>17, <2>2, <2>3, BecomeType DEF Finish, PoolAfterClose, TypeOK
<1>18. CASE Disconnect(c)
  BY <1>18 DEF Disconnect, TypeOK
<1>19. QED
  BY <1>1, <1>2, <1>3, <1>4, <1>5, <1>6, <1>7, <1>8, <1>9, <1>10, <1>11, <1>12,
     <1>13, <1>14, <1>15, <1>16, <1>17, <1>18
  DEF Step, UpstreamEOF, UpstreamBreak, Exits

LEMMA TypeNext ==
    ASSUME TypeOK, [Next]_vars
    PROVE  TypeOK'
<1>1. CASE SaveSettings
  BY <1>1 DEF SaveSettings, TypeOK
<1>2. CASE Crash
  <2>1. \A c \in Calls : call[c] \in CallStates /\ [call[c] EXCEPT !.pc = "crashed"] \in CallStates
    BY LocalsType, EndType DEF PCs
  <2>2. QED BY <1>2, <2>1 DEF Crash, TypeOK
<1>3. CASE UNCHANGED vars
  BY <1>3 DEF vars, TypeOK
<1>4. QED BY <1>1, <1>2, <1>3, TypeStep DEF Next

\* Every reachable state is well typed: no handler reaches a state in which
\* its locals, the pool or the rows are not what the code expects.
THEOREM TypeCorrect == Spec => []TypeOK
BY TypeInit, TypeNext, PTL DEF Spec

----------------------------------------------------------------------------
(* The calls and their rows. *)

LEMMA BecomeAt ==
    ASSUME TypeOK, NEW c \in Calls, NEW k, Become(c, k)
    PROVE  call'[c] = k /\ \A d \in Calls \ {c} : call'[d] = call[d]
BY DEF TypeOK, Become

\* A call that has not ended has no row yet.
LEMMA NoRowYet ==
    ASSUME TypeOK, NEW c \in Calls, CallInv(c), call[c].pc # "done"
    PROVE  generations[c] = << >>
<1>1. generations[c] \in Seq(Rows) /\ Len(generations[c]) = 0
  BY DEF TypeOK, CallInv, OneRow, At
<1>2. QED BY <1>1

LEMMA RecordEffect ==
    ASSUME TypeOK, NEW c \in Calls, generations[c] = << >>, NEW status, NEW text,
           Record(c, status, text)
    PROVE  /\ \/ generations'[c] = << Row(c, status, text) >> /\ lost' = lost
              \/ generations'[c] = << >> /\ lost' = lost \cup {c}
           /\ \A d \in Calls \ {c} : generations'[d] = generations[d]
<1> DEFINE r == Row(c, status, text)
<1>1. Append(<< >>, r) = << r >>
  OBVIOUS
<1>2. CASE generations' = [generations EXCEPT ![c] = Append(@, r)] /\ UNCHANGED lost
  <2> HIDE DEF r
  <2>1. generations'[c] = << r >> /\ \A d \in Calls \ {c} : generations'[d] = generations[d]
    BY <1>1, <1>2 DEF TypeOK
  <2>2. QED BY <1>2, <2>1 DEF r
<1>3. CASE lost' = lost \cup {c} /\ UNCHANGED generations
  BY <1>3
<1>4. QED BY <1>2, <1>3 DEF Record, r

\* What a step does to call c's record and rows is all that matters to CallInv(c).
LEMMA CallInvFrame ==
    ASSUME NEW d \in Calls, CallInv(d), call'[d] = call[d],
           generations'[d] = generations[d], d \in lost' <=> d \in lost
    PROVE  CallInv(d)'
BY DEF CallInv, OneRow, Attributed, Truthful, Faithful, Handler, Failed, InHand,
       At, Recorded, InFlight

\* Without a row, and not ended after being sent, only the locals matter.
LEMMA NoRowInv ==
    ASSUME NEW c \in Calls, generations'[c] = << >>,
           call'[c].pc # "done" \/ call'[c].route = NoProvider
    PROVE  OneRow(c)' /\ Attributed(c)' /\ Truthful(c)' /\ (Faithful(c)' <=>
              (call'[c].pc # "crashed" =>
                 call'[c].captured =
                    IF InHand(c)' THEN call'[c].texts - 1 ELSE call'[c].texts))
BY DEF OneRow, Attributed, Truthful, Faithful, At

\* The steps of a handler that write no row and leave it in flight or refuse it.
LEMMA QuietStep ==
    ASSUME TypeOK, NEW c \in Calls, CallInv(c),
           \/ Refuse(c) \/ Arrive(c) \/ BodyAborted(c) \/ RejectOdd(c) \/ NoRoute(c) \/ Unsendable(c)
           \/ Send(c) \/ Acquire(c) \/ StreamOpened(c) \/ UpstreamLine(c)
           \/ ResumeAfterYield(c) \/ ResumeOnOddLine(c) \/ Dropped(c) \/ Cancelled(c)
           \/ UpstreamEOF(c) \/ UpstreamBreak(c)
    PROVE  CallInv(c)'
<1>0. call[c] \in CallStates
  BY LocalsType
<1>1. generations'[c] = << >> /\ generations[c] = << >> /\ (c \in lost' <=> c \in lost)
  BY NoRowYet DEF At, Refuse, Arrive, BodyAborted, RejectOdd, NoRoute, Unsendable, NotSent, Send, Acquire,
     StreamOpened, UpstreamLine, ResumeAfterYield, ResumeOnOddLine, Dropped, Cancelled,
     UpstreamEOF, UpstreamBreak, UpstreamEnds
<1> USE DEF CallInv, OneRow, Attributed, Truthful, Faithful, Handler, Failed, InHand,
        At, Recorded, InFlight
<1>2. CASE Refuse(c)
  <2>0. PICK k \in Kinds :
         Become(c, [Idle EXCEPT !.pc = "done", !.kind = k, !.resp = 503])
    BY <1>2 DEF Refuse
  <2>1. call'[c] = [Idle EXCEPT !.pc = "done", !.kind = k, !.resp = 503]
    BY <2>0, BecomeAt
  <2>2. /\ call'[c].pc = "done" /\ call'[c].route = NoProvider /\ call'[c].code = 0
        /\ call'[c].texts = 0 /\ call'[c].captured = 0 /\ call'[c].line = "none"
        /\ call'[c].exit = "none"
    BY <2>1 DEF Idle, NoLine
  <2>3. QED BY <1>1, <1>2, <2>2
<1>3. CASE Arrive(c)
  <2>0. PICK k \in Kinds, m \in Models \cup {NoModel} :
         Become(c, [Idle EXCEPT !.pc = "body", !.kind = k, !.model = m])
    BY <1>3 DEF Arrive
  <2>1. call'[c] = [Idle EXCEPT !.pc = "body", !.kind = k, !.model = m]
    BY <2>0, BecomeAt
  <2>2. /\ call'[c].pc = "body" /\ call'[c].route = NoProvider /\ call'[c].code = 0
        /\ call'[c].texts = 0 /\ call'[c].captured = 0 /\ call'[c].line = "none"
        /\ call'[c].exit = "none"
    BY <2>1 DEF Idle, NoLine
  <2>3. OneRow(c)' /\ Attributed(c)' /\ Truthful(c)' /\ Faithful(c)'
    BY <1>1, <2>2, NoRowInv
  <2>4. c \notin lost'
    BY <1>1, <1>3 DEF Arrive
  <2>5. QED BY <2>2, <2>3, <2>4 DEF NoLine
<1>4. CASE BodyAborted(c)
  <2>1. call'[c] = [call[c] EXCEPT !.pc = "done"]
    BY <1>4, BecomeAt DEF BodyAborted
  <2>2. QED BY <1>0, <1>1, <1>4, <2>1 DEF BodyAborted, CallStates
<1>5. CASE RejectOdd(c) \/ NoRoute(c) \/ Unsendable(c)
  <2>1. PICK code : Become(c, [call[c] EXCEPT !.pc = "done", !.resp = code])
    <3>1. CASE RejectOdd(c)
      BY <3>1 DEF RejectOdd
    <3>2. CASE NoRoute(c) \/ Unsendable(c)
      BY <3>2 DEF NoRoute, Unsendable, NotSent
    <3>3. QED BY <1>5, <3>1, <3>2
  <2>2. call'[c] = [call[c] EXCEPT !.pc = "done", !.resp = code]
    BY <2>1, BecomeAt
  <2>3. QED BY <1>0, <1>1, <1>5, <2>2 DEF RejectOdd, NoRoute, Unsendable, NotSent, CallStates
<1>6. CASE Send(c)
  <2>1. PICK p \in Providers : Become(c, [call[c] EXCEPT !.pc = "queued", !.route = p])
    BY <1>6, SendRoute
  <2>2. call'[c] = [call[c] EXCEPT !.pc = "queued", !.route = p]
    BY <2>1, BecomeAt
  <2>3. call[c].pc = "body" /\ call[c].kind # "odd"
    BY <1>6 DEF Send
  <2>4. QED BY <1>0, <1>1, <2>2, <2>3 DEF CallStates
<1>7. CASE Acquire(c)
  <2>1. call'[c] = [call[c] EXCEPT !.pc = "sent"]
    BY <1>7, BecomeAt DEF Acquire
  <2>2. QED BY <1>0, <1>1, <1>7, <2>1 DEF Acquire, CallStates
<1>8. CASE StreamOpened(c)
  <2>0. PICK code \in UpstreamCodes :
         Become(c, [call[c] EXCEPT !.pc = "reading", !.code = code, !.resp = code])
    BY <1>8 DEF StreamOpened
  <2>1. call'[c] = [call[c] EXCEPT !.pc = "reading", !.code = code, !.resp = code]
    BY <2>0, BecomeAt
  <2>2. /\ call'[c].pc = "reading" /\ call'[c].kind = "stream"
        /\ call'[c].code \in UpstreamCodes /\ call'[c].route \in Providers
        /\ call'[c].texts = 0 /\ call'[c].captured = 0 /\ call'[c].line = "none"
        /\ call'[c].exit = "none" /\ c \notin lost'
    BY <1>0, <1>1, <1>8, <2>1 DEF StreamOpened, CallStates, NoLine
  <2>3. OneRow(c)' /\ Attributed(c)' /\ Truthful(c)' /\ Faithful(c)'
    BY <1>1, <2>2, NoRowInv
  <2>4. QED BY <2>2, <2>3 DEF NoLine
<1>9. CASE UpstreamLine(c)
  <2>0. PICK l \in Lines :
         Become(c, [call[c] EXCEPT !.pc = "yielding", !.line = l, !.lines = @ + 1,
                                   !.texts = IF l = "text" THEN @ + 1 ELSE @])
    BY <1>9 DEF UpstreamLine
  <2>1. call'[c] = [call[c] EXCEPT !.pc = "yielding", !.line = l, !.lines = @ + 1,
                                   !.texts = IF l = "text" THEN @ + 1 ELSE @]
    BY <2>0, BecomeAt
  <2>2. /\ call'[c].pc = "yielding" /\ call'[c].kind = "stream"
        /\ call'[c].code \in UpstreamCodes /\ call'[c].route \in Providers
        /\ call'[c].texts = (IF l = "text" THEN call[c].texts + 1 ELSE call[c].texts)
        /\ call'[c].captured = call[c].captured /\ call'[c].line = l
        /\ call'[c].exit = "none" /\ c \notin lost'
    BY <1>0, <1>1, <1>9, <2>1 DEF UpstreamLine, CallStates
  <2>3. call[c].captured = call[c].texts /\ call[c].texts \in Nat
    BY <1>0, <1>9 DEF UpstreamLine, CallStates, NoLine
  <2>4. OneRow(c)' /\ Attributed(c)' /\ Truthful(c)' /\ Faithful(c)'
    BY <1>1, <2>2, <2>3, NoRowInv
  <2>5. QED BY <2>2, <2>4 DEF NoLine
<1>10. CASE ResumeAfterYield(c)
  <2>1. call'[c] = [call[c] EXCEPT !.pc = "reading", !.line = NoLine,
                                   !.captured = CapturedAfter(c)]
    BY <1>10, BecomeAt DEF ResumeAfterYield
  <2>2. QED BY <1>0, <1>1, <1>10, <2>1
            DEF ResumeAfterYield, CapturedAfter, CallStates, NoLine
<1>11. CASE ResumeOnOddLine(c)
  <2>1. call'[c] = [call[c] EXCEPT !.pc = "closing", !.exit = "odd"]
    BY <1>11, BecomeAt DEF ResumeOnOddLine
  <2>2. QED BY <1>0, <1>1, <1>11, <2>1 DEF ResumeOnOddLine, CallStates
<1>12. CASE Dropped(c)
  <2>1. call'[c] = [call[c] EXCEPT !.pc = "closing", !.exit = "dropped"]
    BY <1>12, BecomeAt DEF Dropped
  <2>2. QED BY <1>0, <1>1, <1>12, <2>1 DEF Dropped, CallStates
<1>13. CASE Cancelled(c)
  <2>1. call'[c] = [call[c] EXCEPT !.pc = "closing", !.exit = "cancelled"]
    BY <1>13, BecomeAt DEF Cancelled
  <2>2. QED BY <1>0, <1>1, <1>13, <2>1 DEF Cancelled, CallStates, NoLine
<1>14. ASSUME NEW how \in {"eof", "break"}, UpstreamEnds(c, how) PROVE CallInv(c)'
  <2>1. call'[c] = [call[c] EXCEPT !.pc = "closing", !.exit = how]
    BY <1>14, BecomeAt DEF UpstreamEnds
  <2>2. QED BY <1>0, <1>1, <1>14, <2>1 DEF UpstreamEnds, CallStates, NoLine
<1>15. QED
  BY <1>2, <1>3, <1>4, <1>5, <1>6, <1>7, <1>8, <1>9, <1>10, <1>11, <1>12, <1>13, <1>14
  DEF UpstreamEOF, UpstreamBreak

\* The steps that end a call sent to an upstream, with or without a row.
LEMMA EndInv ==
    ASSUME TypeOK, NEW c \in Calls, CallInv(c), InFlight(c), NEW status, NEW text,
           call'[c].pc = "done", call'[c].kind = call[c].kind,
           call'[c].route = call[c].route, call'[c].texts = call[c].texts,
           call'[c].captured = call[c].captured, call'[c].line = call[c].line,
           call'[c].exit = call[c].exit, call[c].pc # "yielding",
           (status = "error") <=> Failed(c)',
           status = "success" => text = call[c].captured,
           call[c].kind = "plain" => (call'[c].resp >= 400 <=> Failed(c)'),
           IF Recorded(c) THEN Record(c, status, text) ELSE NoRecord
    PROVE  CallInv(c)'
<1>1. generations[c] = << >> /\ c \notin lost /\ call[c].route \in Providers
  BY NoRowYet DEF InFlight, CallInv, Handler
<1>2. Faithful(c) /\ (InHand(c)' <=> InHand(c))
  BY DEF CallInv, InHand, At
<1>3. Handler(c)'
  BY DEF Handler, InFlight
<1>4. CASE Recorded(c) /\ generations'[c] = << Row(c, status, text) >> /\ lost' = lost
  <2> DEFINE r == Row(c, status, text)
  <2>1. r.status = status /\ r.text = text /\ r.provider = call[c].route
    BY DEF Row, RecordedProvider
  <2> HIDE DEF r
  <2>2. DOMAIN generations'[c] = {1} /\ Len(generations'[c]) = 1 /\ generations'[c][1] = r
    BY <1>4 DEF r
  <2>3. OneRow(c)'
    BY <1>1, <1>4, <2>2, UpstreamsAssumption DEF OneRow, At, Recorded
  <2>4. Attributed(c)' /\ Truthful(c)'
    BY <1>1, <2>1, <2>2 DEF Attributed, Truthful
  <2>5. Faithful(c)'
    BY <1>2, <2>1, <2>2 DEF Faithful, InFlight
  <2>6. QED BY <1>3, <2>3, <2>4, <2>5 DEF CallInv
<1>5. CASE generations'[c] = << >> /\ (c \in lost' \/ ~Recorded(c))
  <2>1. OneRow(c)'
    BY <1>5 DEF OneRow, Recorded
  <2>2. Attributed(c)' /\ Truthful(c)'
    BY <1>5 DEF Attributed, Truthful
  <2>3. Faithful(c)'
    BY <1>2, <1>5 DEF Faithful, InFlight
  <2>4. QED BY <1>3, <2>1, <2>2, <2>3 DEF CallInv
<1>6. QED
  BY <1>1, <1>4, <1>5, RecordEffect DEF NoRecord

\* An upstream's code is never the 0 of a call without an answer.
LEMMA CodeRange == \A code \in UpstreamCodes : code \in Nat /\ code # 0
<1>1. UpstreamCodes \subseteq 100 .. 599
  BY ProxyAssumption
<1>2. QED BY <1>1

LEMMA EndStep ==
    ASSUME TypeOK, NEW c \in Calls, CallInv(c),
           RequestError(c) \/ RespondPlain(c) \/ Finish(c)
    PROVE  CallInv(c)'
<1>0. call[c] \in CallStates
  BY LocalsType
<1>1. CASE RequestError(c)
  <2>1. call'[c] = [call[c] EXCEPT !.pc = "done", !.resp = RequestErrorAnswer(c)]
    BY <1>1, BecomeAt DEF RequestError
  <2>2. /\ InFlight(c) /\ call[c].pc # "yielding"
        /\ call[c].code = 0 /\ call[c].captured = 0
    BY <1>1 DEF RequestError, RequestErrorGuard, At, InFlight, CallInv, Handler
  <2>3. Failed(c)' /\ (call[c].kind = "plain" => call'[c].resp >= 400)
    BY <1>0, <2>1, <2>2 DEF Failed, RequestErrorAnswer, CallStates
  <2>4. IF Recorded(c) THEN Record(c, "error", 0) ELSE NoRecord
    BY <1>1 DEF RequestError, RecordIf
  <2>5. /\ call'[c].pc = "done" /\ call'[c].kind = call[c].kind
        /\ call'[c].route = call[c].route /\ call'[c].texts = call[c].texts
        /\ call'[c].captured = call[c].captured /\ call'[c].line = call[c].line
        /\ call'[c].exit = call[c].exit
    BY <1>0, <2>1 DEF CallStates
  <2>6. QED BY <2>2, <2>3, <2>4, <2>5, EndInv
<1>2. CASE RespondPlain(c)
  <2>1. PICK code \in UpstreamCodes :
           /\ RecordIf(c, IF IsError(code) THEN "error" ELSE "success")
           /\ Become(c, [call[c] EXCEPT !.pc = "done", !.code = code, !.resp = code])
    BY <1>2 DEF RespondPlain
  <2> DEFINE status == IF IsError(code) THEN "error" ELSE "success"
  <2>2. call'[c] = [call[c] EXCEPT !.pc = "done", !.code = code, !.resp = code]
    BY <2>1, BecomeAt
  <2>3. InFlight(c) /\ call[c].pc # "yielding" /\ call[c].captured = 0
    BY <1>2 DEF RespondPlain, At, InFlight, CallInv, Handler
  <2>4. /\ call'[c].pc = "done" /\ call'[c].kind = call[c].kind
        /\ call'[c].route = call[c].route /\ call'[c].texts = call[c].texts
        /\ call'[c].captured = call[c].captured /\ call'[c].line = call[c].line
        /\ call'[c].exit = call[c].exit
        /\ call'[c].code = code /\ call'[c].resp = code
    BY <1>0, <2>2 DEF CallStates
  <2>5. (status = "error") <=> Failed(c)'
    <3>0. code \in Nat /\ code # 0
      BY CodeRange
    <3>1. Failed(c)' <=> code >= 400
      BY <2>4, <3>0 DEF Failed
    <3>2. (status = "error") <=> IsError(code)
      OBVIOUS
    <3>3. QED BY <3>1, <3>2 DEF IsError
  <2>6. call'[c].resp >= 400 <=> Failed(c)'
    <3>0. code \in Nat /\ code # 0
      BY CodeRange
    <3>1. QED BY <2>4, <3>0 DEF Failed
  <2>7. IF Recorded(c) THEN Record(c, status, 0) ELSE NoRecord
    BY <2>1 DEF RecordIf
  <2> HIDE DEF status
  <2>8. QED BY <2>3, <2>4, <2>5, <2>6, <2>7, EndInv
<1>3. CASE Finish(c)
  <2>1. call'[c] = [call[c] EXCEPT !.pc = "done"]
    BY <1>3, BecomeAt DEF Finish
  <2>2. /\ call[c].pc = "closing" /\ call[c].kind = "stream"
        /\ call[c].code \in UpstreamCodes
    BY <1>3 DEF Finish, At, CallInv, Handler
  <2>3. /\ call'[c].pc = "done" /\ call'[c].kind = call[c].kind
        /\ call'[c].route = call[c].route /\ call'[c].texts = call[c].texts
        /\ call'[c].captured = call[c].captured /\ call'[c].line = call[c].line
        /\ call'[c].exit = call[c].exit /\ call'[c].code = call[c].code
    BY <1>0, <2>1 DEF CallStates
  <2>4. (StreamStatus(c) = "error") <=> Failed(c)'
    <3>0. call[c].code \in Nat /\ call[c].code # 0
      BY <2>2, CodeRange
    <3>1. QED BY <2>3, <3>0 DEF StreamStatus, Failed, IsError
  <2>5. StreamStatus(c) = "success" => StreamText(c) = call[c].captured
    BY DEF StreamStatus, StreamText
  <2>6. InFlight(c) /\ Recorded(c) /\ Record(c, StreamStatus(c), StreamText(c))
    BY <1>3, <2>2 DEF Finish, InFlight, Recorded
  <2>7. QED BY <2>2, <2>3, <2>4, <2>5, <2>6, EndInv
<1>4. QED BY <1>1, <1>2, <1>3

LEMMA CallInvStep ==
    ASSUME TypeOK, NEW c \in Calls, CallInv(c), Step(c)
    PROVE  CallInv(c)'
<1>1. CASE Disconnect(c)
  BY <1>1, CallInvFrame DEF Disconnect
<1>2. QED BY <1>1, QuietStep, EndStep DEF Step

\* A step of call c leaves the record and the rows of every other call alone.
LEMMA OthersUntouched ==
    ASSUME TypeOK, NEW c \in Calls, CallInv(c), Step(c), NEW d \in Calls \ {c}
    PROVE  /\ call'[d] = call[d] /\ generations'[d] = generations[d]
           /\ d \in lost' <=> d \in lost
<1>1. CASE Disconnect(c)
  BY <1>1 DEF Disconnect
<1>2. CASE ~Disconnect(c)
  <2>1. \E k : Become(c, k)
    BY <1>2 DEF Step, Refuse, Arrive, BodyAborted, RejectOdd, NoRoute, Unsendable, NotSent, Send, Acquire,
       RequestError, RespondPlain, StreamOpened, UpstreamLine, ResumeAfterYield,
       ResumeOnOddLine, Dropped, Cancelled, UpstreamEOF, UpstreamBreak, UpstreamEnds, Finish
  <2>2. \/ UNCHANGED <<generations, lost>>
        \/ generations[c] = << >> /\ \E status, text : Record(c, status, text)
    BY <1>2, NoRowYet DEF Step, Refuse, Arrive, BodyAborted, RejectOdd, NoRoute, Unsendable, NotSent, Send, Acquire,
       RequestError, RequestErrorGuard, RespondPlain, StreamOpened, UpstreamLine,
       ResumeAfterYield, ResumeOnOddLine, Dropped, Cancelled, UpstreamEOF, UpstreamBreak,
       UpstreamEnds, Finish, RecordIf, NoRecord, At
  <2>3. QED BY <2>1, <2>2, BecomeAt, RecordEffect
<1>3. QED BY <1>1, <1>2

LEMMA CallInvCrash ==
    ASSUME TypeOK, NEW c \in Calls, CallInv(c), Crash
    PROVE  CallInv(c)'
<1>1. generations'[c] = generations[c] /\ lost' = lost
  BY DEF Crash
<1>2. CASE call[c].pc \in {"idle", "done"}
  BY <1>1, <1>2, CallInvFrame DEF Crash
<1>3. CASE call[c].pc \notin {"idle", "done"}
  <2>1. call'[c] = [call[c] EXCEPT !.pc = "crashed"]
    BY <1>3 DEF Crash
  <2>2. call'[c].pc = "crashed" /\ generations'[c] = << >>
    BY <1>1, <1>3, <2>1, LocalsType, NoRowYet DEF CallStates
  <2>3. OneRow(c)' /\ Attributed(c)' /\ Truthful(c)' /\ Faithful(c)'
    BY <2>2, NoRowInv
  <2>4. QED BY <2>2, <2>3 DEF CallInv, Handler, InFlight
<1>4. QED BY <1>2, <1>3

----------------------------------------------------------------------------
(* The connection pool. *)

LEMMA PoolInit == Init => PoolAccounting
<1>1. Cardinality({}) = 0
  BY FS_EmptySet
<1>2. QED BY <1>1, ProxyAssumption DEF Init, PoolAccounting, HoldsConnection, Idle

LEMMA PoolFinite ==
    ASSUME TypeOK
    PROVE  IsFiniteSet(pool) /\ Cardinality(pool) \in Nat
BY ProxyAssumption, FS_Subset, FS_CardinalityType DEF TypeOK

\* Giving a connection back: c holds none afterwards, the others are untouched.
LEMMA PoolRemove ==
    ASSUME TypeOK, PoolAccounting, NEW c \in Calls,
           pool' = pool \ {c}, ~HoldsConnection(c)',
           \A d \in Calls \ {c} : call'[d] = call[d]
    PROVE  PoolAccounting'
<1>1. Cardinality(pool') <= PoolSize
  <2>1. /\ IsFiniteSet(pool) /\ Cardinality(pool) \in Nat /\ Cardinality(pool) <= PoolSize
        /\ PoolSize \in Nat
    BY PoolFinite, ProxyAssumption DEF PoolAccounting
  <2>2. Cardinality(pool \ {c}) \in {Cardinality(pool), Cardinality(pool) - 1}
    BY <2>1, FS_RemoveElement
  <2>3. QED BY <2>1, <2>2
<1>2. pool' = {d \in Calls : HoldsConnection(d)'}
  BY DEF PoolAccounting, HoldsConnection
<1>3. QED BY <1>1, <1>2 DEF PoolAccounting

LEMMA PoolKept ==
    ASSUME PoolAccounting, NEW c \in Calls, pool' = pool,
           HoldsConnection(c)' <=> HoldsConnection(c),
           \A d \in Calls \ {c} : call'[d] = call[d]
    PROVE  PoolAccounting'
<1>1. pool' = {d \in Calls : HoldsConnection(d)'}
  BY DEF PoolAccounting, HoldsConnection
<1>2. QED BY <1>1 DEF PoolAccounting

LEMMA PoolStep ==
    ASSUME TypeOK, PoolAccounting, NEW c \in Calls, CallInv(c), Step(c)
    PROVE  PoolAccounting'
<1>0. call[c] \in CallStates /\ \A d \in Calls \ {c} : call'[d] = call[d]
  BY LocalsType, OthersUntouched
<1>1. CASE Acquire(c)
  <2>1. call'[c] = [call[c] EXCEPT !.pc = "sent"]
    BY <1>1, BecomeAt DEF Acquire
  <2>2. HoldsConnection(c)'
    BY <1>0, <2>1 DEF HoldsConnection, CallStates
  <2>3. pool' = {d \in Calls : HoldsConnection(d)'}
    BY <1>0, <1>1, <2>2 DEF PoolAccounting, HoldsConnection, Acquire
  <2>4. /\ pool' = pool \cup {c} /\ IsFiniteSet(pool) /\ Cardinality(pool) \in Nat
        /\ Cardinality(pool) < PoolSize /\ PoolSize \in Nat
    BY <1>1, PoolFinite, ProxyAssumption DEF Acquire
  <2>5. Cardinality(pool') \in {Cardinality(pool), Cardinality(pool) + 1}
    BY <2>4, FS_AddElement
  <2>6. QED BY <2>3, <2>4, <2>5 DEF PoolAccounting
<1>2. CASE RequestError(c) \/ RespondPlain(c) \/ Finish(c)
  <2>1. pool' = pool \ {c}
    BY <1>2 DEF RequestError, RespondPlain, Finish, PoolAfterClose
  <2>2. call'[c].pc = "done"
    <3>1. CASE RequestError(c)
      <4>1. call'[c] = [call[c] EXCEPT !.pc = "done", !.resp = RequestErrorAnswer(c)]
        BY <3>1, BecomeAt DEF RequestError
      <4>2. QED BY <1>0, <4>1 DEF CallStates
    <3>2. CASE RespondPlain(c)
      <4>0. PICK code :
             Become(c, [call[c] EXCEPT !.pc = "done", !.code = code, !.resp = code])
        BY <3>2 DEF RespondPlain
      <4>1. call'[c] = [call[c] EXCEPT !.pc = "done", !.code = code, !.resp = code]
        BY <4>0, BecomeAt
      <4>2. QED BY <1>0, <4>1 DEF CallStates
    <3>3. CASE Finish(c)
      <4>1. call'[c] = [call[c] EXCEPT !.pc = "done"]
        BY <3>3, BecomeAt DEF Finish
      <4>2. QED BY <1>0, <4>1 DEF CallStates
    <3>4. QED BY <1>2, <3>1, <3>2, <3>3
  <2>3. ~HoldsConnection(c)'
    BY <2>2 DEF HoldsConnection
  <2>4. QED BY <1>0, <2>1, <2>3, PoolRemove
<1>3. ASSUME NEW how \in {"eof", "break", "cancelled"}, pool' = pool \ {c},
             Become(c, [call[c] EXCEPT !.pc = "closing", !.exit = how])
      PROVE  PoolAccounting'
  <2>1. call'[c] = [call[c] EXCEPT !.pc = "closing", !.exit = how]
    BY <1>3, BecomeAt
  <2>2. ~HoldsConnection(c)'
    BY <1>0, <2>1 DEF HoldsConnection, CallStates
  <2>3. QED BY <1>0, <1>3, <2>2, PoolRemove
<1>4. CASE Disconnect(c)
  BY <1>4, PoolKept DEF Disconnect, HoldsConnection
<1>5. CASE \/ Refuse(c) \/ Arrive(c) \/ BodyAborted(c) \/ RejectOdd(c) \/ NoRoute(c) \/ Unsendable(c)
           \/ Send(c)
  <2>1. pool' = pool /\ ~HoldsConnection(c)
    BY <1>5 DEF Refuse, Arrive, BodyAborted, RejectOdd, NoRoute, Unsendable, NotSent, Send, At, HoldsConnection
  <2>2. call'[c].pc \in {"done", "body", "queued"}
    <3>0. CASE Refuse(c)
      <4>0. PICK k \in Kinds :
             Become(c, [Idle EXCEPT !.pc = "done", !.kind = k, !.resp = 503])
        BY <3>0 DEF Refuse
      <4>1. call'[c] = [Idle EXCEPT !.pc = "done", !.kind = k, !.resp = 503]
        BY <4>0, BecomeAt
      <4>2. QED BY <4>1 DEF Idle
    <3>1. CASE Arrive(c)
      <4>0. PICK k \in Kinds, m \in Models \cup {NoModel} :
             Become(c, [Idle EXCEPT !.pc = "body", !.kind = k, !.model = m])
        BY <3>1 DEF Arrive
      <4>1. call'[c] = [Idle EXCEPT !.pc = "body", !.kind = k, !.model = m]
        BY <4>0, BecomeAt
      <4>2. QED BY <4>1 DEF Idle
    <3>2. CASE BodyAborted(c)
      <4>1. call'[c] = [call[c] EXCEPT !.pc = "done"]
        BY <3>2, BecomeAt DEF BodyAborted
      <4>2. QED BY <1>0, <4>1 DEF CallStates
    <3>3. CASE RejectOdd(c)
      <4>1. call'[c] = [call[c] EXCEPT !.pc = "done", !.resp = 500]
        BY <3>3, BecomeAt DEF RejectOdd
      <4>2. QED BY <1>0, <4>1 DEF CallStates
    <3>4. CASE NoRoute(c) \/ Unsendable(c)
      <4>1. PICK code : Become(c, [call[c] EXCEPT !.pc = "done", !.resp = code])
        BY <3>4 DEF NoRoute, Unsendable, NotSent
      <4>2. call'[c] = [call[c] EXCEPT !.pc = "done", !.resp = code]
        BY <4>1, BecomeAt
      <4>3. QED BY <1>0, <4>2 DEF CallStates
    <3>5. CASE Send(c)
      <4>0. PICK p :
             Become(c, [call[c] EXCEPT !.pc = "queued", !.route = p])
        BY <3>5 DEF Send
      <4>1. call'[c] = [call[c] EXCEPT !.pc = "queued", !.route = p]
        BY <4>0, BecomeAt
      <4>2. QED BY <1>0, <4>1 DEF CallStates
    <3>6. QED BY <1>5, <3>0, <3>1, <3>2, <3>3, <3>4, <3>5
  <2>3. ~HoldsConnection(c)'
    BY <2>2 DEF HoldsConnection
  <2>4. QED BY <1>0, <2>1, <2>3, PoolKept
<1>6. CASE \/ StreamOpened(c) \/ UpstreamLine(c) \/ ResumeAfterYield(c)
           \/ ResumeOnOddLine(c) \/ Dropped(c)
  <2>1. pool' = pool /\ HoldsConnection(c)
    BY <1>6 DEF StreamOpened, UpstreamLine, ResumeAfterYield, ResumeOnOddLine, Dropped,
       At, HoldsConnection
  <2>2. \/ call'[c].pc \in {"reading", "yielding"}
        \/ call'[c].pc = "closing" /\ call'[c].exit \in {"odd", "dropped"}
    <3>1. CASE StreamOpened(c)
      <4>0. PICK code :
             Become(c, [call[c] EXCEPT !.pc = "reading", !.code = code, !.resp = code])
        BY <3>1 DEF StreamOpened
      <4>1. call'[c] = [call[c] EXCEPT !.pc = "reading", !.code = code, !.resp = code]
        BY <4>0, BecomeAt
      <4>2. QED BY <1>0, <4>1 DEF CallStates
    <3>2. CASE UpstreamLine(c)
      <4>0. PICK l \in Lines :
             Become(c, [call[c] EXCEPT !.pc = "yielding", !.line = l, !.lines = @ + 1,
                                       !.texts = IF l = "text" THEN @ + 1 ELSE @])
        BY <3>2 DEF UpstreamLine
      <4>1. call'[c] = [call[c] EXCEPT !.pc = "yielding", !.line = l, !.lines = @ + 1,
                                       !.texts = IF l = "text" THEN @ + 1 ELSE @]
        BY <4>0, BecomeAt
      <4>2. QED BY <1>0, <4>1 DEF CallStates
    <3>3. CASE ResumeAfterYield(c)
      <4>0. PICK n :
             Become(c, [call[c] EXCEPT !.pc = "reading", !.line = NoLine, !.captured = n])
        BY <3>3 DEF ResumeAfterYield
      <4>1. call'[c] = [call[c] EXCEPT !.pc = "reading", !.line = NoLine, !.captured = n]
        BY <4>0, BecomeAt
      <4>2. QED BY <1>0, <4>1 DEF CallStates
    <3>4. CASE ResumeOnOddLine(c) \/ Dropped(c)
      <4>0. PICK how \in {"odd", "dropped"} :
             Become(c, [call[c] EXCEPT !.pc = "closing", !.exit = how])
        BY <3>4 DEF ResumeOnOddLine, Dropped
      <4>1. call'[c] = [call[c] EXCEPT !.pc = "closing", !.exit = how]
        BY <4>0, BecomeAt
      <4>2. QED BY <1>0, <4>1 DEF CallStates
    <3>5. QED BY <1>6, <3>1, <3>2, <3>3, <3>4
  <2>3. HoldsConnection(c)'
    BY <2>2 DEF HoldsConnection
  <2>4. QED BY <1>0, <2>1, <2>3, PoolKept
<1>7. QED
  BY <1>1, <1>2, <1>3, <1>4, <1>5, <1>6
  DEF Step, Cancelled, UpstreamEOF, UpstreamBreak, UpstreamEnds

LEMMA PoolCrash ==
    ASSUME TypeOK, Crash
    PROVE  PoolAccounting'
<1>1. \A c \in Calls : call'[c].pc \in {"idle", "done", "crashed"}
  BY LocalsType DEF Crash, CallStates
<1>2. pool' = {} /\ Cardinality({}) = 0
  BY FS_EmptySet DEF Crash
<1>3. QED BY <1>1, <1>2, ProxyAssumption DEF PoolAccounting, HoldsConnection

----------------------------------------------------------------------------
(* The inductive invariant and what follows from it. *)

LEMMA InvInit == Init => ProxyInv
<1>1. ASSUME Init, NEW c \in Calls PROVE CallInv(c)
  <2>1. call[c] = Idle /\ generations[c] = << >> /\ lost = {}
    BY <1>1 DEF Init
  <2>2. QED BY <2>1 DEF CallInv, OneRow, Attributed, Truthful, Faithful, Handler,
            Failed, InHand, At, InFlight, Idle, NoLine
<1>2. QED BY <1>1, TypeInit, PoolInit DEF ProxyInv

LEMMA InvNext == ProxyInv /\ [Next]_vars => ProxyInv'
<1> SUFFICES ASSUME ProxyInv, [Next]_vars PROVE ProxyInv'
  OBVIOUS
<1>0. TypeOK /\ TypeOK' /\ PoolAccounting
  BY TypeNext DEF ProxyInv
<1>1. ASSUME NEW c \in Calls, Step(c) PROVE ProxyInv'
  <2>1. CallInv(c)'
    BY <1>0, <1>1, CallInvStep DEF ProxyInv
  <2>2. ASSUME NEW d \in Calls \ {c} PROVE CallInv(d)'
    <3>1. /\ call'[d] = call[d] /\ generations'[d] = generations[d]
          /\ d \in lost' <=> d \in lost
      BY <1>0, <1>1, OthersUntouched DEF ProxyInv
    <3>2. QED BY <3>1, CallInvFrame DEF ProxyInv
  <2>3. PoolAccounting'
    BY <1>0, <1>1, PoolStep DEF ProxyInv
  <2>4. QED BY <1>0, <2>1, <2>2, <2>3 DEF ProxyInv
<1>2. CASE SaveSettings \/ UNCHANGED vars
  <2>1. ASSUME NEW c \in Calls PROVE CallInv(c)'
    BY <1>2, CallInvFrame DEF SaveSettings, vars, ProxyInv
  <2>2. PoolAccounting'
    BY <1>0, <1>2 DEF SaveSettings, vars, PoolAccounting, HoldsConnection
  <2>3. QED BY <1>0, <2>1, <2>2 DEF ProxyInv
<1>3. CASE Crash
  BY <1>0, <1>3, CallInvCrash, PoolCrash DEF ProxyInv
<1>4. QED BY <1>1, <1>2, <1>3 DEF Next

\* The inductive invariant of the proxy: types, the exact content of the pool,
\* and per call what its handler's place says of its locals and its rows.
THEOREM ProxyInvariant == Spec => []ProxyInv
BY InvInit, InvNext, PTL DEF Spec

\* Every call sent to an upstream on a recorded route leaves one row or one
\* logged failure, whatever happened to its upstream, its client and the
\* settings on the way.
THEOREM RecordedOnceAlways == Spec => []RecordedOnce
<1>1. ProxyInv => RecordedOnce
  BY DEF ProxyInv, CallInv, RecordedOnce
<1>2. QED BY <1>1, ProxyInvariant, PTL

\* Rows name the provider the call was sent to, settings changes or not.
THEOREM RowsAttributedAlways == Spec => []RowsAttributed
<1>1. ProxyInv => RowsAttributed
  BY DEF ProxyInv, CallInv, RowsAttributed
<1>2. QED BY <1>1, ProxyInvariant, PTL

\* A row's status agrees with the upstream's answer and the client's.
THEOREM StatusTruthfulAlways == Spec => []StatusTruthful
<1>1. ProxyInv => StatusTruthful
  BY DEF ProxyInv, CallInv, StatusTruthful
<1>2. QED BY <1>1, ProxyInvariant, PTL

\* A stored completion is what the client was handed, less at most one line.
THEOREM CaptureFaithfulAlways == Spec => []CaptureFaithful
<1>1. ProxyInv => CaptureFaithful
  BY DEF ProxyInv, CallInv, CaptureFaithful
<1>2. QED BY <1>1, ProxyInvariant, PTL

\* No way of leaving a call leaks its connection, for any size of the pool.
THEOREM PoolAccountingAlways == Spec => []PoolAccounting
<1>1. ProxyInv => PoolAccounting
  BY DEF ProxyInv
<1>2. QED BY <1>1, ProxyInvariant, PTL

----------------------------------------------------------------------------
(* The refinement: ProxyCall implements CallLedger.  A handler's program    *)
(* counter is mapped to the call's phase, its route to the target and its   *)
(* rows to entries.  A step of call c changes the phase, target and entries *)
(* of c only; what it changes them to follows from ProxyInv before and      *)
(* after the step.                                                          *)

PhaseBar == [c \in Calls |-> Phase(c)]
TargetBar == [c \in Calls |-> call[c].route]
EntriesBar == [c \in Calls |-> [i \in DOMAIN generations[c] |-> Entry(generations[c][i])]]

\* A step of c is a step of the mapped variables at c.
LEMMA BarStep ==
    ASSUME TypeOK, NEW c \in Calls,
           \A d \in Calls \ {c} : call'[d] = call[d] /\ generations'[d] = generations[d]
    PROVE  /\ PhaseBar' = [PhaseBar EXCEPT ![c] = Phase(c)']
           /\ TargetBar' = [TargetBar EXCEPT ![c] = call'[c].route]
           /\ EntriesBar' = [EntriesBar EXCEPT ![c] =
                               [i \in DOMAIN generations'[c] |-> Entry(generations'[c][i])]]
<1>1. \A d \in Calls \ {c} : Phase(d)' = Phase(d)
  BY DEF Phase, InFlight
<1>2. PhaseBar' = [PhaseBar EXCEPT ![c] = Phase(c)']
  BY <1>1 DEF PhaseBar
<1>3. TargetBar' = [TargetBar EXCEPT ![c] = call'[c].route]
  BY DEF TargetBar
<1>4. EntriesBar' = [EntriesBar EXCEPT ![c] =
                       [i \in DOMAIN generations'[c] |-> Entry(generations'[c][i])]]
  BY DEF EntriesBar
<1>5. QED BY <1>2, <1>3, <1>4

LEMMA PhaseCases ==
    ASSUME NEW c
    PROVE  /\ call[c].pc \in {"idle", "body"} => Phase(c) = "new"
           /\ InFlight(c) => Phase(c) = "open"
           /\ call[c].pc \in {"done", "crashed"} => Phase(c) = "closed"
BY DEF Phase, InFlight

LEMMA LedgerInit == Init => Ledger!Init
BY DEF Init, Ledger!Init, Phase, Idle, InFlight

\* A step that keeps the route of c keeps every target; one that writes no
\* row keeps every entry.
LEMMA SameTarget ==
    ASSUME NEW c \in Calls, call'[c].route = call[c].route,
           \A d \in Calls \ {c} : call'[d] = call[d]
    PROVE  TargetBar' = TargetBar
<1>1. \A d \in Calls : call'[d].route = call[d].route
  OBVIOUS
<1>2. QED BY <1>1 DEF TargetBar

LEMMA SameEntries ==
    ASSUME \A d \in Calls : generations'[d] = generations[d]
    PROVE  EntriesBar' = EntriesBar
BY DEF EntriesBar

LEMMA SamePhases ==
    ASSUME \A d \in Calls : Phase(d)' = Phase(d)
    PROVE  PhaseBar' = PhaseBar
BY DEF PhaseBar

\* The steps of one call, by what they do to its phase.
LEMMA LedgerRefuse ==
    ASSUME TypeOK, NEW c \in Calls,
           \A d \in Calls \ {c} : call'[d] = call[d] /\ generations'[d] = generations[d],
           Phase(c) = "new", Phase(c)' = "closed",
           call'[c].route = call[c].route, generations'[c] = generations[c]
    PROVE  Ledger!Refuse(c)
<1>1. TargetBar' = TargetBar /\ EntriesBar' = EntriesBar
  BY SameTarget, SameEntries
<1>2. PhaseBar[c] = "new" /\ PhaseBar' = [PhaseBar EXCEPT ![c] = "closed"]
  BY BarStep DEF PhaseBar
<1>3. QED BY <1>1, <1>2 DEF Ledger!Refuse, PhaseBar, TargetBar, EntriesBar

LEMMA LedgerOpen ==
    ASSUME TypeOK, NEW c \in Calls,
           \A d \in Calls \ {c} : call'[d] = call[d] /\ generations'[d] = generations[d],
           Phase(c) = "new", Phase(c)' = "open",
           call'[c].route \in Providers, generations'[c] = generations[c]
    PROVE  Ledger!Open(c)
<1>1. EntriesBar' = EntriesBar
  BY SameEntries
<1>2. PhaseBar[c] = "new" /\ PhaseBar' = [PhaseBar EXCEPT ![c] = "open"]
  BY BarStep DEF PhaseBar
<1>3. \E p \in Providers : TargetBar' = [TargetBar EXCEPT ![c] = p]
  BY BarStep
<1>4. QED BY <1>1, <1>2, <1>3 DEF Ledger!Open, PhaseBar, TargetBar, EntriesBar

LEMMA LedgerCloseUnrecorded ==
    ASSUME TypeOK, NEW c \in Calls,
           \A d \in Calls \ {c} : call'[d] = call[d] /\ generations'[d] = generations[d],
           Phase(c) = "open", Phase(c)' = "closed",
           call'[c].route = call[c].route, generations'[c] = generations[c]
    PROVE  Ledger!CloseUnrecorded(c)
<1>1. TargetBar' = TargetBar /\ EntriesBar' = EntriesBar
  BY SameTarget, SameEntries
<1>2. PhaseBar[c] = "open" /\ PhaseBar' = [PhaseBar EXCEPT ![c] = "closed"]
  BY BarStep DEF PhaseBar
<1>3. QED BY <1>1, <1>2 DEF Ledger!CloseUnrecorded, PhaseBar, TargetBar, EntriesBar

LEMMA LedgerCloseRecorded ==
    ASSUME TypeOK, NEW c \in Calls,
           \A d \in Calls \ {c} : call'[d] = call[d] /\ generations'[d] = generations[d],
           Phase(c) = "open", Phase(c)' = "closed",
           call'[c].route = call[c].route,
           NEW r \in Rows, r.provider = call[c].route, generations'[c] = << r >>
    PROVE  Ledger!CloseRecorded(c)
<1>1. TargetBar' = TargetBar /\ TargetBar[c] = call[c].route
  BY SameTarget DEF TargetBar
<1>2. PhaseBar[c] = "open" /\ PhaseBar' = [PhaseBar EXCEPT ![c] = "closed"]
  BY BarStep DEF PhaseBar
<1>3. [i \in DOMAIN generations'[c] |-> Entry(generations'[c][i])]
         = << [provider |-> call[c].route, status |-> r.status] >>
  BY DEF Entry
<1>4. EntriesBar' = [EntriesBar EXCEPT ![c] =
                       << [provider |-> TargetBar[c], status |-> r.status] >>]
  BY <1>1, <1>3, BarStep
<1>5. r.status \in {"success", "error"}
  BY DEF Rows
<1>6. \E s \in {"success", "error"} :
         EntriesBar' = [EntriesBar EXCEPT ![c] = << [provider |-> TargetBar[c], status |-> s] >>]
  BY <1>4, <1>5
<1>7. QED BY <1>1, <1>2, <1>6 DEF Ledger!CloseRecorded, PhaseBar, TargetBar, EntriesBar

\* Where each action takes the handler.
LEMMA StepMoves ==
    ASSUME TypeOK, NEW c \in Calls, Step(c), ~Disconnect(c), ~Refuse(c), ~Arrive(c), ~Send(c)
    PROVE  /\ call'[c].route = call[c].route
           /\ \/ call[c].pc = "body" /\ call'[c].pc = "done" /\ UNCHANGED generations
              \/ InFlight(c) /\ InFlight(c)' /\ UNCHANGED generations
              \/ /\ InFlight(c) /\ call'[c].pc = "done"
                 /\ \/ UNCHANGED generations
                    \/ \E status, text : Record(c, status, text)
<1>0. call[c] \in CallStates
  BY LocalsType
<1>1. CASE BodyAborted(c)
  <2>1. call'[c] = [call[c] EXCEPT !.pc = "done"]
    BY <1>1, BecomeAt DEF BodyAborted
  <2>2. QED BY <1>0, <1>1, <2>1 DEF BodyAborted, At, CallStates
<1>2. CASE RejectOdd(c) \/ NoRoute(c) \/ Unsendable(c)
  <2>1. PICK code : Become(c, [call[c] EXCEPT !.pc = "done", !.resp = code])
    <3>1. CASE RejectOdd(c)
      BY <3>1 DEF RejectOdd
    <3>2. CASE NoRoute(c) \/ Unsendable(c)
      BY <3>2 DEF NoRoute, Unsendable, NotSent
    <3>3. QED BY <1>2, <3>1, <3>2
  <2>2. call'[c] = [call[c] EXCEPT !.pc = "done", !.resp = code]
    BY <2>1, BecomeAt
  <2>3. QED BY <1>0, <1>2, <2>2 DEF RejectOdd, NoRoute, Unsendable, NotSent, At, CallStates
<1>3. CASE Acquire(c)
  <2>1. call'[c] = [call[c] EXCEPT !.pc = "sent"]
    BY <1>3, BecomeAt DEF Acquire
  <2>2. QED BY <1>0, <1>3, <2>1 DEF Acquire, At, InFlight, CallStates
<1>4. CASE RequestError(c)
  <2>1. call'[c] = [call[c] EXCEPT !.pc = "done", !.resp = RequestErrorAnswer(c)]
    BY <1>4, BecomeAt DEF RequestError
  <2>2. UNCHANGED generations \/ \E status, text : Record(c, status, text)
    BY <1>4 DEF RequestError, RecordIf, NoRecord
  <2>3. QED BY <1>0, <1>4, <2>1, <2>2
            DEF RequestError, RequestErrorGuard, At, InFlight, CallStates
<1>5. CASE RespondPlain(c)
  <2>1. PICK code :
           /\ RecordIf(c, IF IsError(code) THEN "error" ELSE "success")
           /\ Become(c, [call[c] EXCEPT !.pc = "done", !.code = code, !.resp = code])
    BY <1>5 DEF RespondPlain
  <2>2. call'[c] = [call[c] EXCEPT !.pc = "done", !.code = code, !.resp = code]
    BY <2>1, BecomeAt
  <2>3. UNCHANGED generations \/ \E status, text : Record(c, status, text)
    BY <2>1 DEF RecordIf, NoRecord
  <2>4. QED BY <1>0, <1>5, <2>2, <2>3 DEF RespondPlain, At, InFlight, CallStates
<1>6. CASE StreamOpened(c)
  <2>0. PICK code :
         Become(c, [call[c] EXCEPT !.pc = "reading", !.code = code, !.resp = code])
    BY <1>6 DEF StreamOpened
  <2>1. call'[c] = [call[c] EXCEPT !.pc = "reading", !.code = code, !.resp = code]
    BY <2>0, BecomeAt
  <2>2. QED BY <1>0, <1>6, <2>1 DEF StreamOpened, At, InFlight, CallStates
<1>7. CASE UpstreamLine(c)
  <2>0. PICK l \in Lines :
         Become(c, [call[c] EXCEPT !.pc = "yielding", !.line = l, !.lines = @ + 1,
                                   !.texts = IF l = "text" THEN @ + 1 ELSE @])
    BY <1>7 DEF UpstreamLine
  <2>1. call'[c] = [call[c] EXCEPT !.pc = "yielding", !.line = l, !.lines = @ + 1,
                                   !.texts = IF l = "text" THEN @ + 1 ELSE @]
    BY <2>0, BecomeAt
  <2>2. QED BY <1>0, <1>7, <2>1 DEF UpstreamLine, At, InFlight, CallStates
<1>8. CASE ResumeAfterYield(c)
  <2>1. call'[c] = [call[c] EXCEPT !.pc = "reading", !.line = NoLine,
                                   !.captured = CapturedAfter(c)]
    BY <1>8, BecomeAt DEF ResumeAfterYield
  <2>2. QED BY <1>0, <1>8, <2>1 DEF ResumeAfterYield, At, InFlight, CallStates
<1>9. CASE \/ ResumeOnOddLine(c) \/ Dropped(c) \/ Cancelled(c) \/ UpstreamEOF(c)
           \/ UpstreamBreak(c)
  <2>0. PICK how :
         Become(c, [call[c] EXCEPT !.pc = "closing", !.exit = how])
    BY <1>9 DEF ResumeOnOddLine, Dropped, Cancelled, UpstreamEOF, UpstreamBreak, UpstreamEnds
  <2>1. call'[c] = [call[c] EXCEPT !.pc = "closing", !.exit = how]
    BY <2>0, BecomeAt
  <2>2. (At(c, "reading") \/ At(c, "yielding")) /\ UNCHANGED generations
    BY <1>9 DEF ResumeOnOddLine, Dropped, Cancelled, UpstreamEOF, UpstreamBreak, UpstreamEnds
  <2>3. QED BY <1>0, <2>1, <2>2 DEF At, InFlight, CallStates
<1>10. CASE Finish(c)
  <2>1. call'[c] = [call[c] EXCEPT !.pc = "done"]
    BY <1>10, BecomeAt DEF Finish
  <2>2. QED BY <1>0, <1>10, <2>1 DEF Finish, At, InFlight, CallStates
<1>11. QED
  BY <1>1, <1>2, <1>3, <1>4, <1>5, <1>6, <1>7, <1>8, <1>9, <1>10 DEF Step

LEMMA LedgerStep ==
    ASSUME ProxyInv, ProxyInv', NEW c \in Calls, Step(c)
    PROVE  [Ledger!Next]_<<PhaseBar, TargetBar, EntriesBar>>
<1>0. /\ TypeOK /\ CallInv(c) /\ CallInv(c)'
      /\ call[c] \in CallStates /\ call'[c] \in CallStates
      /\ \A d \in Calls \ {c} : call'[d] = call[d] /\ generations'[d] = generations[d]
  BY OthersUntouched DEF ProxyInv, TypeOK
<1>1. ASSUME Phase(c)' = Phase(c), call'[c].route = call[c].route,
             generations'[c] = generations[c]
      PROVE  UNCHANGED <<PhaseBar, TargetBar, EntriesBar>>
  <2>1. \A d \in Calls : Phase(d)' = Phase(d)
    BY <1>0, <1>1 DEF Phase, InFlight
  <2>2. QED BY <1>0, <1>1, <2>1, SamePhases, SameTarget, SameEntries
<1>2. CASE Disconnect(c)
  BY <1>1, <1>2 DEF Disconnect, Phase, InFlight
<1>3. CASE Refuse(c)
  <2>1. PICK k \in Kinds : Become(c, [Idle EXCEPT !.pc = "done", !.kind = k, !.resp = 503])
    BY <1>3 DEF Refuse
  <2>2. call'[c].pc = "done" /\ call'[c].route = NoProvider
    <3>1. call'[c] = [Idle EXCEPT !.pc = "done", !.kind = k, !.resp = 503]
      BY <1>0, <2>1, BecomeAt
    <3>2. QED BY <3>1 DEF Idle
  <2>3. call[c].pc = "idle" /\ call[c].route = NoProvider
    BY <1>0, <1>3 DEF Refuse, At, CallInv, Handler
  <2>4. Phase(c) = "new" /\ Phase(c)' = "closed"
    BY <2>2, <2>3 DEF Phase, InFlight
  <2>5. Ledger!Refuse(c)
    BY <1>0, <1>3, <2>2, <2>3, <2>4, LedgerRefuse DEF Refuse
  <2>6. QED BY <2>5 DEF Ledger!Next
<1>4. CASE Arrive(c)
  <2>0. PICK k \in Kinds, m \in Models \cup {NoModel} :
         Become(c, [Idle EXCEPT !.pc = "body", !.kind = k, !.model = m])
    BY <1>0, <1>4 DEF Arrive
  <2>1. call'[c] = [Idle EXCEPT !.pc = "body", !.kind = k, !.model = m]
    BY <1>0, <2>0, BecomeAt
  <2>2. call'[c].pc = "body" /\ call'[c].route = NoProvider
    BY <2>1 DEF Idle
  <2>3. call[c].pc = "idle" /\ call[c].route = NoProvider
    BY <1>0, <1>4 DEF Arrive, At, CallInv, Handler
  <2>4. Phase(c)' = Phase(c)
    BY <2>2, <2>3 DEF Phase, InFlight
  <2>5. QED BY <1>1, <1>4, <2>2, <2>3, <2>4 DEF Arrive
<1>5. CASE Send(c)
  <2>0. PICK p \in Providers :
         Become(c, [call[c] EXCEPT !.pc = "queued", !.route = p])
    BY <1>0, <1>5, SendRoute DEF ProxyInv
  <2>1. call'[c] = [call[c] EXCEPT !.pc = "queued", !.route = p]
    BY <1>0, <2>0, BecomeAt
  <2>2. call'[c].pc = "queued" /\ call'[c].route \in Providers
    BY <1>0, <2>1 DEF CallStates
  <2>3. Phase(c) = "new" /\ Phase(c)' = "open"
    BY <1>5, <2>2 DEF Send, At, Phase, InFlight
  <2>4. Ledger!Open(c)
    BY <1>0, <1>5, <2>2, <2>3, LedgerOpen DEF Send
  <2>5. QED BY <2>4 DEF Ledger!Next
<1>6. CASE ~Disconnect(c) /\ ~Refuse(c) /\ ~Arrive(c) /\ ~Send(c)
  <2>0. call'[c].route = call[c].route
    BY <1>0, <1>6, StepMoves
  <2>1. CASE call[c].pc = "body" /\ call'[c].pc = "done" /\ UNCHANGED generations
    <3>1. Phase(c) = "new" /\ Phase(c)' = "closed"
      BY <2>1 DEF Phase, InFlight
    <3>2. Ledger!Refuse(c)
      BY <1>0, <2>0, <2>1, <3>1, LedgerRefuse
    <3>3. QED BY <3>2 DEF Ledger!Next
  <2>2. CASE InFlight(c) /\ InFlight(c)' /\ UNCHANGED generations
    <3>1. Phase(c)' = Phase(c)
      BY <2>2 DEF Phase, InFlight
    <3>2. QED BY <1>1, <2>0, <2>2, <3>1
  <2>3. CASE InFlight(c) /\ call'[c].pc = "done" /\ UNCHANGED generations
    <3>1. Phase(c) = "open" /\ Phase(c)' = "closed"
      BY <2>3 DEF Phase, InFlight
    <3>2. Ledger!CloseUnrecorded(c)
      BY <1>0, <2>0, <2>3, <3>1, LedgerCloseUnrecorded
    <3>3. QED BY <3>2 DEF Ledger!Next
  <2>4. CASE InFlight(c) /\ call'[c].pc = "done" /\ \E status, text : Record(c, status, text)
    <3>1. Phase(c) = "open" /\ Phase(c)' = "closed"
      BY <2>4 DEF Phase, InFlight
    <3>2. PICK status, text : Record(c, status, text)
      BY <2>4
    <3>3. generations[c] = << >>
      BY <1>0, <2>4, NoRowYet DEF InFlight
    <3>4. CASE generations'[c] = << >>
      <4>1. Ledger!CloseUnrecorded(c)
        BY <1>0, <2>0, <3>1, <3>3, <3>4, LedgerCloseUnrecorded
      <4>2. QED BY <4>1 DEF Ledger!Next
    <3>5. CASE generations'[c] = << Row(c, status, text) >>
      <4>1. Row(c, status, text) \in Rows
        <5>1. generations'[c] \in Seq(Rows)
          BY DEF ProxyInv, TypeOK
        <5>2. QED BY <3>5, <5>1
      <4>2. Row(c, status, text).provider = call[c].route
        BY DEF Row, RecordedProvider
      <4>3. Ledger!CloseRecorded(c)
        BY <1>0, <2>0, <3>1, <3>5, <4>1, <4>2, LedgerCloseRecorded
      <4>4. QED BY <4>3 DEF Ledger!Next
    <3>6. QED BY <1>0, <3>2, <3>3, <3>4, <3>5, RecordEffect
  <2>5. QED BY <1>0, <1>6, <2>1, <2>2, <2>3, <2>4, StepMoves
<1>7. QED BY <1>2, <1>3, <1>4, <1>5, <1>6

LEMMA LedgerCrash ==
    ASSUME ProxyInv, Crash
    PROVE  Ledger!Crash
<1> DEFINE S == {c \in Calls : call[c].pc \notin {"idle", "done"}}
<1>1. \A c \in Calls : /\ c \in S => call'[c] = [call[c] EXCEPT !.pc = "crashed"]
                       /\ c \notin S => call'[c] = call[c]
  BY DEF Crash
<1>2. \A c \in Calls : /\ c \in S => call'[c].pc = "crashed"
                       /\ call'[c].route = call[c].route
  BY <1>1, LocalsType DEF ProxyInv, CallStates
<1>3. \A c \in Calls : Phase(c)' = IF c \in S THEN "closed" ELSE Phase(c)
  BY <1>1, <1>2 DEF Phase, InFlight
<1>4. PhaseBar' = [c \in Calls |-> IF c \in S THEN "closed" ELSE PhaseBar[c]]
  BY <1>3 DEF PhaseBar
<1>5. TargetBar' = TargetBar /\ EntriesBar' = EntriesBar
  BY <1>2 DEF TargetBar, EntriesBar, Crash
<1>6. S \in SUBSET Calls
  OBVIOUS
<1> HIDE DEF S
<1>7. QED BY <1>4, <1>5, <1>6 DEF Ledger!Crash, PhaseBar, TargetBar, EntriesBar

LEMMA LedgerNext ==
    ASSUME ProxyInv, ProxyInv', [Next]_vars
    PROVE  [Ledger!Next]_<<PhaseBar, TargetBar, EntriesBar>>
<1>1. CASE SaveSettings \/ UNCHANGED vars
  BY <1>1 DEF SaveSettings, vars, PhaseBar, TargetBar, EntriesBar, Phase, InFlight
<1>2. CASE Crash
  BY <1>2, LedgerCrash DEF Ledger!Next
<1>3. QED BY <1>1, <1>2, LedgerStep DEF Next

\* The proxy, with its streams, pool, settings changes, disconnections and
\* crashes, is an implementation of the one-row-per-call ledger.
THEOREM ProxyImplementsLedger == Spec => LedgerSpec
<1>1. (UNCHANGED <<PhaseBar, TargetBar, EntriesBar>>) => UNCHANGED Ledger!vars
  BY DEF Ledger!vars, PhaseBar, TargetBar, EntriesBar
<1>2. ProxyInv /\ ProxyInv' /\ [Next]_vars => [Ledger!Next]_(Ledger!vars)
  BY <1>1, LedgerNext
<1>3. QED BY LedgerInit, ProxyInvariant, <1>2, PTL DEF Spec, LedgerSpec, Ledger!Spec
==============================================================================
