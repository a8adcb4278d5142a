--------------------------- MODULE IngestionProofs ---------------------------
(****************************************************************************)
(* The write path, for any batches, any number of requests, traces and      *)
(* sessions: acknowledged events are stored, a batch is one transaction,    *)
(* and the sessions count the calls whose upsert went through.              *)
(*                                                                          *)
(* The three properties speak of the committed database at the end of a     *)
(* request.  What makes them true happens before, so the invariant follows  *)
(* the open batch: where its sound events are (flushed, or pending since an *)
(* attempt that failed), that nothing but its own rows is uncommitted, and  *)
(* that what the transaction has counted is what it holds.                  *)
(****************************************************************************)
EXTENDS Ingestion, FiniteSetTheorems, TLAPS

Objects == [traces : [Traces -> Nat], rows : SUBSET Rows, unbindable : BOOLEAN]

Types == TypeOK /\ pending \in Objects

\* What is not committed is the open batch's.
Uncommitted ==
    /\ ~open => tx = db
    /\ db.rows \subseteq tx.rows
    /\ \A r \in db.rows : r.req \in DOMAIN answers
    /\ \A r \in (tx.rows \cup pending.rows \cup skipped) \ db.rows :
          r.req = Request /\ r.idx \in 1 .. handled
    /\ pending.rows \subseteq skipped

\* A row is the only one of its event.
UniqueKeys(rows) == \A r, q \in rows : r.req = q.req /\ r.idx = q.idx => r = q

Holds(rows, events) == \A i \in events : \E r \in rows : r.req = Request /\ r.idx = i

SoundKept == active => Holds(tx.rows \cup pending.rows, sound)

Counts(d) ==
    /\ IsFiniteSet(d.rows \ skipped)
    /\ \A s \in Sessions :
          d.calls[s] = Cardinality({r \in d.rows : r.session = s} \ skipped)

Answered == AckedEventsStored /\ AllOrNothing

IngestionInv ==
    /\ Types /\ Uncommitted /\ SoundKept /\ Counts(tx) /\ Counts(db) /\ Answered
    /\ UniqueKeys(tx.rows \cup pending.rows)

----------------------------------------------------------------------------
(* Types. *)

LEMMA EventType ==
    ASSUME NEW e \in BatchEvents
    PROVE  /\ e.trace \in Traces \cup {NoTrace}
           /\ e.session \in Sessions \cup {NoSession, BadSession}
BY DEF BatchEvents

LEMMA NothingType == Nothing \in Objects
BY DEF Nothing, Objects

LEMMA ClosedTypes ==
    /\ {} \subseteq 1 .. 0
    /\ 0 \in 0 .. MaxEvents
BY IngestionAssumption

LEMMA TypesInit == Init => Types
<1> SUFFICES ASSUME Init PROVE Types
  OBVIOUS
<1>1. db \in Databases
  BY DEF Init, Databases
<1>2. tx \in Databases
  BY <1>1 DEF Init
<1>3. handled \in 0 .. MaxEvents /\ sound \subseteq 1 .. handled
  BY ClosedTypes DEF Init
<1>4. answers \in Seq([code : Codes, sound : SUBSET Nat])
  BY DEF Init
<1>5. QED BY <1>1, <1>2, <1>3, <1>4, NothingType DEF Init, Types, TypeOK, Objects

\* The objects and rows an event leaves in the session.
LEMMA RowType ==
    ASSUME Types, NEW e \in BatchEvents
    PROVE  Row(e) \in Rows
<1>1. Request \in Nat /\ handled + 1 \in Nat
  BY DEF Types, TypeOK, Request
<1>2. QED BY <1>1, EventType DEF Row, Rows

LEMMA WithTraceType ==
    ASSUME Types, NEW e \in BatchEvents
    PROVE  WithTrace(e) \in Objects /\ WithTrace(e).rows = pending.rows
<1>1. CASE NeedsTrace(e)
  <2>1. e.trace \in Traces
    BY <1>1, EventType DEF NeedsTrace
  <2>2. pending.traces[e.trace] + 1 \in Nat
    BY <2>1 DEF Types, Objects
  <2>3. QED BY <1>1, <2>1, <2>2 DEF Types, Objects, WithTrace
<1>2. CASE ~NeedsTrace(e)
  BY <1>2 DEF Types, WithTrace
<1>3. QED BY <1>1, <1>2

LEMMA WithRowType ==
    ASSUME Types, NEW e \in BatchEvents
    PROVE  WithRow(e) \in Objects /\ WithRow(e).rows = pending.rows \cup {Row(e)}
BY WithTraceType, RowType DEF WithRow, Objects

LEMMA FlushedType ==
    ASSUME NEW d \in Databases, NEW p \in Objects
    PROVE  /\ Flushed(d, p) \in Databases
           /\ Flushed(d, p).rows = d.rows \cup p.rows
           /\ Flushed(d, p).calls = d.calls
BY DEF Flushed, Databases, Objects

LEMMA TouchedType ==
    ASSUME NEW d \in Databases, NEW e
    PROVE  /\ Touched(d, e) \in Databases
           /\ Touched(d, e).rows = d.rows
           /\ Touched(d, e).calls =
                [s \in Sessions |-> IF s = e.session THEN d.calls[s] + 1 ELSE d.calls[s]]
<1>1. CASE e.session \in Sessions
  BY <1>1 DEF Touched, CallsAfter, Databases
<1>2. CASE e.session \notin Sessions
  BY <1>2 DEF Touched, Databases
<1>3. QED BY <1>1, <1>2

\* Trying an event counts it.
LEMMA NextEventType ==
    ASSUME Types, NEW e \in BatchEvents, NextEvent(e)
    PROVE  /\ handled \in Nat /\ handled' = handled + 1
           /\ handled' \in 0 .. MaxEvents /\ sound' \subseteq 1 .. handled'
BY IngestionAssumption DEF Types, TypeOK, NextEvent

\* So does closing the session.
LEMMA AnswerType ==
    ASSUME Types, NEW code \in Codes
    PROVE  Append(answers, [code |-> code, sound |-> sound])
             \in Seq([code : Codes, sound : SUBSET Nat])
<1>1. sound \in SUBSET Nat
  BY DEF Types, TypeOK
<1>2. QED BY <1>1 DEF Types, TypeOK

LEMMA CloseType ==
    ASSUME Types, NEW code \in Codes, NEW d \in Databases, Close(code, d)
    PROVE  Types'
<1>1. /\ open' = FALSE /\ active' = TRUE /\ wrote' = FALSE
      /\ handled' = 0 /\ sound' = {} /\ pending' = Nothing
      /\ tx' = d /\ db' = d
  BY DEF Close, WroteAfterClose
<1>2. answers' \in Seq([code : Codes, sound : SUBSET Nat])
  BY AnswerType DEF Close
<1>3. skipped' \subseteq Rows
  BY DEF Types, TypeOK, Close
<1>4. pending' \in Objects
  BY <1>1, NothingType
<1>5. handled' \in 0 .. MaxEvents /\ sound' \subseteq 1 .. handled'
  BY <1>1, ClosedTypes
<1>6. QED BY <1>1, <1>2, <1>3, <1>4, <1>5 DEF Types, TypeOK, Objects

LEMMA RefusedType ==
    ASSUME Types, NEW code \in Codes, Refused(code)
    PROVE  Types'
<1>1. db \in Databases
  BY DEF Types, TypeOK
<1>2. QED BY <1>1, CloseType DEF Refused, RolledBack

----------------------------------------------------------------------------
(* Rows. *)

LEMMA RowFields ==
    ASSUME NEW e
    PROVE  Row(e).req = Request /\ Row(e).idx = handled + 1 /\ Row(e).session = e.session
BY DEF Row

\* The row of the event at hand is a new one.
LEMMA RowIsNew ==
    ASSUME IngestionInv, NEW e
    PROVE  Row(e) \notin tx.rows /\ Row(e) \notin skipped /\ Row(e) \notin db.rows
<1>1. handled \in Nat /\ handled + 1 \notin 1 .. handled
  BY DEF IngestionInv, Types, TypeOK
<1>2. Request \notin DOMAIN answers
  BY DEF IngestionInv, Types, TypeOK, Request
<1>3. Row(e) \notin db.rows
  BY <1>2, RowFields DEF IngestionInv, Uncommitted
<1>4. QED BY <1>1, <1>3, RowFields DEF IngestionInv, Uncommitted

LEMMA KeyIsNew ==
    ASSUME IngestionInv, NEW e
    PROVE  UniqueKeys(tx.rows \cup pending.rows \cup {Row(e)})
<1>1. handled \in Nat /\ handled + 1 \notin 1 .. handled
  BY DEF IngestionInv, Types, TypeOK
<1>2. Request \notin DOMAIN answers
  BY DEF IngestionInv, Types, TypeOK, Request
<1>3. \A r \in tx.rows \cup pending.rows : ~(r.req = Request /\ r.idx = handled + 1)
  BY <1>1, <1>2 DEF IngestionInv, Uncommitted
<1>4. QED BY <1>3, RowFields DEF IngestionInv, UniqueKeys

\* Storing an event takes along what was pending, and counts the event's row
\* and no other.
LEMMA StoredCounts ==
    ASSUME IngestionInv, NEW e \in BatchEvents
    PROVE  LET d == Flushed(Touched(tx, e), WithRow(e))
           IN  /\ d \in Databases
               /\ d.rows = tx.rows \cup pending.rows \cup {Row(e)}
               /\ Counts(d)
<1> DEFINE d == Flushed(Touched(tx, e), WithRow(e))
<1>1. Types /\ tx \in Databases
  BY DEF IngestionInv, Types, TypeOK
<1>2. /\ d \in Databases
      /\ d.rows = tx.rows \cup pending.rows \cup {Row(e)}
      /\ d.calls = [s \in Sessions |-> IF s = e.session THEN tx.calls[s] + 1 ELSE tx.calls[s]]
  BY <1>1, FlushedType, TouchedType, WithRowType
<1> HIDE DEF d
<1>3. pending.rows \subseteq skipped /\ Row(e) \notin tx.rows /\ Row(e) \notin skipped
  BY RowIsNew DEF IngestionInv, Uncommitted
<1>4. d.rows \ skipped = (tx.rows \ skipped) \cup {Row(e)}
  BY <1>2, <1>3
<1>5. IsFiniteSet(tx.rows \ skipped)
  BY DEF IngestionInv, Counts
<1>6. IsFiniteSet(d.rows \ skipped)
  BY <1>4, <1>5, FS_AddElement
<1>7. ASSUME NEW s \in Sessions
      PROVE  d.calls[s] = Cardinality({r \in d.rows : r.session = s} \ skipped)
  <2> DEFINE old == {r \in tx.rows : r.session = s} \ skipped
             new == {r \in d.rows : r.session = s} \ skipped
  <2>1. tx.calls[s] = Cardinality(old)
    BY DEF IngestionInv, Counts
  <2>2. IsFiniteSet(old)
    BY <1>5, FS_Subset
  <2>3. CASE s = e.session
    <3>1. new = old \cup {Row(e)} /\ Row(e) \notin old
      BY <1>2, <1>3, <2>3, RowFields
    <3>2. Cardinality(new) = Cardinality(old) + 1
      BY <2>2, <3>1, FS_AddElement
    <3>3. QED BY <1>2, <2>1, <2>3, <3>2
  <2>4. CASE s # e.session
    <3>1. new = old
      BY <1>2, <1>3, <2>4, RowFields
    <3>2. QED BY <1>2, <2>1, <2>4, <3>1
  <2>5. QED BY <2>3, <2>4
<1>8. Counts(d)
  BY <1>6, <1>7 DEF Counts
<1>9. QED BY <1>2, <1>8 DEF d

\* Counts does not notice rows that are skipped later and not in the database,
\* nor skipped rows forgotten that are not in it.
LEMMA SkippedElsewhere ==
    ASSUME NEW d, Counts(d), d.rows \cap skipped' = d.rows \cap skipped
    PROVE  /\ IsFiniteSet(d.rows \ skipped')
           /\ \A s \in Sessions :
                 d.calls[s] = Cardinality({r \in d.rows : r.session = s} \ skipped')
<1>1. d.rows \ skipped' = d.rows \ skipped
  OBVIOUS
<1>2. ASSUME NEW s \in Sessions
      PROVE  {r \in d.rows : r.session = s} \ skipped' = {r \in d.rows : r.session = s} \ skipped
  OBVIOUS
<1>3. QED BY <1>1, <1>2 DEF Counts

----------------------------------------------------------------------------
(* Answers. *)

\* A new answer: the old ones are about the rows of older requests.
LEMMA AnswerKeeps ==
    ASSUME IngestionInv,
           NEW a \in [code : Codes, sound : SUBSET Nat], answers' = Append(answers, a),
           db.rows \subseteq db'.rows,
           \A r \in db'.rows \ db.rows : r.req = Request,
           a.code = 500 => db'.rows = db.rows,
           a.code = 200 => Holds(db'.rows, a.sound),
           a.code = 0 => db'.rows = db.rows \/ Holds(db'.rows, a.sound)
    PROVE  Answered' /\ \A r \in db'.rows : r.req \in DOMAIN answers'
<1>1. answers \in Seq([code : Codes, sound : SUBSET Nat]) /\ Request = Len(answers) + 1
  BY DEF IngestionInv, Types, TypeOK, Request
<1>2. PICK q \in Nat : q = Request
  BY <1>1
<1>3. /\ DOMAIN answers' = DOMAIN answers \cup {q}
      /\ q \notin DOMAIN answers
      /\ answers'[q] = a
      /\ \A n \in DOMAIN answers : answers'[n] = answers[n]
  BY <1>1, <1>2
<1>4. \A r \in db.rows : r.req \in DOMAIN answers
  BY DEF IngestionInv, Uncommitted
<1>5. \A r \in db'.rows : r.req \in DOMAIN answers'
  BY <1>2, <1>3, <1>4
<1>6. \A n \in DOMAIN answers : RowsOf(n)' = RowsOf(n)
  BY <1>2, <1>3 DEF RowsOf
<1>7. db'.rows = db.rows => RowsOf(q)' = {}
  BY <1>3, <1>4 DEF RowsOf
<1>8. Holds(db'.rows, a.sound) => a.sound \subseteq RowsOf(q)'
  BY <1>2 DEF Holds, RowsOf
<1>9. AckedEventsStored /\ AllOrNothing
  BY DEF IngestionInv, Answered
<1>10. AckedEventsStored'
  BY <1>3, <1>6, <1>8, <1>9 DEF AckedEventsStored
<1>11. AllOrNothing'
  BY <1>3, <1>6, <1>7, <1>8, <1>9 DEF AllOrNothing
<1>12. QED BY <1>5, <1>10, <1>11 DEF Answered

\* Closing a session with a database that has the batch as its answer says.
LEMMA CloseKeeps ==
    ASSUME IngestionInv, NEW code \in Codes, NEW d \in Databases, Close(code, d), Counts(d),
           db.rows \subseteq d.rows,
           d.rows \subseteq tx.rows \cup pending.rows,
           \A r \in d.rows \ db.rows : r.req = Request,
           code = 500 => d.rows = db.rows,
           code = 200 => Holds(d.rows, sound),
           code = 0 => d.rows = db.rows \/ Holds(d.rows, sound)
    PROVE  IngestionInv'
<1> DEFINE a == [code |-> code, sound |-> sound]
<1>0. sound \in SUBSET Nat
  BY DEF IngestionInv, Types, TypeOK
<1>1. Types'
  BY CloseType DEF IngestionInv
<1>2. /\ db' = d /\ tx' = d /\ sound' = {} /\ pending' = Nothing
      /\ answers' = Append(answers, a) /\ skipped' = skipped \cap d.rows
  BY DEF Close
<1>3. a \in [code : Codes, sound : SUBSET Nat] /\ a.code = code /\ a.sound = sound
  BY <1>0
<1> HIDE DEF a
<1>4. Answered' /\ \A r \in db'.rows : r.req \in DOMAIN answers'
  BY <1>2, <1>3, AnswerKeeps
<1>5. Uncommitted'
  BY <1>2, <1>4 DEF Uncommitted, Nothing
<1>6. SoundKept'
  BY <1>2 DEF SoundKept, Holds
<1>7. Counts(tx)' /\ Counts(db)'
  BY <1>2, SkippedElsewhere DEF Counts
<1>8. UniqueKeys(tx.rows \cup pending.rows)'
  BY <1>2 DEF IngestionInv, UniqueKeys, Nothing
<1>9. QED BY <1>1, <1>4, <1>5, <1>6, <1>7, <1>8 DEF IngestionInv

LEMMA RefusedKeeps ==
    ASSUME IngestionInv, NEW code \in {500, 0}, Refused(code)
    PROVE  IngestionInv'
<1>1. db \in Databases /\ Counts(db) /\ code \in Codes /\ code # 200
  BY DEF IngestionInv, Types, TypeOK, Codes
<1>2. db.rows \subseteq tx.rows \cup pending.rows
  BY DEF IngestionInv, Uncommitted
<1>3. QED BY <1>1, <1>2, CloseKeeps DEF Refused, RolledBack

LEMMA CommitKeeps ==
    ASSUME IngestionInv, Commit
    PROVE  IngestionInv'
<1> DEFINE d == Flushed(tx, pending)
<1>1. PICK code \in {200, 0} : Close(code, d)
  BY DEF Commit
<1>2. active /\ Types /\ tx \in Databases /\ pending \in Objects
  BY DEF Commit, IngestionInv, Types, TypeOK
<1>3. d \in Databases /\ d.rows = tx.rows \cup pending.rows /\ d.calls = tx.calls
  BY <1>2, FlushedType
<1> HIDE DEF d
<1>4. Holds(d.rows, sound)
  BY <1>2, <1>3 DEF IngestionInv, SoundKept
<1>5. /\ db.rows \subseteq d.rows
      /\ \A r \in d.rows \ db.rows : r.req = Request
      /\ pending.rows \subseteq skipped
  BY <1>3 DEF IngestionInv, Uncommitted
<1>6. Counts(d)
  <2>1. d.rows \ skipped = tx.rows \ skipped
    BY <1>3, <1>5
  <2>2. ASSUME NEW s \in Sessions
        PROVE  {r \in d.rows : r.session = s} \ skipped = {r \in tx.rows : r.session = s} \ skipped
    BY <1>3, <1>5
  <2>3. QED BY <1>3, <2>1, <2>2 DEF IngestionInv, Counts
<1>7. code \in Codes /\ code # 500
  BY DEF Codes
<1>8. QED BY <1>1, <1>3, <1>4, <1>5, <1>6, <1>7, CloseKeeps

----------------------------------------------------------------------------
(* Events. *)

LEMMA RequestKept ==
    ASSUME UNCHANGED <<db, answers>>, Answered
    PROVE  Answered' /\ Request' = Request
BY DEF Answered, AckedEventsStored, AllOrNothing, RowsOf, Request

\* Rows of the open batch stay its own when another event has been tried.
LEMMA OwnRows ==
    ASSUME IngestionInv, NEW e \in BatchEvents, NextEvent(e)
    PROVE  \A r \in (tx.rows \cup pending.rows \cup skipped \cup {Row(e)}) \ db.rows :
              r.req = Request /\ r.idx \in 1 .. handled'
<1>1. handled \in Nat /\ handled' = handled + 1
  BY NextEventType DEF IngestionInv
<1>2. /\ handled + 1 \in 1 .. (handled + 1)
      /\ \A i \in 1 .. handled : i \in 1 .. (handled + 1)
  BY <1>1
<1>3. QED BY <1>1, <1>2, RowFields DEF IngestionInv, Uncommitted

\* An event whose attempt leaves the transaction as it is.
LEMMA TriedKeeps ==
    ASSUME IngestionInv, NEW e \in BatchEvents, NextEvent(e),
           UNCHANGED <<open, active, tx, wrote, db, answers>>,
           pending' \in Objects,
           \/ /\ pending'.rows = pending.rows /\ UNCHANGED skipped
              /\ e.kind # "good" \/ ~active
           \/ /\ pending'.rows = pending.rows \cup {Row(e)}
              /\ skipped' = skipped \cup {Row(e)}
    PROVE  IngestionInv'
<1>1. /\ open /\ open' /\ handled' \in 0 .. MaxEvents /\ sound' \subseteq 1 .. handled'
      /\ sound' = IF e.kind = "good" THEN sound \cup {handled + 1} ELSE sound
  BY NextEventType DEF IngestionInv, NextEvent
<1>2. Row(e) \in Rows
  BY RowType DEF IngestionInv
<1>3. Types'
  <2>1. skipped' \subseteq Rows
    BY <1>2 DEF IngestionInv, Types, TypeOK
  <2>2. TypeOK
    BY DEF IngestionInv, Types
  <2>3. QED BY <1>1, <2>1, <2>2 DEF Types, TypeOK, Objects
<1>4. Answered' /\ Request' = Request
  BY RequestKept DEF IngestionInv
<1>5. Uncommitted'
  <2>1. \A r \in (tx.rows \cup pending'.rows \cup skipped') \ db.rows :
           r.req = Request /\ r.idx \in 1 .. handled'
    BY OwnRows
  <2>2. pending'.rows \subseteq skipped'
    BY DEF IngestionInv, Uncommitted
  <2>3. QED BY <1>1, <1>4, <2>1, <2>2 DEF IngestionInv, Uncommitted
<1>6. SoundKept'
  <2> SUFFICES ASSUME active, NEW i \in sound'
               PROVE  \E r \in tx.rows \cup pending'.rows : r.req = Request /\ r.idx = i
    BY <1>4 DEF SoundKept, Holds
  <2>1. CASE i \in sound
    BY <2>1 DEF IngestionInv, SoundKept, Holds
  <2>2. CASE i = handled + 1 /\ e.kind = "good"
    BY <2>2, RowFields
  <2>3. QED BY <1>1, <2>1, <2>2
<1>7. Counts(tx)' /\ Counts(db)'
  <2>1. Row(e) \notin tx.rows /\ Row(e) \notin db.rows
    BY RowIsNew
  <2>2. tx.rows \cap skipped' = tx.rows \cap skipped /\ db.rows \cap skipped' = db.rows \cap skipped
    BY <2>1
  <2>3. Counts(tx) /\ Counts(db)
    BY DEF IngestionInv
  <2>4. QED BY <2>2, <2>3, SkippedElsewhere DEF Counts
<1>8. UniqueKeys(tx.rows \cup pending.rows)'
  <2>1. tx.rows \cup pending'.rows \subseteq tx.rows \cup pending.rows \cup {Row(e)}
    OBVIOUS
  <2>2. QED BY <2>1, KeyIsNew DEF UniqueKeys
<1>9. QED BY <1>3, <1>4, <1>5, <1>6, <1>7, <1>8 DEF IngestionInv

LEMMA IgnoreKeeps ==
    ASSUME IngestionInv, NEW e \in BatchEvents, Ignore(e)
    PROVE  IngestionInv'
<1>1. pending \in Objects
  BY DEF IngestionInv, Types
<1>2. /\ NextEvent(e) /\ (e.kind # "good" \/ ~active)
      /\ UNCHANGED <<open, active, pending, tx, wrote, db, answers, skipped>>
  BY DEF Ignore
<1>3. QED BY <1>1, <1>2, TriedKeeps

LEMMA FailCostKeeps ==
    ASSUME IngestionInv, NEW e \in BatchEvents, FailCost(e)
    PROVE  IngestionInv'
<1>1. WithTrace(e) \in Objects /\ WithTrace(e).rows = pending.rows
  BY WithTraceType DEF IngestionInv
<1>2. /\ NextEvent(e) /\ e.kind # "good" /\ pending' = WithTrace(e)
      /\ UNCHANGED <<open, active, tx, wrote, db, answers, skipped>>
  BY DEF FailCost
<1>3. QED BY <1>1, <1>2, TriedKeeps

LEMMA FailTouchKeeps ==
    ASSUME IngestionInv, NEW e \in BatchEvents, FailTouch(e)
    PROVE  IngestionInv'
<1>1. WithRow(e) \in Objects /\ WithRow(e).rows = pending.rows \cup {Row(e)}
  BY WithRowType DEF IngestionInv
<1>2. /\ NextEvent(e) /\ pending' = WithRow(e) /\ skipped' = skipped \cup {Row(e)}
      /\ UNCHANGED <<open, active, tx, wrote, db, answers>>
  BY DEF FailTouch
<1>3. QED BY <1>1, <1>2, TriedKeeps

LEMMA FailFlushKeeps ==
    ASSUME IngestionInv, NEW e \in BatchEvents, FailFlush(e)
    PROVE  IngestionInv'
<1>1. /\ NextEvent(e) /\ open /\ active' = FALSE /\ pending' = Nothing /\ tx' = db
      /\ wrote' = FALSE
      /\ UNCHANGED <<open, db, answers, skipped>>
  BY DEF FailFlush, RolledBack, NextEvent
<1>2. handled' \in 0 .. MaxEvents /\ sound' \subseteq 1 .. handled'
  BY <1>1, NextEventType DEF IngestionInv
<1>3. Types'
  <2>1. TypeOK
    BY DEF IngestionInv, Types
  <2>2. QED BY <1>1, <1>2, <2>1, NothingType DEF Types, TypeOK, Objects
<1>4. Answered' /\ Request' = Request
  BY <1>1, RequestKept DEF IngestionInv
<1>5. Uncommitted'
  <2>1. \A r \in skipped \ db.rows : r.req = Request /\ r.idx \in 1 .. handled'
    BY <1>1, OwnRows
  <2>2. pending'.rows = {}
    BY <1>1 DEF Nothing
  <2>3. QED BY <1>1, <1>4, <2>1, <2>2 DEF IngestionInv, Uncommitted
<1>6. SoundKept'
  BY <1>1 DEF SoundKept
<1>7. Counts(tx)' /\ Counts(db)'
  BY <1>1 DEF IngestionInv, Counts
<1>8. UniqueKeys(tx.rows \cup pending.rows)'
  <2>1. tx'.rows \cup pending'.rows \subseteq tx.rows \cup pending.rows
    BY <1>1 DEF Nothing, IngestionInv, Uncommitted
  <2>2. QED BY <2>1 DEF IngestionInv, UniqueKeys
<1>9. QED BY <1>3, <1>4, <1>5, <1>6, <1>7, <1>8 DEF IngestionInv

LEMMA StoreKeeps ==
    ASSUME IngestionInv, NEW e \in BatchEvents, Store(e)
    PROVE  IngestionInv'
<1> DEFINE d == Flushed(Touched(tx, e), WithRow(e))
<1>1. /\ NextEvent(e) /\ open /\ pending' = Nothing /\ tx' = d /\ e.kind = "good"
      /\ wrote' = TRUE
      /\ UNCHANGED <<open, active, db, answers, skipped>>
  BY DEF Store, NextEvent
<1>2. d \in Databases /\ d.rows = tx.rows \cup pending.rows \cup {Row(e)} /\ Counts(d)
  BY StoredCounts
<1> HIDE DEF d
<1>3. /\ handled' \in 0 .. MaxEvents /\ sound' \subseteq 1 .. handled'
      /\ sound' = sound \cup {handled + 1}
  BY <1>1, NextEventType DEF IngestionInv, NextEvent
<1>4. Types'
  <2>1. TypeOK
    BY DEF IngestionInv, Types
  <2>2. QED BY <1>1, <1>2, <1>3, <2>1, NothingType DEF Types, TypeOK, Objects
<1>5. Answered' /\ Request' = Request
  BY <1>1, RequestKept DEF IngestionInv
<1>6. Uncommitted'
  <2>1. \A r \in (d.rows \cup skipped) \ db.rows : r.req = Request /\ r.idx \in 1 .. handled'
    BY <1>1, <1>2, OwnRows
  <2>2. pending'.rows = {}
    BY <1>1 DEF Nothing
  <2>3. QED BY <1>1, <1>2, <1>5, <2>1, <2>2 DEF IngestionInv, Uncommitted
<1>7. SoundKept'
  <2> SUFFICES ASSUME active, NEW i \in sound'
               PROVE  \E r \in d.rows : r.req = Request /\ r.idx = i
    BY <1>1, <1>5 DEF SoundKept, Holds
  <2>1. CASE i \in sound
    BY <1>2, <2>1 DEF IngestionInv, SoundKept, Holds
  <2>2. CASE i = handled + 1
    BY <1>2, <2>2, RowFields
  <2>3. QED BY <1>3, <2>1, <2>2
<1>8. Counts(tx)' /\ Counts(db)'
  BY <1>1, <1>2 DEF IngestionInv, Counts
<1>9. UniqueKeys(tx.rows \cup pending.rows)'
  <2>1. tx'.rows \cup pending'.rows = tx.rows \cup pending.rows \cup {Row(e)}
    BY <1>1, <1>2 DEF Nothing
  <2>2. QED BY <2>1, KeyIsNew DEF UniqueKeys
<1>10. QED BY <1>4, <1>5, <1>6, <1>7, <1>8, <1>9 DEF IngestionInv

----------------------------------------------------------------------------
(* Requests. *)

\* A request answered while no batch is open, with a new committed database.
LEMMA BetweenKeeps ==
    ASSUME IngestionInv, ~open, tx' = db',
           UNCHANGED <<open, handled, sound, active, pending, wrote, skipped>>,
           db' \in Databases, Counts(db'), db.rows \subseteq db'.rows,
           answers' \in Seq([code : Codes, sound : SUBSET Nat]),
           Answered', \A r \in db'.rows : r.req \in DOMAIN answers', UniqueKeys(db'.rows)
    PROVE  IngestionInv'
<1>1. pending = Nothing /\ handled = 0 /\ sound \subseteq 1 .. 0
  BY DEF IngestionInv, Types, TypeOK
<1>2. sound = {} /\ 1 .. 0 = {}
  BY <1>1
<1>3. Types'
  BY DEF IngestionInv, Types, TypeOK
<1>4. pending.rows = {} /\ skipped \subseteq db.rows
  BY <1>1, <1>2 DEF Nothing, IngestionInv, Uncommitted
<1>5. Uncommitted'
  BY <1>4 DEF Uncommitted
<1>6. SoundKept'
  BY <1>2 DEF SoundKept, Holds
<1>7. Counts(tx)' /\ Counts(db)'
  BY DEF Counts
<1>8. UniqueKeys(tx.rows \cup pending.rows)'
  BY <1>4 DEF UniqueKeys
<1>9. QED BY <1>3, <1>5, <1>6, <1>7, <1>8 DEF IngestionInv

LEMMA ProxyRecordKeeps ==
    ASSUME IngestionInv, NEW e \in BatchEvents, ProxyRecord(e)
    PROVE  IngestionInv'
<1>1. /\ ~open /\ tx' = db' /\ tx = db
      /\ UNCHANGED <<open, handled, sound, active, pending, wrote, skipped>>
  BY DEF ProxyRecord, IngestionInv, Uncommitted
<1>2. answers \in Seq([code : Codes, sound : SUBSET Nat])
  BY DEF IngestionInv, Types, TypeOK
<1>3. CASE /\ db' = Flushed(Touched(db, e), WithRow(e))
           /\ answers' = Append(answers, [code |-> 200, sound |-> {1}])
  <2> DEFINE d == Flushed(Touched(tx, e), WithRow(e))
             a == [code |-> 200, sound |-> {1}]
  <2>1. d \in Databases /\ d.rows = tx.rows \cup pending.rows \cup {Row(e)} /\ Counts(d)
    BY StoredCounts
  <2>2. db' = d /\ answers' = Append(answers, a)
    BY <1>1, <1>3
  <2>3. pending.rows = {} /\ handled + 1 = 1
    BY <1>1 DEF IngestionInv, Types, TypeOK, Nothing
  <2>4. a \in [code : Codes, sound : SUBSET Nat] /\ a.code = 200 /\ a.sound = {1}
    BY DEF Codes
  <2>5. ~(a.code = 500) /\ ~(a.code = 0)
    BY <2>4
  <2> HIDE DEF d, a
  <2>6. /\ db'.rows = db.rows \cup {Row(e)}
        /\ Row(e).req = Request /\ Row(e).idx = 1
    BY <1>1, <2>1, <2>2, <2>3, RowFields
  <2>7. Holds(db'.rows, a.sound)
    BY <2>4, <2>6 DEF Holds
  <2>8. Answered' /\ \A r \in db'.rows : r.req \in DOMAIN answers'
    <3>1. db.rows \subseteq db'.rows /\ \A r \in db'.rows \ db.rows : r.req = Request
      BY <2>6
    <3>2. a \in [code : Codes, sound : SUBSET Nat] /\ answers' = Append(answers, a)
      BY <2>2, <2>4
    <3>3. QED BY <2>5, <2>7, <3>1, <3>2, AnswerKeeps
  <2>9. answers' \in Seq([code : Codes, sound : SUBSET Nat])
    BY <1>2, <2>2, <2>4
  <2>10. db' \in Databases /\ Counts(db') /\ db.rows \subseteq db'.rows
    BY <2>1, <2>2, <2>6
  <2>11. UniqueKeys(db'.rows)
    BY <2>1, <2>2, KeyIsNew
  <2>12. QED BY <1>1, <2>8, <2>9, <2>10, <2>11, BetweenKeeps
<1>4. CASE db' = db /\ answers' = Append(answers, [code |-> 500, sound |-> {}])
  <2> DEFINE a == [code |-> 500, sound |-> {}]
  <2>1. a \in [code : Codes, sound : SUBSET Nat] /\ a.code = 500
    BY DEF Codes
  <2>2. ~(a.code = 200) /\ ~(a.code = 0)
    BY <2>1
  <2>3. answers' = Append(answers, a)
    BY <1>4
  <2> HIDE DEF a
  <2>4. Answered' /\ \A r \in db'.rows : r.req \in DOMAIN answers'
    BY <1>4, <2>1, <2>2, <2>3, AnswerKeeps
  <2>5. answers' \in Seq([code : Codes, sound : SUBSET Nat])
    BY <1>2, <2>1, <2>3
  <2>6. db' \in Databases /\ Counts(db') /\ db.rows \subseteq db'.rows
    BY <1>4 DEF IngestionInv, Types, TypeOK
  <2>7. UniqueKeys(db'.rows)
    BY <1>4 DEF IngestionInv, Uncommitted, UniqueKeys
  <2>8. QED BY <1>1, <2>4, <2>5, <2>6, <2>7, BetweenKeeps
<1>5. QED BY <1>3, <1>4 DEF ProxyRecord

LEMMA BeginKeeps ==
    ASSUME IngestionInv, Begin
    PROVE  IngestionInv'
<1>1. /\ open' = TRUE
      /\ UNCHANGED <<handled, sound, active, pending, tx, wrote, db, answers, skipped>>
  BY DEF Begin
<1>2. Types'
  BY <1>1 DEF IngestionInv, Types, TypeOK
<1>3. Answered' /\ Request' = Request
  BY <1>1, RequestKept DEF IngestionInv
<1>4. /\ Uncommitted' /\ SoundKept' /\ Counts(tx)' /\ Counts(db)'
      /\ UniqueKeys(tx.rows \cup pending.rows)'
  BY <1>1, <1>3 DEF IngestionInv, Uncommitted, SoundKept, Counts, Holds, UniqueKeys
<1>5. QED BY <1>2, <1>3, <1>4 DEF IngestionInv

LEMMA IngestionInit == Init => IngestionInv
<1> SUFFICES ASSUME Init PROVE IngestionInv
  OBVIOUS
<1>1. Types
  BY TypesInit
<1>2. /\ tx = db /\ db.rows = {} /\ pending.rows = {} /\ skipped = {} /\ sound = {}
      /\ db.calls = [s \in Sessions |-> 0] /\ answers = << >>
  BY DEF Init, Nothing
<1>3. Uncommitted /\ SoundKept
  BY <1>2 DEF Uncommitted, SoundKept, Holds
<1>4. Counts(db)
  <2>1. {} \ skipped = {} /\ \A s : {r \in {} : r.session = s} \ skipped = {}
    OBVIOUS
  <2>2. QED BY <1>2, <2>1, FS_EmptySet DEF Counts
<1>5. Answered
  BY <1>2 DEF Answered, AckedEventsStored, AllOrNothing
<1>6. UniqueKeys(tx.rows \cup pending.rows)
  BY <1>2 DEF UniqueKeys
<1>7. QED BY <1>1, <1>2, <1>3, <1>4, <1>5, <1>6 DEF IngestionInv

LEMMA IngestionStep == IngestionInv /\ [Next]_vars => IngestionInv'
<1> SUFFICES ASSUME IngestionInv, [Next]_vars PROVE IngestionInv'
  OBVIOUS
<1>1. CASE Begin
  BY <1>1, BeginKeeps
<1>2. CASE AbortBatch
  BY <1>2, RefusedKeeps DEF AbortBatch
<1>3. CASE CommitFails
  BY <1>3, RefusedKeeps DEF CommitFails, FailedAnswer
<1>4. CASE Commit
  BY <1>4, CommitKeeps
<1>5. CASE Crash
  BY <1>5, RefusedKeeps DEF Crash
<1>6. CASE \E e \in BatchEvents :
              Ignore(e) \/ FailCost(e) \/ FailTouch(e) \/ FailFlush(e) \/ Store(e)
  BY <1>6, IgnoreKeeps, FailCostKeeps, FailTouchKeeps, FailFlushKeeps, StoreKeeps
<1>7. CASE \E e \in ProxyEvents : ProxyRecord(e)
  BY <1>7, ProxyRecordKeeps DEF ProxyEvents
<1>8. CASE UNCHANGED vars
  <2>1. UNCHANGED <<open, handled, sound, active, pending, tx, wrote, db, answers, skipped>>
    BY <1>8 DEF vars
  <2>2. Types'
    BY <2>1 DEF IngestionInv, Types, TypeOK
  <2>3. Answered' /\ Request' = Request
    BY <2>1, RequestKept DEF IngestionInv
  <2>4. /\ Uncommitted' /\ SoundKept' /\ Counts(tx)' /\ Counts(db)'
        /\ UniqueKeys(tx.rows \cup pending.rows)'
    BY <2>1, <2>3 DEF IngestionInv, Uncommitted, SoundKept, Counts, Holds, UniqueKeys
  <2>5. QED BY <2>2, <2>3, <2>4 DEF IngestionInv
<1>9. QED BY <1>1, <1>2, <1>3, <1>4, <1>5, <1>6, <1>7, <1>8 DEF Next

LEMMA IngestionInvariant == Spec => []IngestionInv
BY IngestionInit, IngestionStep, PTL DEF Spec

----------------------------------------------------------------------------
(* Theorems. *)

\* The state of the write path is well typed, and nothing of a batch outlives
\* its session.
THEOREM IngestionTypes == Spec => []TypeOK
<1>1. IngestionInv => TypeOK
  BY DEF IngestionInv, Types
<1>2. QED BY <1>1, IngestionInvariant, PTL

\* The monitor never acknowledges a sound event it has not stored, whatever
\* the other events of the batch did to the session.
THEOREM AckedEventsStoredAlways == Spec => []AckedEventsStored
<1>1. IngestionInv => AckedEventsStored
  BY DEF IngestionInv, Answered
<1>2. QED BY <1>1, IngestionInvariant, PTL

\* A refused batch leaves no row, one without an answer all or none.
THEOREM AllOrNothingAlways == Spec => []AllOrNothing
<1>1. IngestionInv => AllOrNothing
  BY DEF IngestionInv, Answered
<1>2. QED BY <1>1, IngestionInvariant, PTL

\* A session counts exactly its stored calls whose upsert went through.
THEOREM SessionCountsAlways == Spec => []SessionCountsUpserts
<1>1. IngestionInv => SessionCountsUpserts
  BY DEF IngestionInv, Counts, SessionCountsUpserts, RowsIn
<1>2. QED BY <1>1, IngestionInvariant, PTL
==============================================================================
