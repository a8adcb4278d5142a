-------------------------- MODULE HermesMonitorProofs -------------------------
(****************************************************************************)
(* SDK and monitor together, for any events, threads and batches: what a    *)
(* returned post means for its events, and that an event is stored at most  *)
(* once and for good.                                                       *)
(*                                                                          *)
(* The composition takes the steps of its parts, so their invariants hold   *)
(* of it (SdkP!SdkInv, IngP!IngestionInv).  What is added follows a batch   *)
(* between them: an event that has been sent is in one request only, and    *)
(* never again in the queue or in a hand that has not sent it.              *)
(****************************************************************************)
EXTENDS HermesMonitor, SequenceTheorems, FiniteSetTheorems, TLAPS

SdkP == INSTANCE SdkClientProofs

IngP == INSTANCE IngestionProofs

----------------------------------------------------------------------------
(* The parts. *)

LEMMA SdkInitSame == Sdk!Init => SdkP!Init
BY DEF Sdk!Init, Sdk!Flushers, SdkP!Init, SdkP!Flushers

LEMMA SdkNextSame == Sdk!Next => SdkP!Next
BY DEF Sdk!Next, Sdk!Flushers, Sdk!CallFlush, Sdk!CallShutdown, Sdk!Record, Sdk!Tick,
       Sdk!DaemonEnds, Sdk!Flush, Sdk!Exit, Sdk!Exited, Sdk!Kill, Sdk!Running,
       Sdk!FlushNothing, Sdk!Swap, Sdk!Post, Sdk!PostFails, Sdk!DumpsRaises, Sdk!Flushing,
       Sdk!NothingToSend, Sdk!Return, Sdk!Sending, Sdk!InHand, Sdk!Delivered,
       Sdk!QueueAfterPost, Sdk!QueueAfterFailure, Sdk!RaisedIn,
       SdkP!Next, SdkP!Flushers, SdkP!CallFlush, SdkP!CallShutdown, SdkP!Record, SdkP!Tick,
       SdkP!DaemonEnds, SdkP!Flush, SdkP!Exit, SdkP!Exited, SdkP!Kill, SdkP!Running,
       SdkP!FlushNothing, SdkP!Swap, SdkP!Post, SdkP!PostFails, SdkP!DumpsRaises, SdkP!Flushing,
       SdkP!NothingToSend, SdkP!Return, SdkP!Sending, SdkP!InHand, SdkP!Delivered,
       SdkP!QueueAfterPost, SdkP!QueueAfterFailure, SdkP!RaisedIn

LEMMA IngInitSame == Ing!Init => IngP!Init
BY DEF Ing!Init, Ing!Nothing, IngP!Init, IngP!Nothing

\* The steps the composition takes of the write path.
IngStep ==
    \/ Ing!Begin \/ Ing!CommitFails \/ Ing!Commit \/ Ing!Crash
    \/ \E e \in Ing!BatchEvents :
          Ing!Ignore(e) \/ Ing!FailCost(e) \/ Ing!FailTouch(e) \/ Ing!FailFlush(e) \/ Ing!Store(e)

LEMMA IngStepSame == IngStep => IngP!Next
<1>1. Ing!Begin => IngP!Begin
  BY DEF Ing!Begin, IngP!Begin
<1>2. Ing!CommitFails => IngP!CommitFails
  BY DEF Ing!CommitFails, Ing!Refused, Ing!Close, Ing!RolledBack, Ing!Nothing, Ing!FailedAnswer,
         Ing!WroteAfterClose, Ing!Flushable, Ing!MayLock,
         IngP!CommitFails, IngP!Refused, IngP!Close, IngP!RolledBack, IngP!Nothing,
         IngP!FailedAnswer, IngP!WroteAfterClose, IngP!Flushable, IngP!MayLock
<1>3. Ing!Commit => IngP!Commit
  BY DEF Ing!Commit, Ing!Close, Ing!Nothing, Ing!WroteAfterClose, Ing!Flushable, Ing!Flushed,
         IngP!Commit, IngP!Close, IngP!Nothing, IngP!WroteAfterClose, IngP!Flushable, IngP!Flushed
<1>4. Ing!Crash => IngP!Crash
  BY DEF Ing!Crash, Ing!Refused, Ing!Close, Ing!RolledBack, Ing!Nothing, Ing!WroteAfterClose,
         IngP!Crash, IngP!Refused, IngP!Close, IngP!RolledBack, IngP!Nothing, IngP!WroteAfterClose
<1>5. Ing!BatchEvents = IngP!BatchEvents
  BY DEF Ing!BatchEvents, Ing!Kinds, IngP!BatchEvents, IngP!Kinds
<1>6. ASSUME NEW e \in Ing!BatchEvents
      PROVE  /\ Ing!Ignore(e) => IngP!Ignore(e)
             /\ Ing!FailCost(e) => IngP!FailCost(e)
             /\ Ing!FailTouch(e) => IngP!FailTouch(e)
             /\ Ing!FailFlush(e) => IngP!FailFlush(e)
             /\ Ing!Store(e) => IngP!Store(e)
  BY DEF Ing!Ignore, Ing!FailCost, Ing!FailTouch, Ing!FailFlush, Ing!Store, Ing!NextEvent,
         Ing!Flushable, Ing!WithRow, Ing!WithTrace, Ing!NeedsTrace, Ing!Row, Ing!Request,
         Ing!Flushed, Ing!Touched, Ing!CallsAfter, Ing!Nothing, Ing!MayLock, Ing!RolledBack,
         IngP!Ignore, IngP!FailCost, IngP!FailTouch, IngP!FailFlush, IngP!Store, IngP!NextEvent,
         IngP!Flushable, IngP!WithRow, IngP!WithTrace, IngP!NeedsTrace, IngP!Row, IngP!Request,
         IngP!Flushed, IngP!Touched, IngP!CallsAfter, IngP!Nothing, IngP!MayLock, IngP!RolledBack
<1>7. QED BY <1>1, <1>2, <1>3, <1>4, <1>5, <1>6 DEF IngStep, IngP!Next

\* Every step of the composition is one of each part, or leaves the part alone.
LEMMA SdkKeeps ==
    ASSUME SdkP!SdkInv, Sdk!Next \/ UNCHANGED sdkVars
    PROVE  SdkP!SdkInv'
<1>1. [SdkP!Next]_(SdkP!vars)
  BY SdkNextSame DEF sdkVars, SdkP!vars
<1>2. QED BY <1>1, PartsAssumption, SdkP!SdkStep DEF IsFiniteSet, SdkP!IsFiniteSet

LEMMA IngKeeps ==
    ASSUME IngP!IngestionInv, IngStep \/ UNCHANGED monitorVars
    PROVE  IngP!IngestionInv'
<1>1. [IngP!Next]_(IngP!vars)
  BY IngStepSame DEF monitorVars, IngP!vars
<1>2. QED BY <1>1, PartsAssumption, IngP!IngestionStep

----------------------------------------------------------------------------
(* The invariant. *)

Distinct(b) == \A i, j \in DOMAIN b : b[i] = b[j] => i = j

Apart(b, c) == RangeOf(b) \cap RangeOf(c) = {}

\* In a request that was turned away, is on its way, being served or answered.
Sent(e) ==
    \/ e \in refused
    \/ e \in RangeOf(serving)
    \/ \E i \in DOMAIN wire : e \in RangeOf(wire[i])
    \/ \E n \in DOMAIN batches : e \in RangeOf(batches[n])

\* No event is in two requests or twice in one.
Once ==
    /\ Distinct(serving)
    /\ \A i \in DOMAIN wire : Distinct(wire[i]) /\ Apart(wire[i], serving)
    /\ \A n \in DOMAIN batches : Distinct(batches[n]) /\ Apart(batches[n], serving)
    /\ \A i, j \in DOMAIN wire : i # j => Apart(wire[i], wire[j])
    /\ \A n, m \in DOMAIN batches : n # m => Apart(batches[n], batches[m])
    /\ \A n \in DOMAIN batches, i \in DOMAIN wire : Apart(batches[n], wire[i])

\* What was turned away is in no other request.
TurnedAway ==
    /\ \A e \in refused : e \notin RangeOf(serving)
    /\ \A e \in refused, i \in DOMAIN wire : e \notin RangeOf(wire[i])
    /\ \A e \in refused, n \in DOMAIN batches : e \notin RangeOf(batches[n])

\* The SDK holds a sent event only as the batch of a post under way.
NotAgain ==
    \A e \in Events : Sent(e) =>
        /\ e \in recorded /\ e \notin Sdk!Queued
        /\ \A f \in Sdk!Flushers : e \in Sdk!InHand(f) => flight[f] # "none"

Flying ==
    \A f \in Sdk!Flushers : flight[f] # "none" =>
        hand[f] # << >> /\ Sdk!InHand(f) \cap Unserializable = {}

\* Rows name an event of their batch.
Filed == \A r \in db.rows : r.idx \in DOMAIN batches[r.req]

\* The monitor knows which events of a batch it has to store.
SoundOpen == \A i \in 1 .. handled : Content[serving[i]].kind = "good" => i \in sound

SoundKnown ==
    \A n \in DOMAIN batches : answers[n].code = 200 =>
        \A i \in DOMAIN batches[n] : Content[batches[n][i]].kind = "good" => i \in answers[n].sound

Closing(n) == answers[n].code \in {200, 500}

Replied ==
    \A f \in Sdk!Flushers : flight[f] = "replied" =>
        \/ Sdk!InHand(f) \subseteq refused
        \/ \E n \in DOMAIN batches : batches[n] = hand[f] /\ Closing(n)

Heard ==
    \A e \in Events : received[e] > 0 =>
        \/ e \in refused
        \/ \E n \in DOMAIN batches : e \in RangeOf(batches[n]) /\ Closing(n)

JointInv ==
    /\ SdkP!SdkInv /\ IngP!IngestionInv
    /\ TypeOK /\ Once /\ TurnedAway /\ NotAgain /\ Flying /\ Filed
    /\ SoundOpen /\ SoundKnown /\ Replied /\ Heard

----------------------------------------------------------------------------
(* What the invariants of the parts say. *)

LEMMA SdkFacts ==
    ASSUME SdkP!SdkInv
    PROVE  /\ queue \in Seq(Events) /\ hand \in [Sdk!Flushers -> Seq(Events)]
           /\ recorded \subseteq Events /\ received \in [Events -> Nat]
           /\ \A f \in Sdk!Flushers : Distinct(hand[f]) /\ Sdk!InHand(f) \subseteq Events
           /\ \A e \in Events : e \in Sdk!Queued => e \in recorded
           /\ \A e \in Events, f \in Sdk!Flushers : e \in Sdk!InHand(f) =>
                 /\ e \in recorded /\ e \notin Sdk!Queued
                 /\ \A g \in Sdk!Flushers \ {f} : e \notin Sdk!InHand(g)
<1>1. SdkP!TypeOK /\ SdkP!Flushers = Sdk!Flushers /\ SdkP!Queued = Sdk!Queued
  BY DEF SdkP!SdkInv, SdkP!Flushers, Sdk!Flushers, SdkP!Queued, Sdk!Queued
<1>2. \A f : SdkP!InHand(f) = Sdk!InHand(f)
  BY DEF SdkP!InHand, Sdk!InHand
<1>3. /\ queue \in Seq(Events) /\ hand \in [Sdk!Flushers -> Seq(Events)]
      /\ recorded \subseteq Events /\ received \in [Events -> Nat]
  BY <1>1 DEF SdkP!TypeOK
<1>4. \A f \in Sdk!Flushers : Distinct(hand[f]) /\ Sdk!InHand(f) \subseteq Events
  BY <1>1, <1>3 DEF SdkP!SdkInv, SdkP!Distinct, Distinct, Sdk!InHand
<1>5. ASSUME NEW e \in Events, e \in Sdk!Queued PROVE e \in recorded
  BY <1>1, <1>5 DEF SdkP!SdkInv, SdkP!At, SdkP!Nowhere
<1>6. ASSUME NEW e \in Events, NEW f \in Sdk!Flushers, e \in Sdk!InHand(f)
      PROVE  /\ e \in recorded /\ e \notin Sdk!Queued
             /\ \A g \in Sdk!Flushers \ {f} : e \notin Sdk!InHand(g)
  <2>1. SdkP!At(e) /\ e \in SdkP!InHand(f) /\ f \in SdkP!Flushers
    BY <1>1, <1>2, <1>6 DEF SdkP!SdkInv
  <2>2. e \in recorded /\ \E g \in SdkP!Flushers : SdkP!AtHand(e, g)
    BY <2>1 DEF SdkP!At, SdkP!Nowhere, SdkP!AtQueue, SdkP!AtMonitor, SdkP!AtLost, SdkP!InNoHand
  <2>3. QED BY <1>1, <1>2, <2>1, <2>2 DEF SdkP!AtHand
<1>7. QED BY <1>3, <1>4, <1>5, <1>6

LEMMA IngFacts ==
    ASSUME IngP!IngestionInv
    PROVE  /\ handled \in Nat /\ (~open => handled = 0)
           /\ answers \in Seq([code : {200, 500, 0}, sound : SUBSET Nat])
           /\ db.rows \subseteq tx.rows
           /\ \A r \in db.rows : r.req \in DOMAIN answers
           /\ \A r \in (tx.rows \cup pending.rows) \ db.rows :
                 r.req = Len(answers) + 1 /\ r.idx \in 1 .. handled
           /\ \A r, q \in db.rows : r.req = q.req /\ r.idx = q.idx => r = q
           /\ \A n \in DOMAIN answers : answers[n].code = 200 =>
                 \A i \in answers[n].sound : \E r \in db.rows : r.req = n /\ r.idx = i
           /\ \A n \in DOMAIN answers : answers[n].code = 500 => \A r \in db.rows : r.req # n
<1>1. IngP!TypeOK
  BY DEF IngP!IngestionInv, IngP!Types
<1>2. /\ handled \in Nat /\ (~open => handled = 0)
      /\ answers \in Seq([code : {200, 500, 0}, sound : SUBSET Nat])
  BY <1>1 DEF IngP!TypeOK, IngP!Codes
<1>3. /\ db.rows \subseteq tx.rows
      /\ \A r \in db.rows : r.req \in DOMAIN answers
      /\ \A r \in (tx.rows \cup pending.rows) \ db.rows :
            r.req = Len(answers) + 1 /\ r.idx \in 1 .. handled
  BY DEF IngP!IngestionInv, IngP!Uncommitted, IngP!Request
<1>4. \A r, q \in db.rows : r.req = q.req /\ r.idx = q.idx => r = q
  BY <1>3 DEF IngP!IngestionInv, IngP!UniqueKeys
<1>5. \A n \in DOMAIN answers : answers[n].code = 200 =>
         \A i \in answers[n].sound : \E r \in db.rows : r.req = n /\ r.idx = i
  BY DEF IngP!IngestionInv, IngP!Answered, IngP!AckedEventsStored, IngP!RowsOf
<1>6. \A n \in DOMAIN answers : answers[n].code = 500 => \A r \in db.rows : r.req # n
  BY DEF IngP!IngestionInv, IngP!Answered, IngP!AllOrNothing, IngP!RowsOf
<1>7. QED BY <1>2, <1>3, <1>4, <1>5, <1>6

LEMMA IngFactsPrimed ==
    ASSUME IngP!IngestionInv'
    PROVE  answers' \in Seq([code : {200, 500, 0}, sound : SUBSET Nat])
BY DEF IngP!IngestionInv, IngP!Types, IngP!TypeOK, IngP!Codes

\* A request taken off the wire leaves the others.
LEMMA Removed ==
    ASSUME NEW S, NEW s \in Seq(S), NEW i \in DOMAIN s
    PROVE  /\ RemoveAt(s, i) \in Seq(S)
           /\ Len(RemoveAt(s, i)) = Len(s) - 1
           /\ \A j \in DOMAIN RemoveAt(s, i) :
                 /\ j < i => j \in DOMAIN s /\ RemoveAt(s, i)[j] = s[j]
                 /\ j >= i => j + 1 \in DOMAIN s /\ RemoveAt(s, i)[j] = s[j + 1]
<1>1. i \in 1 .. Len(s) /\ Len(s) \in Nat /\ \A j \in 1 .. Len(s) : s[j] \in S
  OBVIOUS
<1>2. /\ SubSeq(s, 1, i - 1) \in Seq(S) /\ Len(SubSeq(s, 1, i - 1)) = i - 1
      /\ \A j \in 1 .. (i - 1) : SubSeq(s, 1, i - 1)[j] = s[j]
  BY <1>1, SubSeqProperties
<1>3. /\ SubSeq(s, i + 1, Len(s)) \in Seq(S) /\ Len(SubSeq(s, i + 1, Len(s))) = Len(s) - i
      /\ \A j \in 1 .. (Len(s) - i) : SubSeq(s, i + 1, Len(s))[j] = s[i + j]
  BY <1>1, SubSeqProperties
<1> DEFINE a == SubSeq(s, 1, i - 1)
           b == SubSeq(s, i + 1, Len(s))
<1>4. RemoveAt(s, i) = a \o b
  BY DEF RemoveAt
<1>5. /\ a \in Seq(S) /\ Len(a) = i - 1 /\ \A j \in 1 .. (i - 1) : a[j] = s[j]
      /\ b \in Seq(S) /\ Len(b) = Len(s) - i /\ \A j \in 1 .. (Len(s) - i) : b[j] = s[i + j]
  BY <1>2, <1>3
<1> HIDE DEF a, b
<1>6. a \o b \in Seq(S) /\ Len(a \o b) = Len(s) - 1
  BY <1>1, <1>5
<1>7. \A j \in 1 .. (Len(s) - 1) : (a \o b)[j] = IF j <= i - 1 THEN a[j] ELSE b[j - (i - 1)]
  BY <1>1, <1>5
<1>8. ASSUME NEW j \in 1 .. (Len(s) - 1)
      PROVE  /\ j < i => j \in 1 .. Len(s) /\ (a \o b)[j] = s[j]
             /\ j >= i => j + 1 \in 1 .. Len(s) /\ (a \o b)[j] = s[j + 1]
  <2>1. CASE j < i
    BY <1>1, <1>5, <1>7, <2>1
  <2>2. CASE j >= i
    <3>1. j - (i - 1) \in 1 .. (Len(s) - i) /\ i + (j - (i - 1)) = j + 1
      BY <1>1, <2>2
    <3>2. QED BY <1>1, <1>5, <1>7, <2>2, <3>1
  <2>3. QED BY <1>1, <2>1, <2>2
<1>9. DOMAIN (a \o b) = 1 .. (Len(s) - 1) /\ DOMAIN s = 1 .. Len(s)
  BY <1>6
<1>10. QED BY <1>4, <1>6, <1>8, <1>9

\* Every request left is one that was there, and two of them were two.
LEMMA RemovedFrom ==
    ASSUME NEW S, NEW s \in Seq(S), NEW i \in DOMAIN s
    PROVE  \E from \in [DOMAIN RemoveAt(s, i) -> DOMAIN s] :
              /\ \A j \in DOMAIN RemoveAt(s, i) : RemoveAt(s, i)[j] = s[from[j]] /\ from[j] # i
              /\ \A j, k \in DOMAIN RemoveAt(s, i) : j # k => from[j] # from[k]
<1> DEFINE t == RemoveAt(s, i)
           from == [j \in DOMAIN t |-> IF j < i THEN j ELSE j + 1]
<1>1. /\ i \in Nat /\ DOMAIN t \subseteq Nat
      /\ \A j \in DOMAIN t : /\ j < i => j \in DOMAIN s /\ t[j] = s[j]
                             /\ j >= i => j + 1 \in DOMAIN s /\ t[j] = s[j + 1]
  <2>1. t \in Seq(S)
    BY Removed
  <2>2. DOMAIN t \subseteq Nat /\ i \in Nat
    BY <2>1
  <2>3. QED BY <2>2, Removed
<1> HIDE DEF t
<1>2. from \in [DOMAIN t -> DOMAIN s]
  BY <1>1
<1>3. \A j \in DOMAIN t : t[j] = s[from[j]] /\ from[j] # i
  BY <1>1
<1>4. \A j, k \in DOMAIN t : j # k => from[j] # from[k]
  BY <1>1
<1>5. QED BY <1>2, <1>3, <1>4 DEF t

----------------------------------------------------------------------------
(* Steps of the SDK. *)

LEMMA OncePrimed ==
    Once' <=>
    /\ Distinct(serving')
    /\ \A i \in DOMAIN wire' : Distinct(wire'[i]) /\ Apart(wire'[i], serving')
    /\ \A n \in DOMAIN batches' : Distinct(batches'[n]) /\ Apart(batches'[n], serving')
    /\ \A i, j \in DOMAIN wire' : i # j => Apart(wire'[i], wire'[j])
    /\ \A n, m \in DOMAIN batches' : n # m => Apart(batches'[n], batches'[m])
    /\ \A n \in DOMAIN batches', i \in DOMAIN wire' : Apart(batches'[n], wire'[i])
BY DEF Once, Distinct, Apart, RangeOf

\* The SDK moves events that are not under way, and ends posts.
LEMMA SdkMoves ==
    ASSUME JointInv, SdkP!SdkInv', UNCHANGED <<monitorVars, wire, serving, batches, refused>>,
           flight' \in [Sdk!Flushers -> {"none", "sent", "replied"}],
           \A f \in Sdk!Flushers :
              flight'[f] # "none" => flight'[f] = flight[f] /\ hand'[f] = hand[f],
           \A f \in Sdk!Flushers, e \in Events :
              flight'[f] = "none" /\ e \in Sdk!InHand(f)' =>
                 e \in Sdk!Queued \/ (e \in Sdk!InHand(f) /\ flight[f] = "none"),
           \A e \in Events : e \in Sdk!Queued' => e \in Sdk!Queued \/ e \notin recorded,
           recorded \subseteq recorded',
           Heard'
    PROVE  JointInv'
<1>1. IngP!IngestionInv'
  BY IngKeeps DEF JointInv
<1>2. /\ UNCHANGED <<wire, serving, batches, refused, open, handled, sound, db, answers>>
  BY DEF monitorVars
<1>3. TypeOK'
  BY <1>2 DEF JointInv, TypeOK
<1>4. Once'
  BY <1>2, OncePrimed DEF JointInv, Once
<1>5. (\A e : Sent(e)' <=> Sent(e)) /\ TurnedAway'
  BY <1>2 DEF Sent, JointInv, TurnedAway
<1>6. NotAgain'
  <2> SUFFICES ASSUME NEW e \in Events, Sent(e)
               PROVE  /\ e \in recorded' /\ e \notin Sdk!Queued'
                      /\ \A f \in Sdk!Flushers : e \in Sdk!InHand(f)' => flight'[f] # "none"
    BY <1>5 DEF NotAgain
  <2>1. /\ e \in recorded /\ e \notin Sdk!Queued
        /\ \A f \in Sdk!Flushers : e \in Sdk!InHand(f) => flight[f] # "none"
    BY DEF JointInv, NotAgain
  <2>2. QED BY <2>1
<1>7. Flying'
  BY DEF JointInv, Flying, Sdk!InHand
<1>8. Filed' /\ SoundOpen' /\ SoundKnown'
  BY <1>2 DEF JointInv, Filed, SoundOpen, SoundKnown
<1>9. Replied'
  BY <1>2 DEF JointInv, Replied, Closing, Sdk!InHand
<1>10. QED BY <1>1, <1>3, <1>4, <1>5, <1>6, <1>7, <1>8, <1>9 DEF JointInv

\* What has been heard of stays so.
LEMMA HeardStays ==
    ASSUME JointInv, UNCHANGED <<received, batches, answers, refused>>
    PROVE  Heard'
BY DEF JointInv, Heard, Closing

\* No post begins, ends or is under way in the hands of f.
LEMMA SdkAlone ==
    ASSUME JointInv, SdkP!SdkInv', UNCHANGED <<monitorVars, flight, wire, serving, batches, refused, received>>,
           \A f \in Sdk!Flushers : flight[f] # "none" => hand'[f] = hand[f],
           \A f \in Sdk!Flushers, e \in Events :
              e \in Sdk!InHand(f)' => e \in Sdk!Queued \/ e \in Sdk!InHand(f),
           \A e \in Events : e \in Sdk!Queued' => e \in Sdk!Queued \/ e \notin recorded,
           recorded \subseteq recorded'
    PROVE  JointInv'
<1>1. flight' \in [Sdk!Flushers -> {"none", "sent", "replied"}]
  BY DEF JointInv, TypeOK
<1>2. Heard'
  BY HeardStays DEF monitorVars
<1>3. QED BY <1>1, <1>2, SdkMoves

LEMMA ApplicationKeeps ==
    ASSUME JointInv, SdkP!SdkInv', Application
    PROVE  JointInv'
<1>1. UNCHANGED <<monitorVars, flight, wire, serving, batches, refused>>
  BY DEF Application, Alone, joint
<1>2. ASSUME NEW t \in Threads, Sdk!CallFlush(t) \/ Sdk!CallShutdown(t) PROVE JointInv'
  <2>1. UNCHANGED <<queue, hand, recorded, received>>
    BY <1>2 DEF Sdk!CallFlush, Sdk!CallShutdown
  <2>2. QED BY <1>1, <2>1, SdkAlone DEF Sdk!InHand, Sdk!Queued
<1>3. ASSUME NEW t \in Threads, NEW e \in Events, Sdk!Record(t, e) PROVE JointInv'
  <2>1. /\ UNCHANGED <<hand, received>> /\ queue' = Append(queue, e)
        /\ e \notin recorded /\ recorded' = recorded \cup {e}
    BY <1>3 DEF Sdk!Record
  <2>2. queue \in Seq(Events)
    BY SdkFacts DEF JointInv
  <2>3. Sdk!Queued' = Sdk!Queued \cup {e}
    BY <2>1, <2>2 DEF Sdk!Queued
  <2>4. \A f : Sdk!InHand(f)' = Sdk!InHand(f)
    BY <2>1 DEF Sdk!InHand
  <2>5. QED BY <1>1, <2>1, <2>3, <2>4, SdkAlone
<1>4. QED BY <1>2, <1>3 DEF Application

LEMMA DaemonsKeep ==
    ASSUME JointInv, SdkP!SdkInv', Daemons \/ Ending
    PROVE  JointInv'
<1>1. UNCHANGED <<monitorVars, flight, wire, serving, batches, refused, queue, hand, recorded, received>>
  BY DEF Daemons, Ending, Alone, joint, Sdk!Tick, Sdk!DaemonEnds, Sdk!Exit, Sdk!Kill
<1>2. QED BY <1>1, SdkAlone DEF Sdk!InHand, Sdk!Queued

LEMMA FlushAloneKeeps ==
    ASSUME JointInv, SdkP!SdkInv', NEW f \in Sdk!Flushers, FlushAlone(f)
    PROVE  JointInv'
<1>1. UNCHANGED <<monitorVars, flight, wire, serving, batches, refused>>
  BY DEF FlushAlone, Alone, joint
<1>2. hand \in [Sdk!Flushers -> Seq(Events)] /\ queue \in Seq(Events)
  BY SdkFacts DEF JointInv
<1>3. CASE Sdk!FlushNothing(f)
  <2>1. UNCHANGED <<queue, hand, recorded, received>>
    BY <1>3 DEF Sdk!FlushNothing
  <2>2. QED BY <1>1, <2>1, SdkAlone DEF Sdk!InHand, Sdk!Queued
<1>4. CASE Sdk!Swap(f)
  <2>1. /\ hand[f] = << >> /\ hand' = [hand EXCEPT ![f] = queue] /\ queue' = << >>
        /\ UNCHANGED <<recorded, received>>
    BY <1>4 DEF Sdk!Swap
  <2>2. flight[f] = "none"
    BY <2>1 DEF JointInv, Flying
  <2>3. /\ Sdk!InHand(f)' = Sdk!Queued /\ Sdk!Queued' = {}
        /\ \A g \in Sdk!Flushers \ {f} : Sdk!InHand(g)' = Sdk!InHand(g)
    BY <1>2, <2>1 DEF Sdk!InHand, Sdk!Queued
  <2>4. \A g \in Sdk!Flushers : flight[g] # "none" => hand'[g] = hand[g]
    BY <1>2, <2>1, <2>2
  <2>5. QED BY <1>1, <2>1, <2>3, <2>4, SdkAlone
<1>5. CASE Sdk!DumpsRaises(f)
  <2>1. /\ Sdk!InHand(f) \cap Unserializable # {} /\ hand' = [hand EXCEPT ![f] = << >>]
        /\ UNCHANGED <<queue, recorded, received>>
    BY <1>5 DEF Sdk!DumpsRaises
  <2>2. flight[f] = "none"
    BY <2>1 DEF JointInv, Flying
  <2>3. /\ Sdk!InHand(f)' = {} /\ Sdk!Queued' = Sdk!Queued
        /\ \A g \in Sdk!Flushers \ {f} : Sdk!InHand(g)' = Sdk!InHand(g)
    BY <1>2, <2>1 DEF Sdk!InHand, Sdk!Queued
  <2>4. \A g \in Sdk!Flushers : flight[g] # "none" => hand'[g] = hand[g]
    BY <1>2, <2>1, <2>2
  <2>5. QED BY <1>1, <2>1, <2>3, <2>4, SdkAlone
<1>6. QED BY <1>3, <1>4, <1>5 DEF FlushAlone

\* The post of f is over, or f is.
LEMMA PostEnds ==
    ASSUME JointInv, SdkP!SdkInv', NEW f \in Sdk!Flushers,
           UNCHANGED <<monitorVars, wire, serving, batches, refused, queue, recorded>>,
           flight' = [flight EXCEPT ![f] = "none"], hand' = [hand EXCEPT ![f] = << >>],
           Heard'
    PROVE  JointInv'
<1>1. hand \in [Sdk!Flushers -> Seq(Events)]
  BY SdkFacts DEF JointInv
<1>2. flight \in [Sdk!Flushers -> {"none", "sent", "replied"}]
  BY DEF JointInv, TypeOK
<1>3. flight' \in [Sdk!Flushers -> {"none", "sent", "replied"}]
  BY <1>2
<1>4. /\ Sdk!InHand(f)' = {} /\ Sdk!Queued' = Sdk!Queued
      /\ \A g \in Sdk!Flushers \ {f} : Sdk!InHand(g)' = Sdk!InHand(g) /\ hand'[g] = hand[g]
  BY <1>1 DEF Sdk!InHand, Sdk!Queued
<1>5. flight'[f] = "none" /\ \A g \in Sdk!Flushers \ {f} : flight'[g] = flight[g]
  BY <1>2
<1>6. QED BY <1>3, <1>4, <1>5, SdkMoves

LEMMA ReplyKeeps ==
    ASSUME JointInv, SdkP!SdkInv', NEW f \in Sdk!Flushers, Reply(f)
    PROVE  JointInv'
<1>1. /\ flight[f] = "replied" /\ received' = Sdk!Delivered(Sdk!InHand(f))
      /\ hand' = [hand EXCEPT ![f] = << >>]
      /\ UNCHANGED <<queue, recorded>>
  BY DEF Reply, Sdk!Post, Sdk!QueueAfterPost
<1>2. /\ flight' = [flight EXCEPT ![f] = "none"]
      /\ UNCHANGED <<monitorVars, wire, serving, batches, refused>>
  BY DEF Reply, Over
<1>3. \/ Sdk!InHand(f) \subseteq refused
      \/ \E n \in DOMAIN batches : batches[n] = hand[f] /\ Closing(n)
  BY <1>1 DEF JointInv, Replied
<1>4. Heard'
  <2> SUFFICES ASSUME NEW e \in Events, received'[e] > 0
               PROVE  \/ e \in refused'
                      \/ \E m \in DOMAIN batches' : e \in RangeOf(batches'[m]) /\ Closing(m)'
    BY DEF Heard
  <2>1. UNCHANGED <<batches, answers, refused>>
    BY <1>2 DEF monitorVars
  <2>2. CASE e \in Sdk!InHand(f)
    BY <1>3, <2>1, <2>2 DEF Sdk!InHand, RangeOf, Closing
  <2>3. CASE e \notin Sdk!InHand(f)
    <3>1. received'[e] = received[e]
      BY <1>1, <2>3 DEF Sdk!Delivered
    <3>2. QED BY <2>1, <3>1 DEF JointInv, Heard, Closing
  <2>4. QED BY <2>2, <2>3
<1>5. QED BY <1>1, <1>2, <1>4, PostEnds

LEMMA GiveUpKeeps ==
    ASSUME JointInv, SdkP!SdkInv', NEW f \in Sdk!Flushers, GiveUp(f)
    PROVE  JointInv'
<1>1. /\ hand' = [hand EXCEPT ![f] = << >>] /\ UNCHANGED <<queue, recorded, received>>
  BY DEF GiveUp, Sdk!PostFails, Sdk!QueueAfterFailure
<1>2. /\ flight' = [flight EXCEPT ![f] = "none"]
      /\ UNCHANGED <<monitorVars, wire, serving, batches, refused>>
  BY DEF GiveUp, Over
<1>3. Heard'
  BY <1>1, <1>2, HeardStays DEF monitorVars
<1>4. QED BY <1>1, <1>2, <1>3, PostEnds

LEMMA ProcessEndsKeeps ==
    ASSUME JointInv, SdkP!SdkInv', ProcessEnds
    PROVE  JointInv'
<1>1. /\ hand' = [hand EXCEPT ![Daemon] = << >>] /\ UNCHANGED <<queue, recorded>>
  BY DEF ProcessEnds, Sdk!Exited
<1>2. /\ flight' = [flight EXCEPT ![Daemon] = "none"]
      /\ UNCHANGED <<monitorVars, wire, serving, batches, refused, received>>
  BY DEF ProcessEnds
<1>3. Heard'
  BY <1>2, HeardStays DEF monitorVars
<1>4. Daemon \in Sdk!Flushers
  BY DEF Sdk!Flushers
<1>5. QED BY <1>1, <1>2, <1>3, <1>4, PostEnds

----------------------------------------------------------------------------
(* Steps of the network and the monitor. *)

LEMMA SdkRests ==
    ASSUME JointInv, UNCHANGED sdkVars, IngP!IngestionInv',
           flight' \in [Sdk!Flushers -> {"none", "sent", "replied"}],
           \A f \in Sdk!Flushers : flight'[f] = "none" <=> flight[f] = "none",
           \A e \in Events : Sent(e)' => Sent(e),
           TypeOK', Once', TurnedAway', Filed', SoundOpen', SoundKnown', Replied', Heard'
    PROVE  JointInv'
<1>1. SdkP!SdkInv'
  BY SdkKeeps DEF JointInv
<1>2. UNCHANGED <<queue, hand, recorded>>
  BY DEF sdkVars
<1>3. NotAgain'
  BY <1>2 DEF JointInv, NotAgain, Sdk!Queued, Sdk!InHand
<1>4. Flying'
  BY <1>2 DEF JointInv, Flying, Sdk!InHand
<1>5. QED BY <1>1, <1>3, <1>4 DEF JointInv

LEMMA SendKeeps ==
    ASSUME JointInv, NEW f \in Sdk!Flushers, Send(f)
    PROVE  JointInv'
<1> DEFINE b == hand[f]
<1>1. /\ b # << >> /\ Sdk!InHand(f) \cap Unserializable = {} /\ flight[f] = "none"
      /\ flight' = [flight EXCEPT ![f] = "sent"] /\ wire' = Append(wire, b)
      /\ UNCHANGED <<sdkVars, monitorVars, serving, batches, refused>>
  BY DEF Send, Sdk!Sending
<1>2. UNCHANGED <<queue, hand, recorded, received, open, handled, sound, db, answers>>
  BY <1>1 DEF sdkVars, monitorVars
<1>3. b \in Seq(Events) /\ Distinct(b) /\ RangeOf(b) = Sdk!InHand(f)
  BY SdkFacts DEF JointInv, RangeOf, Sdk!InHand
<1>4. wire \in Seq(Seq(Events)) /\ flight \in [Sdk!Flushers -> {"none", "sent", "replied"}]
  BY DEF JointInv, TypeOK
<1>5. /\ wire' \in Seq(Seq(Events))
      /\ \A i \in DOMAIN wire' :
            \/ i \in DOMAIN wire /\ wire'[i] = wire[i]
            \/ i = Len(wire) + 1 /\ wire'[i] = b
  <2> HIDE DEF b
  <2>1. QED BY <1>1, <1>3, <1>4
<1>6. flight'[f] = "sent" /\ \A g \in Sdk!Flushers \ {f} : flight'[g] = flight[g]
  BY <1>1, <1>4
<1>7. \A e \in RangeOf(b) : ~Sent(e)
  BY <1>1, <1>3, SdkFacts DEF JointInv, NotAgain
<1>8. /\ Apart(b, serving)
      /\ \A i \in DOMAIN wire : Apart(wire[i], b) /\ Apart(b, wire[i])
      /\ \A n \in DOMAIN batches : Apart(batches[n], b)
  BY <1>7 DEF Sent, Apart
<1>9. TypeOK'
  <2>1. << >> \notin RangeOf(wire')
    BY <1>1, <1>5 DEF JointInv, TypeOK, RangeOf
  <2>2. flight' \in [Sdk!Flushers -> {"none", "sent", "replied"}]
    BY <1>1, <1>4
  <2>3. \A g \in Sdk!Flushers : flight'[g] # "none" => hand'[g] # << >>
    BY <1>1, <1>2, <1>6 DEF JointInv, TypeOK
  <2>4. QED BY <1>1, <1>2, <1>5, <2>1, <2>2, <2>3 DEF JointInv, TypeOK
<1>10. Once'
  <2>1. \A i \in DOMAIN wire' : /\ Distinct(wire'[i]) /\ Apart(wire'[i], serving)
                               /\ \A n \in DOMAIN batches : Apart(batches[n], wire'[i])
    BY <1>3, <1>5, <1>8 DEF JointInv, Once
  <2>2. \A i, j \in DOMAIN wire' : i # j => Apart(wire'[i], wire'[j])
    BY <1>5, <1>8 DEF JointInv, Once
  <2>3. QED BY <1>1, <2>1, <2>2, OncePrimed DEF JointInv, Once
<1>11. NotAgain' /\ TurnedAway'
  <2>0. TurnedAway'
    BY <1>1, <1>5, <1>7 DEF JointInv, TurnedAway, Sent
  <2> SUFFICES ASSUME NEW e \in Events, Sent(e)'
               PROVE  /\ e \in recorded /\ e \notin Sdk!Queued
                      /\ \A g \in Sdk!Flushers : e \in Sdk!InHand(g) => flight'[g] # "none"
    BY <1>2, <2>0 DEF NotAgain, Sdk!Queued, Sdk!InHand
  <2>1. Sent(e) \/ e \in Sdk!InHand(f)
    BY <1>1, <1>3, <1>5 DEF Sent, RangeOf
  <2>2. CASE Sent(e)
    BY <1>6, <2>2 DEF JointInv, NotAgain
  <2>3. CASE e \in Sdk!InHand(f)
    BY <1>6, <2>3, SdkFacts DEF JointInv
  <2>4. QED BY <2>1, <2>2, <2>3
<1>12. Flying'
  BY <1>1, <1>2, <1>6 DEF JointInv, Flying, Sdk!InHand
<1>13. Filed' /\ SoundOpen' /\ SoundKnown' /\ Heard'
  BY <1>1, <1>2 DEF JointInv, Filed, SoundOpen, SoundKnown, Heard, Closing
<1>14. Replied'
  BY <1>1, <1>2, <1>6 DEF JointInv, Replied, Closing, Sdk!InHand
<1>15. SdkP!SdkInv' /\ IngP!IngestionInv'
  BY <1>1, SdkKeeps, IngKeeps DEF JointInv
<1>16. QED BY <1>9, <1>10, <1>11, <1>12, <1>13, <1>14, <1>15 DEF JointInv

LEMMA DropKeeps ==
    ASSUME JointInv, Drop
    PROVE  JointInv'
<1>1. PICK i \in DOMAIN wire : wire' = RemoveAt(wire, i)
  BY DEF Drop
<1>2. UNCHANGED <<sdkVars, monitorVars, flight, serving, batches, refused>>
  BY DEF Drop
<1>3. UNCHANGED <<hand, received, open, handled, sound, db, answers>>
  BY <1>2 DEF sdkVars, monitorVars
<1>4. wire \in Seq(Seq(Events))
  BY DEF JointInv, TypeOK
<1>5. wire' \in Seq(Seq(Events))
  BY <1>1, <1>4, Removed
<1>6. PICK from \in [DOMAIN wire' -> DOMAIN wire] :
         /\ \A j \in DOMAIN wire' : wire'[j] = wire[from[j]]
         /\ \A j, k \in DOMAIN wire' : j # k => from[j] # from[k]
  BY <1>1, <1>4, RemovedFrom
<1>7. TypeOK'
  <2>1. << >> \notin RangeOf(wire')
    BY <1>6 DEF JointInv, TypeOK, RangeOf
  <2>2. QED BY <1>2, <1>3, <1>5, <2>1 DEF JointInv, TypeOK
<1>8. Once'
  <2>1. \A j \in DOMAIN wire' : /\ Distinct(wire'[j]) /\ Apart(wire'[j], serving)
                               /\ \A n \in DOMAIN batches : Apart(batches[n], wire'[j])
    BY <1>6 DEF JointInv, Once
  <2>2. \A j, k \in DOMAIN wire' : j # k => Apart(wire'[j], wire'[k])
    BY <1>6 DEF JointInv, Once
  <2>3. QED BY <1>2, <2>1, <2>2, OncePrimed DEF JointInv, Once
<1>9. \A e \in Events : Sent(e)' => Sent(e)
  BY <1>2, <1>6 DEF Sent, RangeOf
<1>10. TurnedAway' /\ Filed' /\ SoundOpen' /\ SoundKnown' /\ Heard' /\ Replied'
  <2>1. TurnedAway'
    BY <1>2, <1>6 DEF JointInv, TurnedAway
  <2>2. QED BY <1>2, <1>3, <2>1
            DEF JointInv, Filed, SoundOpen, SoundKnown, Heard, Replied, Closing, Sdk!InHand
<1>11. IngP!IngestionInv'
  BY <1>2, IngKeeps DEF JointInv
<1>12. flight' \in [Sdk!Flushers -> {"none", "sent", "replied"}]
  BY <1>2 DEF JointInv, TypeOK
<1>13. QED BY <1>2, <1>7, <1>8, <1>9, <1>10, <1>11, <1>12, SdkRests

LEMMA ServeKeeps ==
    ASSUME JointInv, Serve
    PROVE  JointInv'
<1>1. PICK i \in DOMAIN wire : serving' = wire[i] /\ wire' = RemoveAt(wire, i)
  BY DEF Serve
<1>2. /\ ~open /\ open' = TRUE /\ UNCHANGED <<sdkVars, flight, batches, refused>>
      /\ UNCHANGED <<handled, sound, db, answers>>
  BY DEF Serve, Ing!Begin
<1>3. UNCHANGED <<hand, received>>
  BY <1>2 DEF sdkVars
<1>4. wire \in Seq(Seq(Events)) /\ << >> \notin RangeOf(wire)
  BY DEF JointInv, TypeOK
<1>5. wire' \in Seq(Seq(Events))
  BY <1>1, <1>4, Removed
<1>6. PICK from \in [DOMAIN wire' -> DOMAIN wire] :
         /\ \A j \in DOMAIN wire' : wire'[j] = wire[from[j]] /\ from[j] # i
         /\ \A j, k \in DOMAIN wire' : j # k => from[j] # from[k]
  BY <1>1, <1>4, RemovedFrom
<1>7. handled = 0
  BY <1>2, IngFacts DEF JointInv
<1>8. TypeOK'
  <2>1. << >> \notin RangeOf(wire')
    BY <1>4, <1>6 DEF RangeOf
  <2>2. serving' \in Seq(Events) /\ serving' # << >> /\ handled' <= Len(serving')
    BY <1>1, <1>2, <1>4, <1>7 DEF RangeOf
  <2>3. QED BY <1>2, <1>3, <1>5, <2>1, <2>2 DEF JointInv, TypeOK
<1>9. Once'
  <2>1. \A j \in DOMAIN wire' : /\ Distinct(wire'[j]) /\ Apart(wire'[j], serving')
                               /\ \A n \in DOMAIN batches : Apart(batches[n], wire'[j])
    BY <1>1, <1>6 DEF JointInv, Once
  <2>2. \A j, k \in DOMAIN wire' : j # k => Apart(wire'[j], wire'[k])
    BY <1>6 DEF JointInv, Once
  <2>3. Distinct(serving') /\ \A n \in DOMAIN batches : Apart(batches[n], serving')
    BY <1>1 DEF JointInv, Once
  <2>4. QED BY <1>2, <2>1, <2>2, <2>3, OncePrimed DEF JointInv, Once
<1>10. \A e \in Events : Sent(e)' => Sent(e)
  BY <1>1, <1>2, <1>6 DEF Sent, RangeOf
<1>11. SoundOpen'
  BY <1>2, <1>7 DEF SoundOpen
<1>12. TurnedAway' /\ Filed' /\ SoundKnown' /\ Heard' /\ Replied'
  <2>1. TurnedAway'
    BY <1>1, <1>2, <1>6 DEF JointInv, TurnedAway
  <2>2. QED BY <1>2, <1>3, <2>1
            DEF JointInv, Filed, SoundKnown, Heard, Replied, Closing, Sdk!InHand
<1>13. IngP!IngestionInv'
  BY IngKeeps DEF JointInv, Serve, IngStep
<1>14. flight' \in [Sdk!Flushers -> {"none", "sent", "replied"}]
  BY <1>2 DEF JointInv, TypeOK
<1>15. QED BY <1>2, <1>8, <1>9, <1>10, <1>11, <1>12, <1>13, <1>14, SdkRests

LEMMA RefuseKeeps ==
    ASSUME JointInv, Refuse
    PROVE  JointInv'
<1>1. PICK i \in DOMAIN wire :
         /\ wire' = RemoveAt(wire, i) /\ refused' = refused \cup RangeOf(wire[i])
         /\ flight' = Answered(wire[i])
  BY DEF Refuse
<1>2. UNCHANGED <<sdkVars, monitorVars, serving, batches>>
  BY DEF Refuse
<1>3. UNCHANGED <<hand, received, open, handled, sound, db, answers>>
  BY <1>2 DEF sdkVars, monitorVars
<1>4. wire \in Seq(Seq(Events)) /\ flight \in [Sdk!Flushers -> {"none", "sent", "replied"}]
  BY DEF JointInv, TypeOK
<1>5. wire' \in Seq(Seq(Events))
  BY <1>1, <1>4, Removed
<1>6. PICK from \in [DOMAIN wire' -> DOMAIN wire] :
         /\ \A j \in DOMAIN wire' : wire'[j] = wire[from[j]] /\ from[j] # i
         /\ \A j, k \in DOMAIN wire' : j # k => from[j] # from[k]
  BY <1>1, <1>4, RemovedFrom
<1>7. /\ flight' \in [Sdk!Flushers -> {"none", "sent", "replied"}]
      /\ \A f \in Sdk!Flushers :
            /\ flight'[f] = "none" <=> flight[f] = "none"
            /\ flight'[f] = "replied" => flight[f] = "replied" \/ hand[f] = wire[i]
  BY <1>1, <1>4 DEF Answered
<1>8. TypeOK'
  <2>1. << >> \notin RangeOf(wire')
    BY <1>6 DEF JointInv, TypeOK, RangeOf
  <2>2. refused' \subseteq Events
    BY <1>1, <1>4 DEF JointInv, TypeOK, RangeOf
  <2>3. QED BY <1>2, <1>3, <1>5, <1>7, <2>1, <2>2 DEF JointInv, TypeOK
<1>9. Once'
  <2>1. \A j \in DOMAIN wire' : /\ Distinct(wire'[j]) /\ Apart(wire'[j], serving)
                               /\ \A n \in DOMAIN batches : Apart(batches[n], wire'[j])
    BY <1>6 DEF JointInv, Once
  <2>2. \A j, k \in DOMAIN wire' : j # k => Apart(wire'[j], wire'[k])
    BY <1>6 DEF JointInv, Once
  <2>3. QED BY <1>2, <2>1, <2>2, OncePrimed DEF JointInv, Once
<1>10. TurnedAway'
  <2> SUFFICES ASSUME NEW e \in refused'
               PROVE  /\ e \notin RangeOf(serving)
                      /\ \A j \in DOMAIN wire' : e \notin RangeOf(wire'[j])
                      /\ \A n \in DOMAIN batches : e \notin RangeOf(batches[n])
    BY <1>2 DEF TurnedAway
  <2>1. CASE e \in refused
    BY <1>6, <2>1 DEF JointInv, TurnedAway
  <2>2. CASE e \in RangeOf(wire[i])
    <3>1. Apart(wire[i], serving) /\ \A n \in DOMAIN batches : Apart(batches[n], wire[i])
      BY DEF JointInv, Once
    <3>2. \A j \in DOMAIN wire' : Apart(wire'[j], wire[i])
      BY <1>6 DEF JointInv, Once
    <3>3. QED BY <2>2, <3>1, <3>2 DEF Apart
  <2>3. QED BY <1>1, <2>1, <2>2
<1>11. \A e \in Events : Sent(e)' => Sent(e)
  <2>1. \A e : e \in refused' => e \in refused \/ e \in RangeOf(wire[i])
    BY <1>1
  <2>2. \A e : (\E j \in DOMAIN wire' : e \in RangeOf(wire'[j])) =>
                  \E j \in DOMAIN wire : e \in RangeOf(wire[j])
    BY <1>6
  <2>3. QED BY <1>2, <2>1, <2>2 DEF Sent, RangeOf
<1>12. Filed' /\ SoundOpen' /\ SoundKnown' /\ Heard'
  BY <1>1, <1>2, <1>3 DEF JointInv, Filed, SoundOpen, SoundKnown, Heard, Closing
<1>13. Replied'
  <2> SUFFICES ASSUME NEW f \in Sdk!Flushers, flight'[f] = "replied"
               PROVE  \/ Sdk!InHand(f) \subseteq refused'
                      \/ \E n \in DOMAIN batches : batches[n] = hand[f] /\ Closing(n)
    BY <1>2, <1>3 DEF Replied, Closing, Sdk!InHand
  <2>1. CASE flight[f] = "replied"
    BY <1>1, <2>1 DEF JointInv, Replied
  <2>2. CASE hand[f] = wire[i]
    BY <1>1, <2>2 DEF Sdk!InHand, RangeOf
  <2>3. QED BY <1>7, <2>1, <2>2
<1>14. IngP!IngestionInv'
  BY <1>2, IngKeeps DEF JointInv
<1>15. QED BY <1>2, <1>7, <1>8, <1>9, <1>10, <1>11, <1>12, <1>13, <1>14, SdkRests

LEMMA TryEventKeeps ==
    ASSUME JointInv, TryEvent
    PROVE  JointInv'
<1> DEFINE e == Content[serving[handled + 1]]
<1>1. /\ handled < Len(serving) /\ UNCHANGED <<sdkVars, flight, wire, serving, batches, refused>>
      /\ Ing!Ignore(e) \/ Ing!FailCost(e) \/ Ing!FailTouch(e) \/ Ing!FailFlush(e) \/ Ing!Store(e)
  BY DEF TryEvent, joint
<1>2. handled \in Nat /\ serving \in Seq(Events)
  BY IngFacts DEF JointInv, TypeOK
<1>3. serving[handled + 1] \in Events
  BY <1>1, <1>2
<1>4. e \in Ing!BatchEvents
  BY <1>3, ContentAssumption
<1> HIDE DEF e
<1>5. IngP!IngestionInv'
  BY <1>1, <1>4, IngKeeps DEF JointInv, IngStep
<1>6. /\ handled' = handled + 1
      /\ sound' = IF e.kind = "good" THEN sound \cup {handled + 1} ELSE sound
      /\ UNCHANGED <<open, db, answers>>
  BY <1>1 DEF Ing!Ignore, Ing!FailCost, Ing!FailTouch, Ing!FailFlush, Ing!Store, Ing!NextEvent
<1>7. UNCHANGED <<hand, received>>
  BY <1>1 DEF sdkVars
<1>8. TypeOK'
  BY <1>1, <1>2, <1>6, <1>7 DEF JointInv, TypeOK
<1>9. Once'
  BY <1>1, OncePrimed DEF JointInv, Once
<1>10. SoundOpen'
  <2> SUFFICES ASSUME NEW i \in 1 .. handled + 1, Content[serving[i]].kind = "good"
               PROVE  i \in sound'
    BY <1>1, <1>6 DEF SoundOpen
  <2>1. i \in 1 .. handled \/ i = handled + 1
    BY <1>2
  <2>2. QED BY <1>6, <2>1 DEF JointInv, SoundOpen, e
<1>11. TurnedAway' /\ Filed' /\ SoundKnown' /\ Heard' /\ Replied'
  BY <1>1, <1>6, <1>7
     DEF JointInv, TurnedAway, Filed, SoundKnown, Heard, Replied, Closing, Sdk!InHand
<1>12. \A x \in Events : Sent(x)' => Sent(x)
  BY <1>1 DEF Sent
<1>13. flight' \in [Sdk!Flushers -> {"none", "sent", "replied"}]
  BY <1>1 DEF JointInv, TypeOK
<1>14. QED BY <1>1, <1>5, <1>8, <1>9, <1>10, <1>11, <1>12, <1>13, SdkRests

\* The open batch is over, with the answer code, and d is the database.
LEMMA ClosedKeeps ==
    ASSUME JointInv, IngP!IngestionInv', Closed, wire' = wire \/ wire' = << >>,
           NEW code \in {200, 500, 0}, answers' = Append(answers, [code |-> code, sound |-> sound]),
           open, ~open', handled' = 0, db'.rows \subseteq tx.rows \cup pending.rows,
           code = 200 => handled = Len(serving)
    PROVE  JointInv'
<1> DEFINE a == [code |-> code, sound |-> sound]
           m == Len(batches) + 1
           Flights == {"none", "sent", "replied"}
<1>1. /\ batches' = Append(batches, serving) /\ serving' = << >>
      /\ UNCHANGED <<sdkVars, refused>>
      /\ flight' = IF Last(answers').code = 0 THEN flight ELSE Answered(serving)
  BY DEF Closed
<1>2. UNCHANGED <<hand, received>>
  BY <1>1 DEF sdkVars
<1>3. /\ batches \in Seq(Seq(Events)) /\ serving \in Seq(Events) /\ Len(batches) = Len(answers)
      /\ flight \in [Sdk!Flushers -> Flights] /\ wire \in Seq(Seq(Events))
      /\ << >> \notin RangeOf(wire)
  BY DEF JointInv, TypeOK
<1>4. /\ answers \in Seq([code : {200, 500, 0}, sound : SUBSET Nat])
      /\ answers' \in Seq([code : {200, 500, 0}, sound : SUBSET Nat])
      /\ handled \in Nat /\ handled <= Len(serving)
  BY IngFacts, IngFactsPrimed DEF JointInv, TypeOK
<1>5. a.code = code /\ a.sound = sound /\ answers' = Append(answers, a)
  OBVIOUS
<1> HIDE DEF a
<1>6. /\ Len(answers') = m /\ answers'[m] = a /\ DOMAIN answers' = 1 .. m
      /\ \A n \in DOMAIN batches : answers'[n] = answers[n]
  BY <1>3, <1>4, <1>5
<1>7. /\ batches' \in Seq(Seq(Events)) /\ Len(batches') = m /\ batches'[m] = serving
      /\ DOMAIN batches' = 1 .. m /\ DOMAIN batches = 1 .. (m - 1) /\ m \in Nat
      /\ \A n \in DOMAIN batches : n \in DOMAIN batches' /\ batches'[n] = batches[n]
      /\ \A n \in DOMAIN batches' : n \in DOMAIN batches \/ n = m
      /\ m \in DOMAIN batches' /\ m \notin DOMAIN batches
  BY <1>1, <1>3
<1> HIDE DEF m
<1>8. \A f \in Sdk!Flushers :
         /\ flight'[f] \in Flights /\ (flight'[f] = "none" <=> flight[f] = "none")
         /\ flight'[f] = "replied" =>
               flight[f] = "replied" \/ (hand[f] = serving /\ code # 0)
  <2>1. Last(answers') = a
    BY <1>6 DEF Last
  <2>2. QED BY <1>1, <1>3, <1>5, <2>1 DEF Answered
<1>9. wire' \in Seq(Seq(Events)) /\ DOMAIN wire' \subseteq DOMAIN wire
      /\ \A i \in DOMAIN wire' : wire'[i] = wire[i]
  <2>1. CASE wire' = wire
    BY <1>3, <2>1
  <2>2. CASE wire' = << >>
    BY <2>2
  <2>3. QED BY <2>1, <2>2
<1>10. flight' \in [Sdk!Flushers -> Flights]
  BY <1>1, <1>3 DEF Answered
<1>11. TypeOK'
  <2>1. << >> \notin RangeOf(wire')
    BY <1>3, <1>9 DEF RangeOf
  <2>2. serving' \in Seq(Events) /\ handled' <= Len(serving') /\ Len(batches') = Len(answers')
    BY <1>1, <1>6, <1>7
  <2>3. QED BY <1>1, <1>2, <1>7, <1>8, <1>9, <1>10, <2>1, <2>2 DEF JointInv, TypeOK
<1>12. Once'
  <2>1. Distinct(serving') /\ \A b : Apart(b, serving')
    BY <1>1 DEF Distinct, Apart, RangeOf
  <2>2. \A i \in DOMAIN wire' :
           /\ Distinct(wire'[i]) /\ \A n \in DOMAIN batches' : Apart(batches'[n], wire'[i])
    BY <1>7, <1>9 DEF JointInv, Once, Apart
  <2>3. \A i, j \in DOMAIN wire' : i # j => Apart(wire'[i], wire'[j])
    BY <1>9 DEF JointInv, Once
  <2>4. \A n \in DOMAIN batches' : Distinct(batches'[n])
    BY <1>7 DEF JointInv, Once
  <2>5. \A n, k \in DOMAIN batches' : n # k => Apart(batches'[n], batches'[k])
    BY <1>7 DEF JointInv, Once, Apart
  <2>6. QED BY <2>1, <2>2, <2>3, <2>4, <2>5, OncePrimed
<1>13. \A e \in Events : Sent(e)' => Sent(e)
  BY <1>1, <1>7, <1>9 DEF Sent, RangeOf
<1>14. Filed'
  <2> SUFFICES ASSUME NEW r \in db'.rows PROVE r.idx \in DOMAIN batches'[r.req]
    BY DEF Filed
  <2>1. CASE r \in db.rows
    <3>1. r.req \in DOMAIN answers
      BY <2>1, IngFacts DEF JointInv
    <3>2. r.req \in DOMAIN batches
      BY <1>3, <1>4, <3>1
    <3>3. QED BY <1>7, <2>1, <3>2 DEF JointInv, Filed
  <2>2. CASE r \notin db.rows
    <3>1. r.req = Len(answers) + 1 /\ r.idx \in 1 .. handled
      BY <2>2, IngFacts DEF JointInv
    <3>2. r.req = m
      BY <1>3, <3>1 DEF m
    <3>3. r.idx \in 1 .. Len(serving)
      BY <1>3, <1>4, <3>1
    <3>4. QED BY <1>3, <1>7, <3>2, <3>3
  <2>3. QED BY <2>1, <2>2
<1>15. SoundOpen' /\ TurnedAway'
  <2>1. TurnedAway'
    BY <1>1, <1>7, <1>9 DEF JointInv, TurnedAway, RangeOf
  <2>2. QED BY <2>1 DEF SoundOpen
<1>16. SoundKnown'
  <2> SUFFICES ASSUME NEW n \in DOMAIN batches', answers'[n].code = 200,
                      NEW i \in DOMAIN batches'[n], Content[batches'[n][i]].kind = "good"
               PROVE  i \in answers'[n].sound
    BY DEF SoundKnown
  <2>1. CASE n \in DOMAIN batches
    BY <1>6, <1>7, <2>1 DEF JointInv, SoundKnown
  <2>2. CASE n = m
    <3>1. handled = Len(serving) /\ i \in DOMAIN serving /\ Content[serving[i]].kind = "good"
      BY <1>5, <1>6, <1>7, <2>2
    <3>2. i \in 1 .. handled
      BY <1>3, <3>1
    <3>3. QED BY <1>5, <1>6, <2>2, <3>1, <3>2 DEF JointInv, SoundOpen
  <2>3. QED BY <1>7, <2>1, <2>2
<1>17. \A n \in DOMAIN batches : Closing(n)' <=> Closing(n)
  BY <1>6 DEF Closing
<1>18. Heard'
  BY <1>1, <1>2, <1>7, <1>17 DEF JointInv, Heard
<1>19. Replied'
  <2> SUFFICES ASSUME NEW f \in Sdk!Flushers, flight'[f] = "replied"
               PROVE  \/ Sdk!InHand(f) \subseteq refused
                      \/ \E n \in DOMAIN batches' : batches'[n] = hand[f] /\ Closing(n)'
    BY <1>1, <1>2 DEF Replied, Sdk!InHand
  <2>1. CASE flight[f] = "replied"
    BY <1>7, <1>17, <2>1 DEF JointInv, Replied
  <2>2. CASE hand[f] = serving /\ code # 0
    <3>1. m \in DOMAIN batches' /\ batches'[m] = hand[f]
      BY <1>7, <2>2
    <3>2. answers'[m].code \in {200, 500}
      BY <1>5, <1>6, <2>2
    <3>3. QED BY <3>1, <3>2 DEF Closing
  <2>3. QED BY <1>8, <2>1, <2>2
<1>20. QED BY <1>1, <1>8, <1>10, <1>11, <1>12, <1>13, <1>14, <1>15, <1>16, <1>18, <1>19, SdkRests

LEMMA EndBatchKeeps ==
    ASSUME JointInv, EndBatch
    PROVE  JointInv'
<1>1. Closed /\ wire' = wire /\ handled = Len(serving) /\ (Ing!Commit \/ Ing!CommitFails)
  BY DEF EndBatch
<1>2. IngP!IngestionInv'
  BY <1>1, IngKeeps DEF JointInv, IngStep
<1>3. tx.rows \cup pending.rows \subseteq tx.rows \cup pending.rows /\ db.rows \subseteq tx.rows
  BY IngFacts DEF JointInv
<1>4. CASE Ing!Commit
  <2>1. PICK code \in {200, 0} : Ing!Close(code, Ing!Flushed(tx, pending))
    BY <1>4 DEF Ing!Commit
  <2>2. Ing!Flushed(tx, pending).rows = tx.rows \cup pending.rows
    <3>1. tx \in IngP!Databases
      BY DEF JointInv, IngP!IngestionInv, IngP!Types, IngP!TypeOK
    <3>2. QED BY <3>1 DEF Ing!Flushed, IngP!Databases
  <2>3. QED BY <1>1, <1>2, <1>4, <2>1, <2>2, ClosedKeeps DEF Ing!Commit, Ing!Close
<1>5. CASE Ing!CommitFails
  <2>1. Ing!Close(500, db) /\ open
    BY <1>5 DEF Ing!CommitFails, Ing!Refused, Ing!RolledBack, Ing!FailedAnswer
  <2>2. QED BY <1>1, <1>2, <1>3, <2>1, ClosedKeeps DEF Ing!Close
<1>6. QED BY <1>1, <1>4, <1>5

LEMMA CrashKeeps ==
    ASSUME JointInv, Crash
    PROVE  JointInv'
<1>1. Closed /\ wire' = << >> /\ Ing!Crash
  BY DEF Crash
<1>2. IngP!IngestionInv'
  BY <1>1, IngKeeps DEF JointInv, IngStep
<1>3. db.rows \subseteq tx.rows
  BY IngFacts DEF JointInv
<1>4. Ing!Close(0, db) /\ open
  BY <1>1 DEF Ing!Crash, Ing!Refused, Ing!RolledBack
<1>5. QED BY <1>1, <1>2, <1>3, <1>4, ClosedKeeps DEF Ing!Close

----------------------------------------------------------------------------
(* The invariant holds. *)

LEMMA JointInit == Init => JointInv
<1> SUFFICES ASSUME Init PROVE JointInv
  OBVIOUS
<1>1. SdkP!SdkInv
  BY SdkInitSame, PartsAssumption, SdkP!SdkInit DEF Init, IsFiniteSet, SdkP!IsFiniteSet
<1>2. IngP!IngestionInv
  BY IngInitSame, PartsAssumption, IngP!IngestionInit DEF Init
<1>3. /\ flight = [f \in Sdk!Flushers |-> "none"]
      /\ wire = << >> /\ serving = << >> /\ batches = << >> /\ answers = << >> /\ refused = {}
      /\ ~open /\ handled = 0 /\ db.rows = {} /\ received = [e \in Events |-> 0]
  BY DEF Init, Sdk!Init, Ing!Init
<1>4. TypeOK
  BY <1>3 DEF TypeOK, RangeOf
<1>5. Once /\ TurnedAway /\ NotAgain /\ Flying
  BY <1>3 DEF Once, Distinct, Apart, TurnedAway, NotAgain, Sent, RangeOf, Flying
<1>6. Filed /\ SoundOpen /\ SoundKnown /\ Replied /\ Heard
  BY <1>3 DEF Filed, SoundOpen, SoundKnown, Replied, Heard
<1>7. QED BY <1>1, <1>2, <1>4, <1>5, <1>6 DEF JointInv

LEMMA JointStep == JointInv /\ [Next]_vars => JointInv'
<1> SUFFICES ASSUME JointInv, [Next]_vars PROVE JointInv'
  OBVIOUS
<1>1. CASE Application
  BY <1>1, ApplicationKeeps, SdkKeeps DEF JointInv, Application, Sdk!Next
<1>2. CASE Daemons \/ Ending
  BY <1>2, DaemonsKeep, SdkKeeps DEF JointInv, Daemons, Ending, Sdk!Next
<1>3. CASE ProcessEnds
  BY <1>3, ProcessEndsKeeps, SdkKeeps DEF JointInv, ProcessEnds, Sdk!Next
<1>4. ASSUME NEW f \in Sdk!Flushers, FlushAlone(f) PROVE JointInv'
  BY <1>4, FlushAloneKeeps, SdkKeeps DEF JointInv, FlushAlone, Sdk!Next, Sdk!Flush
<1>5. ASSUME NEW f \in Sdk!Flushers, Reply(f) PROVE JointInv'
  BY <1>5, ReplyKeeps, SdkKeeps DEF JointInv, Reply, Sdk!Next, Sdk!Flush
<1>6. ASSUME NEW f \in Sdk!Flushers, GiveUp(f) PROVE JointInv'
  BY <1>6, GiveUpKeeps, SdkKeeps DEF JointInv, GiveUp, Sdk!Next, Sdk!Flush
<1>7. CASE UNCHANGED vars
  <2>1. UNCHANGED <<monitorVars, flight, wire, serving, batches, refused, received, hand, queue, recorded, sdkVars>>
    BY <1>7 DEF vars, joint, sdkVars
  <2>2. QED BY <2>1, SdkAlone, SdkKeeps DEF JointInv, Sdk!InHand, Sdk!Queued
<1>8. QED BY <1>1, <1>2, <1>3, <1>4, <1>5, <1>6, <1>7, SendKeeps, DropKeeps, RefuseKeeps, ServeKeeps,
             TryEventKeeps, EndBatchKeeps, CrashKeeps DEF Next, Flush, Monitor

LEMMA JointInvariant == Spec => []JointInv
BY JointInit, JointStep, PTL DEF Spec

----------------------------------------------------------------------------
(* Theorems. *)

\* The composition is well typed: its posts, requests and batches, and the
\* batch that is open.
THEOREM HermesMonitorTypes == Spec => []TypeOK
<1>1. JointInv => TypeOK
  BY DEF JointInv
<1>2. QED BY <1>1, JointInvariant, PTL

\* An event whose post has returned is on its way no more: it was turned away
\* or answered 500 and is not stored, or answered 200 and is, if it is sound.
THEOREM HeardOfIsSettledAlways == Spec => []HeardOfIsSettled
<1>1. ASSUME JointInv, NEW e \in Events, NEW r \in RowsFor(e)
      PROVE  r \in db.rows /\ r.req \in DOMAIN batches /\ e \in RangeOf(batches[r.req])
  <2>1. r \in db.rows /\ batches[r.req][r.idx] = e
    BY DEF RowsFor
  <2>2. r.req \in DOMAIN batches /\ r.idx \in DOMAIN batches[r.req]
    BY <1>1, <2>1, IngFacts DEF JointInv, TypeOK, Filed
  <2>3. QED BY <2>1, <2>2 DEF RangeOf
<1>2. ASSUME JointInv, NEW e \in Events, received[e] > 0
      PROVE  /\ ~Underway(e)
             /\ \/ e \in refused /\ RowsFor(e) = {}
                \/ \E n \in DOMAIN batches :
                      /\ e \in RangeOf(batches[n])
                      /\ \/ answers[n].code = 500 /\ RowsFor(e) = {}
                         \/ answers[n].code = 200 /\ (Content[e].kind = "good" => RowsFor(e) # {})
  <2>1. CASE e \in refused
    <3>1. ~Underway(e) /\ \A n \in DOMAIN batches : e \notin RangeOf(batches[n])
      BY <1>2, <2>1 DEF JointInv, TurnedAway, Underway
    <3>2. RowsFor(e) = {}
      BY <1>1, <1>2, <3>1
    <3>3. QED BY <2>1, <3>1, <3>2
  <2>2. ASSUME NEW n \in DOMAIN batches, e \in RangeOf(batches[n]), Closing(n)
        PROVE  /\ ~Underway(e)
               /\ \/ answers[n].code = 500 /\ RowsFor(e) = {}
                  \/ answers[n].code = 200 /\ (Content[e].kind = "good" => RowsFor(e) # {})
    <3>1. n \in DOMAIN answers
      BY <1>2, IngFacts DEF JointInv, TypeOK
    <3>2. ~Underway(e)
      BY <1>2, <2>2 DEF JointInv, Once, Apart, Underway
    <3>3. CASE answers[n].code = 500
      <4>1. ASSUME NEW r \in RowsFor(e) PROVE FALSE
        <5>1. r \in db.rows /\ r.req \in DOMAIN batches /\ e \in RangeOf(batches[r.req])
          BY <1>1, <1>2
        <5>2. r.req = n
          BY <1>2, <2>2, <5>1 DEF JointInv, Once, Apart
        <5>3. QED BY <1>2, <3>1, <3>3, <5>1, <5>2, IngFacts DEF JointInv
      <4>2. QED BY <3>2, <3>3, <4>1
    <3>4. CASE answers[n].code = 200 /\ Content[e].kind = "good"
      <4>1. PICK i \in DOMAIN batches[n] : batches[n][i] = e
        BY <2>2 DEF RangeOf
      <4>2. i \in answers[n].sound
        BY <1>2, <3>4, <4>1 DEF JointInv, SoundKnown
      <4>3. PICK r \in db.rows : r.req = n /\ r.idx = i
        BY <1>2, <3>1, <3>4, <4>2, IngFacts DEF JointInv
      <4>4. QED BY <3>2, <3>4, <4>1, <4>3 DEF RowsFor
    <3>5. QED BY <2>2, <3>2, <3>3, <3>4 DEF Closing
  <2>3. e \in refused \/ \E n \in DOMAIN batches : e \in RangeOf(batches[n]) /\ Closing(n)
    BY <1>2 DEF JointInv, Heard
  <2>4. QED BY <2>1, <2>2, <2>3
<1>3. JointInv => HeardOfIsSettled
  BY <1>2 DEF HeardOfIsSettled
<1>4. QED BY <1>3, JointInvariant, PTL

----------------------------------------------------------------------------
(* The refinement. *)

FateBar == [e \in Events |-> Fate(e)]

Stored(e) == RowsFor(e) # {}

\* Fate without counting.
FatesKnown ==
    \A e \in Events :
        Fate(e) = IF e \notin recorded THEN "new"
                  ELSE IF Stored(e) THEN "delivered"
                  ELSE IF Held(e) THEN "held" ELSE "lost"

\* An event has one row at most: it is in one place of one batch.
LEMMA OneRow ==
    ASSUME JointInv, NEW e \in Events, NEW r \in RowsFor(e), NEW q \in RowsFor(e)
    PROVE  r = q
<1>1. r \in db.rows /\ q \in db.rows /\ batches[r.req][r.idx] = e /\ batches[q.req][q.idx] = e
  BY DEF RowsFor
<1>2. r.req \in DOMAIN batches /\ q.req \in DOMAIN batches
  BY <1>1, IngFacts DEF JointInv, TypeOK
<1>3. r.idx \in DOMAIN batches[r.req] /\ q.idx \in DOMAIN batches[q.req]
  BY <1>1 DEF JointInv, Filed
<1>4. e \in RangeOf(batches[r.req]) /\ e \in RangeOf(batches[q.req])
  BY <1>1, <1>3 DEF RangeOf
<1>5. r.req = q.req
  BY <1>2, <1>4 DEF JointInv, Once, Apart
<1>6. r.idx = q.idx
  BY <1>1, <1>2, <1>3, <1>5 DEF JointInv, Once, Distinct
<1>7. QED BY <1>1, <1>5, <1>6, IngFacts DEF JointInv

LEMMA FatesAre == JointInv => FatesKnown
<1> SUFFICES ASSUME JointInv, NEW e \in Events, e \in recorded
             PROVE  Fate(e) = IF Stored(e) THEN "delivered" ELSE IF Held(e) THEN "held" ELSE "lost"
  BY DEF FatesKnown, Fate
<1>1. CASE Stored(e)
  <2>1. PICK r : r \in RowsFor(e)
    BY <1>1 DEF Stored
  <2>2. RowsFor(e) = {r}
    BY <2>1, OneRow
  <2>3. Cardinality(RowsFor(e)) = 1
    BY <2>2, FS_Singleton
  <2>4. QED BY <1>1, <2>3 DEF Fate
<1>2. CASE ~Stored(e)
  <2>1. Cardinality(RowsFor(e)) = 0
    BY <1>2, FS_EmptySet DEF Stored
  <2>2. QED BY <1>2, <2>1 DEF Fate
<1>3. QED BY <1>1, <1>2

LEMMA FatesWillBe == JointInv' => FatesKnown'
BY FatesAre, PTL

\* A step settles events if none that is stored is removed and none that is
\* neither stored nor held comes back.
LEMMA Settles ==
    ASSUME JointInv, JointInv', UNCHANGED recorded,
           \A e \in Events : Stored(e) => Stored(e)',
           \A e \in Events : (e \in recorded /\ (Stored(e)' \/ Held(e)')) => Stored(e) \/ Held(e)
    PROVE  [Channel!Next]_FateBar
<1> DEFINE D == {e \in Events : Fate(e) # Fate(e)' /\ Fate(e)' = "delivered"}
           L == {e \in Events : Fate(e) # Fate(e)' /\ Fate(e)' = "lost"}
<1>1. FatesKnown /\ FatesKnown'
  BY FatesAre, FatesWillBe
<1>2. \A e \in Events : \/ Fate(e)' = Fate(e)
                        \/ Fate(e) = "held" /\ Fate(e)' \in {"delivered", "lost"}
  BY <1>1 DEF FatesKnown
<1>3. Channel!Settle(D, L)
  BY <1>2 DEF Channel!Settle, FateBar
<1>4. D \in SUBSET Events /\ L \in SUBSET Events
  OBVIOUS
<1> HIDE DEF D, L
<1>5. QED BY <1>3, <1>4 DEF Channel!Next

LEMMA RowsStay ==
    ASSUME UNCHANGED <<db, batches>>
    PROVE  \A e : Stored(e)' = Stored(e)
BY DEF Stored, RowsFor

\* Of a step of the SDK it suffices to know what it does to queue and hands.
LEMMA SdkSettles ==
    ASSUME JointInv, JointInv', UNCHANGED <<recorded, monitorVars, wire, serving, batches>>,
           Sdk!Running' => Sdk!Running,
           \A e \in Events : e \in Sdk!Queued' => e \in Sdk!Queued,
           \A e \in Events, f \in Sdk!Flushers :
              e \in Sdk!InHand(f)' => e \in Sdk!Queued \/ e \in Sdk!InHand(f)
    PROVE  [Channel!Next]_FateBar
<1>1. UNCHANGED <<db, batches>>
  BY DEF monitorVars
<1>2. \A e : Stored(e)' = Stored(e)
  BY <1>1, RowsStay
<1>3. \A e \in Events : Held(e)' => Held(e)
  BY DEF Held, Underway
<1>4. QED BY <1>2, <1>3, Settles

\* A flush that ends empties the hand.
LEMMA EmptiedSettles ==
    ASSUME JointInv, JointInv', NEW f \in Sdk!Flushers,
           UNCHANGED <<recorded, monitorVars, wire, serving, batches, queue>>,
           Sdk!Running' => Sdk!Running, hand' = [hand EXCEPT ![f] = << >>]
    PROVE  [Channel!Next]_FateBar
<1>1. hand \in [Sdk!Flushers -> Seq(Events)]
  BY SdkFacts DEF JointInv
<1>2. \A e, g : g \in Sdk!Flushers /\ e \in Sdk!InHand(g)' => e \in Sdk!InHand(g)
  BY <1>1 DEF Sdk!InHand
<1>3. Sdk!Queued' = Sdk!Queued
  BY DEF Sdk!Queued
<1>4. QED BY <1>2, <1>3, SdkSettles

LEMMA FlushSettles ==
    ASSUME JointInv, JointInv', NEW f \in Sdk!Flushers, FlushAlone(f) \/ Reply(f) \/ GiveUp(f)
    PROVE  [Channel!Next]_FateBar
<1>1. UNCHANGED <<monitorVars, wire, serving, batches>>
  BY DEF FlushAlone, Alone, joint, Reply, GiveUp, Over
<1>2. Sdk!FlushNothing(f) \/ Sdk!Swap(f) \/ Sdk!DumpsRaises(f) \/ Sdk!Post(f) \/ Sdk!PostFails(f)
  BY DEF FlushAlone, Reply, GiveUp
<1>3. UNCHANGED <<recorded, process>> /\ (Sdk!Running' => Sdk!Running)
  BY <1>2 DEF Sdk!FlushNothing, Sdk!Swap, Sdk!DumpsRaises, Sdk!Post, Sdk!PostFails, Sdk!Running
<1>4. CASE Sdk!FlushNothing(f)
  BY <1>1, <1>3, <1>4, SdkSettles DEF Sdk!FlushNothing, Sdk!Queued, Sdk!InHand
<1>5. CASE Sdk!Swap(f)
  <2>1. hand' = [hand EXCEPT ![f] = queue] /\ queue' = << >>
    BY <1>5 DEF Sdk!Swap
  <2>2. hand \in [Sdk!Flushers -> Seq(Events)]
    BY SdkFacts DEF JointInv
  <2>3. Sdk!Queued' = {} /\ \A e, g : g \in Sdk!Flushers /\ e \in Sdk!InHand(g)' =>
                                e \in Sdk!InHand(g) \/ e \in Sdk!Queued
    BY <2>1, <2>2 DEF Sdk!InHand, Sdk!Queued
  <2>4. QED BY <1>1, <1>3, <2>3, SdkSettles
<1>6. CASE Sdk!DumpsRaises(f) \/ Sdk!Post(f) \/ Sdk!PostFails(f)
  <2>1. hand' = [hand EXCEPT ![f] = << >>] /\ UNCHANGED queue
    BY <1>6 DEF Sdk!DumpsRaises, Sdk!Post, Sdk!PostFails, Sdk!QueueAfterPost, Sdk!QueueAfterFailure
  <2>2. QED BY <1>1, <1>3, <2>1, EmptiedSettles
<1>7. QED BY <1>2, <1>4, <1>5, <1>6

LEMMA OthersSettle ==
    ASSUME JointInv, JointInv',
           \/ Daemons \/ Ending \/ ProcessEnds
           \/ UNCHANGED vars
           \/ Application /\ UNCHANGED recorded
    PROVE  [Channel!Next]_FateBar
<1>1. CASE Daemons \/ Ending
  <2>1. /\ UNCHANGED <<queue, hand, recorded, monitorVars, wire, serving, batches>>
        /\ Sdk!Running' => Sdk!Running
    BY <1>1 DEF Daemons, Ending, Alone, joint, Sdk!Tick, Sdk!DaemonEnds, Sdk!Exit, Sdk!Kill,
               Sdk!Running
  <2>2. QED BY <2>1, SdkSettles DEF Sdk!Queued, Sdk!InHand
<1>2. CASE ProcessEnds
  <2>1. /\ UNCHANGED <<queue, recorded, monitorVars, wire, serving, batches>>
        /\ Sdk!Running' => Sdk!Running
        /\ hand' = [hand EXCEPT ![Daemon] = << >>]
    BY <1>2 DEF ProcessEnds, Sdk!Exited, Sdk!Running
  <2>2. Daemon \in Sdk!Flushers
    BY DEF Sdk!Flushers
  <2>3. QED BY <2>1, <2>2, EmptiedSettles
<1>3. CASE UNCHANGED vars
  <2>1. /\ UNCHANGED <<queue, hand, process, recorded, monitorVars, wire, serving, batches>>
    BY <1>3 DEF vars, sdkVars, joint
  <2>2. QED BY <2>1, SdkSettles DEF Sdk!Queued, Sdk!InHand, Sdk!Running
<1>4. CASE Application /\ UNCHANGED recorded
  <2>1. UNCHANGED <<queue, hand, process, recorded, monitorVars, wire, serving, batches>>
    BY <1>4 DEF Application, Alone, joint, Sdk!CallFlush, Sdk!CallShutdown, Sdk!Record
  <2>2. QED BY <2>1, SdkSettles DEF Sdk!Queued, Sdk!InHand, Sdk!Running
<1>5. QED BY <1>1, <1>2, <1>3, <1>4

LEMMA RecordAccepts ==
    ASSUME JointInv, JointInv', Application, recorded' # recorded
    PROVE  [Channel!Next]_FateBar
<1>1. UNCHANGED <<monitorVars, wire, serving, batches>>
  BY DEF Application, Alone, joint
<1>2. PICK t \in Threads, e \in Events : Sdk!Record(t, e)
  BY DEF Application, Sdk!CallFlush, Sdk!CallShutdown
<1>3. /\ e \notin recorded /\ recorded' = recorded \cup {e} /\ queue' = Append(queue, e)
      /\ process = "up" /\ UNCHANGED <<hand, process>>
  BY <1>2 DEF Sdk!Record
<1>4. queue \in Seq(Events)
  BY SdkFacts DEF JointInv
<1>5. Sdk!Queued' = Sdk!Queued \cup {e}
  BY <1>3, <1>4 DEF Sdk!Queued
<1>6. Sdk!Running /\ Sdk!Running'
  BY <1>3 DEF Sdk!Running
<1>7. Held(e)' /\ \A d \in Events \ {e} : Held(d)' = Held(d)
  BY <1>1, <1>3, <1>5, <1>6 DEF Held, Underway, Sdk!InHand
<1>8. \A d : Stored(d)' = Stored(d)
  BY <1>1, RowsStay DEF monitorVars
<1>9. ~Stored(e)
  <2> SUFFICES ASSUME NEW r \in RowsFor(e) PROVE FALSE
    BY DEF Stored
  <2>1. r \in db.rows /\ batches[r.req][r.idx] = e
    BY DEF RowsFor
  <2>2. r.req \in DOMAIN batches /\ r.idx \in DOMAIN batches[r.req]
    BY <2>1, IngFacts DEF JointInv, TypeOK, Filed
  <2>3. Sent(e)
    BY <2>1, <2>2 DEF Sent, RangeOf
  <2>4. QED BY <1>3, <2>3 DEF JointInv, NotAgain
<1>10. FatesKnown /\ FatesKnown'
  BY FatesAre, FatesWillBe
<1>11. Fate(e) = "new" /\ Fate(e)' = "held" /\ \A d \in Events \ {e} : Fate(d)' = Fate(d)
  BY <1>3, <1>7, <1>8, <1>9, <1>10 DEF FatesKnown
<1>12. Channel!Accept(e)
  BY <1>11 DEF Channel!Accept, FateBar
<1>13. QED BY <1>12 DEF Channel!Next

\* Requests and batches: nothing is in one that was not on its way.
LEMMA NetworkSettles ==
    ASSUME JointInv, JointInv', UNCHANGED <<sdkVars, db, batches>>,
           \A e \in Events :
              e \in RangeOf(serving') \/ (\E i \in DOMAIN wire' : e \in RangeOf(wire'[i])) => Held(e)
    PROVE  [Channel!Next]_FateBar
<1>1. \A e : Stored(e)' = Stored(e)
  BY RowsStay
<1>2. \A e \in Events : Held(e)' => Held(e)
  BY DEF Held, Underway, RangeOf, sdkVars, Sdk!Running, Sdk!Queued, Sdk!InHand
<1>3. UNCHANGED recorded
  BY DEF sdkVars
<1>4. QED BY <1>1, <1>2, <1>3, Settles

LEMMA PassingSettles ==
    ASSUME JointInv, JointInv', Drop \/ Refuse \/ Serve \/ TryEvent \/ \E f \in Sdk!Flushers : Send(f)
    PROVE  [Channel!Next]_FateBar
<1>1. wire \in Seq(Seq(Events))
  BY DEF JointInv, TypeOK
<1>2. CASE Drop
  <2>1. PICK i \in DOMAIN wire : wire' = RemoveAt(wire, i)
    BY <1>2 DEF Drop
  <2>2. \A j \in DOMAIN wire' : \E k \in DOMAIN wire : wire'[j] = wire[k]
    BY <1>1, <2>1, RemovedFrom
  <2>3. UNCHANGED <<sdkVars, db, batches, serving>>
    BY <1>2 DEF Drop, monitorVars
  <2>4. QED BY <2>2, <2>3, NetworkSettles DEF Held, Underway
<1>7. CASE Refuse
  <2>1. PICK i \in DOMAIN wire : wire' = RemoveAt(wire, i)
    BY <1>7 DEF Refuse
  <2>2. \A j \in DOMAIN wire' : \E k \in DOMAIN wire : wire'[j] = wire[k]
    BY <1>1, <2>1, RemovedFrom
  <2>3. UNCHANGED <<sdkVars, db, batches, serving>>
    BY <1>7 DEF Refuse, monitorVars
  <2>4. QED BY <2>2, <2>3, NetworkSettles DEF Held, Underway
<1>3. CASE Serve
  <2>1. PICK i \in DOMAIN wire : serving' = wire[i] /\ wire' = RemoveAt(wire, i)
    BY <1>3 DEF Serve
  <2>2. \A j \in DOMAIN wire' : \E k \in DOMAIN wire : wire'[j] = wire[k]
    BY <1>1, <2>1, RemovedFrom
  <2>3. UNCHANGED <<sdkVars, db, batches>>
    BY <1>3 DEF Serve, Ing!Begin
  <2>4. QED BY <2>1, <2>2, <2>3, NetworkSettles DEF Held, Underway
<1>4. CASE TryEvent
  <2>1. UNCHANGED <<sdkVars, db, batches, wire, serving>>
    BY <1>4 DEF TryEvent, joint, Ing!Ignore, Ing!FailCost, Ing!FailTouch, Ing!FailFlush, Ing!Store
  <2>2. QED BY <2>1, NetworkSettles DEF Held, Underway
<1>5. ASSUME NEW f \in Sdk!Flushers, Send(f) PROVE [Channel!Next]_FateBar
  <2>1. /\ wire' = Append(wire, hand[f]) /\ Sdk!Running
        /\ UNCHANGED <<sdkVars, db, batches, serving>>
    BY <1>5 DEF Send, Sdk!Sending, Sdk!Flushing, monitorVars
  <2>2. hand[f] \in Seq(Events) /\ RangeOf(hand[f]) = Sdk!InHand(f)
    BY SdkFacts DEF JointInv, RangeOf, Sdk!InHand
  <2>3. \A i \in DOMAIN wire' : (i \in DOMAIN wire /\ wire'[i] = wire[i]) \/ wire'[i] = hand[f]
    BY <1>1, <2>1, <2>2
  <2>4. QED BY <2>1, <2>2, <2>3, NetworkSettles DEF Held, Underway
<1>6. QED BY <1>2, <1>3, <1>4, <1>5, <1>7

\* What a batch leaves in the database was in the batch.
LEMMA ClosedSettles ==
    ASSUME JointInv, JointInv', Closed, wire' = wire \/ wire' = << >>,
           db.rows \subseteq db'.rows, db'.rows \subseteq tx.rows \cup pending.rows
    PROVE  [Channel!Next]_FateBar
<1> DEFINE m == Len(batches) + 1
<1>1. batches' = Append(batches, serving) /\ serving' = << >> /\ UNCHANGED sdkVars
  BY DEF Closed
<1>2. /\ batches \in Seq(Seq(Events)) /\ serving \in Seq(Events) /\ Len(batches) = Len(answers)
      /\ handled <= Len(serving) /\ handled \in Nat
  BY IngFacts DEF JointInv, TypeOK
<1>3. batches'[m] = serving /\ \A n \in DOMAIN batches : batches'[n] = batches[n]
  BY <1>1, <1>2
<1>4. \A r \in db.rows : r.req \in DOMAIN batches
  BY <1>2, IngFacts DEF JointInv
<1>5. \A e \in Events : Stored(e) => Stored(e)'
  BY <1>3, <1>4 DEF Stored, RowsFor
<1>6. ASSUME NEW e \in Events, Stored(e)' PROVE Stored(e) \/ Held(e)
  <2>1. PICK r \in db'.rows : batches'[r.req][r.idx] = e
    BY <1>6 DEF Stored, RowsFor
  <2>2. CASE r \in db.rows
    BY <1>3, <1>4, <2>1, <2>2 DEF Stored, RowsFor
  <2>3. CASE r \notin db.rows
    <3>1. r.req = m /\ r.idx \in 1 .. handled
      BY <1>2, <2>3, IngFacts DEF JointInv
    <3>2. r.idx \in DOMAIN serving
      BY <1>2, <3>1
    <3>3. serving[r.idx] = e
      BY <1>3, <2>1, <3>1
    <3>4. QED BY <3>2, <3>3 DEF Held, Underway, RangeOf
  <2>4. QED BY <2>2, <2>3
<1>7. \A e \in Events : Held(e)' => Held(e)
  BY <1>1 DEF Held, Underway, RangeOf, sdkVars, Sdk!Running, Sdk!Queued, Sdk!InHand
<1>8. UNCHANGED recorded
  BY <1>1 DEF sdkVars
<1>9. QED BY <1>5, <1>6, <1>7, <1>8, Settles

LEMMA BatchEndSettles ==
    ASSUME JointInv, JointInv', EndBatch \/ Crash
    PROVE  [Channel!Next]_FateBar
<1>1. Closed /\ (wire' = wire \/ wire' = << >>)
  BY DEF EndBatch, Crash
<1>2. db.rows \subseteq tx.rows
  BY IngFacts DEF JointInv
<1>3. CASE Ing!Commit
  <2>1. db' = Ing!Flushed(tx, pending)
    BY <1>3 DEF Ing!Commit, Ing!Close
  <2>2. tx \in IngP!Databases
    BY DEF JointInv, IngP!IngestionInv, IngP!Types, IngP!TypeOK
  <2>3. db'.rows = tx.rows \cup pending.rows
    BY <2>1, <2>2 DEF Ing!Flushed, IngP!Databases
  <2>4. QED BY <1>1, <1>2, <2>3, ClosedSettles
<1>4. CASE Ing!CommitFails \/ Ing!Crash
  <2>1. db' = db
    BY <1>4 DEF Ing!CommitFails, Ing!Crash, Ing!Refused, Ing!RolledBack, Ing!Close
  <2>2. QED BY <1>1, <1>2, <2>1, ClosedSettles
<1>5. QED BY <1>3, <1>4 DEF EndBatch, Crash

LEMMA ChannelStep == JointInv /\ JointInv' /\ [Next]_vars => [Channel!Next]_FateBar
<1> SUFFICES ASSUME JointInv, JointInv', [Next]_vars PROVE [Channel!Next]_FateBar
  OBVIOUS
<1>1. CASE Application
  BY <1>1, OthersSettle, RecordAccepts
<1>2. CASE Daemons \/ Ending \/ ProcessEnds \/ UNCHANGED vars
  BY <1>2, OthersSettle
<1>3. ASSUME NEW f \in Sdk!Flushers, Flush(f) PROVE [Channel!Next]_FateBar
  BY <1>3, FlushSettles, PassingSettles DEF Flush
<1>4. CASE Monitor \/ Drop \/ Crash
  BY <1>4, PassingSettles, BatchEndSettles DEF Monitor
<1>5. QED BY <1>1, <1>2, <1>3, <1>4 DEF Next

\* From the application to the database an event is stored at most once and
\* for good, and one that is neither stored nor on its way never comes back.
THEOREM StoredOnceAtMostAlways == Spec => StoredOnceAtMost
<1>1. Init => Channel!Init
  <2>1. Init => \A e \in Events : Fate(e) = "new"
    BY DEF Init, Sdk!Init, Fate
  <2>2. QED BY <2>1 DEF Channel!Init
<1>2. JointInv /\ JointInv' /\ [Next]_vars => [Channel!Next]_FateBar
  BY ChannelStep
<1>3. QED
  BY <1>1, <1>2, JointInvariant, PTL DEF Spec, StoredOnceAtMost, Channel!Spec, FateBar
==============================================================================
