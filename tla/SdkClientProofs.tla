--------------------------- MODULE SdkClientProofs ---------------------------
(****************************************************************************)
(* The SDK keeps every event in one place and implements ReportChannel, for *)
(* any number of events and threads and any of them unencodable.            *)
(*                                                                          *)
(* OnePlace counts copies.  The invariant says the same without counting:   *)
(* At(e) names the one place of e and excludes the others, and no sequence  *)
(* holds an event twice.  A flush moves the events of one batch from one    *)
(* place to the next and leaves all others where they are.                  *)
(****************************************************************************)
EXTENDS SdkClient, FiniteSetTheorems, TLAPS

Distinct(s) == \A i, j \in DOMAIN s : s[i] = s[j] => i = j

InNoHand(e) == \A f \in Flushers : e \notin InHand(f)

Nowhere(e) == e \notin Queued /\ InNoHand(e) /\ received[e] = 0 /\ e \notin lost

AtQueue(e) == e \in Queued /\ InNoHand(e) /\ received[e] = 0 /\ e \notin lost

AtHand(e, f) ==
    /\ e \in InHand(f) /\ \A g \in Flushers \ {f} : e \notin InHand(g)
    /\ e \notin Queued /\ received[e] = 0 /\ e \notin lost

AtMonitor(e) == received[e] = 1 /\ e \notin Queued /\ InNoHand(e) /\ e \notin lost

AtLost(e) == e \in lost /\ e \notin Queued /\ InNoHand(e) /\ received[e] = 0

At(e) ==
    IF e \in recorded
    THEN AtQueue(e) \/ (\E f \in Flushers : AtHand(e, f)) \/ AtMonitor(e) \/ AtLost(e)
    ELSE Nowhere(e)

SdkInv ==
    /\ TypeOK
    /\ Distinct(queue) /\ \A f \in Flushers : Distinct(hand[f])
    /\ \A e \in Events : At(e)

----------------------------------------------------------------------------
(* Types. *)

LEMMA TypeInit == Init => TypeOK
<1> SUFFICES ASSUME Init PROVE TypeOK
  OBVIOUS
<1>1. queue \in Seq(Events) /\ hand \in [Flushers -> Seq(Events)]
  BY DEF Init
<1>2. pc \in [Flushers -> PCs] /\ received \in [Events -> Nat]
  BY DEF Init, PCs
<1>3. QED BY <1>1, <1>2 DEF Init, TypeOK

LEMMA ReturnType == ASSUME NEW f PROVE Return(f) \in PCs
BY DEF Return, PCs

LEMMA DeliveredType ==
    ASSUME TypeOK, NEW S
    PROVE  /\ Delivered(S) \in [Events -> Nat]
           /\ \A e \in Events : Delivered(S)[e] = IF e \in S THEN received[e] + 1 ELSE received[e]
BY DEF TypeOK, Delivered

LEMMA InHandType ==
    ASSUME TypeOK, NEW f \in Flushers
    PROVE  hand[f] \in Seq(Events) /\ InHand(f) \subseteq Events
BY DEF TypeOK, InHand

LEMMA FlushTypes ==
    ASSUME TypeOK, NEW f \in Flushers, Flush(f)
    PROVE  TypeOK'
<1>1. CASE FlushNothing(f)
  BY <1>1, ReturnType DEF FlushNothing, TypeOK
<1>2. CASE Swap(f)
  BY <1>2 DEF Swap, TypeOK
<1>3. CASE Post(f)
  BY <1>3, ReturnType, DeliveredType DEF Post, QueueAfterPost, TypeOK
<1>4. CASE PostFails(f)
  BY <1>4, ReturnType, InHandType DEF PostFails, QueueAfterFailure, TypeOK
<1>5. CASE DumpsRaises(f)
  <2>1. RaisedIn(f) \subseteq Threads
    BY DEF RaisedIn
  <2>2. QED BY <1>5, <2>1, ReturnType, InHandType DEF DumpsRaises, TypeOK
<1>6. QED BY <1>1, <1>2, <1>3, <1>4, <1>5 DEF Flush

LEMMA TypeStep == TypeOK /\ [Next]_vars => TypeOK'
<1> SUFFICES ASSUME TypeOK, [Next]_vars PROVE TypeOK'
  OBVIOUS
<1>1. ASSUME NEW t \in Threads, NEW e \in Events, Record(t, e) PROVE TypeOK'
  BY <1>1 DEF Record, TypeOK
<1>2. ASSUME NEW t \in Threads, CallFlush(t) \/ CallShutdown(t) PROVE TypeOK'
  BY <1>2 DEF CallFlush, CallShutdown, TypeOK, PCs
<1>3. CASE Tick \/ DaemonEnds
  <2>1. \E p \in PCs : pc' = [pc EXCEPT ![Daemon] = p]
    BY <1>3 DEF Tick, DaemonEnds, PCs
  <2>2. UNCHANGED <<queue, stop, hand, process, recorded, received, lost, raised>>
    BY <1>3 DEF Tick, DaemonEnds
  <2>3. QED BY <2>1, <2>2 DEF TypeOK
<1>4. CASE \E f \in Flushers : Flush(f)
  BY <1>4, FlushTypes
<1>5. CASE Exit
  BY <1>5 DEF Exit, TypeOK, PCs
<1>6. CASE Exited
  <2>1. InHand(Daemon) \subseteq Events
    BY InHandType DEF Flushers
  <2>2. /\ process' = "exited" /\ hand' = [hand EXCEPT ![Daemon] = << >>]
        /\ UNCHANGED <<queue, stop, pc, recorded, raised>>
    BY <1>6 DEF Exited
  <2>3. received' \in [Events -> Nat] /\ lost' \subseteq Events
    BY <1>6, <2>1, DeliveredType DEF Exited, TypeOK
  <2>4. hand' \in [Flushers -> Seq(Events)]
    <3>1. << >> \in Seq(Events) /\ hand \in [Flushers -> Seq(Events)]
      BY DEF TypeOK
    <3>2. QED BY <2>2, <3>1
  <2>5. QED BY <2>2, <2>3, <2>4 DEF TypeOK
<1>7. CASE Kill
  BY <1>7 DEF Kill, TypeOK
<1>8. CASE UNCHANGED vars
  BY <1>8 DEF vars, TypeOK
<1>9. QED BY <1>1, <1>2, <1>3, <1>4, <1>5, <1>6, <1>7, <1>8 DEF Next

\* The state of the SDK is well typed.
THEOREM SdkTypes == Spec => []TypeOK
BY TypeInit, TypeStep, PTL DEF Spec

----------------------------------------------------------------------------
(* Moves. *)

LEMMA SdkInit == Init => SdkInv
<1> SUFFICES ASSUME Init PROVE SdkInv
  OBVIOUS
<1>1. TypeOK
  BY TypeInit
<1>2. Distinct(queue) /\ \A f \in Flushers : Distinct(hand[f])
  BY DEF Init, Distinct
<1>3. \A e \in Events : At(e)
  BY DEF Init, At, Nowhere, InNoHand, InHand, Queued
<1>4. QED BY <1>1, <1>2, <1>3 DEF SdkInv

\* Nothing that places an event changes.
LEMMA NoMove ==
    ASSUME SdkInv, TypeOK', UNCHANGED <<queue, hand, recorded, received, lost>>
    PROVE  SdkInv'
<1>1. \A e \in Events : At(e)'
  BY DEF SdkInv, At, Nowhere, AtQueue, AtHand, AtMonitor, AtLost, InNoHand, InHand, Queued
<1>2. QED BY <1>1 DEF SdkInv, Distinct

\* The batch of f leaves its hand: it was received, or is lost.
LEMMA BatchLeaves ==
    ASSUME SdkInv, TypeOK', NEW f \in Flushers,
           hand' = [hand EXCEPT ![f] = << >>],
           UNCHANGED <<queue, recorded>>,
           \/ received' = Delivered(InHand(f)) /\ UNCHANGED lost
           \/ lost' = lost \cup InHand(f) /\ UNCHANGED received
    PROVE  SdkInv'
<1>1. /\ InHand(f)' = {}
      /\ \A g \in Flushers \ {f} : InHand(g)' = InHand(g)
      /\ Queued' = Queued
  BY DEF InHand, Queued, SdkInv, TypeOK
<1>2. \A g \in Flushers : Distinct(hand[g])'
  BY DEF Distinct, SdkInv, TypeOK
<1>3. ASSUME NEW e \in Events, e \in InHand(f) PROVE At(e)'
  <2>1. e \in recorded /\ AtHand(e, f)
    BY <1>3 DEF SdkInv, At, Nowhere, AtQueue, AtHand, AtMonitor, AtLost, InNoHand
  <2>2. e \notin Queued' /\ InNoHand(e)'
    BY <1>1, <2>1 DEF AtHand, InNoHand
  <2>3. received[e] = 0 /\ e \notin lost /\ TypeOK
    BY <2>1 DEF AtHand, SdkInv
  <2>4. CASE received' = Delivered(InHand(f)) /\ UNCHANGED lost
    <3>1. received'[e] = 0 + 1
      BY <1>3, <2>3, <2>4, DeliveredType
    <3>2. QED BY <2>1, <2>2, <2>3, <2>4, <3>1 DEF At, AtMonitor
  <2>5. CASE lost' = lost \cup InHand(f) /\ UNCHANGED received
    BY <1>3, <2>1, <2>2, <2>3, <2>5 DEF At, AtLost
  <2>6. QED BY <2>4, <2>5
<1>4. ASSUME NEW e \in Events, e \notin InHand(f) PROVE At(e)'
  <2>1. received'[e] = received[e] /\ (e \in lost' <=> e \in lost)
    BY <1>4, DeliveredType DEF SdkInv
  <2>2. \A g \in Flushers : e \in InHand(g)' <=> e \in InHand(g)
    BY <1>1, <1>4
  <2>3. At(e) /\ (e \in recorded' <=> e \in recorded)
    BY DEF SdkInv
  <2>4. QED
    BY <1>1, <2>1, <2>2, <2>3 DEF At, Nowhere, AtQueue, AtHand, AtMonitor, AtLost, InNoHand
<1>5. QED BY <1>2, <1>3, <1>4 DEF SdkInv, Distinct

LEMMA SwapMoves ==
    ASSUME SdkInv, TypeOK', NEW f \in Flushers, Swap(f)
    PROVE  SdkInv'
<1>1. /\ hand[f] = << >> /\ hand' = [hand EXCEPT ![f] = queue] /\ queue' = << >>
      /\ UNCHANGED <<recorded, received, lost>>
  BY DEF Swap
<1>2. /\ InHand(f) = {} /\ InHand(f)' = Queued /\ Queued' = {}
      /\ \A g \in Flushers \ {f} : InHand(g)' = InHand(g)
  BY <1>1 DEF InHand, Queued, SdkInv, TypeOK
<1>3. Distinct(queue)' /\ \A g \in Flushers : Distinct(hand[g])'
  BY <1>1 DEF Distinct, SdkInv, TypeOK
<1>4. ASSUME NEW e \in Events, e \in Queued PROVE At(e)'
  <2>1. e \in recorded /\ AtQueue(e)
    BY <1>4 DEF SdkInv, At, Nowhere, AtQueue, AtHand, AtMonitor, AtLost
  <2>2. AtHand(e, f)'
    BY <1>1, <1>2, <2>1 DEF AtQueue, AtHand, InNoHand
  <2>3. QED BY <1>1, <2>1, <2>2 DEF At
<1>5. ASSUME NEW e \in Events, e \notin Queued PROVE At(e)'
  <2>1. \A g \in Flushers : e \in InHand(g)' <=> e \in InHand(g)
    BY <1>2, <1>5
  <2>2. At(e)
    BY DEF SdkInv
  <2>3. QED
    BY <1>1, <1>2, <1>5, <2>1, <2>2
    DEF At, Nowhere, AtQueue, AtHand, AtMonitor, AtLost, InNoHand
<1>6. QED BY <1>3, <1>4, <1>5 DEF SdkInv

LEMMA RecordMoves ==
    ASSUME SdkInv, TypeOK', NEW t \in Threads, NEW e \in Events, Record(t, e)
    PROVE  SdkInv'
<1>1. /\ e \notin recorded /\ recorded' = recorded \cup {e} /\ queue' = Append(queue, e)
      /\ UNCHANGED <<hand, received, lost>>
  BY DEF Record
<1>2. queue \in Seq(Events) /\ Nowhere(e)
  BY <1>1 DEF SdkInv, TypeOK, At
<1>3. Queued' = Queued \cup {e}
  BY <1>1, <1>2 DEF Queued
<1>4. \A f \in Flushers : InHand(f)' = InHand(f)
  BY <1>1 DEF InHand
<1>5. Distinct(queue)'
  BY <1>1, <1>2 DEF Nowhere, Queued, Distinct, SdkInv
<1>6. AtQueue(e)'
  BY <1>1, <1>2, <1>3, <1>4 DEF Nowhere, AtQueue, InNoHand
<1>7. ASSUME NEW d \in Events, d # e PROVE At(d)'
  <2>1. At(d)
    BY DEF SdkInv
  <2>2. QED
    BY <1>1, <1>3, <1>4, <1>7, <2>1
    DEF At, Nowhere, AtQueue, AtHand, AtMonitor, AtLost, InNoHand
<1>8. At(e)'
  BY <1>1, <1>6 DEF At
<1>9. QED BY <1>1, <1>5, <1>7, <1>8 DEF SdkInv, Distinct

LEMMA FlushMoves ==
    ASSUME SdkInv, TypeOK', NEW f \in Flushers, Flush(f)
    PROVE  SdkInv'
<1>1. CASE FlushNothing(f)
  BY <1>1, NoMove DEF FlushNothing
<1>2. CASE Swap(f)
  BY <1>2, SwapMoves
<1>3. CASE Post(f)
  BY <1>3, BatchLeaves DEF Post, QueueAfterPost
<1>4. CASE PostFails(f)
  BY <1>4, BatchLeaves DEF PostFails, QueueAfterFailure
<1>5. CASE DumpsRaises(f)
  BY <1>5, BatchLeaves DEF DumpsRaises
<1>6. QED BY <1>1, <1>2, <1>3, <1>4, <1>5 DEF Flush

LEMMA SdkStep == SdkInv /\ [Next]_vars => SdkInv'
<1> SUFFICES ASSUME SdkInv, [Next]_vars PROVE SdkInv'
  OBVIOUS
<1>0. TypeOK'
  BY TypeStep DEF SdkInv
<1>1. ASSUME NEW t \in Threads, NEW e \in Events, Record(t, e) PROVE SdkInv'
  BY <1>0, <1>1, RecordMoves
<1>2. ASSUME NEW t \in Threads, CallFlush(t) \/ CallShutdown(t) PROVE SdkInv'
  BY <1>0, <1>2, NoMove DEF CallFlush, CallShutdown
<1>3. CASE Tick \/ DaemonEnds
  BY <1>0, <1>3, NoMove DEF Tick, DaemonEnds
<1>4. CASE \E f \in Flushers : Flush(f)
  BY <1>0, <1>4, FlushMoves
<1>5. CASE Exit \/ Kill
  BY <1>0, <1>5, NoMove DEF Exit, Kill
<1>6. CASE Exited
  <2>1. Daemon \in Flushers
    BY DEF Flushers
  <2>2. /\ hand' = [hand EXCEPT ![Daemon] = << >>] /\ UNCHANGED <<queue, recorded>>
        /\ \/ received' = Delivered(InHand(Daemon)) /\ UNCHANGED lost
           \/ lost' = lost \cup InHand(Daemon) /\ UNCHANGED received
    BY <1>6 DEF Exited
  <2>3. QED BY <1>0, <2>1, <2>2, BatchLeaves
<1>7. CASE UNCHANGED vars
  BY <1>0, <1>7, NoMove DEF vars
<1>8. QED BY <1>1, <1>2, <1>3, <1>4, <1>5, <1>6, <1>7 DEF Next

LEMMA SdkInvariant == Spec => []SdkInv
BY SdkInit, SdkStep, PTL DEF Spec

----------------------------------------------------------------------------
(* Counting. *)

LEMMA CopiesOnce ==
    ASSUME NEW s \in Seq(Events), Distinct(s), NEW e
    PROVE  Copies(s, e) = IF \E i \in DOMAIN s : s[i] = e THEN 1 ELSE 0
<1> DEFINE at == {i \in DOMAIN s : s[i] = e}
<1>1. CASE \E i \in DOMAIN s : s[i] = e
  <2>1. PICK i \in DOMAIN s : s[i] = e
    BY <1>1
  <2>2. at = {i}
    BY <2>1 DEF Distinct
  <2>3. QED BY <1>1, <2>2, FS_Singleton DEF Copies
<1>2. CASE ~ \E i \in DOMAIN s : s[i] = e
  <2>1. at = {}
    BY <1>2
  <2>2. QED BY <1>2, <2>1, FS_EmptySet DEF Copies
<1>3. QED BY <1>1, <1>2

LEMMA HoldersOnce ==
    ASSUME NEW e, NEW f \in Flushers, AtHand(e, f)
    PROVE  Cardinality({g \in Flushers : e \in InHand(g)}) = 1
<1>1. {g \in Flushers : e \in InHand(g)} = {f}
  BY DEF AtHand
<1>2. QED BY <1>1, FS_Singleton

LEMMA HoldersNone ==
    ASSUME NEW e, InNoHand(e)
    PROVE  Cardinality({g \in Flushers : e \in InHand(g)}) = 0
<1>1. {g \in Flushers : e \in InHand(g)} = {}
  BY DEF InNoHand
<1>2. QED BY <1>1, FS_EmptySet

\* However flushes interleave, an event is in one place: no two batches carry
\* it and none drops it.
THEOREM OnePlaceAlways == Spec => []OnePlace
<1>1. ASSUME SdkInv, NEW e \in recorded
      PROVE  LET holders == {f \in Flushers : e \in InHand(f)}
             IN  /\ Copies(queue, e) + Cardinality(holders) + received[e]
                      + (IF e \in lost THEN 1 ELSE 0) = 1
                 /\ \A f \in holders : Copies(hand[f], e) = 1
  <2> DEFINE holders == {f \in Flushers : e \in InHand(f)}
  <2>1. e \in Events /\ At(e) /\ queue \in Seq(Events) /\ Distinct(queue)
    BY <1>1 DEF SdkInv, TypeOK
  <2>2. Copies(queue, e) = IF e \in Queued THEN 1 ELSE 0
    BY <2>1, CopiesOnce DEF Queued
  <2>3. ASSUME NEW f \in holders PROVE Copies(hand[f], e) = 1
    <3>1. f \in Flushers /\ e \in InHand(f) /\ hand[f] \in Seq(Events) /\ Distinct(hand[f])
      BY <1>1, <2>3 DEF SdkInv, TypeOK
    <3>2. \E i \in DOMAIN hand[f] : hand[f][i] = e
      BY <3>1 DEF InHand
    <3>3. QED BY <3>1, <3>2, CopiesOnce
  <2>4. Copies(queue, e) + Cardinality(holders) + received[e]
          + (IF e \in lost THEN 1 ELSE 0) = 1
    <3>1. CASE AtQueue(e)
      <4>1. Cardinality(holders) = 0
        BY <3>1, HoldersNone DEF AtQueue
      <4>2. QED BY <2>2, <3>1, <4>1 DEF AtQueue
    <3>2. CASE \E f \in Flushers : AtHand(e, f)
      <4>1. Cardinality(holders) = 1
        BY <3>2, HoldersOnce
      <4>2. QED BY <2>2, <3>2, <4>1 DEF AtHand
    <3>3. CASE AtMonitor(e)
      <4>1. Cardinality(holders) = 0
        BY <3>3, HoldersNone DEF AtMonitor
      <4>2. QED BY <2>2, <3>3, <4>1 DEF AtMonitor
    <3>4. CASE AtLost(e)
      <4>1. Cardinality(holders) = 0
        BY <3>4, HoldersNone DEF AtLost
      <4>2. QED BY <2>2, <3>4, <4>1 DEF AtLost
    <3>5. QED BY <2>1, <3>1, <3>2, <3>3, <3>4 DEF At
  <2>5. QED BY <2>3, <2>4
<1>2. SdkInv => OnePlace
  BY <1>1 DEF OnePlace
<1>3. QED BY <1>2, SdkInvariant, PTL

----------------------------------------------------------------------------
(* The refinement. *)

FateBar == [e \in Events |-> Fate(e)]

LEMMA FateHeld ==
    ASSUME SdkInv, NEW f \in Flushers, NEW e \in InHand(f)
    PROVE  e \in Events /\ e \in recorded /\ received[e] = 0 /\ e \notin lost /\ Fate(e) = "held"
<1>1. e \in Events /\ At(e)
  BY InHandType DEF SdkInv
<1>2. e \in recorded /\ AtHand(e, f)
  BY <1>1 DEF At, Nowhere, AtQueue, AtHand, AtMonitor, AtLost, InNoHand
<1>3. QED BY <1>1, <1>2 DEF AtHand, Fate

LEMMA FateSame ==
    ASSUME UNCHANGED <<recorded, received, lost>>
    PROVE  FateBar' = FateBar
BY DEF FateBar, Fate

\* The fate of an event depends on that event's places only.
LEMMA FateFrame ==
    ASSUME NEW e, e \in recorded' <=> e \in recorded, e \in lost' <=> e \in lost,
           received'[e] = received[e]
    PROVE  Fate(e)' = Fate(e)
<1>1. CASE e \notin recorded
  BY <1>1 DEF Fate
<1>2. CASE e \in recorded /\ received[e] = 1 /\ e \notin lost
  BY <1>2 DEF Fate
<1>3. CASE e \in recorded /\ received[e] = 0 /\ e \in lost
  BY <1>3 DEF Fate
<1>4. CASE e \in recorded /\ received[e] = 0 /\ e \notin lost
  BY <1>4 DEF Fate
<1>5. CASE /\ e \in recorded
           /\ ~(received[e] = 1 /\ e \notin lost) /\ ~(received[e] = 0)
  BY <1>5 DEF Fate
<1>6. QED BY <1>1, <1>2, <1>3, <1>4, <1>5

LEMMA BatchSettles ==
    ASSUME SdkInv, NEW f \in Flushers, UNCHANGED recorded,
           \/ received' = Delivered(InHand(f)) /\ UNCHANGED lost
           \/ lost' = lost \cup InHand(f) /\ UNCHANGED received
    PROVE  [Channel!Next]_FateBar
<1>0. InHand(f) \in SUBSET Events /\ {} \in SUBSET Events
  BY InHandType DEF SdkInv
<1>1. \A e \in InHand(f) : FateBar[e] = "held"
  BY <1>0, FateHeld DEF FateBar
<1>2. CASE received' = Delivered(InHand(f)) /\ UNCHANGED lost
  <2>1. ASSUME NEW e \in InHand(f) PROVE Fate(e)' = "delivered"
    <3>1. received'[e] = 0 + 1
      BY <1>0, <1>2, FateHeld, DeliveredType DEF SdkInv
    <3>2. QED BY <1>2, <3>1, FateHeld DEF Fate
  <2>2. ASSUME NEW e \in Events \ InHand(f) PROVE Fate(e)' = Fate(e)
    <3>1. received'[e] = received[e]
      BY <1>2, DeliveredType DEF SdkInv
    <3>2. QED BY <1>2, <3>1, FateFrame
  <2>3. Channel!Settle(InHand(f), {})
    BY <1>0, <1>1, <2>1, <2>2 DEF Channel!Settle, FateBar
  <2>4. QED BY <1>0, <2>3 DEF Channel!Next
<1>3. CASE lost' = lost \cup InHand(f) /\ UNCHANGED received
  <2>1. ASSUME NEW e \in InHand(f) PROVE Fate(e)' = "lost"
    <3>1. e \in recorded' /\ received'[e] = 0 /\ e \in lost'
      BY <1>3, <2>1, FateHeld
    <3>2. QED BY <3>1 DEF Fate
  <2>2. ASSUME NEW e \in Events \ InHand(f) PROVE Fate(e)' = Fate(e)
    BY <1>3, <2>2, FateFrame
  <2>3. Channel!Settle({}, InHand(f))
    BY <1>0, <1>1, <2>1, <2>2 DEF Channel!Settle, FateBar
  <2>4. QED BY <1>0, <2>3 DEF Channel!Next
<1>4. QED BY <1>2, <1>3

LEMMA RecordAccepts ==
    ASSUME SdkInv, NEW t \in Threads, NEW e \in Events, Record(t, e)
    PROVE  [Channel!Next]_FateBar
<1>1. /\ e \notin recorded /\ recorded' = recorded \cup {e}
      /\ UNCHANGED <<received, lost>>
  BY DEF Record
<1>2. At(e)
  BY DEF SdkInv
<1>3. e \in recorded' /\ received'[e] = 0 /\ e \notin lost'
  BY <1>1, <1>2 DEF At, Nowhere
<1>4. Fate(e) = "new" /\ Fate(e)' = "held"
  BY <1>1, <1>3 DEF Fate
<1>5. \A d \in Events \ {e} : Fate(d)' = Fate(d)
  BY <1>1, FateFrame
<1>6. Channel!Accept(e)
  BY <1>4, <1>5 DEF Channel!Accept, FateBar
<1>7. QED BY <1>6 DEF Channel!Next

LEMMA ChannelStep == SdkInv /\ [Next]_vars => [Channel!Next]_FateBar
<1> SUFFICES ASSUME SdkInv, [Next]_vars PROVE [Channel!Next]_FateBar
  OBVIOUS
<1>1. ASSUME NEW t \in Threads, NEW e \in Events, Record(t, e) PROVE [Channel!Next]_FateBar
  BY <1>1, RecordAccepts
<1>2. ASSUME NEW f \in Flushers, Flush(f) PROVE [Channel!Next]_FateBar
  <2>1. CASE FlushNothing(f) \/ Swap(f)
    BY <2>1, FateSame DEF FlushNothing, Swap
  <2>2. CASE Post(f) \/ PostFails(f) \/ DumpsRaises(f)
    BY <2>2, BatchSettles DEF Post, PostFails, DumpsRaises
  <2>3. QED BY <1>2, <2>1, <2>2 DEF Flush
<1>3. CASE Exited
  <2>1. Daemon \in Flushers
    BY DEF Flushers
  <2>2. QED BY <1>3, <2>1, BatchSettles DEF Exited
<1>4. CASE \/ Tick \/ DaemonEnds \/ Exit \/ Kill \/ UNCHANGED vars
           \/ \E t \in Threads : CallFlush(t) \/ CallShutdown(t)
  BY <1>4, FateSame DEF Tick, DaemonEnds, Exit, Kill, vars, CallFlush, CallShutdown
<1>5. QED BY <1>1, <1>2, <1>3, <1>4 DEF Next

\* The SDK delivers an event at most once, and never after it gave it up.
THEOREM SdkImplementsChannel == Spec => ChannelSpec
<1>1. Init => Channel!Init
  <2>1. Init => \A e \in Events : Fate(e) = "new"
    BY DEF Init, Fate
  <2>2. QED BY <2>1 DEF Channel!Init
<1>2. SdkInv /\ [Next]_vars => [Channel!Next]_FateBar
  BY ChannelStep
<1>3. QED BY <1>1, <1>2, SdkInvariant, PTL DEF Spec, ChannelSpec, Channel!Spec, FateBar
==============================================================================
