-------------------------- MODULE ModelFanoutProofs --------------------------
(****************************************************************************)
(* A merged list of models is complete and in order: for any providers,     *)
(* labels and lists of items, in whichever order the fetches end.           *)
(*                                                                          *)
(* An item is a position <<fetch, place>>; the positions are ordered, and   *)
(* an item's rank is the number of items before it.  Ranks differ and every *)
(* rank below the number of items is taken, so the list by ranks holds each *)
(* item once, the earlier ones first.  Of the items with one key there is   *)
(* one with the least rank, and that one is listed.                         *)
(*                                                                          *)
(* What the answer was made of does not change after it was given: that is  *)
(* the invariant, and the rest is about one state.                          *)
(****************************************************************************)
EXTENDS ModelFanout, FiniteSetTheorems, TLAPS

(* Positions and their ranks. *)

\* A set of numbers that is not empty has a least one.
LEMMA LeastNumber ==
    ASSUME NEW T \in SUBSET Nat, T # {}
    PROVE  \E n \in T : \A m \in T : n <= m
<1> DEFINE R == OpToRel(<, Nat)
<1>1. IsWellFoundedOn(R, Nat)
  BY NatLessThanWellFounded, Zenon
<1>2. \A m, n \in Nat : <<m, n>> \in R <=> m < n
  BY DEF OpToRel
<1> HIDE DEF R
<1>3. PICK n \in T : \A m \in T : ~(<<m, n>> \in R)
  BY <1>1, WFMin, Zenon
<1>4. \A m \in T : n <= m
  <2> TAKE m \in T
  <2>1. m \in Nat /\ n \in Nat /\ ~(m < n)
    BY <1>2, <1>3
  <2>2. QED BY <2>1
<1>5. QED BY <1>4

\* Where an item or a fetch can stand.
Positions == Nat \X Nat

LEMMA PrecedesOrders ==
    /\ \A a, b, c \in Positions : Precedes(a, b) /\ Precedes(b, c) => Precedes(a, c)
    /\ \A a, b \in Positions : a # b => Precedes(a, b) \/ Precedes(b, a)
    /\ \A a \in Positions : ~Precedes(a, a)
BY DEF Positions, Precedes, Place

\* What comes before has the lower rank.
LEMMA RanksInOrder ==
    ASSUME NEW P \in SUBSET Positions, IsFiniteSet(P), NEW a \in P, NEW b \in P
    PROVE  /\ Rank(a, P) \in Nat
           /\ Precedes(a, b) => Rank(a, P) < Rank(b, P)
<1> DEFINE A(x) == {y \in P : Precedes(y, x)}
<1>1. Rank(a, P) = Cardinality(A(a)) /\ Rank(b, P) = Cardinality(A(b))
  BY DEF Rank
<1>2. A(a) \in SUBSET P /\ A(b) \in SUBSET P
  OBVIOUS
<1>3. ASSUME Precedes(a, b) PROVE A(a) \in SUBSET A(b) /\ a \in A(b) /\ a \notin A(a)
  BY <1>3, PrecedesOrders
<1> HIDE DEF A
<1>4. /\ IsFiniteSet(A(a)) /\ IsFiniteSet(A(b))
      /\ Cardinality(A(a)) \in Nat /\ Cardinality(A(b)) \in Nat
  BY <1>2, FS_Subset, FS_CardinalityType
<1>5. ASSUME Precedes(a, b) PROVE Cardinality(A(a)) < Cardinality(A(b))
  <2>1. A(a) # A(b) /\ A(a) \in SUBSET A(b)
    BY <1>3, <1>5
  <2>2. QED BY <1>4, <2>1, FS_Subset
<1>6. QED BY <1>1, <1>4, <1>5

LEMMA RankBound ==
    ASSUME NEW P \in SUBSET Positions, IsFiniteSet(P), NEW a \in P
    PROVE  Rank(a, P) \in Nat /\ Rank(a, P) < Cardinality(P)
<1> DEFINE A == {b \in P : Precedes(b, a)}
           k == Cardinality(P)
<1>1. A \in SUBSET (P \ {a})
  BY PrecedesOrders
<1>2. IsFiniteSet(P \ {a}) /\ Cardinality(P \ {a}) = k - 1 /\ k \in Nat
  BY FS_RemoveElement, FS_CardinalityType
<1>3. Rank(a, P) = Cardinality(A)
  BY DEF Rank
<1> HIDE DEF A
<1>4. IsFiniteSet(A) /\ Cardinality(A) <= k - 1 /\ Cardinality(A) \in Nat
  BY <1>1, <1>2, FS_Subset, FS_CardinalityType
<1> HIDE DEF k
<1>5. QED BY <1>2, <1>3, <1>4 DEF k

LEMMA RanksDiffer ==
    ASSUME NEW P \in SUBSET Positions, IsFiniteSet(P)
    PROVE  \A a, b \in P : /\ Rank(a, P) = Rank(b, P) => a = b
                           /\ Rank(a, P) < Rank(b, P) => Precedes(a, b)
<1> SUFFICES ASSUME NEW a \in P, NEW b \in P
             PROVE  /\ Rank(a, P) = Rank(b, P) => a = b
                    /\ Rank(a, P) < Rank(b, P) => Precedes(a, b)
  OBVIOUS
<1>1. a # b => Precedes(a, b) \/ Precedes(b, a)
  BY PrecedesOrders
<1>2. /\ Rank(a, P) \in Nat /\ Rank(b, P) \in Nat
      /\ Precedes(a, b) => Rank(a, P) < Rank(b, P)
      /\ Precedes(b, a) => Rank(b, P) < Rank(a, P)
  BY RanksInOrder
<1>3. QED BY <1>1, <1>2

\* Every rank below the number of positions is taken.
LEMMA RanksTaken ==
    ASSUME NEW P \in SUBSET Positions, IsFiniteSet(P), NEW n \in 1 .. Cardinality(P)
    PROVE  \E a \in P : Rank(a, P) = n - 1
<1> DEFINE f == [a \in P |-> Rank(a, P) + 1]
           k == Cardinality(P)
<1>1. k \in Nat
  BY FS_CardinalityType
<1>2. \A a \in P : f[a] \in 1 .. k
  BY <1>1, RankBound
<1>3. \A a, b \in P : f[a] = f[b] => a = b
  <2> TAKE a, b \in P
  <2>1. Rank(a, P) \in Nat /\ Rank(b, P) \in Nat
    BY RanksInOrder
  <2>2. QED BY <2>1, RanksDiffer
<1>4. f \in Injection(P, 1 .. k)
  <2>1. f \in [P -> 1 .. k]
    BY <1>2
  <2>2. QED BY <1>3, <2>1 DEF Injection, IsInjective
<1>5. IsFiniteSet(1 .. k) /\ Cardinality(1 .. k) = k
  <2> HIDE DEF k
  <2>1. QED BY <1>1, FS_Interval
<1> HIDE DEF f
<1>6. f \in Surjection(P, 1 .. k)
  BY <1>4, <1>5, FS_Injection
<1>7. PICK a \in P : f[a] = n
  BY <1>6 DEF Surjection
<1>8. Rank(a, P) \in Nat
  BY RanksInOrder
<1>9. QED BY <1>7, <1>8 DEF f

\* InOrder lists each position once, the earlier ones first.
LEMMA Ordered ==
    ASSUME NEW P \in SUBSET Positions, IsFiniteSet(P)
    PROVE  LET o == InOrder(P)
           IN  /\ o \in Seq(P) /\ Len(o) = Cardinality(P)
               /\ DOMAIN o = 1 .. Cardinality(P)
               /\ \A n \in DOMAIN o : o[n] \in P /\ Rank(o[n], P) = n - 1
               /\ \A a \in P : \E n \in DOMAIN o : o[n] = a
               /\ \A m, n \in DOMAIN o : m < n => Precedes(o[m], o[n])
<1> DEFINE o == InOrder(P)
           k == Cardinality(P)
<1>1. k \in Nat
  BY FS_CardinalityType
<1>2. o = [n \in 1 .. k |-> CHOOSE a \in P : Rank(a, P) = n - 1]
  BY DEF InOrder
<1>3. \A n \in 1 .. k : o[n] \in P /\ Rank(o[n], P) = n - 1
  BY <1>2, RanksTaken
<1>4. DOMAIN o = 1 .. k
  BY <1>2
<1> HIDE DEF o
<1>5. o \in Seq(P) /\ Len(o) = k
  <2> HIDE DEF k
  <2>1. o \in [1 .. k -> P]
    BY <1>2, <1>3
  <2>2. QED BY <1>1, <2>1
<1>6. \A m, n \in 1 .. k : m < n => Precedes(o[m], o[n])
  <2> TAKE m, n \in 1 .. k
  <2>1. m - 1 < n - 1 <=> m < n
    OBVIOUS
  <2>2. QED BY <1>3, <2>1, RanksDiffer
<1>7. \A a \in P : \E n \in 1 .. k : o[n] = a
  <2> TAKE a \in P
  <2> DEFINE n == Rank(a, P) + 1
  <2>1. n \in 1 .. k /\ n - 1 = Rank(a, P)
    BY <1>1, RankBound
  <2> HIDE DEF n
  <2>2. o[n] = a
    BY <1>3, <2>1, RanksDiffer
  <2>3. QED BY <2>1, <2>2
<1>8. QED BY <1>3, <1>4, <1>5, <1>6, <1>7 DEF o

----------------------------------------------------------------------------
(* The fetches. *)

\* A fetch is over or pending, the answers are lists of items.
Typed ==
    /\ upstreams \in Configs
    /\ kind \in {"list", "check"}
    /\ pc \in {"idle", "gather", "done"}
    /\ asked \in Seq(Providers)
    /\ outcome \in Seq(Outcomes \cup {Pending}) /\ Len(outcome) = Len(asked)
    /\ arrived \in Seq(DOMAIN asked)
    /\ pc = "idle" => arrived = << >> /\ asked = << >>

LEMMA ConfigsType == Configs \subseteq Seq(Providers)
BY FanoutAssumption

LEMMA TypedInit == Init => Typed
BY DEF Init, Typed

LEMMA TypedStep == Typed /\ [Next]_vars => Typed'
<1> SUFFICES ASSUME Typed, [Next]_vars PROVE Typed'
  OBVIOUS
<1> DEFINE O == Outcomes \cup {Pending}
<1>1. CASE Refuse
  BY <1>1 DEF Refuse, Typed
<1>2. CASE Ask
  <2>1. /\ pc' = "gather" /\ asked' = upstreams /\ UNCHANGED <<upstreams, kind, arrived>>
        /\ outcome' = [i \in DOMAIN upstreams |-> Pending] /\ pc = "idle"
    BY <1>2 DEF Ask
  <2>2. upstreams \in Seq(Providers)
    BY ConfigsType DEF Typed
  <2>3. outcome' \in Seq(O) /\ Len(outcome') = Len(upstreams)
    <3>1. Pending \in O
      OBVIOUS
    <3>2. DOMAIN upstreams = 1 .. Len(upstreams) /\ Len(upstreams) \in Nat
      BY <2>2
    <3>3. outcome' = [i \in 1 .. Len(upstreams) |-> Pending]
      BY <2>1, <3>2
    <3> HIDE DEF O
    <3>4. QED BY <3>1, <3>2, <3>3
  <2>4. arrived' \in Seq(DOMAIN asked')
    BY <2>1 DEF Typed
  <2>5. QED BY <2>1, <2>2, <2>3, <2>4 DEF Typed
<1>3. ASSUME NEW i \in DOMAIN asked, NEW o \in Outcomes, Fetched(i, o), pc' \in {"gather", "done"}
      PROVE  Typed'
  <2>1. /\ outcome' = [outcome EXCEPT ![i] = o] /\ arrived' = Append(arrived, i)
        /\ UNCHANGED <<upstreams, kind, asked>>
    BY <1>3 DEF Fetched
  <2>2. outcome' \in Seq(O) /\ Len(outcome') = Len(outcome)
    <3>1. outcome \in Seq(O) /\ o \in O
      BY DEF Typed
    <3> HIDE DEF O
    <3>2. Len(outcome) \in Nat /\ outcome \in [1 .. Len(outcome) -> O]
      BY <3>1
    <3> DEFINE k == Len(outcome)
    <3> HIDE DEF k
    <3>3. k \in Nat /\ outcome' \in [1 .. k -> O]
      BY <2>1, <3>1, <3>2 DEF k
    <3>4. outcome' \in Seq(O) /\ Len(outcome') = k
      BY <3>3
    <3>5. QED BY <3>4 DEF k
  <2>3. arrived' \in Seq(DOMAIN asked)
    <3>1. arrived \in Seq(DOMAIN asked)
      BY DEF Typed
    <3>2. QED BY <2>1, <3>1
  <2>4. QED BY <1>3, <2>1, <2>2, <2>3 DEF Typed
<1>4. ASSUME NEW i \in DOMAIN asked, NEW o \in Outcomes, FetchEnds(i, o) \/ FetchRaises(i, o)
      PROVE  Typed'
  <2>1. Fetched(i, o) /\ pc' \in {"gather", "done"}
    BY <1>4 DEF FetchEnds, FetchRaises, Fetched
  <2>2. QED BY <1>3, <2>1
<1>5. CASE MergeRaises
  BY <1>5 DEF MergeRaises, Typed
<1>6. CASE Merge
  BY <1>6 DEF Merge, Typed
<1>7. CASE Report
  BY <1>7 DEF Report, Typed
<1>8. CASE SaveSettings
  BY <1>8 DEF SaveSettings, Typed
<1>9. CASE UNCHANGED vars
  BY <1>9 DEF vars, Typed
<1>10. QED BY <1>1, <1>2, <1>4, <1>5, <1>6, <1>7, <1>8, <1>9 DEF Next

LEMMA TypedInvariant == Spec => []Typed
BY TypedInit, TypedStep, PTL DEF Spec

----------------------------------------------------------------------------
\* What a fetch has brought is a finite list of items.
LEMMA OutcomeType ==
    ASSUME Typed, NEW i \in DOMAIN asked
    PROVE  /\ i \in Nat /\ i \in DOMAIN outcome
           /\ asked[i] \in Providers /\ LabelOf[asked[i]] \in Labels
           /\ outcome[i].ids \in Seq(Ids \cup {NoId})
           /\ outcome[i].how \in {"models", "odd", "status", "network", "raised", "pending"}
<1>1. asked \in Seq(Providers) /\ i \in Nat /\ i \in DOMAIN outcome /\ asked[i] \in Providers
  BY DEF Typed
<1>2. LabelOf[asked[i]] \in Labels
  BY <1>1, FanoutAssumption
<1>3. outcome[i] \in Outcomes \cup {Pending}
  <2> DEFINE O == Outcomes \cup {Pending}
  <2>1. outcome \in Seq(O)
    BY DEF Typed
  <2> HIDE DEF O
  <2>2. outcome[i] \in O
    BY <1>1, <2>1
  <2>3. QED BY <2>2 DEF O
<1>4. ASSUME NEW ids \in ItemLists PROVE ids \in Seq(Ids \cup {NoId})
  <2>1. PICK n \in 0 .. MaxItems : ids \in [1 .. n -> Ids \cup {NoId}]
    BY DEF ItemLists
  <2>2. n \in Nat
    BY FanoutAssumption
  <2>3. QED BY <2>1, <2>2
<1>5. << >> \in Seq(Ids \cup {NoId})
  OBVIOUS
<1>6. outcome[i].ids \in ItemLists \/ outcome[i].ids = << >>
  BY <1>3 DEF Outcomes, Pending
<1>7. outcome[i].how \in {"models", "odd", "status", "network", "raised", "pending"}
  BY <1>3 DEF Outcomes, Pending
<1>8. outcome[i].ids \in Seq(Ids \cup {NoId})
  BY <1>4, <1>5, <1>6
<1>9. QED BY <1>1, <1>2, <1>7, <1>8

\* The fetches: one position each, in the order of the providers.
LEMMA FetchesType ==
    ASSUME Typed
    PROVE  /\ Fetches \in SUBSET Positions /\ IsFiniteSet(Fetches)
           /\ Cardinality(Fetches) = Len(asked) /\ DOMAIN asked = 1 .. Len(asked)
           /\ Len(asked) \in Nat
<1>1. DOMAIN asked = 1 .. Len(asked) /\ Len(asked) \in Nat
  BY DEF Typed
<1> DEFINE k == Len(asked)
<1>2. k \in Nat /\ Fetches = (1 .. k) \X {0}
  BY <1>1 DEF Fetches
<1> HIDE DEF k
<1>3. IsFiniteSet(1 .. k) /\ Cardinality(1 .. k) = k
  BY <1>2, FS_Interval
<1>4. IsFiniteSet(Fetches) /\ Cardinality(Fetches) = k * 1
  <2>1. IsFiniteSet({0}) /\ Cardinality({0}) = 1
    BY FS_Singleton, Zenon
  <2>2. /\ IsFiniteSet((1 .. k) \X {0})
        /\ Cardinality((1 .. k) \X {0}) = Cardinality(1 .. k) * Cardinality({0})
    BY <1>3, <2>1, FS_Product
  <2>3. QED BY <1>2, <1>3, <2>1, <2>2
<1>5. k * 1 = k
  BY <1>2
<1>6. Fetches \in SUBSET Positions
  BY <1>2 DEF Positions
<1>7. QED BY <1>1, <1>4, <1>5, <1>6 DEF k

LEMMA ItemsType ==
    ASSUME Typed
    PROVE  /\ Items \in SUBSET Positions
           /\ \A a \in Items : /\ a[1] \in DOMAIN asked /\ a[2] \in DOMAIN outcome[a[1]].ids
                               /\ Key(a) \in Labels \X (Ids \cup {NoId})
<1>1. ASSUME NEW a \in Items
      PROVE  /\ a \in Positions
             /\ a[1] \in DOMAIN asked /\ a[2] \in DOMAIN outcome[a[1]].ids
             /\ Key(a) \in Labels \X (Ids \cup {NoId})
  <2>1. PICK i \in DOMAIN asked : a \in {i} \X (DOMAIN outcome[i].ids)
    BY DEF Items
  <2>2. a = <<a[1], a[2]>> /\ a[1] = i /\ a[2] \in DOMAIN outcome[i].ids
    BY <2>1
  <2>3. /\ i \in Nat /\ LabelOf[asked[i]] \in Labels
        /\ outcome[i].ids \in Seq(Ids \cup {NoId})
    BY OutcomeType
  <2> DEFINE ids == outcome[i].ids
             S == Ids \cup {NoId}
  <2> HIDE DEF ids, S
  <2>4. ids \in Seq(S) /\ a[2] \in DOMAIN ids
    BY <2>2, <2>3 DEF ids, S
  <2>5. a[2] \in Nat /\ ids[a[2]] \in S
    BY <2>4
  <2>6. Key(a) = <<LabelOf[asked[i]], ids[a[2]]>>
    BY <2>2 DEF Key, ids
  <2>7. a \in Positions
    BY <2>2, <2>3, <2>5 DEF Positions
  <2>8. QED BY <2>2, <2>3, <2>5, <2>6, <2>7 DEF S
<1>2. QED BY <1>1

\* Finitely many fetches bring finitely many items.
LEMMA ItemsFinite ==
    ASSUME Typed
    PROVE  IsFiniteSet(Items)
<1> DEFINE Of(i) == {i} \X (DOMAIN outcome[i].ids)
           Upto(n) == UNION {Of(i) : i \in 1 .. n}
           T == {n \in 0 .. Len(asked) : ~IsFiniteSet(Upto(n))}
<1>1. DOMAIN asked = 1 .. Len(asked) /\ Len(asked) \in Nat
  BY FetchesType
<1>2. SUFFICES T = {}
  <2>1. Len(asked) \in 0 .. Len(asked)
    BY <1>1
  <2>2. Items = Upto(Len(asked))
    BY <1>1 DEF Items
  <2>3. QED BY <2>1, <2>2
<1>3. SUFFICES ASSUME T # {} PROVE FALSE
  OBVIOUS
<1>4. PICK n \in T : \A m \in T : n <= m
  <2>1. T \in SUBSET Nat
    BY <1>1
  <2> HIDE DEF T
  <2>2. QED BY <1>3, <2>1, LeastNumber
<1>5. n \in 0 .. Len(asked) /\ ~IsFiniteSet(Upto(n))
  OBVIOUS
<1>6. n # 0
  <2>1. Upto(0) = {}
    OBVIOUS
  <2>2. QED BY <1>5, <2>1, FS_EmptySet
<1>7. IsFiniteSet(Upto(n - 1))
  <2>1. n - 1 \notin T /\ n - 1 \in 0 .. Len(asked)
    <3> HIDE DEF T
    <3>1. QED BY <1>1, <1>4, <1>5, <1>6
  <2>2. QED BY <2>1
<1>8. IsFiniteSet(Of(n))
  <2>1. n \in DOMAIN asked
    BY <1>1, <1>5, <1>6
  <2>2. outcome[n].ids \in Seq(Ids \cup {NoId})
    BY <2>1, OutcomeType
  <2> DEFINE k == Len(outcome[n].ids)
  <2>3. DOMAIN outcome[n].ids = 1 .. k /\ k \in Nat
    BY <2>2
  <2> HIDE DEF k
  <2>4. IsFiniteSet(1 .. k) /\ IsFiniteSet({n})
    <3>1. IsFiniteSet(1 .. k)
      BY <2>3, FS_Interval
    <3>2. IsFiniteSet({n})
      BY FS_Singleton, Zenon
    <3>3. QED BY <3>1, <3>2
  <2>5. QED BY <2>3, <2>4, FS_Product
<1>9. Upto(n) = Upto(n - 1) \cup Of(n)
  <2>1. 1 .. n = (1 .. (n - 1)) \cup {n}
    BY <1>1, <1>5, <1>6
  <2> HIDE DEF Of
  <2>2. QED BY <2>1
<1> HIDE DEF Of, Upto
<1>10. QED BY <1>5, <1>7, <1>8, <1>9, FS_Union

----------------------------------------------------------------------------
(* The answer. *)

\* The lists an answer is made of.
LEMMA KeysType ==
    ASSUME Typed, NEW P \in SUBSET WithId
    PROVE  /\ Keys(P) \in Seq(Labels \X Ids)
           /\ DOMAIN Keys(P) = 1 .. Cardinality(P) /\ Len(Keys(P)) = Cardinality(P)
           /\ P \in SUBSET Positions /\ IsFiniteSet(P) /\ Cardinality(P) \in Nat
           /\ DOMAIN InOrder(P) = DOMAIN Keys(P)
           /\ \A n \in DOMAIN Keys(P) : Keys(P)[n] = Key(InOrder(P)[n])
<1>1. P \in SUBSET Items /\ P \in SUBSET Positions
  BY ItemsType DEF WithId
<1>2. IsFiniteSet(P) /\ Cardinality(P) \in Nat
  BY <1>1, ItemsFinite, FS_Subset, FS_CardinalityType
<1> DEFINE o == InOrder(P)
           k == Cardinality(P)
<1>3. o \in Seq(P) /\ DOMAIN o = 1 .. k /\ Len(o) = k /\ \A n \in 1 .. k : o[n] \in P
  BY <1>1, <1>2, Ordered
<1>4. \A a \in P : Key(a) \in Labels \X Ids
  BY <1>1, ItemsType DEF WithId
<1>5. Keys(P) = [n \in DOMAIN o |-> Key(o[n])]
  BY DEF Keys
<1>6. k \in Nat
  BY <1>2
<1> HIDE DEF o, k
<1>7. Keys(P) \in [1 .. k -> Labels \X Ids]
  BY <1>3, <1>4, <1>5
<1>8. Keys(P) \in Seq(Labels \X Ids) /\ Len(Keys(P)) = k
  BY <1>6, <1>7
<1>9. QED BY <1>1, <1>2, <1>3, <1>5, <1>8 DEF o, k

LEMMA FetchListType ==
    ASSUME Typed, NEW P \in SUBSET Fetches
    PROVE  /\ P \in SUBSET Positions /\ IsFiniteSet(P) /\ Cardinality(P) \in Nat
           /\ DOMAIN InOrder(P) = 1 .. Cardinality(P)
           /\ \A n \in DOMAIN InOrder(P) : InOrder(P)[n] \in P /\ InOrder(P)[n][1] \in DOMAIN asked
           /\ \A a \in P : \E n \in DOMAIN InOrder(P) : InOrder(P)[n] = a
<1>1. P \in SUBSET Positions /\ IsFiniteSet(P) /\ Cardinality(P) \in Nat
  BY FetchesType, FS_Subset, FS_CardinalityType
<1>2. /\ DOMAIN InOrder(P) = 1 .. Cardinality(P)
      /\ \A n \in DOMAIN InOrder(P) : InOrder(P)[n] \in P
      /\ \A a \in P : \E n \in DOMAIN InOrder(P) : InOrder(P)[n] = a
  BY <1>1, Ordered
<1>3. \A a \in P : a[1] \in DOMAIN asked
  BY DEF Fetches
<1>4. QED BY <1>1, <1>2, <1>3

LEMMA ErrorsType ==
    ASSUME Typed
    PROVE  Errors \in Seq(Labels)
<1> DEFINE o == InOrder(FailedFetches)
           k == Cardinality(FailedFetches)
<1>1. FailedFetches \in SUBSET Fetches
  BY DEF FailedFetches
<1>2. k \in Nat /\ DOMAIN o = 1 .. k /\ \A n \in 1 .. k : o[n][1] \in DOMAIN asked
  BY <1>1, FetchListType
<1>3. Errors = [n \in DOMAIN o |-> LabelOf[asked[o[n][1]]]]
  BY DEF Errors
<1> HIDE DEF o, k
<1>4. Errors \in [1 .. k -> Labels]
  BY <1>2, <1>3, OutcomeType
<1>5. QED BY <1>2, <1>4

LEMMA CheckRowsType ==
    ASSUME Typed
    PROVE  CheckRows \in Seq(Rows)
<1> DEFINE o == InOrder(Fetches)
           k == Cardinality(Fetches)
<1>1. k \in Nat /\ DOMAIN o = 1 .. k /\ \A n \in 1 .. k : o[n][1] \in DOMAIN asked
  BY FetchListType
<1>2. \A i \in DOMAIN asked : Row(i) \in Rows
  <2> TAKE i \in DOMAIN asked
  <2>1. asked[i] \in Providers /\ outcome[i].ids \in Seq(Ids \cup {NoId})
    BY OutcomeType
  <2>2. Len(outcome[i].ids) \in Nat
    BY <2>1
  <2>3. QED BY <2>1, <2>2 DEF Row, Rows
<1>3. CheckRows = [n \in DOMAIN o |-> Row(o[n][1])]
  BY DEF CheckRows
<1> HIDE DEF o, k
<1>4. CheckRows \in [1 .. k -> Rows]
  BY <1>1, <1>2, <1>3
<1>5. QED BY <1>1, <1>4

----------------------------------------------------------------------------
\* An answer that has been given stays what was put together from the fetches.
AnswerInv ==
    /\ answer.code \in {0, 200, 500, 502, 503}
    /\ answer.models \in Seq(Labels \X Ids)
    /\ answer.errors \in Seq(Labels)
    /\ answer.rows \in Seq(Rows)
    /\ (pc = "done" /\ kind = "list" /\ answer.code \in {200, 502}) =>
          answer.models = Keys(Listed) /\ answer.errors = Errors
    /\ (pc = "done" /\ kind = "check" /\ answer.code = 200) =>
          answer.models = Keys(WithId) /\ answer.rows = CheckRows

\* What an answer without a list says.
LEMMA PlainAnswer ==
    ASSUME NEW code \in {0, 500, 503}, answer' = [NoAnswer EXCEPT !.code = code]
    PROVE  AnswerInv'
<1>1. /\ answer'.code = code /\ answer'.models = << >> /\ answer'.errors = << >>
      /\ answer'.rows = << >>
  BY DEF NoAnswer
<1>2. << >> \in Seq(Labels \X Ids) /\ << >> \in Seq(Labels) /\ << >> \in Seq(Rows)
  OBVIOUS
<1>3. /\ answer'.models \in Seq(Labels \X Ids) /\ answer'.errors \in Seq(Labels)
      /\ answer'.rows \in Seq(Rows)'
  BY <1>1, <1>2 DEF Rows
<1>4. /\ answer'.code \in {0, 200, 500, 502, 503}
      /\ answer'.code # 200 /\ answer'.code # 502
  BY <1>1
<1>5. QED BY <1>3, <1>4, Zenon DEF AnswerInv

LEMMA SameFetches ==
    ASSUME UNCHANGED <<asked, outcome, arrived>>
    PROVE  /\ Keys(Listed)' = Keys(Listed) /\ Keys(WithId)' = Keys(WithId)
           /\ Errors' = Errors /\ CheckRows' = CheckRows
<1>1. Items' = Items /\ \A a : Key(a)' = Key(a)
  BY DEF Items, Key
<1>2. WithId' = WithId
  BY <1>1 DEF WithId
<1>3. Listed' = Listed
  BY <1>1, <1>2 DEF Listed, Precedes, Place
<1>4. InOrder(Listed)' = InOrder(Listed) /\ InOrder(WithId)' = InOrder(WithId)
  BY <1>2, <1>3
<1>5. FailedFetches' = FailedFetches /\ Fetches' = Fetches
  BY DEF FailedFetches, Fetches, Failed
<1>6. InOrder(FailedFetches)' = InOrder(FailedFetches) /\ InOrder(Fetches)' = InOrder(Fetches)
  BY <1>5
<1>7. QED BY <1>1, <1>4, <1>6 DEF Keys, Errors, CheckRows, Row, Failed

LEMMA AnswerStep == Typed /\ AnswerInv /\ [Next]_vars => AnswerInv'
<1> SUFFICES ASSUME Typed, AnswerInv, [Next]_vars PROVE AnswerInv'
  OBVIOUS
<1>1. CASE Refuse
  BY <1>1, PlainAnswer DEF Refuse
<1>2. CASE Ask
  BY <1>2 DEF Ask, AnswerInv
<1>3. ASSUME NEW i \in DOMAIN asked, NEW o \in Outcomes, FetchEnds(i, o) PROVE AnswerInv'
  <2>1. pc' = "gather" /\ answer' = answer
    BY <1>3 DEF FetchEnds, Fetched
  <2>2. QED BY <2>1 DEF AnswerInv
<1>4. ASSUME NEW i \in DOMAIN asked, NEW o \in Outcomes, FetchRaises(i, o) PROVE AnswerInv'
  BY <1>4, PlainAnswer DEF FetchRaises
<1>5. CASE MergeRaises
  BY <1>5, PlainAnswer DEF MergeRaises
<1>6. CASE Merge
  <2> DEFINE code == IF Listed = {} /\ FailedFetches # {} THEN 502 ELSE 200
  <2>1. /\ answer' = [code |-> code, models |-> Keys(Listed), errors |-> Errors, rows |-> << >>]
        /\ UNCHANGED <<asked, outcome, arrived, kind>> /\ kind = "list"
    BY <1>6 DEF Merge
  <2>2. code \in {200, 502}
    OBVIOUS
  <2> HIDE DEF code
  <2>3. /\ answer'.code \in {200, 502} /\ answer'.models = Keys(Listed)
        /\ answer'.errors = Errors /\ answer'.rows = << >>
    BY <2>1, <2>2
  <2>4. Listed \in SUBSET WithId
    BY DEF Listed
  <2>5. Keys(Listed) \in Seq(Labels \X Ids) /\ Errors \in Seq(Labels) /\ << >> \in Seq(Rows)
    BY <2>4, KeysType, ErrorsType
  <2>6. QED BY <2>1, <2>3, <2>5, SameFetches DEF AnswerInv
<1>7. CASE Report
  <2>1. /\ answer' = [code |-> 200, models |-> Keys(WithId), errors |-> << >>,
                      rows |-> CheckRows]
        /\ UNCHANGED <<asked, outcome, arrived, kind>> /\ kind = "check"
    BY <1>7 DEF Report
  <2>2. /\ answer'.code = 200 /\ answer'.models = Keys(WithId)
        /\ answer'.errors = << >> /\ answer'.rows = CheckRows
    BY <2>1
  <2>3. Keys(WithId) \in Seq(Labels \X Ids) /\ << >> \in Seq(Labels) /\ CheckRows \in Seq(Rows)
    BY KeysType, CheckRowsType
  <2>4. QED BY <2>1, <2>2, <2>3, SameFetches DEF AnswerInv
<1>8. CASE SaveSettings \/ UNCHANGED vars
  BY <1>8, SameFetches DEF SaveSettings, vars, AnswerInv
<1>9. QED BY <1>1, <1>2, <1>3, <1>4, <1>5, <1>6, <1>7, <1>8 DEF Next

LEMMA AnswerInvariant == Spec => []AnswerInv
<1>1. Init => AnswerInv
  <2> SUFFICES ASSUME Init PROVE AnswerInv
    OBVIOUS
  <2>1. /\ answer.code = 0 /\ answer.models = << >> /\ answer.errors = << >>
        /\ answer.rows = << >> /\ pc = "idle"
    BY DEF Init, NoAnswer
  <2>2. << >> \in Seq(Labels \X Ids) /\ << >> \in Seq(Labels) /\ << >> \in Seq(Rows)
    OBVIOUS
  <2>3. QED BY <2>1, <2>2 DEF AnswerInv
<1>2. QED BY <1>1, AnswerStep, TypedInvariant, PTL DEF Spec

\* A response names labels, ids and providers of the request it answers, never
\* an item without an id, whatever the providers sent.
THEOREM FanoutTypes == Spec => []TypeOK
<1>1. Typed /\ AnswerInv => TypeOK
  BY DEF Typed, AnswerInv, TypeOK
<1>2. QED BY <1>1, TypedInvariant, AnswerInvariant, PTL

----------------------------------------------------------------------------
\* What the listed items have for keys is what the providers offer.
LEMMA OfferedKeys ==
    ASSUME Typed
    PROVE  /\ Offer = {Key(a) : a \in WithId}
           /\ \A a \in WithId : a[1] \in Home(Key(a))
<1>1. ASSUME NEW a \in WithId
      PROVE  a[1] \in DOMAIN asked /\ Key(a) \in Offers(a[1])
  <2>1. a \in Items /\ Key(a)[2] # NoId
    BY DEF WithId
  <2>2. a[1] \in DOMAIN asked /\ a[2] \in DOMAIN outcome[a[1]].ids
    BY <2>1, ItemsType
  <2>3. Key(a) = <<LabelOf[asked[a[1]]], outcome[a[1]].ids[a[2]]>>
    BY DEF Key
  <2>4. QED BY <2>1, <2>2, <2>3 DEF Offers, ToSet
<1>2. ASSUME NEW i \in DOMAIN asked, NEW x \in Offers(i)
      PROVE  \E a \in WithId : x = Key(a)
  <2>1. PICK id \in ToSet(outcome[i].ids) \ {NoId} : x = <<LabelOf[asked[i]], id>>
    BY DEF Offers
  <2>2. PICK j \in DOMAIN outcome[i].ids : id = outcome[i].ids[j]
    BY <2>1 DEF ToSet
  <2> DEFINE a == <<i, j>>
  <2>3. a \in Items
    BY <2>2 DEF Items
  <2>4. Key(a) = x
    BY <2>1, <2>2 DEF Key
  <2>5. Key(a)[2] = id
    BY <2>1, <2>4
  <2>6. QED BY <2>1, <2>3, <2>4, <2>5 DEF WithId
<1>3. QED BY <1>1, <1>2 DEF Offer, Home

\* Of the items with one key the first is listed, and no other.
LEMMA FirstListed ==
    ASSUME Typed
    PROVE  /\ \A a \in WithId : \E b \in Listed : Key(b) = Key(a)
           /\ \A a, b \in Listed : Key(a) = Key(b) => a = b
<1>1. WithId \in SUBSET Positions /\ IsFiniteSet(WithId)
  BY KeysType
<1>2. ASSUME NEW a \in WithId PROVE \E b \in Listed : Key(b) = Key(a)
  <2> DEFINE T == {Rank(b, WithId) : b \in {c \in WithId : Key(c) = Key(a)}}
  <2>1. T \in SUBSET Nat /\ T # {}
    <3>1. Rank(a, WithId) \in T
      OBVIOUS
    <3>2. \A b \in WithId : Rank(b, WithId) \in Nat
      BY <1>1, RanksInOrder
    <3>3. QED BY <3>1, <3>2
  <2>2. PICK n \in T : \A m \in T : n <= m
    <3> HIDE DEF T
    <3>1. QED BY <2>1, LeastNumber
  <2>3. PICK b \in WithId : Key(b) = Key(a) /\ n = Rank(b, WithId)
    OBVIOUS
  <2>4. ASSUME NEW c \in WithId, Precedes(c, b), Key(c) = Key(b) PROVE FALSE
    <3>1. Rank(c, WithId) < Rank(b, WithId) /\ Rank(c, WithId) \in Nat /\ Rank(b, WithId) \in Nat
      BY <1>1, <2>4, RanksInOrder
    <3>2. Rank(c, WithId) \in T
      BY <2>3, <2>4
    <3> HIDE DEF T
    <3>3. QED BY <2>2, <2>3, <3>1, <3>2
  <2>5. QED BY <2>3, <2>4 DEF Listed
<1>3. ASSUME NEW a \in Listed, NEW b \in Listed, Key(a) = Key(b), a # b PROVE FALSE
  <2>1. a \in WithId /\ b \in WithId
    BY DEF Listed
  <2>2. Precedes(a, b) \/ Precedes(b, a)
    BY <1>1, <1>3, <2>1, PrecedesOrders
  <2>3. QED BY <1>3, <2>1, <2>2 DEF Listed
<1>4. QED BY <1>2, <1>3

\* A merged list holds each model that some provider offers, once per provider
\* label, and names every provider that failed, however the fetches ended.
THEOREM MergeCompleteAlways == Spec => []MergeComplete
<1>1. ASSUME Typed, AnswerInv, pc = "done", kind = "list", answer.code \in {200, 502}
      PROVE  /\ ToSet(answer.models) = Offer
             /\ Len(answer.models) = Cardinality(Offer)
             /\ ToSet(answer.errors) = {LabelOf[asked[i]] : i \in {j \in DOMAIN asked : Failed(j)}}
  <2>1. answer.models = Keys(Listed) /\ answer.errors = Errors
    BY <1>1 DEF AnswerInv
  <2>2. Listed \in SUBSET WithId
    BY DEF Listed
  <2> DEFINE o == InOrder(Listed)
  <2>3. /\ Listed \in SUBSET Positions /\ IsFiniteSet(Listed)
        /\ DOMAIN Keys(Listed) = DOMAIN o /\ Len(Keys(Listed)) = Cardinality(Listed)
        /\ \A n \in DOMAIN o : Keys(Listed)[n] = Key(o[n])
    BY <1>1, <2>2, KeysType
  <2>4. /\ \A n \in DOMAIN o : o[n] \in Listed
        /\ \A a \in Listed : \E n \in DOMAIN o : o[n] = a
    BY <2>3, Ordered
  <2> HIDE DEF o
  <2>5. Offer = {Key(a) : a \in Listed}
    BY <1>1, <2>2, OfferedKeys, FirstListed
  <2>6. ToSet(answer.models) = Offer
    BY <2>1, <2>3, <2>4, <2>5 DEF ToSet
  <2>7. Cardinality(Offer) = Cardinality(Listed)
    <3> DEFINE f == [a \in Listed |-> Key(a)]
    <3>1. f \in Surjection(Listed, Offer)
      BY <2>5 DEF Surjection
    <3>2. f \in Injection(Listed, Offer)
      <4>1. f \in [Listed -> Offer]
        BY <2>5
      <4>2. \A a, b \in Listed : f[a] = f[b] => a = b
        BY <1>1, FirstListed
      <4>3. QED BY <4>1, <4>2 DEF Injection, IsInjective
    <3> HIDE DEF f
    <3>3. QED BY <2>3, <3>1, <3>2, FS_Surjection
  <2>8. ToSet(Errors) = {LabelOf[asked[i]] : i \in {j \in DOMAIN asked : Failed(j)}}
    <3> DEFINE e == InOrder(FailedFetches)
    <3>1. FailedFetches \in SUBSET Fetches
      BY DEF FailedFetches
    <3>2. /\ \A n \in DOMAIN e : e[n] \in FailedFetches
          /\ \A a \in FailedFetches : \E n \in DOMAIN e : e[n] = a
      BY <1>1, <3>1, FetchListType
    <3>3. Errors = [n \in DOMAIN e |-> LabelOf[asked[e[n][1]]]]
      BY DEF Errors
    <3>4. \A a \in FailedFetches : a[1] \in DOMAIN asked /\ Failed(a[1])
      BY DEF FailedFetches, Fetches
    <3>5. \A i \in DOMAIN asked : Failed(i) => <<i, 0>> \in FailedFetches
      BY DEF FailedFetches, Fetches
    <3> HIDE DEF e
    <3>6. \A n \in DOMAIN e : e[n][1] \in DOMAIN asked /\ Failed(e[n][1])
      BY <3>2, <3>4
    <3>7. \A i \in DOMAIN asked : Failed(i) => \E n \in DOMAIN e : e[n][1] = i
      <4> SUFFICES ASSUME NEW i \in DOMAIN asked, Failed(i)
                   PROVE  \E n \in DOMAIN e : e[n][1] = i
        OBVIOUS
      <4>1. PICK n \in DOMAIN e : e[n] = <<i, 0>>
        BY <3>2, <3>5
      <4>2. <<i, 0>>[1] = i
        OBVIOUS
      <4>3. QED BY <4>1, <4>2
    <3>8. QED BY <3>3, <3>6, <3>7 DEF ToSet
  <2>9. QED BY <2>1, <2>3, <2>6, <2>7, <2>8
<1>2. Typed /\ AnswerInv => MergeComplete
  BY <1>1 DEF MergeComplete
<1>3. QED BY <1>2, TypedInvariant, AnswerInvariant, PTL

----------------------------------------------------------------------------
\* In a list of items the earlier provider stands first.
LEMMA KeysInOrder ==
    ASSUME Typed, NEW P \in SUBSET WithId
    PROVE  \A a, b \in DOMAIN Keys(P) : a < b =>
              \E i \in Home(Keys(P)[a]), j \in Home(Keys(P)[b]) : i <= j
<1> DEFINE o == InOrder(P)
<1>1. /\ P \in SUBSET Positions /\ IsFiniteSet(P)
      /\ DOMAIN o = DOMAIN Keys(P) /\ \A n \in DOMAIN o : Keys(P)[n] = Key(o[n])
  BY KeysType
<1>2. /\ \A n \in DOMAIN o : o[n] \in P
      /\ \A m, n \in DOMAIN o : m < n => Precedes(o[m], o[n])
  BY <1>1, Ordered
<1> HIDE DEF o
<1> SUFFICES ASSUME NEW a \in DOMAIN o, NEW b \in DOMAIN o, a < b
             PROVE  \E i \in Home(Key(o[a])), j \in Home(Key(o[b])) : i <= j
  BY <1>1
<1>3. o[a][1] \in Home(Key(o[a])) /\ o[b][1] \in Home(Key(o[b]))
  BY <1>2, OfferedKeys
<1>4. o[a][1] <= o[b][1]
  <2>1. o[a] \in Positions /\ o[b] \in Positions /\ Precedes(o[a], o[b])
    BY <1>1, <1>2
  <2>2. QED BY <2>1 DEF Positions, Precedes, Place
<1>5. QED BY <1>3, <1>4

\* The row of a provider stands where the provider stood when it was asked.
LEMMA RowsInOrder ==
    ASSUME Typed
    PROVE  [n \in DOMAIN CheckRows |-> CheckRows[n].provider] = asked
<1> DEFINE o == InOrder(Fetches)
           k == Len(asked)
<1>1. /\ Fetches \in SUBSET Positions /\ IsFiniteSet(Fetches)
      /\ Cardinality(Fetches) = k /\ DOMAIN asked = 1 .. k /\ k \in Nat
  BY FetchesType
<1>2. DOMAIN o = 1 .. k /\ \A n \in 1 .. k : o[n] \in Fetches /\ Rank(o[n], Fetches) = n - 1
  BY <1>1, Ordered
<1>3. Fetches = (1 .. k) \X {0}
  BY <1>1 DEF Fetches
<1>4. CheckRows = [n \in DOMAIN o |-> Row(o[n][1])]
  BY DEF CheckRows
<1>5. asked = [n \in 1 .. k |-> asked[n]]
  <2>1. asked \in Seq(Providers)
    BY DEF Typed
  <2>2. QED BY <2>1
<1> HIDE DEF o, k
<1>6. ASSUME NEW n \in 1 .. k PROVE Rank(<<n, 0>>, Fetches) = n - 1
  <2> DEFINE A == {b \in Fetches : Precedes(b, <<n, 0>>)}
  <2>1. A = (1 .. (n - 1)) \X {0}
    <3>1. \A i \in 1 .. k : Precedes(<<i, 0>>, <<n, 0>>) <=> i \in 1 .. (n - 1)
      BY <1>1 DEF Precedes, Place
    <3>2. \A b \in Fetches : b[1] \in 1 .. k /\ b = <<b[1], 0>>
      BY <1>3
    <3>3. \A i \in 1 .. (n - 1) : i \in 1 .. k /\ <<i, 0>> \in Fetches
      BY <1>1, <1>3
    <3>4. \A b \in A : b \in (1 .. (n - 1)) \X {0}
      BY <3>1, <3>2
    <3>5. \A b \in (1 .. (n - 1)) \X {0} : b \in A
      BY <3>1, <3>3
    <3>6. QED BY <3>4, <3>5
  <2>2. n - 1 \in Nat
    BY <1>1
  <2> DEFINE m == n - 1
  <2> HIDE DEF m
  <2>3. m \in Nat /\ IsFiniteSet(1 .. m) /\ Cardinality(1 .. m) = m
    <3>1. m \in Nat
      BY <2>2 DEF m
    <3>2. QED BY <3>1, FS_Interval
  <2>4. IsFiniteSet({0}) /\ Cardinality({0}) = 1
    BY FS_Singleton, Zenon
  <2>5. Cardinality((1 .. m) \X {0}) = Cardinality(1 .. m) * Cardinality({0})
    BY <2>3, <2>4, FS_Product
  <2>6. Cardinality(A) = m
    <3>1. A = (1 .. m) \X {0}
      BY <2>1 DEF m
    <3> HIDE DEF A
    <3>2. QED BY <2>3, <2>4, <2>5, <3>1
  <2>7. QED BY <2>6 DEF Rank, m
<1>7. \A n \in 1 .. k : o[n][1] = n
  <2> TAKE n \in 1 .. k
  <2>1. o[n] \in Fetches /\ <<n, 0>> \in Fetches /\ Rank(o[n], Fetches) = Rank(<<n, 0>>, Fetches)
    BY <1>2, <1>3, <1>6
  <2>2. o[n] = <<n, 0>>
    BY <1>1, <2>1, RanksDiffer
  <2>3. QED BY <2>2
<1>8. \A n \in 1 .. k : CheckRows[n].provider = asked[n]
  BY <1>2, <1>4, <1>7 DEF Row
<1>9. DOMAIN CheckRows = 1 .. k
  BY <1>2, <1>4
<1>10. QED BY <1>5, <1>8, <1>9

\* Whichever fetch ends first and whatever is saved meanwhile, models and rows
\* come in the order of the providers the request asked.
THEOREM OrderKeptAlways == Spec => []OrderKept
<1>1. ASSUME Typed, AnswerInv, pc = "done", answer.code = 200
      PROVE  /\ \A a, b \in DOMAIN answer.models : a < b =>
                   \E i \in Home(answer.models[a]), j \in Home(answer.models[b]) : i <= j
             /\ kind = "check" => [i \in DOMAIN answer.rows |-> answer.rows[i].provider] = asked
  <2>1. CASE kind = "list"
    <3>1. answer.models = Keys(Listed)
      BY <1>1, <2>1 DEF AnswerInv
    <3>2. Listed \in SUBSET WithId
      BY DEF Listed
    <3>3. QED BY <1>1, <2>1, <3>1, <3>2, KeysInOrder
  <2>2. CASE kind = "check"
    <3>1. answer.models = Keys(WithId) /\ answer.rows = CheckRows
      BY <1>1, <2>2 DEF AnswerInv
    <3>2. QED BY <1>1, <3>1, KeysInOrder, RowsInOrder
  <2>3. QED BY <1>1, <2>1, <2>2 DEF Typed
<1>2. Typed /\ AnswerInv => OrderKept
  BY <1>1 DEF OrderKept
<1>3. QED BY <1>2, TypedInvariant, AnswerInvariant, PTL
==============================================================================
