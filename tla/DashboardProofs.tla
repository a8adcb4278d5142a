--------------------------- MODULE DashboardProofs ---------------------------
(****************************************************************************)
(* What the dashboard shows is complete: for any calls, any length of a day *)
(* and of the trend, any page size, whatever time passes under a query and  *)
(* whatever is stored between two pages.                                    *)
(*                                                                          *)
(* The trend: the two readings of the clock and the day that the comparison *)
(* as text drops are one day's difference each.  The invariant keeps the    *)
(* cutoff at least a trend's length before the today of every later moment, *)
(* so that no day shown is one that the cutoff has thinned.                 *)
(*                                                                          *)
(* The pages: the place of a row is the number of newer rows in its list,   *)
(* so it only grows as calls are stored.  No two rows share a place, and    *)
(* where one row stands all places before it are taken; a page that is not  *)
(* full is therefore the last one.                                          *)
(****************************************************************************)
EXTENDS Dashboard, FiniteSetTheorems, TLAPS

\* A set of naturals that is not empty has a least element.
LEMMA LeastNumber ==
    ASSUME NEW T \in SUBSET Nat, T # {}
    PROVE  \E n \in T : \A m \in T : n <= m
<1> DEFINE R == OpToRel(<, Nat)
<1>1. IsWellFoundedOn(R, Nat)
  BY NatLessThanWellFounded, Zenon
<1>2. \A m, n \in Nat : <<m, n>> \in R <=> m < n
  BY DEF OpToRel
<1> HIDE DEF R
<1>3. PICK n \in T : \A m \in T : ~(<<m, n>> \in R)
  BY <1>1, WFMin, Zenon
<1>4. \A m \in T : n <= m
  <2> TAKE m \in T
  <2>1. m \in Nat /\ n \in Nat /\ ~(m < n)
    BY <1>2, <1>3
  <2>2. QED BY <2>1
<1>5. QED BY <1>4

----------------------------------------------------------------------------
(* The trend. *)

Record(t) == [at |-> t.at, cutoff |-> t.cutoff, perDay |-> t.perDay, asked |-> t.asked]

Passing == {i \in Ids : Passes(i)}

Counted ==
    [d \in {DayOf(rows[i].at) : i \in Passing} |-> Cardinality(On(d, Passing))]

Early == trend.cutoff \in Int /\ trend.cutoff <= DayOf(now) - Trend

TrendInv ==
    /\ now \in Int /\ rows \in Seq(Calls)
    /\ trend = Record(trend)
    /\ trend.at \in {"idle", "cutoff", "query"}
    /\ trend.at \in {"cutoff", "query"} => Early
    /\ trend.at = "query" => trend.asked = Len(rows) /\ trend.perDay = Counted

LEMMA Division ==
    ASSUME NEW a \in Int
    PROVE  a \div Day \in Int /\ Day * (a \div Day) <= a /\ a < Day * (a \div Day) + Day
<1>1. Day \in Nat \ {0}
  BY DashboardAssumption
<1>2. QED BY <1>1

\* Days follow each other as hours do.
LEMMA DaysInOrder ==
    ASSUME NEW a \in Int, NEW b \in Int, a <= b
    PROVE  DayOf(a) \in Int /\ DayOf(b) \in Int /\ DayOf(a) <= DayOf(b)
<1> DEFINE x == a \div Day
           y == b \div Day
<1>1. x \in Int /\ y \in Int /\ Day * x <= a /\ b < Day * y + Day
  BY Division
<1>2. Day \in Nat \ {0}
  BY DashboardAssumption
<1> HIDE DEF x, y
<1>3. Day * x < Day * (y + 1)
  BY <1>1, <1>2
<1>4. x < y + 1
  BY <1>1, <1>2, <1>3
<1>5. QED BY <1>1, <1>4 DEF x, y, DayOf

LEMMA TrendInit == Init => TrendInv
<1> SUFFICES ASSUME Init PROVE TrendInv
  OBVIOUS
<1>1. now \in Int
  BY DashboardAssumption DEF Init
<1>2. trend = Record(trend) /\ trend.at = "idle"
  BY DEF Init, NoTrend, Record
<1>3. QED BY <1>1, <1>2 DEF Init, TrendInv

\* The rows and the trend stay, the clock goes on.
LEMMA TimePasses ==
    ASSUME TrendInv, UNCHANGED <<rows, trend>>, now' \in Int, now <= now'
    PROVE  TrendInv'
<1>1. Early => Early'
  <2>1. DayOf(now) \in Int /\ DayOf(now') \in Int /\ DayOf(now) <= DayOf(now')
    BY DaysInOrder DEF TrendInv
  <2>2. Trend \in Int
    BY DashboardAssumption
  <2>3. Early' <=> trend.cutoff \in Int /\ trend.cutoff <= DayOf(now') - Trend
    BY DEF Early, DayOf
  <2>4. QED BY <2>1, <2>2, <2>3 DEF Early
<1>2. Counted' = Counted
  BY DEF Counted, Passing, Passes, On, Ids
<1>3. Record(trend)' = Record(trend)
  BY DEF Record
<1>4. QED BY <1>1, <1>2, <1>3 DEF TrendInv

LEMMA TrendStep == TrendInv /\ [Next]_vars => TrendInv'
<1> SUFFICES ASSUME TrendInv, [Next]_vars PROVE TrendInv'
  OBVIOUS
<1>1. CASE Tick
  BY <1>1, TimePasses DEF Tick, TrendInv
<1>2. ASSUME NEW row \in Calls, Insert(row) PROVE TrendInv'
  <2>1. trend.at = "idle" /\ UNCHANGED <<now, trend>> /\ rows' \in Seq(Calls)
    BY <1>2 DEF Insert, TrendInv
  <2>2. QED BY <2>1 DEF TrendInv, Record
<1>3. CASE TrendCutoff
  <2>1. /\ trend' = [NoTrend EXCEPT !.at = "cutoff", !.cutoff = CutoffDay]
        /\ UNCHANGED <<now, rows>>
    BY <1>3 DEF TrendCutoff
  <2>2. /\ trend' = Record(trend') /\ trend'.at = "cutoff" /\ trend'.cutoff = CutoffDay
    BY <2>1 DEF NoTrend, Record
  <2>3. CutoffDay \in Int /\ CutoffDay <= DayOf(now) - Trend
    <3>1. DayOf(now) \in Int
      BY DaysInOrder DEF TrendInv
    <3>2. QED BY <3>1, DashboardAssumption DEF CutoffDay
  <2>4. Early'
    BY <2>1, <2>2, <2>3 DEF Early, DayOf
  <2>5. Record(trend)' = Record(trend')
    BY DEF Record
  <2>6. QED BY <2>1, <2>2, <2>4, <2>5 DEF TrendInv
<1>4. CASE TrendQuery
  <2>1. /\ trend.at = "cutoff" /\ UNCHANGED <<now, rows>>
        /\ trend' = [trend EXCEPT !.at = "query", !.perDay = Counted, !.asked = Len(rows)]
    BY <1>4 DEF TrendQuery, Counted, Passing
  <2>2. /\ trend' = Record(trend') /\ trend'.at = "query" /\ trend'.cutoff = trend.cutoff
        /\ trend'.perDay = Counted /\ trend'.asked = Len(rows)
    BY <2>1 DEF TrendInv, Record
  <2>3. Early'
    BY <2>1, <2>2 DEF TrendInv, Early, DayOf
  <2>4. Counted' = Counted
    BY <2>1, <2>2 DEF Counted, Passing, Passes, On, Ids
  <2>5. Record(trend)' = Record(trend')
    BY DEF Record
  <2>6. QED BY <2>1, <2>2, <2>3, <2>4, <2>5 DEF TrendInv
<1>5. CASE TrendShown
  <2>1. trend' = NoTrend /\ UNCHANGED <<now, rows>>
    BY <1>5 DEF TrendShown
  <2>2. QED BY <2>1 DEF TrendInv, NoTrend, Record
<1>6. CASE NextPage \/ (\E s \in Statuses \cup {AnyStatus} : OpenPager(s)) \/ UNCHANGED vars
  BY <1>6, TimePasses DEF NextPage, OpenPager, vars, TrendInv
<1>7. QED BY <1>1, <1>2, <1>3, <1>4, <1>5, <1>6 DEF Next

LEMMA TrendInvariant == Spec => []TrendInv
BY TrendInit, TrendStep, PTL DEF Spec

\* Every bar counts all the calls of its day, although the cutoff drops a day
\* and midnight may pass between the query and the choice of the days shown.
THEOREM TrendCompleteAlways == Spec => []TrendComplete
<1>1. ASSUME TrendInv, trend.at = "query", NEW d \in DOMAIN Bars
      PROVE  Bars[d] = Cardinality(On(d, 1 .. trend.asked))
  <2>1. DayOf(now) \in Int /\ Trend \in Int
    BY <1>1, DaysInOrder, DashboardAssumption DEF TrendInv
  <2>2. d \in (DayOf(now) - Trend + 1) .. DayOf(now)
    BY <1>1 DEF Bars
  <2>3. trend.cutoff < d
    BY <1>1, <2>1, <2>2 DEF TrendInv, Early
  <2>4. 1 .. trend.asked = Ids
    BY <1>1 DEF TrendInv, Ids
  <2>5. On(d, Passing) = On(d, Ids)
    BY <2>3 DEF On, Passing, Passes
  <2>6. CASE d \in DOMAIN Counted
    <3>1. Counted[d] = Cardinality(On(d, Passing))
      BY <2>6 DEF Counted
    <3>2. QED BY <1>1, <2>2, <2>4, <2>5, <2>6, <3>1 DEF TrendInv, Bars
  <2>7. CASE d \notin DOMAIN Counted
    <3>1. On(d, Passing) = {}
      BY <2>7 DEF Counted, On
    <3>2. QED BY <1>1, <2>2, <2>4, <2>5, <2>7, <3>1, FS_EmptySet DEF TrendInv, Bars
  <2>8. QED BY <2>6, <2>7
<1>2. TrendInv => TrendComplete
  BY <1>1 DEF TrendComplete
<1>3. QED BY <1>2, TrendInvariant, PTL

----------------------------------------------------------------------------
(* Lists and their places. *)

LEMMA RowTimes ==
    ASSUME rows \in Seq(Calls)
    PROVE  \A i \in Ids : rows[i].at \in Nat /\ i \in Nat
BY DashboardAssumption DEF Ids

LEMMA Newest ==
    ASSUME rows \in Seq(Calls)
    PROVE  /\ \A i, j, k \in Ids : Newer(i, j) /\ Newer(j, k) => Newer(i, k)
           /\ \A i, j \in Ids : i # j => Newer(i, j) \/ Newer(j, i)
           /\ \A i \in Ids : ~Newer(i, i)
BY RowTimes DEF Newer

LEMMA ListFinite ==
    ASSUME rows \in Seq(Calls), NEW ids \in SUBSET Ids
    PROVE  IsFiniteSet(ids) /\ Cardinality(ids) \in Nat
<1>1. IsFiniteSet(Ids)
  BY FS_Interval DEF Ids
<1>2. IsFiniteSet(ids)
  BY <1>1, FS_Subset
<1>3. QED BY <1>2, FS_CardinalityType

\* A newer row of a list has an earlier place.
LEMMA PlacesInOrder ==
    ASSUME rows \in Seq(Calls), NEW ids \in SUBSET Ids, NEW i \in ids, NEW j \in ids
    PROVE  /\ Place(i, ids) \in Nat
           /\ Newer(i, j) => Place(i, ids) < Place(j, ids)
<1> DEFINE A(x) == {k \in ids : Newer(k, x)}
<1>1. \A x : A(x) \in SUBSET Ids
  OBVIOUS
<1>2. Place(i, ids) = Cardinality(A(i)) /\ Place(j, ids) = Cardinality(A(j))
  BY DEF Place
<1>3. IsFiniteSet(A(i)) /\ IsFiniteSet(A(j)) /\ Cardinality(A(i)) \in Nat /\ Cardinality(A(j)) \in Nat
  BY <1>1, ListFinite
<1>4. ASSUME Newer(i, j) PROVE Cardinality(A(i)) < Cardinality(A(j))
  <2>1. A(i) \in SUBSET A(j) /\ i \in A(j) /\ i \notin A(i)
    BY <1>4, Newest
  <2>2. A(i) # A(j)
    BY <2>1
  <2> HIDE DEF A
  <2>3. QED BY <1>3, <2>1, <2>2, FS_Subset
<1>5. QED BY <1>2, <1>3, <1>4

\* A list cut short keeps its places.
LEMMA CutKeepsPlaces ==
    ASSUME rows \in Seq(Calls), NEW ids \in SUBSET Ids, NEW n \in Nat, NEW i \in FirstOf(ids, n)
    PROVE  Place(i, FirstOf(ids, n)) = Place(i, ids)
<1>1. \A j \in ids : Newer(j, i) => j \in FirstOf(ids, n)
  <2> TAKE j \in ids
  <2>1. i \in ids /\ Place(i, ids) < n
    BY DEF FirstOf
  <2>2. Newer(j, i) => Place(j, ids) < Place(i, ids)
    BY <2>1, PlacesInOrder
  <2>3. Place(j, ids) \in Nat /\ Place(i, ids) \in Nat
    BY <2>1, PlacesInOrder
  <2>4. QED BY <2>1, <2>2, <2>3 DEF FirstOf
<1>2. {j \in FirstOf(ids, n) : Newer(j, i)} = {j \in ids : Newer(j, i)}
  BY <1>1 DEF FirstOf
<1>3. QED BY <1>2 DEF Place

\* An offset at or behind the limit is an empty page, whatever is stored: a
\* client that wants more has to ask for a higher limit.  (list_traces cuts
\* its page out of a list that list_generations has cut at the limit.)
THEOREM OffsetBehindLimit ==
    ASSUME rows \in Seq(Calls), NEW status \in Statuses \cup {AnyStatus},
           NEW limit \in Nat, NEW offset \in Nat, offset >= limit
    PROVE  ListTraces(status, limit, offset) = {}
<1> DEFINE ids == Found(status)
           cut == FirstOf(ids, limit)
<1>1. ids \in SUBSET Ids
  BY DEF Found
<1> HIDE DEF ids
<1>2. ASSUME NEW i \in cut PROVE ~(Place(i, cut) >= offset)
  <2>1. Place(i, ids) < limit /\ i \in ids
    BY DEF FirstOf
  <2>2. Place(i, cut) = Place(i, ids) /\ Place(i, ids) \in Nat
    BY <1>1, <2>1, CutKeepsPlaces, PlacesInOrder
  <2>3. QED BY <2>1, <2>2
<1>3. ListTraces(status, limit, offset) = {i \in cut : Place(i, cut) >= offset}
  BY DEF ListTraces, ListGenerations, From, ids
<1>4. QED BY <1>2, <1>3

\* No two rows share a place, so that n places hold at most n rows.
LEMMA CutAtMost ==
    ASSUME rows \in Seq(Calls), NEW ids \in SUBSET Ids, NEW n \in Nat
    PROVE  Cardinality(FirstOf(ids, n)) <= n
<1> DEFINE S == FirstOf(ids, n)
           f == [i \in S |-> Place(i, ids) + 1]
<1>1. \A i \in S : i \in ids /\ i \in Ids /\ Place(i, ids) \in Nat /\ Place(i, ids) < n
  BY PlacesInOrder DEF FirstOf
<1>2. f \in [S -> 1 .. n]
  BY <1>1
<1>3. \A i, j \in S : f[i] = f[j] => i = j
  <2> TAKE i, j \in S
  <2>1. i # j => Newer(i, j) \/ Newer(j, i)
    BY <1>1, Newest
  <2>2. i # j => Place(i, ids) # Place(j, ids)
    <3>1. /\ Newer(i, j) => Place(i, ids) < Place(j, ids)
          /\ Newer(j, i) => Place(j, ids) < Place(i, ids)
      BY <1>1, PlacesInOrder
    <3>2. QED BY <1>1, <2>1, <3>1
  <2>3. QED BY <1>1, <2>2
<1>4. f \in Injection(S, 1 .. n)
  BY <1>2, <1>3 DEF Injection, IsInjective
<1>5. IsFiniteSet(1 .. n) /\ Cardinality(1 .. n) = n
  BY FS_Interval
<1> HIDE DEF f, S
<1>6. Cardinality(S) <= n
  BY <1>4, <1>5, FS_Injection
<1>7. QED BY <1>6 DEF S

\* When there is a row at a later place, n places hold n rows.
LEMMA CutAtLeast ==
    ASSUME rows \in Seq(Calls), NEW ids \in SUBSET Ids, NEW n \in Nat,
           From(ids, n) # {}
    PROVE  Cardinality(FirstOf(ids, n)) >= n
<1> DEFINE T == {Place(i, ids) : i \in From(ids, n)}
<1>1. From(ids, n) \subseteq ids
  BY DEF From
<1>2. T \in SUBSET Nat /\ T # {}
  <2>1. PICK i \in From(ids, n) : TRUE
    OBVIOUS
  <2>2. Place(i, ids) \in T
    BY <2>1
  <2>3. QED BY <1>1, <2>2, PlacesInOrder
<1>3. PICK p \in T : \A q \in T : p <= q
  <2> HIDE DEF T
  <2>1. QED BY <1>2, LeastNumber
<1>4. PICK i \in From(ids, n) : p = Place(i, ids)
  BY <1>3
<1> DEFINE A == {j \in ids : Newer(j, i)}
<1>5. \A j \in A : j \in FirstOf(ids, n)
  <2> TAKE j \in A
  <2>1. Place(j, ids) < p /\ Place(j, ids) \in Nat /\ p \in Nat
    BY <1>1, <1>2, <1>4, PlacesInOrder
  <2>2. j \notin From(ids, n)
    <3>1. SUFFICES ASSUME Place(j, ids) \in T PROVE FALSE
      OBVIOUS
    <3>2. QED BY <1>3, <2>1, <3>1
  <2>3. QED BY <2>1, <2>2 DEF From, FirstOf
<1>6. Cardinality(A) = p /\ p >= n /\ p \in Nat
  BY <1>2, <1>4 DEF Place, From
<1>7. FirstOf(ids, n) \in SUBSET Ids /\ A \in SUBSET FirstOf(ids, n)
  BY <1>5 DEF FirstOf
<1>8. IsFiniteSet(FirstOf(ids, n)) /\ Cardinality(FirstOf(ids, n)) \in Nat
  BY <1>7, ListFinite
<1> HIDE DEF A
<1>9. Cardinality(A) <= Cardinality(FirstOf(ids, n))
  BY <1>7, <1>8, FS_Subset
<1>10. QED BY <1>6, <1>8, <1>9

\* A page is full as long as a row lies behind it.
LEMMA FullPage ==
    ASSUME rows \in Seq(Calls), NEW ids \in SUBSET Ids, NEW m \in Nat, NEW n \in Nat,
           From(ids, m + n) # {}
    PROVE  Cardinality(From(FirstOf(ids, m + n), m)) >= n
<1> DEFINE all == FirstOf(ids, m + n)
           before == FirstOf(ids, m)
           page == From(all, m)
<1>1. all = before \cup page
  <2>1. all \subseteq ids /\ before \subseteq ids
    BY DEF FirstOf
  <2>2. \A i \in ids : Place(i, ids) \in Nat
    BY PlacesInOrder
  <2>3. \A i \in all : Place(i, all) = Place(i, ids)
    BY CutKeepsPlaces
  <2>4. \A i \in all : i \in before \/ i \in page
    <3> HIDE DEF all
    <3>1. QED BY <2>1, <2>2, <2>3 DEF FirstOf, From
  <2>5. before \subseteq all
    BY <2>2 DEF FirstOf
  <2>6. page \subseteq all
    BY DEF From
  <2>7. QED BY <2>4, <2>5, <2>6
<1>2. all \in SUBSET Ids /\ before \in SUBSET Ids /\ page \in SUBSET Ids
  BY DEF FirstOf, From
<1>3. Cardinality(all) >= m + n /\ Cardinality(before) <= m
  BY CutAtLeast, CutAtMost
<1> HIDE DEF all, before, page
<1>4. /\ IsFiniteSet(all) /\ IsFiniteSet(before) /\ IsFiniteSet(page)
      /\ Cardinality(all) \in Nat /\ Cardinality(before) \in Nat /\ Cardinality(page) \in Nat
  BY <1>2, ListFinite
<1>5. Cardinality(before \cup page)
        = Cardinality(before) + Cardinality(page) - Cardinality(before \cap page)
  BY <1>4, FS_Union
<1>6. Cardinality(before \cap page) \in Nat
  <2>1. before \cap page \in SUBSET Ids
    BY <1>2
  <2>2. QED BY <2>1, ListFinite
<1>7. Cardinality(page) >= n
  BY <1>1, <1>3, <1>4, <1>5, <1>6
<1>8. QED BY <1>7 DEF page, all

----------------------------------------------------------------------------
(* A client that pages. *)

Pagers == [status : Statuses \cup {AnyStatus}, began : SUBSET Ids, seen : SUBSET Ids,
           offset : 0 .. MaxLimit, done : BOOLEAN]

\* What a client began with are rows of the status it asked for, and stay so.
PagerInv ==
    /\ pager \in Pagers
    /\ pager.began \subseteq Found(pager.status)
    /\ PagesMissNothing

LEMMA PagerInit == Init => PagerInv
<1> SUFFICES ASSUME Init PROVE PagerInv
  OBVIOUS
<1>1. pager = NoPager /\ 0 \in 0 .. MaxLimit
  BY DashboardAssumption DEF Init
<1>2. pager \in Pagers
  BY <1>1 DEF NoPager, Pagers
<1>3. QED BY <1>1, <1>2 DEF NoPager, PagerInv, PagesMissNothing

\* Neither the rows nor the client change.
LEMMA PagerStays ==
    ASSUME PagerInv, UNCHANGED <<rows, pager>>
    PROVE  PagerInv'
BY DEF PagerInv, Pagers, PagesMissNothing, Found, From, Place, Newer, Ids

\* A call that is stored stands before, between or behind the others: their
\* places only grow.
LEMMA InsertKeepsPages ==
    ASSUME rows \in Seq(Calls), PagerInv, NEW row \in Calls, rows' = Append(rows, row),
           UNCHANGED pager
    PROVE  PagerInv'
<1> DEFINE found == Found(pager.status)
           foundNow == Found(pager.status)'
<1>1. /\ Ids \subseteq Ids' /\ \A i \in Ids : rows'[i] = rows[i]
      /\ rows' \in Seq(Calls)
  BY DEF Ids
<1>2. found \subseteq Ids /\ foundNow \subseteq Ids' /\ found \subseteq foundNow
  BY <1>1 DEF Found
<1>3. \A i, j \in Ids : Newer(i, j)' <=> Newer(i, j)
  BY <1>1 DEF Newer
<1>4. ASSUME NEW i \in found, i \in From(found, pager.offset)
      PROVE  i \in From(found, pager.offset)'
  <2> DEFINE A == {j \in found : Newer(j, i)}
             B == {j \in foundNow : Newer(j, i)'}
  <2>1. A \in SUBSET B
    BY <1>2, <1>3
  <2>2. IsFiniteSet(B) /\ Cardinality(B) \in Nat
    <3>1. IsFiniteSet(Ids')
      BY <1>1, FS_Interval DEF Ids
    <3>2. B \in SUBSET Ids'
      BY <1>2
    <3> HIDE DEF B
    <3>3. IsFiniteSet(B)
      BY <3>1, <3>2, FS_Subset
    <3>4. QED BY <3>3, FS_CardinalityType
  <2>3. Place(i, found) = Cardinality(A) /\ Place(i, found)' = Cardinality(B)
    BY DEF Place
  <2>4. Cardinality(A) \in Nat
    <3>1. A \in SUBSET Ids
      BY <1>2
    <3> HIDE DEF A
    <3>2. QED BY <3>1, ListFinite
  <2>5. Cardinality(A) <= Cardinality(B)
    <3> HIDE DEF A, B
    <3>1. QED BY <2>1, <2>2, FS_Subset
  <2>6. Cardinality(A) >= pager.offset /\ pager.offset \in Nat
    BY <1>4, <2>3, DashboardAssumption DEF From, PagerInv, Pagers
  <2>7. Place(i, found)' >= pager.offset
    <3> HIDE DEF A, B
    <3>1. QED BY <2>2, <2>3, <2>4, <2>5, <2>6
  <2>8. QED BY <1>2, <2>7 DEF From
<1>5. pager' \in Pagers'
  BY <1>1 DEF PagerInv, Pagers
<1>6. PagesMissNothing'
  <2>1. /\ pager.began \subseteq pager.seen \cup From(found, pager.offset)
        /\ pager.done => pager.began \subseteq pager.seen
    BY DEF PagerInv, PagesMissNothing
  <2>2. \A i \in From(found, pager.offset) : i \in From(found, pager.offset)'
    BY <1>4 DEF From
  <2>3. From(Found(pager.status), pager.offset)' = From(found, pager.offset)'
    OBVIOUS
  <2>4. QED BY <2>1, <2>2 DEF PagesMissNothing
<1>7. QED BY <1>2, <1>5, <1>6 DEF PagerInv

LEMMA OpenKeepsPages ==
    ASSUME rows \in Seq(Calls), NEW s \in Statuses \cup {AnyStatus}, OpenPager(s)
    PROVE  PagerInv'
<1>1. /\ pager' = [status |-> s, began |-> Found(s), seen |-> {}, offset |-> 0, done |-> FALSE]
      /\ rows' = rows
  BY DEF OpenPager
<1>2. pager' \in Pagers'
  BY <1>1, DashboardAssumption DEF Pagers, Found, Ids
<1>3. \A i \in Found(s) : i \in From(Found(s), 0)
  <2> TAKE i \in Found(s)
  <2>1. Found(s) \in SUBSET Ids
    BY DEF Found
  <2>2. Place(i, Found(s)) \in Nat
    BY <2>1, PlacesInOrder
  <2>3. QED BY <2>2 DEF From
<1>4. /\ pager'.status = s /\ pager'.began = Found(s) /\ pager'.offset = 0 /\ ~pager'.done
      /\ pager'.seen = {}
  BY <1>1
<1>5. Found(s)' = Found(s) /\ From(Found(s), 0)' = From(Found(s), 0)
  BY <1>1 DEF Found, From, Place, Newer, Ids
<1>6. QED BY <1>2, <1>3, <1>4, <1>5 DEF PagerInv, PagesMissNothing

LEMMA NextKeepsPages ==
    ASSUME rows \in Seq(Calls), PagerInv, NextPage
    PROVE  PagerInv'
<1> DEFINE offset == pager.offset
           limit == offset + PageSize
           found == Found(pager.status)
           list == FirstOf(found, limit)
           page == From(list, offset)
<1>1. /\ Accepted(limit) /\ rows' = rows
      /\ pager' = [pager EXCEPT !.seen = @ \cup page, !.offset = limit,
                                !.done = Cardinality(page) < PageSize]
  BY DEF NextPage, ListTraces, ListGenerations
<1>2. offset \in Nat /\ PageSize \in Nat /\ limit \in Nat /\ limit \in 0 .. MaxLimit
  BY <1>1, DashboardAssumption DEF Accepted, PagerInv, Pagers
<1>3. found \in SUBSET Ids /\ page \in SUBSET Ids
  BY DEF Found, From, FirstOf
<1>4. /\ pager'.status = pager.status /\ pager'.began = pager.began
      /\ pager'.seen = pager.seen \cup page /\ pager'.offset = limit
      /\ pager'.done = (Cardinality(page) < PageSize)
  BY <1>1 DEF PagerInv, Pagers
<1>5. pager' \in Pagers'
  <2>1. pager' \in Pagers
    <3> DEFINE done == Cardinality(page) < PageSize
    <3>1. done \in BOOLEAN
      OBVIOUS
    <3> HIDE DEF done, page, found, limit
    <3>2. pager \in Pagers /\ page \in SUBSET Ids /\ limit \in 0 .. MaxLimit
      BY <1>2, <1>3 DEF PagerInv
    <3>3. pager' = [pager EXCEPT !.seen = @ \cup page, !.offset = limit, !.done = done]
      BY <1>1 DEF done
    <3>4. QED BY <3>1, <3>2, <3>3 DEF Pagers
  <2>2. QED BY <1>1, <2>1 DEF Pagers, Ids
<1>6. \A i \in From(found, offset) : i \in page \/ i \in From(found, limit)
  <2> TAKE i \in From(found, offset)
  <2>1. i \in found /\ Place(i, found) >= offset
    BY DEF From
  <2>2. Place(i, found) \in Nat
    BY <1>3, <2>1, PlacesInOrder
  <2>3. CASE Place(i, found) >= limit
    BY <2>1, <2>3 DEF From
  <2>4. CASE Place(i, found) < limit
    <3>1. i \in list
      BY <2>1, <2>4 DEF FirstOf
    <3>2. Place(i, list) = Place(i, found)
      BY <1>2, <1>3, <3>1, CutKeepsPlaces
    <3>3. QED BY <2>1, <3>1, <3>2 DEF From
  <2>5. QED BY <1>2, <2>2, <2>3, <2>4
<1>7. Cardinality(page) < PageSize => From(found, limit) = {}
  <2>1. SUFFICES ASSUME From(found, limit) # {} PROVE ~(Cardinality(page) < PageSize)
    OBVIOUS
  <2>2. Cardinality(page) >= PageSize
    BY <1>2, <1>3, <2>1, FullPage
  <2>3. Cardinality(page) \in Nat
    BY <1>3, ListFinite
  <2> HIDE DEF page
  <2>4. QED BY <1>2, <2>2, <2>3
<1>8. pager.began \subseteq pager.seen \cup From(found, offset) /\ pager.began \subseteq found
  BY DEF PagerInv, PagesMissNothing
<1>9. /\ Found(pager.status)' = found
      /\ From(Found(pager.status), pager.offset)' = From(found, limit)
  <2>1. Found(pager.status)' = found
    BY <1>1, <1>4 DEF Found, Ids
  <2>2. \A i \in found : Place(i, Found(pager.status))' = Place(i, found)
    BY <1>1, <2>1 DEF Place, Newer
  <2>3. From(Found(pager.status), pager.offset)'
          = {i \in Found(pager.status)' : Place(i, Found(pager.status))' >= pager'.offset}
    BY DEF From
  <2> HIDE DEF found, limit
  <2>4. QED BY <1>4, <2>1, <2>2, <2>3 DEF From
<1>10. PagesMissNothing'
  <2> HIDE DEF found, limit, page, offset
  <2>1. pager'.began \subseteq pager'.seen \cup From(found, limit)
    BY <1>4, <1>6, <1>8
  <2>2. pager'.done => pager'.began \subseteq pager'.seen
    BY <1>4, <1>7, <2>1
  <2>3. QED BY <1>9, <2>1, <2>2 DEF PagesMissNothing
<1>11. QED BY <1>4, <1>5, <1>8, <1>9, <1>10 DEF PagerInv

LEMMA PagerStep == TrendInv /\ PagerInv /\ [Next]_vars => PagerInv'
<1> SUFFICES ASSUME TrendInv, PagerInv, [Next]_vars PROVE PagerInv'
  OBVIOUS
<1>1. rows \in Seq(Calls)
  BY DEF TrendInv
<1>2. CASE Tick \/ TrendCutoff \/ TrendQuery \/ TrendShown \/ UNCHANGED vars
  BY <1>2, PagerStays DEF Tick, TrendCutoff, TrendQuery, TrendShown, vars
<1>3. ASSUME NEW row \in Calls, Insert(row) PROVE PagerInv'
  BY <1>1, <1>3, InsertKeepsPages DEF Insert
<1>4. ASSUME NEW s \in Statuses \cup {AnyStatus}, OpenPager(s) PROVE PagerInv'
  BY <1>1, <1>4, OpenKeepsPages
<1>5. CASE NextPage
  BY <1>1, <1>5, NextKeepsPages
<1>6. QED BY <1>2, <1>3, <1>4, <1>5 DEF Next

LEMMA PagerInvariant == Spec => []PagerInv
BY PagerInit, PagerStep, TrendInvariant, PTL DEF Spec

\* Whatever is stored between its pages, a client that raises the limit with the
\* offset sees every call that was there when it began.
THEOREM PagesMissNothingAlways == Spec => []PagesMissNothing
BY PagerInvariant, PTL DEF PagerInv

\* A trend is asked for nothing before its query.
TrendTypes ==
    /\ now \in Start .. MaxHour
    /\ trend.at # "query" => trend.perDay = << >> /\ trend.asked = 0

LEMMA TrendTypesStep == TrendInv /\ TrendTypes /\ [Next]_vars => TrendTypes'
<1> SUFFICES ASSUME TrendInv, TrendTypes, [Next]_vars PROVE TrendTypes'
  OBVIOUS
<1>1. CASE Tick
  BY <1>1, DashboardAssumption DEF Tick, TrendTypes
<1>2. CASE (\E row \in Calls : Insert(row)) \/ NextPage \/ UNCHANGED vars
           \/ \E s \in Statuses \cup {AnyStatus} : OpenPager(s)
  BY <1>2 DEF Insert, NextPage, OpenPager, vars, TrendTypes
<1>3. CASE TrendCutoff
  BY <1>3 DEF TrendCutoff, NoTrend, TrendTypes
<1>4. CASE TrendQuery
  <2>1. trend'.at = "query" /\ now' = now
    BY <1>4 DEF TrendQuery, TrendInv, Record
  <2>2. QED BY <2>1 DEF TrendTypes
<1>5. CASE TrendShown
  BY <1>5 DEF TrendShown, NoTrend, TrendTypes
<1>6. QED BY <1>1, <1>2, <1>3, <1>4, <1>5 DEF Next

LEMMA TrendTypesInvariant == Spec => []TrendTypes
<1>1. Init => TrendTypes
  BY DashboardAssumption DEF Init, NoTrend, TrendTypes
<1>2. QED BY <1>1, TrendTypesStep, TrendInvariant, PTL DEF Spec

\* No offset passes the largest limit, no bar counts more calls than there are
\* or none, and a page shows stored calls only.
THEOREM DashboardTypes == Spec => []TypeOK
<1>1. ASSUME TrendInv, TrendTypes, PagerInv
      PROVE  TypeOK
  <2>1. trend.asked \in 0 .. Len(rows)
    BY <1>1 DEF TrendInv, TrendTypes
  <2>2. ASSUME NEW d \in DOMAIN trend.perDay
        PROVE  trend.perDay[d] \in 1 .. trend.asked
    <3>1. trend.at = "query"
      BY <1>1, <2>2 DEF TrendTypes
    <3>2. trend.perDay = Counted /\ trend.asked = Len(rows) /\ rows \in Seq(Calls)
      BY <1>1, <3>1 DEF TrendInv
    <3>3. trend.perDay[d] = Cardinality(On(d, Passing))
      BY <2>2, <3>2 DEF Counted
    <3>4. PICK i \in Passing : d = DayOf(rows[i].at)
      BY <2>2, <3>2 DEF Counted
    <3>5. On(d, Passing) \in SUBSET Ids /\ i \in On(d, Passing)
      BY <3>4 DEF On, Passing
    <3>6. IsFiniteSet(On(d, Passing)) /\ Cardinality(On(d, Passing)) \in Nat
      BY <3>2, <3>5, ListFinite
    <3>7. Cardinality(On(d, Passing)) # 0
      BY <3>5, <3>6, FS_EmptySet
    <3>8. Ids = 1 .. Len(rows) /\ IsFiniteSet(Ids) /\ Cardinality(Ids) = Len(rows) /\ Len(rows) \in Nat
      <4>1. Ids = 1 .. Len(rows) /\ Len(rows) \in Nat
        BY <3>2 DEF Ids
      <4> DEFINE n == Len(rows)
      <4>2. n \in Nat
        BY <4>1
      <4> HIDE DEF n
      <4>3. IsFiniteSet(1 .. n) /\ Cardinality(1 .. n) = n
        BY <4>2, FS_Interval
      <4>4. QED BY <4>1, <4>3 DEF n
    <3>9. Cardinality(On(d, Passing)) <= Len(rows)
      BY <3>5, <3>8, FS_Subset
    <3>10. QED BY <3>2, <3>3, <3>6, <3>7, <3>8, <3>9
  <2>3. QED BY <1>1, <2>1, <2>2 DEF TypeOK, TrendInv, TrendTypes, PagerInv, Pagers
<1>2. QED BY <1>1, TrendInvariant, TrendTypesInvariant, PagerInvariant, PTL
==============================================================================
