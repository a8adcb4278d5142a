---------------------------- MODULE MeteringProofs ---------------------------
(****************************************************************************)
(* What a call is charged: for any built-in prices, any files, any edits,   *)
(* any texts and usage blocks, and any number of calls.                     *)
(*                                                                          *)
(* A sum over a finite set of naturals is the number of points in columns   *)
(* of these heights, so that a term more is a column more; and what a merge *)
(* leaves is a price table, by the least number of entries after which it   *)
(* would not be one.  Both stand in for induction: a set of naturals that   *)
(* is not empty has a least element, and a set of finite sets one that      *)
(* contains no other of them.                                               *)
(*                                                                          *)
(* An mtime identifies the content of the file as long as the file is not   *)
(* given it twice.  The invariant of the cache follows the table on its way *)
(* into it: what has been read and not kept yet, and what is kept, is what  *)
(* the file holds whenever the file still has the mtime it was read under.  *)
(****************************************************************************)
EXTENDS Metering, FiniteSetTheorems, TLAPS

(* Least elements, and sums. *)

\* Among sets of elements of a finite set one contains no other of them.
LEMMA LeastSubset ==
    ASSUME NEW S, IsFiniteSet(S), NEW T \in SUBSET SUBSET S, T # {}
    PROVE  \E X \in T : \A Y \in T : ~(Y \subseteq X /\ Y # X)
<1>1. IsWellFoundedOn(StrictSubsetOrdering(S), SUBSET S)
  BY FS_FiniteSubsetsOfFinite, FS_StrictSubsetOrderingWellFounded
<1>2. PICK X \in T : \A Y \in T : ~(<<Y, X>> \in StrictSubsetOrdering(S))
  BY <1>1, WFMin, Zenon
<1>3. QED BY <1>2 DEF StrictSubsetOrdering

\* A sum of naturals is the number of points in columns of these heights.
Points(f, s) == UNION {{x} \X (1 .. f[x]) : x \in s}

\* The function that SumFunction chooses.
Sums(f, g) ==
    g = [s \in SUBSET DOMAIN f |->
            IF s = {} THEN 0
            ELSE f[CHOOSE x \in s : TRUE] + g[s \ {CHOOSE x \in s : TRUE}]]

LEMMA PointsWithout ==
    ASSUME NEW f, NEW s, NEW x \in s, f[x] \in Nat, IsFiniteSet(Points(f, s \ {x}))
    PROVE  /\ IsFiniteSet(Points(f, s))
           /\ Cardinality(Points(f, s)) = f[x] + Cardinality(Points(f, s \ {x}))
<1> DEFINE rest == Points(f, s \ {x})
           column == {x} \X (1 .. f[x])
<1>1. IsFiniteSet(column) /\ Cardinality(column) = f[x]
  <2>1. IsFiniteSet({x}) /\ Cardinality({x}) = 1
    BY FS_Singleton
  <2>2. IsFiniteSet(1 .. f[x]) /\ Cardinality(1 .. f[x]) = f[x]
    BY FS_Interval
  <2>3. IsFiniteSet(column) /\ Cardinality(column) = 1 * f[x]
    BY <2>1, <2>2, FS_Product
  <2>4. QED BY <2>3
<1>2. Points(f, s) = rest \cup column /\ rest \cap column = {}
  BY DEF Points
<1>3. Cardinality(rest) \in Nat
  BY FS_CardinalityType
<1> HIDE DEF rest, column
<1>4. IsFiniteSet(rest)
  BY DEF rest
<1>5. /\ IsFiniteSet(rest \cup column)
      /\ Cardinality(rest \cup column) = Cardinality(rest) + f[x] - Cardinality(rest \cap column)
  BY <1>1, <1>4, FS_Union
<1>6. Cardinality(rest \cap column) = 0
  BY <1>2, FS_EmptySet
<1>7. QED BY <1>2, <1>3, <1>5, <1>6 DEF rest

LEMMA PointsFinite ==
    ASSUME NEW f, IsFiniteSet(DOMAIN f), \A x \in DOMAIN f : f[x] \in Nat,
           NEW s \in SUBSET DOMAIN f
    PROVE  IsFiniteSet(Points(f, s))
<1> DEFINE T == {t \in SUBSET DOMAIN f : ~IsFiniteSet(Points(f, t))}
<1>1. SUFFICES ASSUME T # {} PROVE FALSE
  OBVIOUS
<1>2. PICK X \in T : \A Y \in T : ~(Y \subseteq X /\ Y # X)
  <2>1. T \in SUBSET SUBSET DOMAIN f
    OBVIOUS
  <2> HIDE DEF T
  <2>2. QED BY <1>1, <2>1, LeastSubset
<1>3. X # {}
  <2>1. Points(f, {}) = {}
    BY DEF Points
  <2>2. QED BY <2>1, FS_EmptySet
<1>4. PICK x \in X : TRUE
  BY <1>3
<1>5. IsFiniteSet(Points(f, X \ {x}))
  BY <1>2
<1>6. QED BY <1>2, <1>5, PointsWithout

\* What SumFunction computes, whatever element it takes first.
LEMMA SumIsCount ==
    ASSUME NEW f, IsFiniteSet(DOMAIN f), \A x \in DOMAIN f : f[x] \in Nat
    PROVE  SumFunction(f) = Cardinality(Points(f, DOMAIN f))
<1> DEFINE Count(s) == Cardinality(Points(f, s))
           g == CHOOSE g : Sums(f, g)
<1>1. SumFunction(f) = g[DOMAIN f]
  BY Zenon DEF SumFunction, SumFunctionOnSet, FoldFunctionOnSet, MapThenFoldSet, Sums
<1>2. \A s \in SUBSET DOMAIN f, x \in DOMAIN f :
         x \in s => Count(s) = f[x] + Count(s \ {x})
  BY PointsFinite, PointsWithout
<1>3. Count({}) = 0
  BY FS_EmptySet DEF Points
<1> HIDE DEF Count
<1>4. Sums(f, [s \in SUBSET DOMAIN f |-> Count(s)])
  BY <1>2, <1>3 DEF Sums
<1>5. Sums(f, g)
  BY <1>4
<1> HIDE DEF g
<1>6. \A s \in SUBSET DOMAIN f : g[s] = Count(s)
  <2> DEFINE T == {s \in SUBSET DOMAIN f : g[s] # Count(s)}
  <2>1. SUFFICES ASSUME T # {} PROVE FALSE
    OBVIOUS
  <2>2. PICK X \in T : \A Y \in T : ~(Y \subseteq X /\ Y # X)
    <3>1. T \in SUBSET SUBSET DOMAIN f
      OBVIOUS
    <3> HIDE DEF T
    <3>2. QED BY <2>1, <3>1, LeastSubset
  <2>3. X # {}
    BY <1>3, <1>5 DEF Sums
  <2> DEFINE x == CHOOSE x \in X : TRUE
  <2>4. x \in X
    BY <2>3
  <2>5. g[X \ {x}] = Count(X \ {x})
    BY <2>2, <2>4
  <2>6. g[X] = f[x] + g[X \ {x}]
    BY <1>5, <2>3 DEF Sums
  <2>7. QED BY <1>2, <2>4, <2>5, <2>6
<1>7. QED BY <1>1, <1>6 DEF Count

LEMMA SumType ==
    ASSUME NEW f, IsFiniteSet(DOMAIN f), \A x \in DOMAIN f : f[x] \in Nat
    PROVE  SumFunction(f) \in Nat
BY SumIsCount, PointsFinite, FS_CardinalityType

\* g has one term more than f, at y.
OneMore(f, g, y) ==
    /\ IsFiniteSet(DOMAIN f) /\ y \notin DOMAIN f
    /\ f \in [DOMAIN f -> Nat] /\ g \in [DOMAIN f \cup {y} -> Nat]
    /\ \A x \in DOMAIN f : g[x] = f[x]

LEMMA SumAdd ==
    ASSUME NEW f, NEW g, NEW y, OneMore(f, g, y)
    PROVE  SumFunction(g) = SumFunction(f) + g[y]
<1> DEFINE D == DOMAIN f
<1>0. /\ IsFiniteSet(D) /\ y \notin D
      /\ f \in [D -> Nat] /\ g \in [D \cup {y} -> Nat] /\ \A x \in D : g[x] = f[x]
  BY DEF OneMore
<1>1. IsFiniteSet(D \cup {y})
  BY <1>0, FS_AddElement
<1>2. SumFunction(f) = Cardinality(Points(f, DOMAIN f))
  BY <1>0, SumIsCount
<1>3. SumFunction(g) = Cardinality(Points(g, DOMAIN g))
  BY <1>0, <1>1, SumIsCount
<1>4. Points(g, DOMAIN g \ {y}) = Points(f, DOMAIN f)
  BY <1>0 DEF Points
<1>5. IsFiniteSet(Points(f, DOMAIN f))
  BY <1>0, PointsFinite
<1>6. Cardinality(Points(g, DOMAIN g)) = g[y] + Cardinality(Points(f, DOMAIN f))
  BY <1>0, <1>4, <1>5, PointsWithout
<1>7. Cardinality(Points(f, DOMAIN f)) \in Nat /\ g[y] \in Nat
  BY <1>0, <1>5, FS_CardinalityType
<1>8. QED BY <1>2, <1>3, <1>6, <1>7

\* No sum of naturals is less than one of its terms.
LEMMA SumAtLeast ==
    ASSUME NEW f, IsFiniteSet(DOMAIN f), \A x \in DOMAIN f : f[x] \in Nat,
           NEW y \in DOMAIN f
    PROVE  SumFunction(f) >= f[y]
<1>1. IsFiniteSet(Points(f, DOMAIN f \ {y}))
  BY PointsFinite
<1>2. Cardinality(Points(f, DOMAIN f)) = f[y] + Cardinality(Points(f, DOMAIN f \ {y}))
  BY <1>1, PointsWithout
<1>3. QED BY <1>1, <1>2, SumIsCount, FS_CardinalityType

----------------------------------------------------------------------------
\* The merge of the prices.

LEMMA LeastNumber ==
    ASSUME NEW T \in SUBSET Nat, T # {}
    PROVE  \E n \in T : \A m \in T : n <= m
<1> DEFINE R == OpToRel(<, Nat)
<1>1. IsWellFoundedOn(R, Nat)
  BY NatLessThanWellFounded, Zenon
<1>2. \A m, n \in Nat : <<m, n>> \in R <=> m < n
  BY DEF OpToRel
<1> HIDE DEF R
<1>3. PICK n \in T : \A m \in T : ~(<<m, n>> \in R)
  BY <1>1, WFMin, Zenon
<1>4. \A m \in T : n <= m
  <2> TAKE m \in T
  <2>1. m \in Nat /\ n \in Nat /\ ~(m < n)
    BY <1>2, <1>3
  <2>2. QED BY <2>1
<1>5. QED BY <1>4

LEMMA MaxOfPositions ==
    ASSUME NEW n \in Nat, NEW S \in SUBSET (1 .. n), S # {}
    PROVE  Max(S) \in S /\ \A y \in S : Max(S) >= y
<1> DEFINE T == {n - i : i \in S}
<1>1. T \in SUBSET Nat /\ T # {}
  <2>1. PICK i \in S : TRUE
    OBVIOUS
  <2>2. n - i \in T /\ \A j \in S : n - j \in Nat
    OBVIOUS
  <2>3. QED BY <2>2
<1>2. PICK k \in T : \A m \in T : k <= m
  <2> HIDE DEF T
  <2>1. QED BY <1>1, LeastNumber
<1>3. PICK i \in S : k = n - i
  OBVIOUS
<1>4. \A j \in S : i >= j
  <2> TAKE j \in S
  <2>1. n - i <= n - j
    BY <1>2, <1>3
  <2>2. QED BY <2>1
<1>5. QED BY <1>4 DEF Max

\* The function that FoldLeft chooses for the merge.
Puts(entries, positions, g) ==
    g = [s \in SUBSET positions |->
            IF s = {} THEN DefaultPrices ELSE Put(g[s \ {Max(s)}], entries[Max(s)])]

LEMMA PutsExist ==
    ASSUME NEW entries, NEW n \in Nat
    PROVE  \E g : Puts(entries, 1 .. n, g)
<1> DEFINE T == {k \in Nat : ~ \E g : Puts(entries, 1 .. k, g)}
<1>1. SUFFICES ASSUME T # {} PROVE FALSE
  OBVIOUS
<1>2. PICK m \in T : \A k \in T : m <= k
  <2>1. T \in SUBSET Nat
    OBVIOUS
  <2> HIDE DEF T
  <2>2. QED BY <1>1, <2>1, LeastNumber
<1>3. m \in Nat /\ ~ \E g : Puts(entries, 1 .. m, g)
  OBVIOUS
<1>4. m # 0
  <2>1. Puts(entries, 1 .. 0, [s \in {{}} |-> DefaultPrices])
    BY DEF Puts
  <2>2. QED BY <1>3, <2>1
<1>5. \E g : Puts(entries, 1 .. (m - 1), g)
  BY <1>2, <1>3, <1>4
<1>6. PICK h : Puts(entries, 1 .. (m - 1), h)
  BY <1>5
<1> DEFINE Before(s) == h[s \cap (1 .. (m - 1))]
           g == [s \in SUBSET (1 .. m) |->
                    IF m \in s THEN Put(Before(s), entries[m]) ELSE Before(s)]
<1>7. ASSUME NEW s \in SUBSET (1 .. m), s # {}
      PROVE  g[s] = Put(g[s \ {Max(s)}], entries[Max(s)])
  <2>1. Max(s) \in s /\ \A y \in s : Max(s) >= y
    BY <1>7, MaxOfPositions, Zenon
  <2>2. CASE m \in s
    <3>1. Max(s) = m
      <4>1. Max(s) \in 1 .. m /\ Max(s) >= m
        BY <2>1, <2>2, <1>7
      <4>2. QED BY <4>1
    <3>2. s \ {m} = s \cap (1 .. (m - 1)) /\ m \notin s \ {m}
      <4>1. \A i \in s : i \in 1 .. (m - 1) <=> i # m
        BY <1>3, <1>4, <1>7
      <4>2. QED BY <4>1
    <3>3. (s \ {m}) \cap (1 .. (m - 1)) = s \cap (1 .. (m - 1)) /\ s \ {m} \in SUBSET (1 .. m)
      BY <3>2, <1>7
    <3>4. g[s \ {m}] = Before(s)
      BY <3>2, <3>3
    <3>5. QED BY <2>2, <3>1, <3>4
  <2>3. CASE m \notin s
    <3>1. s \in SUBSET (1 .. (m - 1))
      BY <1>3, <1>4, <2>3, <1>7
    <3>2. h[s] = Put(h[s \ {Max(s)}], entries[Max(s)])
      BY <1>6, <1>7, <3>1 DEF Puts
    <3>3. s \cap (1 .. (m - 1)) = s /\ (s \ {Max(s)}) \cap (1 .. (m - 1)) = s \ {Max(s)}
      BY <3>1
    <3>4. m \notin s \ {Max(s)} /\ s \ {Max(s)} \in SUBSET (1 .. m)
      BY <2>3, <1>7
    <3>5. g[s] = h[s] /\ g[s \ {Max(s)}] = h[s \ {Max(s)}]
      BY <2>3, <3>3, <3>4
    <3>6. QED BY <3>2, <3>5
  <2>4. QED BY <2>2, <2>3
<1>8. g[{}] = DefaultPrices
  <2>1. h[{}] = DefaultPrices
    BY <1>6 DEF Puts
  <2>2. m \notin {} /\ {} \cap (1 .. (m - 1)) = {} /\ {} \in SUBSET (1 .. m)
    OBVIOUS
  <2>3. QED BY <2>1, <2>2
<1>9. g = [s \in SUBSET (1 .. m) |-> g[s]]
  OBVIOUS
<1>10. Puts(entries, 1 .. m, g)
  <2> HIDE DEF g
  <2>1. QED BY <1>7, <1>8, <1>9 DEF Puts
<1>11. QED BY <1>3, <1>10

\* A price table: a dict in order, the built-in keys first and others behind them.
Tables ==
    {t \in Seq([key : STRING, value : Prices]) :
        /\ Len(t) >= Len(DefaultPrices)
        /\ \A i \in DOMAIN DefaultPrices : t[i].key = DefaultPrices[i].key
        /\ \A i, j \in DOMAIN t : t[i].key = t[j].key => i = j}

LEMMA BuiltInPlaces ==
    ASSUME NEW t \in Tables
    PROVE  DOMAIN DefaultPrices \subseteq DOMAIN t
<1>1. /\ Len(t) \in Nat /\ DOMAIN t = 1 .. Len(t) /\ Len(t) >= Len(DefaultPrices)
      /\ Len(DefaultPrices) \in Nat /\ DOMAIN DefaultPrices = 1 .. Len(DefaultPrices)
  BY MeteringAssumption DEF Tables
<1>2. QED BY <1>1

LEMMA PutTable ==
    ASSUME NEW t \in Tables, NEW e \in [key : STRING, value : Prices \cup {Short}]
    PROVE  Put(t, e) \in Tables
<1>1. CASE e.value = Short
  BY <1>1 DEF Put
<1>2. CASE e.value # Short /\ \E i \in DOMAIN t : t[i].key = e.key
  <2> DEFINE u == [i \in DOMAIN t |-> IF t[i].key = e.key THEN e ELSE t[i]]
  <2>1. Put(t, e) = u
    BY <1>2 DEF Put
  <2>2. e \in [key : STRING, value : Prices]
    BY <1>2
  <2>3. u \in Seq([key : STRING, value : Prices]) /\ Len(u) = Len(t) /\ DOMAIN u = DOMAIN t
    BY <2>2 DEF Tables
  <2>4. \A i \in DOMAIN t : u[i].key = t[i].key
    OBVIOUS
  <2> HIDE DEF u
  <2>5. DOMAIN DefaultPrices \subseteq DOMAIN t
    BY BuiltInPlaces
  <2>6. QED BY <2>1, <2>3, <2>4, <2>5 DEF Tables
<1>3. CASE e.value # Short /\ ~ \E i \in DOMAIN t : t[i].key = e.key
  <2>1. Put(t, e) = Append(t, e)
    BY <1>3 DEF Put
  <2>2. e \in [key : STRING, value : Prices]
    BY <1>3
  <2>3. t \in Seq([key : STRING, value : Prices]) /\ Len(DefaultPrices) \in Nat
    BY MeteringAssumption DEF Tables
  <2>4. /\ Append(t, e) \in Seq([key : STRING, value : Prices])
        /\ Len(Append(t, e)) = Len(t) + 1
        /\ \A i \in DOMAIN Append(t, e) : \/ i \in DOMAIN t /\ Append(t, e)[i] = t[i]
                                          \/ i = Len(t) + 1 /\ Append(t, e)[i] = e
    BY <2>2, <2>3
  <2>5. \A i \in DOMAIN t : Append(t, e)[i].key # Append(t, e)[Len(t) + 1].key
    BY <1>3, <2>3
  <2>6. \A i, j \in DOMAIN Append(t, e) : Append(t, e)[i].key = Append(t, e)[j].key => i = j
    BY <2>4, <2>5 DEF Tables
  <2>7. Len(Append(t, e)) >= Len(DefaultPrices)
    BY <2>3, <2>4 DEF Tables
  <2>8. \A i \in DOMAIN DefaultPrices : Append(t, e)[i].key = DefaultPrices[i].key
    <3>1. \A i \in DOMAIN t : Append(t, e)[i] = t[i]
      BY <2>3
    <3>2. \A i \in DOMAIN DefaultPrices : t[i].key = DefaultPrices[i].key /\ i \in DOMAIN t
      BY BuiltInPlaces DEF Tables
    <3>3. QED BY <3>1, <3>2
  <2>9. QED BY <2>1, <2>4, <2>6, <2>7, <2>8 DEF Tables
<1>4. QED BY <1>1, <1>2, <1>3

LEMMA MinOfPositions ==
    ASSUME NEW S \in SUBSET Nat, S # {}
    PROVE  Min(S) \in S /\ \A y \in S : Min(S) <= y
<1>1. \E x \in S : \A y \in S : x <= y
  BY LeastNumber
<1>2. QED BY <1>1 DEF Min

LEMMA ReadableType ==
    ASSUME NEW entries \in Contents
    PROVE  Readable(entries) \in Seq([key : STRING, value : Prices \cup {Short}])
<1> DEFINE I == {i \in 1 .. Len(entries) : entries[i].value \in {NoNumber, Mistyped}}
           n == SelectInSeq(entries, LAMBDA e : e.value \in {NoNumber, Mistyped})
<1>1. entries \in Seq(Entries)
  BY MeteringAssumption
<1>2. n = IF I # {} THEN Min(I) ELSE 0
  BY DEF SelectInSeq
<1>3. Readable(entries) = IF n = 0 THEN entries ELSE SubSeq(entries, 1, n - 1)
  BY DEF Readable
<1> HIDE DEF n
<1>4. \A i \in 1 .. Len(entries) :
         entries[i].value \notin {NoNumber, Mistyped} =>
            entries[i] \in [key : STRING, value : Prices \cup {Short}]
  <2>1. \A e \in Entries :
           e.value \notin {NoNumber, Mistyped} => e \in [key : STRING, value : Prices \cup {Short}]
    BY DEF Entries
  <2>2. \A i \in 1 .. Len(entries) : entries[i] \in Entries
    BY <1>1
  <2>3. QED BY <2>1, <2>2
<1>5. CASE I = {}
  <2>1. \A i \in 1 .. Len(entries) : entries[i].value \notin {NoNumber, Mistyped}
    BY <1>5
  <2>2. \A i \in 1 .. Len(entries) : entries[i] \in [key : STRING, value : Prices \cup {Short}]
    BY <1>4, <2>1
  <2>3. Readable(entries) = entries
    BY <1>2, <1>3, <1>5
  <2>4. entries = [i \in 1 .. Len(entries) |-> entries[i]] /\ Len(entries) \in Nat
    BY <1>1
  <2> DEFINE R == [key : STRING, value : Prices \cup {Short}]
  <2>5. \A i \in 1 .. Len(entries) : entries[i] \in R
    BY <2>2
  <2> HIDE DEF R
  <2>6. entries \in Seq(R)
    BY <2>4, <2>5
  <2>7. QED BY <2>3, <2>6 DEF R
<1>6. CASE I # {}
  <2>1. I \in SUBSET Nat
    OBVIOUS
  <2>2. n \in I /\ \A i \in I : n <= i
    <3> HIDE DEF I
    <3>1. QED BY <1>2, <1>6, <2>1, MinOfPositions
  <2>3. n \in 1 .. Len(entries)
    BY <2>2
  <2>4. \A i \in 1 .. (n - 1) : entries[i].value \notin {NoNumber, Mistyped}
    <3>1. TAKE i \in 1 .. (n - 1)
    <3>2. i \in 1 .. Len(entries) /\ i \notin I
      BY <2>2, <2>3, <1>1
    <3>3. QED BY <3>2
  <2> HIDE DEF I
  <2>5. \A i \in 1 .. (n - 1) : entries[i] \in [key : STRING, value : Prices \cup {Short}]
    BY <1>1, <1>4, <2>3, <2>4
  <2>6. Readable(entries) = SubSeq(entries, 1, n - 1)
    BY <1>3, <2>3
  <2>7. QED BY <1>1, <2>3, <2>5, <2>6
<1>7. QED BY <1>5, <1>6

\* A merge loses no built-in price and no key is priced twice.
LEMMA MergedTable ==
    ASSUME NEW entries \in Contents
    PROVE  Merged(entries) \in Tables
<1> DEFINE seq == Readable(entries)
           g == CHOOSE h : Puts(seq, DOMAIN seq, h)
<1>1. Merged(entries) = g[DOMAIN seq]
  BY Zenon DEF Merged, FoldLeft, MapThenFoldSet, Puts
<1>2. seq \in Seq([key : STRING, value : Prices \cup {Short}])
  BY ReadableType
<1>3. Puts(seq, DOMAIN seq, g)
  <2>1. DOMAIN seq = 1 .. Len(seq) /\ Len(seq) \in Nat
    BY <1>2
  <2> HIDE DEF seq
  <2>2. \E h : Puts(seq, DOMAIN seq, h)
    BY <2>1, PutsExist
  <2>3. QED BY <2>2
<1> HIDE DEF seq, g
<1>4. Len(seq) \in Nat /\ DOMAIN seq = 1 .. Len(seq)
  BY <1>2
<1>5. \A k \in 0 .. Len(seq) : g[1 .. k] \in Tables
  <2> DEFINE T == {k \in 0 .. Len(seq) : g[1 .. k] \notin Tables}
  <2>1. SUFFICES ASSUME T # {} PROVE FALSE
    OBVIOUS
  <2>2. PICK k \in T : \A m \in T : k <= m
    <3>1. T \in SUBSET Nat
      BY <1>4
    <3> HIDE DEF T
    <3>2. QED BY <2>1, <3>1, LeastNumber
  <2>3. k \in 0 .. Len(seq) /\ g[1 .. k] \notin Tables
    OBVIOUS
  <2> HIDE DEF T
  <2>4. k # 0
    <3>1. g[{}] = DefaultPrices
      BY <1>3 DEF Puts
    <3>2. DefaultPrices \in Tables
      BY MeteringAssumption DEF Tables
    <3>3. 1 .. 0 = {}
      OBVIOUS
    <3>4. QED BY <2>3, <3>1, <3>2, <3>3
  <2>5. g[1 .. (k - 1)] \in Tables
    <3>1. SUFFICES ASSUME k - 1 \in T PROVE FALSE
      BY <1>4, <2>3, <2>4 DEF T
    <3>2. QED BY <1>4, <2>2, <2>3, <3>1
  <2>6. Max(1 .. k) = k /\ (1 .. k) \ {k} = 1 .. (k - 1)
    <3>1. k \in Nat /\ k \in 1 .. k
      BY <1>4, <2>3, <2>4
    <3>2. Max(1 .. k) \in 1 .. k /\ \A y \in 1 .. k : Max(1 .. k) >= y
      BY <3>1, MaxOfPositions, Zenon
    <3>3. QED BY <2>3, <2>4, <3>2
  <2>7. g[1 .. k] = Put(g[1 .. (k - 1)], seq[k])
    <3>1. 1 .. k \in SUBSET DOMAIN seq /\ 1 .. k # {}
      BY <1>4, <2>3, <2>4
    <3>2. QED BY <1>3, <2>6, <3>1 DEF Puts
  <2>8. seq[k] \in [key : STRING, value : Prices \cup {Short}]
    <3>1. k \in 1 .. Len(seq)
      BY <1>4, <2>3, <2>4
    <3> DEFINE R == [key : STRING, value : Prices \cup {Short}]
    <3>2. seq \in Seq(R)
      BY <1>2
    <3> HIDE DEF R
    <3>3. seq[k] \in R
      BY <3>1, <3>2
    <3>4. QED BY <3>3 DEF R
  <2>9. QED BY <2>3, <2>5, <2>7, <2>8, PutTable
<1>6. QED BY <1>1, <1>4, <1>5

----------------------------------------------------------------------------
(* Tokens and prices. *)

LEMMA EstimateType ==
    ASSUME NEW n \in Nat
    PROVE  EstimateText(n) \in Nat /\ (n > 0 => EstimateText(n) >= 1)
<1>1. n \div 4 \in Nat
  OBVIOUS
<1> DEFINE q == n \div 4
<1> HIDE DEF q
<1>2. \E x \in {1, q} : \A y \in {1, q} : x >= y
  BY <1>1 DEF q
<1>3. Max({1, q}) \in {1, q} /\ \A y \in {1, q} : Max({1, q}) >= y
  BY <1>2 DEF Max
<1>4. EstimateText(n) = IF n = 0 THEN 0 ELSE Max({1, q})
  BY DEF EstimateText, q
<1>5. q \in Nat
  BY <1>1 DEF q
<1>6. QED BY <1>3, <1>4, <1>5

LEMMA Positions ==
    ASSUME NEW S, NEW s \in Seq(S), NEW P \in SUBSET DOMAIN s
    PROVE  IsFiniteSet(P)
<1>1. DOMAIN s = 1 .. Len(s) /\ Len(s) \in Nat
  OBVIOUS
<1>2. IsFiniteSet(1 .. Len(s))
  BY <1>1, FS_Interval
<1>3. QED BY <1>1, <1>2, FS_Subset

LEMMA EstimatedType ==
    ASSUME NEW texts \in Seq(Nat)
    PROVE  /\ Estimated(texts) \in Nat
           /\ \A i \in DOMAIN texts : texts[i] > 0 => Estimated(texts) > 0
<1> DEFINE f == [i \in DOMAIN texts |-> EstimateText(texts[i])]
<1>1. DOMAIN f = DOMAIN texts /\ \A i \in DOMAIN f : f[i] = EstimateText(texts[i])
  OBVIOUS
<1>2. \A i \in DOMAIN texts : texts[i] \in Nat
  OBVIOUS
<1>3. Estimated(texts) = SumFunction(f)
  BY DEF Estimated
<1> HIDE DEF f
<1>4. IsFiniteSet(DOMAIN f)
  BY <1>1, Positions
<1>5. \A i \in DOMAIN f : f[i] \in Nat
  BY <1>1, <1>2, EstimateType
<1>6. SumFunction(f) \in Nat
  BY <1>4, <1>5, SumType
<1>7. ASSUME NEW i \in DOMAIN texts, texts[i] > 0
      PROVE  SumFunction(f) > 0
  <2>1. f[i] >= 1 /\ f[i] \in Nat
    BY <1>1, <1>2, <1>5, <1>7, EstimateType
  <2>2. SumFunction(f) >= f[i]
    BY <1>1, <1>4, <1>5, SumAtLeast
  <2>3. QED BY <1>6, <2>1, <2>2
<1>8. QED BY <1>3, <1>6, <1>7

LEMMA TokensType ==
    ASSUME NEW c \in Calls
    PROVE  /\ Tokens(c).in \in Nat /\ Tokens(c).out \in Nat
           /\ (\E n \in ToSet(c.prompt \o c.texts) : n > 0)
                => Tokens(c).in + Tokens(c).out > 0
<1>1. c.prompt \in Seq(Nat) /\ c.texts \in Seq(Nat) /\ c.usage \in Usages \cup {NoUsage}
  BY MeteringAssumption DEF Calls
<1>2. c.usage # NoUsage => c.usage.in \in Nat /\ c.usage.out \in Nat
  BY <1>1, MeteringAssumption
<1>3. Estimated(c.prompt) \in Nat /\ Estimated(c.texts) \in Nat
  BY <1>1, EstimatedType
<1>4. ASSUME NEW n \in ToSet(c.prompt \o c.texts), n > 0
      PROVE  Estimated(c.prompt) + Estimated(c.texts) > 0
  <2>1. PICK i \in DOMAIN (c.prompt \o c.texts) : (c.prompt \o c.texts)[i] = n
    BY DEF ToSet
  <2>2. \/ i \in DOMAIN c.prompt /\ c.prompt[i] = n
        \/ i - Len(c.prompt) \in DOMAIN c.texts /\ c.texts[i - Len(c.prompt)] = n
    <3> DEFINE p == c.prompt
               q == c.texts
    <3>1. p \in Seq(Nat) /\ q \in Seq(Nat) /\ i \in DOMAIN (p \o q) /\ (p \o q)[i] = n
      BY <1>1, <2>1
    <3> HIDE DEF p, q
    <3>2. \/ i \in DOMAIN p /\ p[i] = n
          \/ i - Len(p) \in DOMAIN q /\ q[i - Len(p)] = n
      BY <3>1
    <3>3. QED BY <3>2 DEF p, q
  <2>3. QED BY <1>1, <1>3, <1>4, <2>2, EstimatedType
<1> DEFINE a == Estimated(c.prompt)
           b == Estimated(c.texts)
<1>5. Tokens(c) = IF c.usage # NoUsage /\ (c.usage.in > 0 \/ c.usage.out > 0) THEN c.usage
                  ELSE [in |-> a, out |-> b]
  BY DEF Tokens
<1>6. a \in Nat /\ b \in Nat /\ ((\E n \in ToSet(c.prompt \o c.texts) : n > 0) => a + b > 0)
  BY <1>3, <1>4
<1> HIDE DEF a, b
<1>7. CASE c.usage # NoUsage /\ (c.usage.in > 0 \/ c.usage.out > 0)
  BY <1>2, <1>5, <1>7
<1>8. CASE ~ (c.usage # NoUsage /\ (c.usage.in > 0 \/ c.usage.out > 0))
  <2>1. Tokens(c).in = a /\ Tokens(c).out = b
    BY <1>5, <1>8
  <2>2. QED BY <1>6, <2>1
<1>9. QED BY <1>7, <1>8

LEMMA PriceType ==
    ASSUME NEW t \in Seq([key : STRING, value : Prices]), NEW model
    PROVE  Price(t, model) \in Prices
<1> DEFINE I == {i \in 1 .. Len(t) : <<t[i].key, model>> \in Fits}
           n == SelectInSeq(t, LAMBDA e : <<e.key, model>> \in Fits)
<1>1. n = IF I # {} THEN Min(I) ELSE 0
  BY DEF SelectInSeq
<1>2. Price(t, model) = IF n = 0 THEN [in |-> 0, out |-> 0] ELSE t[n].value
  BY DEF Price
<1> HIDE DEF n
<1>3. CASE I = {}
  <2>1. Price(t, model) = [in |-> 0, out |-> 0]
    BY <1>1, <1>2, <1>3
  <2>2. QED BY <2>1 DEF Prices
<1>4. CASE I # {}
  <2>1. I \in SUBSET Nat
    OBVIOUS
  <2>2. n \in I
    <3> HIDE DEF I
    <3>1. QED BY <1>1, <1>4, <2>1, MinOfPositions
  <2>3. n \in 1 .. Len(t)
    BY <2>2
  <2>4. n # 0 /\ t[n].value \in Prices
    <3> DEFINE R == [key : STRING, value : Prices]
    <3>1. t \in Seq(R)
      OBVIOUS
    <3> HIDE DEF R
    <3>2. t[n] \in R /\ n # 0
      BY <2>3, <3>1
    <3>3. QED BY <3>2 DEF R
  <2>5. QED BY <1>2, <2>4
<1>5. QED BY <1>3, <1>4

\* A model whose name holds a built-in key is charged by the first built-in key
\* in it, at that key's price: a key that the file adds, however well it fits,
\* is not reached behind it.  (price_for walks the merged dict in order.)
THEOREM BuiltInKeyWins ==
    ASSUME NEW entries \in Contents, NEW model,
           NEW k \in DOMAIN DefaultPrices, <<DefaultPrices[k].key, model>> \in Fits
    PROVE  \E n \in 1 .. k :
              /\ <<DefaultPrices[n].key, model>> \in Fits
              /\ \A m \in 1 .. (n - 1) : <<DefaultPrices[m].key, model>> \notin Fits
              /\ Merged(entries)[n].key = DefaultPrices[n].key
              /\ Price(Merged(entries), model) = Merged(entries)[n].value
<1> DEFINE t == Merged(entries)
           I == {i \in 1 .. Len(t) : <<t[i].key, model>> \in Fits}
           n == SelectInSeq(t, LAMBDA e : <<e.key, model>> \in Fits)
<1>1. n = IF I # {} THEN Min(I) ELSE 0
  BY DEF SelectInSeq
<1>2. Price(t, model) = IF n = 0 THEN [in |-> 0, out |-> 0] ELSE t[n].value
  BY DEF Price
<1> HIDE DEF n
<1>3. t \in Tables
  BY MergedTable
<1> HIDE DEF t
<1>4. /\ Len(t) \in Nat /\ DOMAIN t = 1 .. Len(t)
      /\ DOMAIN DefaultPrices \subseteq 1 .. Len(t)
      /\ DOMAIN DefaultPrices = 1 .. Len(DefaultPrices) /\ Len(DefaultPrices) \in Nat
  BY <1>3, BuiltInPlaces, MeteringAssumption DEF Tables
<1>5. \A i \in DOMAIN DefaultPrices : t[i].key = DefaultPrices[i].key
  BY <1>3 DEF Tables
<1>6. k \in I /\ I \in SUBSET Nat
  BY <1>4, <1>5
<1>7. n \in I /\ \A i \in I : n <= i
  <2> HIDE DEF I
  <2>1. QED BY <1>1, <1>6, MinOfPositions
<1>8. n \in 1 .. k /\ 1 .. k \subseteq DOMAIN DefaultPrices
  BY <1>4, <1>6, <1>7
<1>9. \A m \in 1 .. (n - 1) : m \in DOMAIN DefaultPrices /\ m \notin I /\ m \in 1 .. Len(t)
  BY <1>4, <1>7, <1>8
<1>10. /\ <<DefaultPrices[n].key, model>> \in Fits
       /\ t[n].key = DefaultPrices[n].key
       /\ \A m \in 1 .. (n - 1) : <<DefaultPrices[m].key, model>> \notin Fits
  BY <1>5, <1>7, <1>8, <1>9
<1>11. Price(t, model) = t[n].value
  BY <1>2, <1>8
<1>12. QED BY <1>8, <1>10, <1>11 DEF t

LEMMA CostType ==
    ASSUME NEW t \in Tables \cup {NoTable}, NEW c \in Calls
    PROVE  Cost(t, c) \in Nat
<1>1. t \in Seq([key : STRING, value : Prices])
  <2>1. CASE t \in Tables
    BY <2>1 DEF Tables
  <2>2. CASE t = << >>
    <3> DEFINE R == [key : STRING, value : Prices]
    <3> HIDE DEF R
    <3>1. t \in Seq(R)
      BY <2>2
    <3>2. QED BY <3>1 DEF R
  <2>3. QED BY <2>1, <2>2 DEF NoTable
<1> DEFINE p == Price(t, c.model)
<1>2. p.in \in Nat /\ p.out \in Nat
  BY <1>1, PriceType DEF Prices
<1>3. Tokens(c).in \in Nat /\ Tokens(c).out \in Nat
  BY TokensType
<1>4. Cost(t, c) = Tokens(c).in * p.in + Tokens(c).out * p.out
  BY DEF Cost
<1> HIDE DEF p
<1>5. Tokens(c).in * p.in \in Nat /\ Tokens(c).out * p.out \in Nat
  BY <1>2, <1>3
<1>6. QED BY <1>4, <1>5

LEMMA BodiesType ==
    ASSUME NEW b \in Bodies
    PROVE  b.texts \in Seq(Nat) /\ b.usage \in Usages \cup {NoUsage}
<1>1. CASE b \in [texts : Texts, usage : Usages \cup {NoUsage}]
  BY <1>1, MeteringAssumption
<1>2. CASE b \in {[texts |-> << >>, usage |-> NoUsage]}
  <2>1. b = [texts |-> << >>, usage |-> NoUsage]
    BY <1>2
  <2>2. b.texts = << >> /\ b.usage = NoUsage
    BY <2>1
  <2>3. QED BY <2>2
<1>3. ASSUME NEW chunks \in Streams, b = Captured(chunks)
      PROVE  b.texts \in Seq(Nat) /\ b.usage \in Usages \cup {NoUsage}
  <2> DEFINE Chunks == [content : Nat, usage : Usages \cup {NoUsage, NoBlock}]
             f == [i \in DOMAIN chunks |-> chunks[i].content]
  <2>1. chunks \in Seq(Chunks)
    BY MeteringAssumption
  <2>2. \A i \in DOMAIN chunks : chunks[i] \in Chunks
    <3> HIDE DEF Chunks
    <3>1. QED BY <2>1
  <2>3. SumFunction(f) \in Nat
    <3>1. IsFiniteSet(DOMAIN chunks)
      <4> HIDE DEF Chunks
      <4>1. QED BY <2>1, Positions
    <3>2. DOMAIN f = DOMAIN chunks /\ \A i \in DOMAIN f : f[i] \in Nat
      BY <2>2
    <3> HIDE DEF f
    <3>3. QED BY <3>1, <3>2, SumType
  <2>4. LastUsage(chunks) \in Usages \cup {NoUsage}
    <3> DEFINE I == {i \in 1 .. Len(chunks) : chunks[i].usage # NoBlock}
               n == SelectLastInSeq(chunks, LAMBDA c : c.usage # NoBlock)
    <3>1. n = IF I # {} THEN Max(I) ELSE 0
      BY DEF SelectLastInSeq
    <3>2. LastUsage(chunks) = IF n = 0 THEN NoUsage ELSE chunks[n].usage
      BY DEF LastUsage
    <3> HIDE DEF n
    <3>3. CASE I = {}
      BY <3>1, <3>2, <3>3
    <3>4. CASE I # {}
      <4>1. Len(chunks) \in Nat /\ DOMAIN chunks = 1 .. Len(chunks)
        <5> HIDE DEF Chunks
        <5>1. QED BY <2>1
      <4>2. I \in SUBSET (1 .. Len(chunks))
        OBVIOUS
      <4>3. n \in I
        <5> HIDE DEF I
        <5>1. QED BY <3>1, <3>4, <4>1, <4>2, MaxOfPositions
      <4>4. n \in DOMAIN chunks /\ n # 0 /\ chunks[n].usage # NoBlock
        BY <4>1, <4>3
      <4>5. chunks[n] \in Chunks
        BY <2>2, <4>4
      <4>6. QED BY <3>2, <4>4, <4>5
    <3>5. QED BY <3>3, <3>4
  <2>5. b.texts = <<SumFunction(f)>> /\ b.usage = LastUsage(chunks)
    BY <1>3 DEF Captured
  <2> HIDE DEF f
  <2>6. QED BY <2>3, <2>4, <2>5
<1>4. QED BY <1>1, <1>2, <1>3 DEF Bodies

----------------------------------------------------------------------------
(* Types. *)

Rows == [session : Sessions \cup {NoSession}, tokens : Nat, cost : Nat, worded : BOOLEAN]

\* The tables hold prices, and the money is made of naturals.
Typed ==
    /\ clock \in 1 .. MaxClock
    /\ file \in [entries : Contents, mtime : 0 .. clock]
    /\ editing \in BOOLEAN
    /\ cacheMtime \in 0 .. clock /\ seen \in 0 .. clock
    /\ step \in Steps
    /\ call \in Calls
    /\ cache \in Tables \cup {NoTable} /\ merged \in Tables \cup {NoTable}
    /\ rows \in Seq(Rows)
    /\ totals \in [Sessions -> [tokens : Nat, cost : Nat]]

LEMMA NoCallType == NoCall \in Calls
<1>1. Texts # {}
  BY MeteringAssumption
<1>2. (CHOOSE q \in Texts : TRUE) \in Texts
  BY <1>1
<1>3. << >> \in Seq(Nat)
  OBVIOUS
<1>4. NoModel \in Models
  BY MeteringAssumption
<1> DEFINE p == CHOOSE q \in Texts : TRUE
<1> HIDE DEF p
<1>5. NoCall = [model |-> NoModel, session |-> NoSession, prompt |-> p,
                texts |-> << >>, usage |-> NoUsage]
  BY DEF NoCall, p
<1>6. p \in Texts
  BY <1>2 DEF p
<1>7. QED BY <1>3, <1>4, <1>5, <1>6 DEF Calls

LEMMA TypedInit == Init => Typed
<1> SUFFICES ASSUME Init PROVE Typed
  OBVIOUS
<1>1. clock \in 1 .. MaxClock /\ cacheMtime \in 0 .. clock /\ seen \in 0 .. clock
  BY MeteringAssumption DEF Init
<1>2. file \in [entries : Contents, mtime : 0 .. clock]
  BY MeteringAssumption DEF Init
<1>3. call \in Calls
  BY NoCallType DEF Init
<1>4. rows \in Seq(Rows)
  BY DEF Init
<1>5. totals \in [Sessions -> [tokens : Nat, cost : Nat]]
  BY DEF Init
<1>6. cache \in Tables \cup {NoTable} /\ merged \in Tables \cup {NoTable}
  BY DEF Init
<1>7. editing \in BOOLEAN /\ step \in Steps
  BY DEF Init, Steps
<1>8. QED BY <1>1, <1>2, <1>3, <1>4, <1>5, <1>6, <1>7 DEF Typed

\* What an edit leaves of the file.
LEMMA BecomesType ==
    ASSUME Typed, NEW entries \in Contents, NEW mtime \in 0 .. clock, Becomes(entries, mtime)
    PROVE  file' \in [entries : Contents, mtime : 0 .. clock'] /\ clock' = clock
BY DEF Becomes, Typed

LEMMA EditType ==
    ASSUME Typed, Empty \/ Delete \/ \E c \in Contents : Write(c) \/ \E t \in 1 .. clock : Move(c, t)
    PROVE  /\ file' \in [entries : Contents, mtime : 0 .. clock'] /\ clock' = clock
           /\ editing' \in BOOLEAN
<1>1. << >> \in Contents
  BY MeteringAssumption
<1>2. clock \in 1 .. MaxClock /\ clock \in 0 .. clock /\ 0 \in 0 .. clock /\ editing \in BOOLEAN
  BY MeteringAssumption DEF Typed
<1>3. CASE Empty
  BY <1>1, <1>2, <1>3, BecomesType DEF Empty
<1>4. CASE Delete
  BY <1>1, <1>2, <1>4, BecomesType DEF Delete
<1>5. CASE \E c \in Contents : Write(c)
  BY <1>2, <1>5, BecomesType DEF Write
<1>6. CASE \E c \in Contents, t \in 1 .. clock : Move(c, t)
  <2>1. PICK c \in Contents, t \in 1 .. clock : Move(c, t)
    BY <1>6
  <2>2. t \in 0 .. clock
    BY <1>2
  <2>3. QED BY <1>2, <2>1, <2>2, BecomesType DEF Move
<1>7. QED BY <1>3, <1>4, <1>5, <1>6

\* A stored row is made of naturals, and has tokens when the call has words.
NewRow ==
    [session |-> call.session, tokens |-> Tokens(call).in + Tokens(call).out,
     cost |-> Cost(cache, call),
     worded |-> \E n \in ToSet(call.prompt \o call.texts) : n > 0]

LEMMA StoreType ==
    ASSUME Typed, Store
    PROVE  /\ NewRow \in Rows /\ rows' = Append(rows, NewRow)
           /\ NewRow.worded => NewRow.tokens > 0
           /\ totals' = IF NewRow.session = NoSession THEN totals
                        ELSE [totals EXCEPT ![NewRow.session].tokens = @ + NewRow.tokens,
                                            ![NewRow.session].cost = @ + NewRow.cost]
           /\ totals' \in [Sessions -> [tokens : Nat, cost : Nat]]
<1> DEFINE total == Tokens(call).in + Tokens(call).out
           cost == Cost(cache, call)
           worded == \E n \in ToSet(call.prompt \o call.texts) : n > 0
<1>1. call \in Calls /\ cache \in Tables \cup {NoTable}
  BY DEF Typed
<1>2. total \in Nat /\ (worded => total > 0)
  <2>1. Tokens(call).in \in Nat /\ Tokens(call).out \in Nat
    BY <1>1, TokensType
  <2>2. worded => total > 0
    BY <1>1, TokensType
  <2>3. QED BY <2>1, <2>2
<1>3. cost \in Nat
  BY <1>1, CostType
<1>4. call.session \in Sessions \cup {NoSession}
  BY <1>1 DEF Calls
<1>5. NewRow = [session |-> call.session, tokens |-> total, cost |-> cost, worded |-> worded]
  BY DEF NewRow
<1>6. /\ rows' = Append(rows, NewRow)
      /\ totals' = IF call.session = NoSession THEN totals
                   ELSE [totals EXCEPT ![call.session].tokens = @ + total,
                                       ![call.session].cost = @ + cost]
  BY Zenon DEF Store, NewRow, Charge
<1> HIDE DEF total, cost
<1>7. worded \in BOOLEAN
  OBVIOUS
<1> HIDE DEF worded
<1>8. NewRow \in Rows /\ NewRow.session = call.session /\ NewRow.tokens = total /\ NewRow.cost = cost
      /\ NewRow.worded = worded
  BY <1>2, <1>3, <1>4, <1>5, <1>7 DEF Rows
<1>9. totals' \in [Sessions -> [tokens : Nat, cost : Nat]]
  BY <1>2, <1>3, <1>4, <1>6 DEF Typed
<1>10. QED BY <1>2, <1>6, <1>8, <1>9

LEMMA TypedStep == Typed /\ [Next]_vars => Typed'
<1> SUFFICES ASSUME Typed, [Next]_vars PROVE Typed'
  OBVIOUS
<1>1. CASE Tick
  BY <1>1, MeteringAssumption DEF Tick, Typed, tableVars
<1>2. CASE Edit
  <2>1. /\ file' \in [entries : Contents, mtime : 0 .. clock'] /\ clock' = clock
        /\ editing' \in BOOLEAN
    BY <1>2, EditType DEF Edit
  <2>2. QED BY <1>2, <2>1 DEF Edit, Typed, tableVars
<1>3. CASE \E m \in Models, s \in Sessions \cup {NoSession}, p \in Texts, b \in Bodies :
              Answered(m, s, p, b)
  <2>1. PICK m \in Models, s \in Sessions \cup {NoSession}, p \in Texts, b \in Bodies :
           Answered(m, s, p, b)
    BY <1>3
  <2>2. b.texts \in Seq(Nat) /\ b.usage \in Usages \cup {NoUsage}
    BY BodiesType
  <2>3. call' \in Calls
    BY <2>1, <2>2 DEF Answered, Calls
  <2>4. step' \in Steps /\ UNCHANGED <<fileVars, tableVars, rows, totals>>
    BY <2>1 DEF Answered, Steps
  <2>5. QED BY <2>3, <2>4 DEF Typed, fileVars, tableVars
<1>4. CASE UseCache
  BY <1>4 DEF UseCache, Typed, Steps, fileVars, tableVars
<1>5. CASE Stat
  BY <1>5 DEF Stat, Typed, Steps, fileVars
<1>6. CASE StatRaises
  <2>1. /\ file' \in [entries : Contents, mtime : 0 .. clock'] /\ clock' = clock
        /\ editing' \in BOOLEAN
    BY <1>6, EditType DEF StatRaises
  <2>2. call' \in Calls /\ step' \in Steps /\ UNCHANGED <<tableVars, rows, totals>>
    BY <1>6, NoCallType DEF StatRaises, Lost, Steps
  <2>3. QED BY <2>1, <2>2 DEF Typed, tableVars
<1>7. CASE Read
  <2>1. merged' \in Tables
    BY <1>7, MergedTable DEF Read, Typed
  <2>2. QED BY <1>7, <2>1 DEF Read, Typed, Steps, fileVars
<1>8. CASE ReadRaises
  BY <1>8, NoCallType DEF ReadRaises, Lost, Typed, Steps, fileVars, tableVars
<1>9. CASE Keep
  BY <1>9, MeteringAssumption DEF Keep, KeptMtime, Typed, Steps, fileVars
<1>10. CASE Store
  <2>1. rows' \in Seq(Rows) /\ totals' \in [Sessions -> [tokens : Nat, cost : Nat]]
    <3>1. /\ rows' = Append(rows, NewRow) /\ NewRow \in Rows /\ rows \in Seq(Rows)
          /\ totals' \in [Sessions -> [tokens : Nat, cost : Nat]]
      BY <1>10, StoreType DEF Typed
    <3> HIDE DEF Rows
    <3>2. QED BY <3>1
  <2>2. step' \in Steps /\ call' \in Calls /\ UNCHANGED <<fileVars, tableVars>>
    BY <1>10, NoCallType DEF Store, Steps
  <2>3. QED BY <2>1, <2>2 DEF Typed, fileVars, tableVars
<1>11. CASE UNCHANGED vars
  BY <1>11 DEF Typed, vars, fileVars, tableVars
<1>12. QED
  BY <1>1, <1>2, <1>3, <1>4, <1>5, <1>6, <1>7, <1>8, <1>9, <1>10, <1>11 DEF Next

LEMMA TypedInvariant == Spec => []Typed
BY TypedInit, TypedStep, PTL DEF Spec

\* The tables keep every built-in entry and one entry per key, the sums stay
\* naturals, and no file, text or usage block brings anything else.
THEOREM MeteringTypes == Spec => []TypeOK
<1>1. Typed => TypeOK
  BY DEF Typed, TypeOK, Tables, Rows
<1>2. QED BY <1>1, TypedInvariant, PTL

----------------------------------------------------------------------------
(* The sums of a session. *)

LEMMA RowsOnlyStored == [Next]_vars => Store \/ UNCHANGED <<rows, totals>>
BY DEF Next, Tick, Edit, Answered, UseCache, Stat, StatRaises, Lost, Read, ReadRaises, Keep,
       vars

LEMMA NoZerosStep == Typed /\ NoZeros /\ [Next]_vars => NoZeros'
<1> SUFFICES ASSUME Typed, NoZeros, [Next]_vars PROVE NoZeros'
  OBVIOUS
<1>1. CASE Store
  <2>1. rows' = Append(rows, NewRow) /\ NewRow \in Rows /\ (NewRow.worded => NewRow.tokens > 0)
    BY <1>1, StoreType
  <2>2. rows \in Seq(Rows)
    BY DEF Typed
  <2>3. \A i \in DOMAIN rows' :
           \/ i \in DOMAIN rows /\ rows'[i] = rows[i]
           \/ rows'[i] = NewRow
    <3> HIDE DEF Rows
    <3>1. QED BY <2>1, <2>2
  <2>4. QED BY <2>1, <2>3 DEF NoZeros
<1>2. CASE UNCHANGED <<rows, totals>>
  BY <1>2 DEF NoZeros
<1>3. QED BY <1>1, <1>2, RowsOnlyStored

\* A call with words in it is never stored with zero tokens, however the usage
\* blocks of its stream came.
THEOREM NoZerosAlways == Spec => []NoZeros
<1>1. Init => NoZeros
  BY DEF Init, NoZeros
<1>2. QED BY <1>1, NoZerosStep, TypedInvariant, PTL DEF Spec

\* The rows of a session.
Mine(r, s) == {i \in DOMAIN r : r[i].session = s}

\* A row more for a session is a term more in each of its sums.
\* f and g give the terms of a session before and after a row more.
RowMore(f, g, r, row, s) ==
    /\ r \in Seq(Rows) /\ row \in Rows
    /\ f \in [Mine(r, s) -> Nat] /\ g \in [Mine(Append(r, row), s) -> Nat]
    /\ \A i \in Mine(r, s) : g[i] = f[i]

LEMMA OneRowMore ==
    ASSUME NEW r, NEW row, NEW s, NEW f, NEW g, RowMore(f, g, r, row, s)
    PROVE  /\ row.session = s => SumFunction(g) = SumFunction(f) + g[Len(r) + 1]
           /\ row.session # s => SumFunction(g) = SumFunction(f)
<1> DEFINE now == Append(r, row)
           y == Len(r) + 1
<1>1. r \in Seq(Rows) /\ row \in Rows
  BY DEF RowMore
<1>2. /\ DOMAIN now = DOMAIN r \cup {y} /\ y \notin DOMAIN r
      /\ now[y] = row /\ \A i \in DOMAIN r : now[i] = r[i]
  <2> HIDE DEF Rows
  <2>1. QED BY <1>1
<1> HIDE DEF y
<1>3. /\ f \in [Mine(r, s) -> Nat] /\ g \in [Mine(now, s) -> Nat]
      /\ \A i \in Mine(r, s) : g[i] = f[i]
  BY DEF RowMore
<1> HIDE DEF now
<1>4. IsFiniteSet(DOMAIN f) /\ DOMAIN f = Mine(r, s)
  <2>1. Mine(r, s) \in SUBSET DOMAIN r
    BY DEF Mine
  <2>2. IsFiniteSet(Mine(r, s))
    BY <1>1, <2>1, Positions
  <2>3. QED BY <1>3, <2>2
<1>5. CASE row.session = s
  <2>1. Mine(now, s) = Mine(r, s) \cup {y} /\ y \notin Mine(r, s)
    BY <1>2, <1>5 DEF Mine
  <2>2. OneMore(f, g, y)
    BY <1>3, <1>4, <2>1 DEF OneMore
  <2>3. SumFunction(g) = SumFunction(f) + g[y]
    BY <2>2, SumAdd, Zenon
  <2>4. QED BY <1>5, <2>3, Zenon DEF y
<1>6. CASE row.session # s
  <2>1. Mine(now, s) = Mine(r, s)
    BY <1>2, <1>6 DEF Mine
  <2>2. g = f
    BY <1>3, <2>1
  <2>3. QED BY <1>6, <2>2
<1>7. QED BY <1>5, <1>6

LEMMA SessionTotalsStep == Typed /\ SessionTotals /\ [Next]_vars => SessionTotals'
<1> SUFFICES ASSUME Typed, SessionTotals, [Next]_vars PROVE SessionTotals'
  OBVIOUS
<1>1. CASE Store
  <2>1. /\ rows' = Append(rows, NewRow) /\ NewRow \in Rows
        /\ totals' = IF NewRow.session = NoSession THEN totals
                     ELSE [totals EXCEPT ![NewRow.session].tokens = @ + NewRow.tokens,
                                         ![NewRow.session].cost = @ + NewRow.cost]
    BY <1>1, StoreType
  <2>2. rows \in Seq(Rows) /\ totals \in [Sessions -> [tokens : Nat, cost : Nat]]
    BY DEF Typed
  <2> SUFFICES ASSUME NEW s \in Sessions
               PROVE  LET mine == {i \in DOMAIN rows' : rows'[i].session = s}
                      IN  /\ totals'[s].tokens = SumFunction([i \in mine |-> rows'[i].tokens])
                          /\ totals'[s].cost = SumFunction([i \in mine |-> rows'[i].cost])
    BY Zenon DEF SessionTotals
  <2> DEFINE old == Mine(rows, s)
             mine == Mine(rows', s)
             tokens == [i \in old |-> rows[i].tokens]
             tokensNow == [i \in mine |-> rows'[i].tokens]
             cost == [i \in old |-> rows[i].cost]
             costNow == [i \in mine |-> rows'[i].cost]
             charged == NewRow.session = s
  <2>3. totals[s].tokens = SumFunction(tokens) /\ totals[s].cost = SumFunction(cost)
    BY Zenon DEF SessionTotals, Mine
  <2>4. /\ \A i \in DOMAIN rows : rows[i] \in Rows /\ i \in DOMAIN rows' /\ rows'[i] = rows[i]
        /\ Len(rows) + 1 \in DOMAIN rows' /\ rows'[Len(rows) + 1] = NewRow
    <3> HIDE DEF Rows
    <3>1. QED BY <2>1, <2>2
  <2>5. NewRow.tokens \in Nat /\ NewRow.cost \in Nat
    BY <2>1 DEF Rows
  <2>6. /\ \A i \in old : i \in mine /\ rows[i].tokens \in Nat /\ rows[i].cost \in Nat
        /\ \A i \in mine : rows'[i].tokens \in Nat /\ rows'[i].cost \in Nat
    <3>1. \A i \in DOMAIN rows' : rows'[i] \in Rows
      <4>1. rows' \in Seq(Rows)
        <5> HIDE DEF Rows
        <5>1. QED BY <2>1, <2>2
      <4> HIDE DEF Rows
      <4>2. QED BY <4>1
    <3>2. QED BY <2>4, <3>1 DEF Rows, Mine
  <2>7. charged => Len(rows) + 1 \in mine
    BY <2>4 DEF Mine
  <2>8. /\ charged => SumFunction(tokensNow) = SumFunction(tokens) + NewRow.tokens
        /\ ~charged => SumFunction(tokensNow) = SumFunction(tokens)
    <3>1. /\ tokens \in [old -> Nat] /\ tokensNow \in [mine -> Nat]
          /\ \A i \in old : tokensNow[i] = tokens[i]
      BY <2>4, <2>6 DEF Mine
    <3>2. charged => tokensNow[Len(rows) + 1] = NewRow.tokens
      BY <2>4, <2>7
    <3> HIDE DEF tokens, tokensNow
    <3>3. RowMore(tokens, tokensNow, rows, NewRow, s)
      BY <2>1, <2>2, <3>1 DEF RowMore
    <3>4. /\ charged => SumFunction(tokensNow) = SumFunction(tokens) + NewRow.tokens
          /\ ~charged => SumFunction(tokensNow) = SumFunction(tokens)
      BY <3>2, <3>3, OneRowMore
    <3>5. QED BY <3>4, Zenon
  <2>9. /\ charged => SumFunction(costNow) = SumFunction(cost) + NewRow.cost
        /\ ~charged => SumFunction(costNow) = SumFunction(cost)
    <3>1. /\ cost \in [old -> Nat] /\ costNow \in [mine -> Nat]
          /\ \A i \in old : costNow[i] = cost[i]
      BY <2>4, <2>6 DEF Mine
    <3>2. charged => costNow[Len(rows) + 1] = NewRow.cost
      BY <2>4, <2>7
    <3> HIDE DEF cost, costNow
    <3>3. RowMore(cost, costNow, rows, NewRow, s)
      BY <2>1, <2>2, <3>1 DEF RowMore
    <3>4. /\ charged => SumFunction(costNow) = SumFunction(cost) + NewRow.cost
          /\ ~charged => SumFunction(costNow) = SumFunction(cost)
      BY <3>2, <3>3, OneRowMore
    <3>5. QED BY <3>4, Zenon
  <2>10. /\ charged => totals'[s].tokens = totals[s].tokens + NewRow.tokens
         /\ ~charged => totals'[s].tokens = totals[s].tokens
         /\ charged => totals'[s].cost = totals[s].cost + NewRow.cost
         /\ ~charged => totals'[s].cost = totals[s].cost
    BY <2>1, <2>2, <2>5, MeteringAssumption
  <2> HIDE DEF tokens, tokensNow, cost, costNow
  <2>11. SumFunction(tokensNow) = totals'[s].tokens /\ SumFunction(costNow) = totals'[s].cost
    BY <2>3, <2>8, <2>9, <2>10
  <2>12. QED BY Zenon, <2>11 DEF tokensNow, costNow, Mine
<1>2. CASE UNCHANGED <<rows, totals>>
  BY <1>2 DEF SessionTotals
<1>3. QED BY <1>1, <1>2, RowsOnlyStored

\* However many calls a session has and however the prices change between them,
\* its sums are those of its rows.
THEOREM SessionTotalsAlways == Spec => []SessionTotals
<1>1. Init => SessionTotals
  <2>1. ASSUME NEW f, DOMAIN f = {}
        PROVE  SumFunction(f) = 0
    <3>1. Points(f, DOMAIN f) = {}
      BY <2>1 DEF Points
    <3>2. QED BY <2>1, <3>1, SumIsCount, FS_EmptySet
  <2> SUFFICES ASSUME Init, NEW s \in Sessions
               PROVE  /\ totals[s].tokens = SumFunction([i \in Mine(rows, s) |-> rows[i].tokens])
                      /\ totals[s].cost = SumFunction([i \in Mine(rows, s) |-> rows[i].cost])
    BY Zenon DEF SessionTotals, Mine
  <2>2. Mine(rows, s) = {}
    BY DEF Init, Mine
  <2>3. totals[s].tokens = 0 /\ totals[s].cost = 0
    BY DEF Init
  <2> DEFINE tokens == [i \in Mine(rows, s) |-> rows[i].tokens]
             cost == [i \in Mine(rows, s) |-> rows[i].cost]
  <2>4. DOMAIN tokens = {} /\ DOMAIN cost = {}
    BY <2>2
  <2> HIDE DEF tokens, cost
  <2>5. SumFunction(tokens) = 0 /\ SumFunction(cost) = 0
    BY <2>1, <2>4
  <2>6. QED BY <2>3, <2>5 DEF tokens, cost
<1>2. QED BY <1>1, SessionTotalsStep, TypedInvariant, PTL DEF Spec

----------------------------------------------------------------------------
(* The cache. *)

Fresh == file.mtime \notin reused

\* Every mtime the monitor remembers is one the file has had.
MtimesUsed ==
    /\ file.mtime \in used
    /\ step \in {"read", "keep"} => seen \in used
    /\ cache # NoTable => cacheMtime \in used

TableOnItsWay ==
    /\ step = "keep" /\ seen = file.mtime /\ Fresh => merged = Merged(file.entries)
    /\ cache # NoTable /\ cacheMtime = file.mtime /\ Fresh => cache = Merged(file.entries)

CacheInv == MtimesUsed /\ TableOnItsWay

----------------------------------------------------------------------------
LEMMA CacheInit == Init => CacheInv
BY DEF Init, CacheInv, MtimesUsed, TableOnItsWay

\* Whatever the file becomes, its new mtime is one that nobody remembers, or
\* one that is reused from then on.
LEMMA BecomesKeeps ==
    ASSUME NEW entries, NEW mtime, Becomes(entries, mtime), CacheInv,
           UNCHANGED <<tableVars, step>>
    PROVE  CacheInv'
<1>1. /\ file'.mtime = mtime /\ used' = used \cup {mtime}
      /\ reused' = reused \cup (used \cap {mtime})
  BY DEF Becomes
<1>2. UNCHANGED <<cache, cacheMtime, seen, merged, step>>
  BY DEF tableVars
<1>3. MtimesUsed'
  BY <1>1, <1>2 DEF CacheInv, MtimesUsed
<1>4. TableOnItsWay'
  <2>1. ~(step = "keep" /\ seen = mtime /\ Fresh')
    BY <1>1 DEF CacheInv, MtimesUsed, Fresh
  <2>2. ~(cache # NoTable /\ cacheMtime = mtime /\ Fresh')
    BY <1>1 DEF CacheInv, MtimesUsed, Fresh
  <2>3. QED BY <1>1, <1>2, <2>1, <2>2 DEF TableOnItsWay
<1>5. QED BY <1>3, <1>4 DEF CacheInv

LEMMA EditKeeps ==
    ASSUME Edit, CacheInv
    PROVE  CacheInv'
<1>1. UNCHANGED <<tableVars, step>>
  BY DEF Edit
<1>2. CASE Empty
  BY <1>1, <1>2, BecomesKeeps DEF Empty
<1>3. CASE Delete
  BY <1>1, <1>3, BecomesKeeps DEF Delete
<1>4. CASE \E c \in Contents : Write(c)
  BY <1>1, <1>4, BecomesKeeps DEF Write
<1>5. CASE \E c \in Contents, t \in 1 .. clock : Move(c, t)
  BY <1>1, <1>5, BecomesKeeps DEF Move
<1>6. QED BY <1>2, <1>3, <1>4, <1>5 DEF Edit

\* A call that is lost to an exception takes no step towards the cache.
LEMMA LostKeeps ==
    ASSUME Lost, UNCHANGED fileVars, CacheInv
    PROVE  CacheInv'
BY DEF Lost, tableVars, fileVars, CacheInv, MtimesUsed, TableOnItsWay, Fresh

LEMMA CacheStep == CacheInv /\ [Next]_vars => CacheInv'
<1> SUFFICES ASSUME CacheInv, [Next]_vars PROVE CacheInv'
  OBVIOUS
<1>1. CASE Tick
  BY <1>1 DEF Tick, tableVars, CacheInv, MtimesUsed, TableOnItsWay, Fresh
<1>2. CASE Edit
  BY <1>2, EditKeeps
<1>3. CASE \E m \in Models, s \in Sessions \cup {NoSession}, p \in Texts, b \in Bodies :
              Answered(m, s, p, b)
  <2>1. UNCHANGED <<fileVars, tableVars>> /\ step' \notin {"read", "keep"}
    BY <1>3 DEF Answered
  <2>2. QED
    BY <2>1 DEF fileVars, tableVars, CacheInv, MtimesUsed, TableOnItsWay, Fresh
<1>4. CASE UseCache
  BY <1>4 DEF UseCache, fileVars, tableVars, CacheInv, MtimesUsed, TableOnItsWay, Fresh
<1>5. CASE Stat
  BY <1>5 DEF Stat, fileVars, CacheInv, MtimesUsed, TableOnItsWay, Fresh
<1>6. CASE StatRaises
  <2>1. PICK entries, mtime : Becomes(entries, mtime)
    BY <1>6 DEF StatRaises, Delete
  <2>2. step' = "idle" /\ UNCHANGED tableVars
    BY <1>6 DEF StatRaises, Lost
  <2>3. step = "stat"
    BY <1>6 DEF StatRaises
  <2>4. /\ file'.mtime = mtime /\ used' = used \cup {mtime}
        /\ reused' = reused \cup (used \cap {mtime})
    BY <2>1 DEF Becomes
  <2>5. MtimesUsed'
    BY <2>2, <2>4 DEF tableVars, CacheInv, MtimesUsed
  <2>6. TableOnItsWay'
    BY <2>2, <2>4 DEF tableVars, CacheInv, MtimesUsed, TableOnItsWay, Fresh
  <2>7. QED BY <2>5, <2>6 DEF CacheInv
<1>7. CASE Read
  BY <1>7 DEF Read, fileVars, CacheInv, MtimesUsed, TableOnItsWay, Fresh
<1>8. CASE ReadRaises
  BY <1>8, LostKeeps DEF ReadRaises
<1>9. CASE Keep
  BY <1>9 DEF Keep, KeptMtime, fileVars, CacheInv, MtimesUsed, TableOnItsWay, Fresh
<1>10. CASE Store
  BY <1>10 DEF Store, fileVars, tableVars, CacheInv, MtimesUsed, TableOnItsWay, Fresh
<1>11. CASE UNCHANGED vars
  BY <1>11 DEF vars, fileVars, tableVars, CacheInv, MtimesUsed, TableOnItsWay, Fresh
<1>12. QED
  BY <1>1, <1>2, <1>3, <1>4, <1>5, <1>6, <1>7, <1>8, <1>9, <1>10, <1>11 DEF Next

LEMMA CacheInvariant == Spec => []CacheInv
BY CacheInit, CacheStep, PTL DEF Spec

\* No edit of prices.json goes unnoticed, wherever it falls between the stat,
\* the read and the store of a load, except under an mtime the file had before.
THEOREM CacheCurrentAlways == Spec => []CacheCurrent
<1>1. CacheInv => CacheCurrent
  BY DEF CacheInv, TableOnItsWay, CacheCurrent, Hit, Fresh
<1>2. QED BY <1>1, CacheInvariant, PTL
==============================================================================
