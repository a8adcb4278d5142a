---------------------------- MODULE SettingsProofs ---------------------------
(****************************************************************************)
(* The settings saved last stay in force, and the older provider pair in    *)
(* the table agrees with the list beside it: for any number of tabs, any    *)
(* environments and any length of the list.                                 *)
(*                                                                          *)
(* The table holds nothing but what some tab submitted; an open form, or    *)
(* one on its way, is always one syncHiddenFields would leave as it is.     *)
(****************************************************************************)
EXTENDS Settings, SequenceTheorems, TLAPS

InSync(f) ==
    /\ Len(f.providers) = 1 => f.base = f.providers[1]
    /\ Len(f.providers) > 1 => f.base = Blank

Agrees(f) ==
    /\ Len(f.json) = 1 => f.base = f.json[1]
    /\ Len(f.json) > 1 => f.base = Blank

SettingsInv ==
    /\ TypeOK
    /\ \A t \in Tabs : tab[t] # NoForm => InSync(tab[t])
    /\ \A t \in Tabs : posted[t] # NoForm => Agrees(posted[t])
    /\ saved # NoForm => saved \in Fields /\ table = Stored(saved) /\ Agrees(saved)
    /\ saved = NoForm => table = [json |-> Absent, base |-> Absent, token |-> Absent]

----------------------------------------------------------------------------
LEMMA MaxFacts == MaxProviders \in Nat /\ 1 <= MaxProviders
<1>1. MaxProviders \in Nat \ {0}
  BY SettingsAssumption
<1>2. QED BY <1>1

LEMMA SmallNumbers ==
    /\ ~(1 > 1)
    /\ \A n \in Nat \ {0} : n = 1 \/ n > 1
    /\ \A i, n \in Int : (i - 1) + (n - i) = n - 1
OBVIOUS

LEMMA ListFacts ==
    ASSUME NEW l \in Lists
    PROVE  l \in Seq(Providers) /\ Len(l) \in 0 .. MaxProviders
BY MaxFacts DEF Lists

LEMMA ListOfSeq ==
    ASSUME NEW l \in Seq(Providers), Len(l) <= MaxProviders
    PROVE  l \in Lists
<1>1. l \in [1 .. Len(l) -> Providers] /\ Len(l) \in 0 .. MaxProviders
  BY MaxFacts
<1>2. QED BY <1>1 DEF Lists

\* Taking an element out of a list leaves a list.
LEMMA Without ==
    ASSUME NEW l \in Lists, NEW i \in DOMAIN l
    PROVE  SubSeq(l, 1, i - 1) \o SubSeq(l, i + 1, Len(l)) \in Lists
<1>0. l \in Seq(Providers) /\ Len(l) \in 0 .. MaxProviders /\ i \in 1 .. Len(l)
  BY ListFacts
<1>1. /\ SubSeq(l, 1, i - 1) \in Seq(Providers) /\ Len(SubSeq(l, 1, i - 1)) = i - 1
      /\ SubSeq(l, i + 1, Len(l)) \in Seq(Providers)
      /\ Len(SubSeq(l, i + 1, Len(l))) = Len(l) - i
  <2>1. \A j \in 1 .. Len(l) : l[j] \in Providers
    BY <1>0
  <2>2. /\ SubSeq(l, 1, i - 1) \in Seq(Providers)
        /\ Len(SubSeq(l, 1, i - 1)) = IF 1 <= i - 1 THEN (i - 1) - 1 + 1 ELSE 0
    BY <1>0, <2>1, SubSeqProperties
  <2>3. /\ SubSeq(l, i + 1, Len(l)) \in Seq(Providers)
        /\ Len(SubSeq(l, i + 1, Len(l))) =
              IF i + 1 <= Len(l) THEN Len(l) - (i + 1) + 1 ELSE 0
    BY <1>0, <2>1, SubSeqProperties
  <2>4. QED BY <1>0, <2>2, <2>3
<1> DEFINE front == SubSeq(l, 1, i - 1)
           back == SubSeq(l, i + 1, Len(l))
<1>2. front \in Seq(Providers) /\ back \in Seq(Providers) /\ Len(front) + Len(back) = Len(l) - 1
  <2>1. i \in Int /\ Len(l) \in Int
    BY <1>0
  <2>2. Len(front) = i - 1 /\ Len(back) = Len(l) - i
    BY <1>1
  <2>3. QED BY <1>1, <2>1, <2>2, SmallNumbers, Zenon
<1> HIDE DEF front, back
<1>3. front \o back \in Seq(Providers) /\ Len(front \o back) = Len(front) + Len(back)
  BY <1>2, ConcatProperties
<1>4. Len(front \o back) <= MaxProviders
  BY <1>0, <1>2, <1>3, MaxFacts
<1>5. front \o back \in Lists
  BY <1>3, <1>4, ListOfSeq
<1>6. QED BY <1>5 DEF front, back

LEMMA Extended ==
    ASSUME NEW l \in Lists, NEW p \in Providers, Len(l) < MaxProviders
    PROVE  Append(l, p) \in Lists
<1>1. l \in Seq(Providers) /\ Len(l) \in Nat
  BY ListFacts
<1>2. Append(l, p) \in Seq(Providers) /\ Len(Append(l, p)) = Len(l) + 1
  BY <1>1
<1>3. Len(Append(l, p)) <= MaxProviders
  BY <1>1, <1>2, MaxFacts
<1>4. QED BY <1>2, <1>3, ListOfSeq

LEMMA SyncedForm ==
    ASSUME NEW f \in Forms
    PROVE  Synced(f) \in Forms /\ InSync(Synced(f))
<1>0. f.providers \in Seq(Providers) /\ Len(f.providers) \in Nat
  BY ListFacts DEF Forms
<1>1. CASE Len(f.providers) = 1
  <2>1. f.providers[1] \in Providers
    BY <1>0, <1>1
  <2>2. Synced(f) = [f EXCEPT !.base = f.providers[1]]
    BY <1>1 DEF Synced
  <2>3. Synced(f) \in Forms /\ Synced(f).base = f.providers[1]
           /\ Synced(f).providers = f.providers
    BY <2>1, <2>2 DEF Forms
  <2>4. QED BY <1>1, <2>3, SmallNumbers, Zenon DEF InSync
<1>2. CASE Len(f.providers) > 1
  <2>1. Synced(f) = [f EXCEPT !.base = Blank]
    BY <1>0, <1>2 DEF Synced
  <2>2. Synced(f) \in Forms /\ Synced(f).base = Blank
           /\ Synced(f).providers = f.providers
    BY <2>1 DEF Forms
  <2>3. QED BY <1>2, <2>2, SmallNumbers, Zenon DEF InSync
<1>3. CASE ~(Len(f.providers) = 1) /\ ~(Len(f.providers) > 1)
  <2>1. Synced(f) = f
    BY <1>3 DEF Synced
  <2>2. QED BY <1>0, <1>3, <2>1 DEF InSync
<1>4. QED BY <1>1, <1>2, <1>3

LEMMA ShownType ==
    ASSUME TypeOK
    PROVE  /\ Shown("json") \in Lists /\ Shown("base") \in Providers \cup {Blank}
           /\ Shown("token") \in Tokens \cup {Blank}
           /\ ProvidersFrom(Shown("json"), Shown("base")) \in Lists
<1>1. /\ Shown("json") \in Lists /\ Shown("base") \in Providers \cup {Blank}
      /\ Shown("token") \in Tokens \cup {Blank}
  BY SettingsAssumption DEF TypeOK, Shown, Fields
<1>2. \A p \in Providers : << p >> \in Lists
  <2>1. \A p \in Providers : << p >> \in Seq(Providers) /\ Len(<< p >>) = 1
    OBVIOUS
  <2>2. QED BY <2>1, ListOfSeq, MaxFacts
<1>3. << >> \in Lists
  <2>1. << >> \in Seq(Providers) /\ Len(<< >>) = 0
    BY EmptySeq
  <2>2. 0 <= MaxProviders
    BY MaxFacts
  <2>3. QED BY <2>1, <2>2, ListOfSeq, Zenon
<1>4. QED BY <1>1, <1>2, <1>3 DEF ProvidersFrom

----------------------------------------------------------------------------
\* A step of one tab that stores a synced form in it.
LEMMA FormStep ==
    ASSUME SettingsInv, NEW t \in Tabs, NEW f \in Forms, InSync(f),
           tab' = [tab EXCEPT ![t] = f], UNCHANGED <<table, env, posted, saved>>
    PROVE  SettingsInv'
<1>1. \A u \in Tabs : tab'[u] = IF u = t THEN f ELSE tab[u]
  BY DEF SettingsInv, TypeOK
<1>2. TypeOK'
  BY DEF SettingsInv, TypeOK
<1>3. QED BY <1>1, <1>2 DEF SettingsInv, InSync, Agrees

\* A step that only sends a synced payload on its way, or takes one off it.
LEMMA PostedStep ==
    ASSUME SettingsInv, NEW t \in Tabs, NEW f,
           f = NoForm \/ (f \in Fields /\ Agrees(f)),
           posted' = [posted EXCEPT ![t] = f], UNCHANGED <<table, env, tab, saved>>
    PROVE  SettingsInv'
<1>1. \A u \in Tabs : posted'[u] = IF u = t THEN f ELSE posted[u]
  BY DEF SettingsInv, TypeOK
<1>2. TypeOK'
  BY DEF SettingsInv, TypeOK
<1>3. QED BY <1>1, <1>2 DEF SettingsInv, InSync, Agrees

LEMMA SettingsInit == Init => SettingsInv
BY DEF Init, SettingsInv, TypeOK

LEMMA SettingsStep == SettingsInv /\ [Next]_vars => SettingsInv'
<1> SUFFICES ASSUME SettingsInv, [Next]_vars
             PROVE  SettingsInv'
  OBVIOUS
<1>1. CASE UNCHANGED vars
  BY <1>1 DEF SettingsInv, TypeOK, vars, InSync, Agrees
<1>2. CASE Restart
  BY <1>2 DEF SettingsInv, TypeOK, Restart, InSync, Agrees
<1>3. ASSUME NEW t \in Tabs, NEW token \in Tokens \cup {Blank}, Open(t, token)
      PROVE  SettingsInv'
  <2> DEFINE f == [providers |-> ProvidersFrom(Shown("json"), Shown("base")),
                   base |-> Shown("base"), token |-> Shown("token"), url |-> token]
  <2>1. f \in Forms
    BY ShownType DEF SettingsInv, Forms
  <2>2. tab' = [tab EXCEPT ![t] = Synced(f)] /\ UNCHANGED <<table, env, posted, saved>>
    BY <1>3 DEF Open
  <2> HIDE DEF f
  <2>3. QED BY <2>1, <2>2, SyncedForm, FormStep
<1>4. ASSUME NEW t \in Tabs, tab[t] # NoForm, NEW p \in Providers, AddProvider(t, p)
      PROVE  SettingsInv'
  <2> DEFINE f == [tab[t] EXCEPT !.providers = Append(@, p)]
  <2>1. tab[t] \in Forms
    BY <1>4 DEF SettingsInv, TypeOK
  <2>2. Append(tab[t].providers, p) \in Lists
    BY <1>4, <2>1, Extended DEF AddProvider, Forms
  <2>3. f \in Forms
    BY <2>1, <2>2 DEF Forms
  <2>4. tab' = [tab EXCEPT ![t] = Synced(f)] /\ UNCHANGED <<table, env, posted, saved>>
    BY <1>4 DEF AddProvider, Edit
  <2> HIDE DEF f
  <2>5. QED BY <2>3, <2>4, SyncedForm, FormStep
<1>5. ASSUME NEW t \in Tabs, tab[t] # NoForm, NEW i \in DOMAIN tab[t].providers,
             RemoveProvider(t, i)
      PROVE  SettingsInv'
  <2> DEFINE f == [tab[t] EXCEPT !.providers =
                     SubSeq(@, 1, i - 1) \o SubSeq(@, i + 1, Len(@))]
  <2>1. tab[t] \in Forms
    BY <1>5 DEF SettingsInv, TypeOK
  <2>2. SubSeq(tab[t].providers, 1, i - 1)
            \o SubSeq(tab[t].providers, i + 1, Len(tab[t].providers)) \in Lists
    BY <2>1, Without DEF Forms
  <2>3. f \in Forms
    BY <2>1, <2>2 DEF Forms
  <2>4. tab' = [tab EXCEPT ![t] = Synced(f)] /\ UNCHANGED <<table, env, posted, saved>>
    BY <1>5 DEF RemoveProvider, Edit
  <2> HIDE DEF f
  <2>5. QED BY <2>3, <2>4, SyncedForm, FormStep
<1>6. ASSUME NEW t \in Tabs, tab[t] # NoForm, NEW token \in Tokens \cup {Blank},
             EditToken(t, token)
      PROVE  SettingsInv'
  <2> DEFINE f == [tab[t] EXCEPT !.token = token]
  <2>1. tab[t] \in Forms /\ InSync(tab[t])
    BY <1>6 DEF SettingsInv, TypeOK
  <2>2. f \in Forms /\ InSync(f)
    BY <2>1 DEF Forms, InSync
  <2>3. tab' = [tab EXCEPT ![t] = f] /\ UNCHANGED <<table, env, posted, saved>>
    BY <1>6 DEF EditToken, Edit
  <2> HIDE DEF f
  <2>4. QED BY <2>2, <2>3, FormStep
<1>7. ASSUME NEW t \in Tabs, Submit(t)
      PROVE  SettingsInv'
  <2>1. tab[t] \in Forms /\ InSync(tab[t])
    BY <1>7 DEF Submit, SettingsInv, TypeOK
  <2>0. Payload(tab[t]) \in Fields /\ Agrees(Payload(tab[t]))
    BY <2>1 DEF Payload, Forms, Fields, InSync, Agrees
  <2>2. posted' = [posted EXCEPT ![t] = Payload(tab[t])] /\ UNCHANGED <<table, env, tab, saved>>
    BY <1>7 DEF Submit
  <2>3. QED BY <2>0, <2>2, PostedStep
<1>8. ASSUME NEW t \in Tabs, Write(t)
      PROVE  SettingsInv'
  <2>1. posted[t] \in Fields /\ Agrees(posted[t]) /\ posted[t] # NoForm
    BY <1>8 DEF Write, SettingsInv, TypeOK
  <2>2. /\ table' = Stored(posted[t]) /\ saved' = posted[t]
        /\ posted' = [posted EXCEPT ![t] = NoForm]
        /\ UNCHANGED <<env, tab>>
    BY <1>8 DEF Write
  <2>3. Stored(posted[t]) \in Fields
    BY <2>1 DEF Stored, Fields
  <2>4. TypeOK'
    BY <2>1, <2>2, <2>3 DEF SettingsInv, TypeOK, Fields
  <2>5. \A u \in Tabs : posted'[u] = IF u = t THEN NoForm ELSE posted[u]
    BY <2>2 DEF SettingsInv, TypeOK
  <2>6. QED BY <2>1, <2>2, <2>4, <2>5 DEF SettingsInv, InSync, Agrees
<1>9. ASSUME NEW t \in Tabs, Aborted(t)
      PROVE  SettingsInv'
  BY <1>9, PostedStep DEF Aborted
<1>10. QED BY <1>1, <1>2, <1>3, <1>4, <1>5, <1>6, <1>7, <1>8, <1>9 DEF Next

\* The inductive invariant of the settings.
THEOREM SettingsInvariant == Spec => []SettingsInv
BY SettingsInit, SettingsStep, PTL DEF Spec

\* What a form left non-blank is in force from its saving to the next saving,
\* under every environment the service is restarted with.
THEOREM SavedInForceAlways == Spec => []SavedInForce
<1>1. SettingsInv => SavedInForce
  <2> SUFFICES ASSUME SettingsInv, saved # NoForm PROVE
        /\ saved.json # << >> => Upstreams = saved.json
        /\ saved.token # Blank => Effective("token") = saved.token
    BY DEF SavedInForce
  <2>1. /\ saved.json \in Lists /\ saved.token \in Tokens \cup {Blank}
        /\ table.json = saved.json /\ table.token = saved.token
    BY DEF SettingsInv, Stored, Fields
  <2>2. saved.json # << >> => Effective("json") = saved.json
    BY <2>1, SettingsAssumption DEF Effective, Falsy
  <2>3. saved.token # Blank => Effective("token") = saved.token \/ saved.token = << >>
    BY <2>1, SettingsAssumption DEF Effective, Falsy
  <2>4. QED BY <2>2, <2>3, <2>1, SettingsAssumption DEF Upstreams, ProvidersFrom
<1>2. QED BY <1>1, SettingsInvariant, PTL

\* No provider hides in the older pair beside a list that does not name it.
THEOREM PairAgreesAlways == Spec => []PairAgrees
<1>1. SettingsInv => PairAgrees
  <2> SUFFICES ASSUME SettingsInv, table.json # Absent, table.json # << >>
               PROVE  table.base = IF Len(table.json) = 1 THEN table.json[1] ELSE Blank
    BY DEF PairAgrees
  <2>1. saved # NoForm
    BY DEF SettingsInv
  <2>2. /\ saved.json \in Lists /\ Agrees(saved)
        /\ table.json = saved.json /\ table.base = saved.base
    BY <2>1 DEF SettingsInv, Stored, Fields
  <2>3. saved.json \in Seq(Providers) /\ Len(saved.json) \in Nat
    BY <2>2, ListFacts
  <2>4. Len(saved.json) \in Nat \ {0}
    BY <2>2, <2>3, EmptySeq
  <2>5. Len(saved.json) = 1 \/ Len(saved.json) > 1
    BY <2>4, SmallNumbers, Zenon
  <2>6. QED BY <2>2, <2>5 DEF Agrees
<1>2. QED BY <1>1, SettingsInvariant, PTL

\* The settings are well typed, for any providers and any number of tabs.
THEOREM SettingsTypes == Spec => []TypeOK
<1>1. SettingsInv => TypeOK
  BY DEF SettingsInv
<1>2. QED BY <1>1, SettingsInvariant, PTL
==============================================================================
