------------------------------ MODULE ModelFanout -----------------------------
(****************************************************************************)
(* Asking every provider for its models: GET /v1/models of the proxy        *)
(* (list_models) and the two diagnostics of backend/app/api/providers.py.   *)
(*                                                                          *)
(* One request starts a fetch per configured provider and gathers them: the *)
(* fetches end in any order, the settings may change meanwhile, and the     *)
(* answer is put together when all have ended, or when one has raised what  *)
(* it does not catch.  The fetches then left over are nobody's any more.    *)
(*                                                                          *)
(* External, modelled from their use: the providers, httpx, asyncio.gather. *)
(****************************************************************************)
EXTENDS Naturals, SequencesExt, FiniteSets

CONSTANTS
    Providers,
    Labels, LabelOf,    \* provider_label: two providers may share one
    Ids, NoId,          \* model ids; an item without one
    Configs,            \* the provider lists a user may save
    MaxItems            \* bound: items one provider lists

ASSUME FanoutAssumption ==
    /\ LabelOf \in [Providers -> Labels]
    /\ NoId \notin Ids
    /\ Configs \subseteq Seq(Providers)
    /\ MaxItems \in Nat

VARIABLES
    upstreams,  \* settings.upstreams
    kind,       \* "list" for /v1/models, "check" for the diagnostics
    pc,         \* the handler: "idle", "gather" or "done"
    asked,      \* the providers the fetches were started for
    outcome,    \* DOMAIN asked -> what the fetch has ended with
    arrived,    \* history: the fetches in the order in which they ended
    answer      \* the response: [code, models, errors, rows]

vars == <<upstreams, kind, pc, asked, outcome, arrived, answer>>

----------------------------------------------------------------------------
\* What a fetch can end with: "models" is an answer below 400 whose "data" can
\* be iterated, or that has none; in "odd" data it cannot, such as null.
\* "raised" is an exception that is no RequestError, such as InvalidURL.
ItemLists == UNION {[1 .. n -> Ids \cup {NoId}] : n \in 0 .. MaxItems}

Outcomes == [how : {"models"}, ids : ItemLists]
            \cup [how : {"odd", "status", "network", "raised"}, ids : {<< >>}]

Pending == [how |-> "pending", ids |-> << >>]

Rows == [provider : Providers, ok : BOOLEAN, count : Nat]

NoAnswer == [code |-> 0, models |-> << >>, errors |-> << >>, rows |-> << >>]

TypeOK ==
    /\ upstreams \in Configs
    /\ kind \in {"list", "check"}
    /\ pc \in {"idle", "gather", "done"}
    /\ asked \in Seq(Providers)
    /\ outcome \in Seq(Outcomes \cup {Pending}) /\ Len(outcome) = Len(asked)
    /\ arrived \in Seq(DOMAIN asked)
    /\ answer.code \in {0, 200, 500, 502, 503}
    /\ answer.models \in Seq(Labels \X Ids)
    /\ answer.errors \in Seq(Labels)
    /\ answer.rows \in Seq(Rows)

Init ==
    /\ upstreams \in Configs
    /\ kind \in {"list", "check"}
    /\ pc = "idle"
    /\ asked = << >>
    /\ outcome = << >>
    /\ arrived = << >>
    /\ answer = NoAnswer

----------------------------------------------------------------------------
\* Putting the answer together.

Failed(i) == outcome[i].how \in {"status", "network"}

\* Going through the fetches as they ended.
ArrivalPlace(i) == CHOOSE k \in DOMAIN arrived : arrived[k] = i

\* gather keeps the order of its arguments.
Place(i) == i

\* <<i, j>> stands for the j-th item of the i-th fetch, <<i, 0>> for the fetch.
Precedes(a, b) == Place(a[1]) < Place(b[1]) \/ (a[1] = b[1] /\ a[2] < b[2])

Rank(a, positions) == Cardinality({b \in positions : Precedes(b, a)})

InOrder(positions) ==
    [n \in 1 .. Cardinality(positions) |->
        CHOOSE a \in positions : Rank(a, positions) = n - 1]

Fetches == (DOMAIN asked) \X {0}

Items == UNION {{i} \X (DOMAIN outcome[i].ids) : i \in DOMAIN asked}

\* An item is known by the label of its provider and its id, the dedupe_key.
Key(a) == <<LabelOf[asked[a[1]]], outcome[a[1]].ids[a[2]]>>

WithId == {a \in Items : Key(a)[2] # NoId}

\* Listing a model id once, whoever offers it.
ListedById == {a \in WithId : \A b \in WithId : Precedes(b, a) => Key(b)[2] # Key(a)[2]}

\* Listing what has no id.
ListedUnchecked == {a \in Items : \A b \in Items : Precedes(b, a) => Key(b) # Key(a)}

\* list_models keeps the first item of each provider label and id.
Listed == {a \in WithId : \A b \in WithId : Precedes(b, a) => Key(b) # Key(a)}

Keys(positions) ==
    LET order == InOrder(positions) IN [n \in DOMAIN order |-> Key(order[n])]

FailedFetches == {a \in Fetches : Failed(a[1])}

\* upstream_errors.
Errors ==
    LET order == InOrder(FailedFetches)
    IN  [n \in DOMAIN order |-> LabelOf[asked[order[n][1]]]]

\* The diagnostics: a row per provider, and the models with an id.
Row(i) == [provider |-> asked[i], ok |-> ~Failed(i), count |-> Len(outcome[i].ids)]

CheckRows == LET order == InOrder(Fetches) IN [n \in DOMAIN order |-> Row(order[n][1])]

----------------------------------------------------------------------------
\* The handler.

\* upstream_configured is tested by list_models only.
Refuse ==
    /\ pc = "idle" /\ kind = "list"
    /\ upstreams = << >>
    /\ pc' = "done"
    /\ answer' = [NoAnswer EXCEPT !.code = 503]
    /\ UNCHANGED <<upstreams, kind, asked, outcome, arrived>>

Ask ==
    /\ pc = "idle"
    /\ kind = "check" \/ upstreams # << >>
    /\ pc' = "gather"
    /\ asked' = upstreams
    /\ outcome' = [i \in DOMAIN upstreams |-> Pending]
    /\ UNCHANGED <<upstreams, kind, arrived, answer>>

\* The diagnostics read the items inside the fetch, list_models after it.
Raises(o) == o.how = "raised" \/ (o.how = "odd" /\ kind = "check")

Fetched(i, o) ==
    /\ pc = "gather"
    /\ outcome[i] = Pending
    /\ outcome' = [outcome EXCEPT ![i] = o]
    /\ arrived' = Append(arrived, i)
    /\ UNCHANGED <<upstreams, kind, asked>>

FetchEnds(i, o) ==
    /\ ~Raises(o)
    /\ Fetched(i, o)
    /\ UNCHANGED <<pc, answer>>

\* gather hands the first exception to the handler, which does not catch it.
FetchRaises(i, o) ==
    /\ Raises(o)
    /\ Fetched(i, o)
    /\ pc' = "done"
    /\ answer' = [NoAnswer EXCEPT !.code = 500]

AllEnded == \A i \in DOMAIN asked : outcome[i] # Pending

\* One provider's data cannot be iterated: TypeError, after all have ended.
MergeRaises ==
    /\ pc = "gather" /\ kind = "list"
    /\ AllEnded
    /\ \E i \in DOMAIN asked : outcome[i].how = "odd"
    /\ pc' = "done"
    /\ answer' = [NoAnswer EXCEPT !.code = 500]
    /\ UNCHANGED <<upstreams, kind, asked, outcome, arrived>>

Merge ==
    /\ pc = "gather" /\ kind = "list"
    /\ AllEnded
    /\ \A i \in DOMAIN asked : outcome[i].how # "odd"
    /\ pc' = "done"
    /\ answer' = [code |-> IF Listed = {} /\ FailedFetches # {} THEN 502 ELSE 200,
                  models |-> Keys(Listed), errors |-> Errors, rows |-> << >>]
    /\ UNCHANGED <<upstreams, kind, asked, outcome, arrived>>

Report ==
    /\ pc = "gather" /\ kind = "check"
    /\ AllEnded
    /\ pc' = "done"
    /\ answer' = [code |-> 200, models |-> Keys(WithId), errors |-> << >>,
                  rows |-> CheckRows]
    /\ UNCHANGED <<upstreams, kind, asked, outcome, arrived>>

SaveSettings ==
    /\ upstreams' \in Configs
    /\ UNCHANGED <<kind, pc, asked, outcome, arrived, answer>>

Next ==
    \/ Refuse \/ Ask \/ MergeRaises \/ Merge \/ Report \/ SaveSettings
    \/ \E i \in DOMAIN asked, o \in Outcomes : FetchEnds(i, o) \/ FetchRaises(i, o)

Spec == Init /\ [][Next]_vars

----------------------------------------------------------------------------
(* Properties. *)

Offers(i) == {<<LabelOf[asked[i]], id>> : id \in ToSet(outcome[i].ids) \ {NoId}}

\* What the providers that answered offer between them.
Offer == UNION {Offers(i) : i \in DOMAIN asked}

\* A merged list holds each model that some provider offers, once per provider
\* label, and names every provider that failed: no answer hides another, and
\* nothing is listed that nobody offered.  (list_models, its dedupe_key.)
MergeComplete ==
    (pc = "done" /\ kind = "list" /\ answer.code \in {200, 502}) =>
        /\ ToSet(answer.models) = Offer
        /\ Len(answer.models) = Cardinality(Offer)
        /\ ToSet(answer.errors) = {LabelOf[asked[i]] : i \in {j \in DOMAIN asked : Failed(j)}}

Home(x) == {i \in DOMAIN asked : x \in Offers(i)}

\* A listed model comes before those of later providers, and the row of a
\* provider stands where the provider stands in the settings the request
\* read, whichever fetch was the first to end and whatever was saved since.
OrderKept ==
    (pc = "done" /\ answer.code = 200) =>
        /\ \A a, b \in DOMAIN answer.models : a < b =>
              \E i \in Home(answer.models[a]), j \in Home(answer.models[b]) : i <= j
        /\ kind = "check" => [i \in DOMAIN answer.rows |-> answer.rows[i].provider] = asked
==============================================================================
