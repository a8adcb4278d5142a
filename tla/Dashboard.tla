------------------------------ MODULE Dashboard ------------------------------
(****************************************************************************)
(* The lists of calls and the daily trend (daily_trend in                   *)
(* backend/app/aggregation.py, list_generations in recording.py and         *)
(* api/traces.py) while calls come in, with the times their senders gave    *)
(* them, and hours and midnights pass.                                      *)
(*                                                                          *)
(* A query handler awaits nothing, so no call is stored while it runs; the  *)
(* clock does go on, between the two readings that daily_trend takes of it. *)
(* A client that pages through the traces takes as many requests as pages,  *)
(* and calls are stored in between.                                         *)
(*                                                                          *)
(* Times are hours, a call is its place in the table.  External: the paging *)
(* client, and SQLite, which answers ORDER BY created_at DESC by walking    *)
(* its index on that column backwards.                                      *)
(****************************************************************************)
EXTENDS Integers, Sequences, FiniteSets

CONSTANTS
    Calls,          \* the calls that come in: [at, status]
    Day,            \* hours of a day
    Start,          \* the hour the observation begins
    Trend,          \* the days of the trend
    PageSize,
    MaxLimit,       \* the largest limit list_traces accepts
    MaxHour, MaxRows    \* bounds

ASSUME DashboardAssumption ==
    /\ {Day, Trend, PageSize} \subseteq Nat \ {0}
    /\ {Start, MaxLimit, MaxHour, MaxRows} \subseteq Nat /\ Start <= MaxHour
    /\ \A c \in Calls : c.at \in 0 .. MaxHour /\ c.status \in {"success", "error"}

VARIABLES
    now,        \* the hour
    rows,       \* the generations, in the order they were stored
    trend,      \* a call of daily_trend: [at, cutoff, perDay, asked]
    pager       \* a client paging through /api/v1/traces

vars == <<now, rows, trend, pager>>

----------------------------------------------------------------------------
Statuses == {"success", "error"}

AnyStatus == "any"

NoPager == [status |-> AnyStatus, began |-> {}, seen |-> {}, offset |-> 0, done |-> TRUE]

NoTrend == [at |-> "idle", cutoff |-> 0, perDay |-> << >>, asked |-> 0]

DayOf(hour) == hour \div Day

Ids == DOMAIN rows

TypeOK ==
    /\ now \in Start .. MaxHour
    /\ rows \in Seq(Calls)
    /\ trend.at \in {"idle", "cutoff", "query"}
    /\ \A d \in DOMAIN trend.perDay : trend.perDay[d] \in 1 .. trend.asked
    /\ trend.asked \in 0 .. Len(rows)
    /\ pager.status \in Statuses \cup {AnyStatus}
    /\ pager.began \subseteq Ids /\ pager.seen \subseteq Ids
    /\ pager.offset \in 0 .. MaxLimit
    /\ pager.done \in BOOLEAN

Init ==
    /\ now = Start
    /\ rows = << >>
    /\ trend = NoTrend
    /\ pager = NoPager

----------------------------------------------------------------------------
Tick ==
    /\ now < MaxHour
    /\ now' = now + 1
    /\ UNCHANGED <<rows, trend, pager>>

\* record_generation: the SDK's events bring their own created_at.
Insert(row) ==
    /\ trend.at = "idle"
    /\ Len(rows) < MaxRows
    /\ rows' = Append(rows, row)
    /\ UNCHANGED <<now, trend, pager>>

----------------------------------------------------------------------------
\* list_generations, recent_calls and list_traces.

Newer(i, j) == rows[i].at > rows[j].at \/ (rows[i].at = rows[j].at /\ i > j)

\* The place of a row in a list of rows, newest first, from 0.
Place(i, ids) == Cardinality({j \in ids : Newer(j, i)})

FirstOf(ids, n) == {i \in ids : Place(i, ids) < n}

From(ids, n) == {i \in ids : Place(i, ids) >= n}

Found(status) == {i \in Ids : status \in {AnyStatus, rows[i].status}}

\* The status asked for picked out of the newest rows.
FilteredLate(status, limit) == FirstOf(Ids, limit) \cap Found(status)

ListGenerations(status, limit) == FirstOf(Found(status), limit)

\* Cut out of a list that ends at the limit.
ListTraces(status, limit, offset) == From(ListGenerations(status, limit), offset)

\* A client that wants the rows behind an offset has to raise the limit by it.
OpenPager(status) ==
    /\ pager.done
    /\ pager' = [status |-> status, began |-> Found(status),
                 seen |-> {}, offset |-> 0, done |-> FALSE]
    /\ UNCHANGED <<now, rows, trend>>

\* A limit without a maximum.
AnyLimit(limit) == limit > 0

Accepted(limit) == limit \in 1 .. MaxLimit

NextPage ==
    LET limit == pager.offset + PageSize
        page == ListTraces(pager.status, limit, pager.offset)
    IN  /\ ~pager.done
        /\ Accepted(limit)
        /\ pager' = [pager EXCEPT !.seen = @ \cup page,
                                  !.offset = limit,
                                  !.done = Cardinality(page) < PageSize]
        /\ UNCHANGED <<now, rows, trend>>

----------------------------------------------------------------------------
\* daily_trend.

On(day, ids) == {i \in ids : DayOf(rows[i].at) = day}

\* A window of as many days as are shown.
TightCutoff == DayOf(now) - Trend + 1

CutoffDay == DayOf(now) - Trend

TrendCutoff ==
    /\ trend.at = "idle"
    /\ trend' = [NoTrend EXCEPT !.at = "cutoff", !.cutoff = CutoffDay]
    /\ UNCHANGED <<now, rows, pager>>

\* The cutoff is compared as text, "...T..." against the "... ..." SQLAlchemy
\* stores: a blank sorts first, so no row of the cutoff's own day passes.
Passes(i) == DayOf(rows[i].at) > trend.cutoff

TrendQuery ==
    /\ trend.at = "cutoff"
    /\ LET passing == {i \in Ids : Passes(i)}
       IN  trend' = [trend EXCEPT
               !.at = "query",
               !.perDay = [d \in {DayOf(rows[i].at) : i \in passing} |->
                              Cardinality(On(d, passing))],
               !.asked = Len(rows)]
    /\ UNCHANGED <<now, rows, pager>>

\* The bars: the days up to the today of this moment, gaps filled.
Bars ==
    [d \in (DayOf(now) - Trend + 1) .. DayOf(now) |->
        IF d \in DOMAIN trend.perDay THEN trend.perDay[d] ELSE 0]

TrendShown ==
    /\ trend.at = "query"
    /\ trend' = NoTrend
    /\ UNCHANGED <<now, rows, pager>>

----------------------------------------------------------------------------
Next ==
    \/ Tick \/ \E row \in Calls : Insert(row)
    \/ \E s \in Statuses \cup {AnyStatus} : OpenPager(s)
    \/ NextPage \/ TrendCutoff \/ TrendQuery \/ TrendShown

Spec == Init /\ [][Next]_vars

----------------------------------------------------------------------------
(* Properties. *)

\* A client that raises the limit with the offset misses no call that was
\* there when it began, although calls are stored before, between and behind
\* its pages: what it has not seen still lies before it, and at the last page
\* nothing is left.
PagesMissNothing ==
    /\ pager.began \subseteq pager.seen \cup From(Found(pager.status), pager.offset)
    /\ pager.done => pager.began \subseteq pager.seen

\* Every bar counts all the calls of its day, although the cutoff drops a day
\* and midnight may pass between the query and the choice of the days shown.
TrendComplete ==
    trend.at = "query" =>
        \A d \in DOMAIN Bars : Bars[d] = Cardinality(On(d, 1 .. trend.asked))
==============================================================================
