------------------------------- MODULE Metering -------------------------------
(****************************************************************************)
(* What a call is charged: the tokens counted for it (backend/app/tokens.py *)
(* over the request and what proxy.py captured of the answer), the price    *)
(* table (cost.py) and the sums of its session (recording.py).              *)
(*                                                                          *)
(* The table is the built-in one merged with prices.json, read again when   *)
(* the file's mtime has changed.  The monitor loads it step by step (stat,  *)
(* read, keep) while somebody edits the file: in place, first emptied and   *)
(* then written, or by moving another file there, which brings its own      *)
(* mtime.  Times are ticks of the file system's clock, so two edits may     *)
(* carry one mtime; a file that is not there has mtime 0, as in the code.   *)
(*                                                                          *)
(* Tokens are recorded one call at a time: the handlers count, price and    *)
(* store without an await.  Texts are their lengths.  Prices are micro-     *)
(* dollars per token, so that the code's rounding to six digits is exact.   *)
(*                                                                          *)
(* External: the editor of prices.json and the file system.                 *)
(****************************************************************************)
EXTENDS Naturals, SequencesExt, FiniteSetsExt

CONSTANTS
    DefaultPrices,      \* DEFAULT_PRICES, in order: [key, value]
    Contents,           \* what prices.json may hold, as sequences of the same
    Models, NoModel,    \* NoModel: a call that names none
    Fits,               \* <<key, model>>: the key occurs in the lower-cased name
    Short, NoNumber, Mistyped,  \* values that are skipped, stop the reading, raise
    Texts,              \* messages or choices, as the lengths of their texts
    Usages, NoUsage,    \* usage blocks [in, out]
    Streams, NoBlock,   \* chunks of streams: [content, usage], NoBlock for no usage
    Sessions, NoSession,
    MaxClock, MaxCalls  \* bounds

Prices == [in : Nat, out : Nat]

Entries == [key : STRING, value : Prices \cup {Short, NoNumber, Mistyped}]

ASSUME MeteringAssumption ==
    /\ DefaultPrices \in Seq([key : STRING, value : Prices])
    /\ \A i, j \in DOMAIN DefaultPrices :
          DefaultPrices[i].key = DefaultPrices[j].key => i = j
    /\ Contents \subseteq Seq(Entries)
    /\ << >> \in Contents       \* also: a file that is no JSON, or half written
    /\ Texts \subseteq Seq(Nat) /\ Texts # {}
    /\ NoModel \in Models /\ \A f \in Fits : f[2] # NoModel
    /\ NoUsage \notin Usages /\ \A u \in Usages : u.in \in Nat /\ u.out \in Nat
    /\ NoSession \notin Sessions
    /\ \A chunks \in Streams : chunks \in Seq([content : Nat, usage : Usages \cup {NoUsage, NoBlock}])
    /\ MaxClock \in Nat \ {0} /\ MaxCalls \in Nat

VARIABLES
    clock,      \* the file system's clock
    file,       \* prices.json: [entries, mtime]
    editing,    \* the file has been emptied and not written yet
    cache,      \* _prices_cache, or NoTable
    cacheMtime, \* _prices_mtime
    step,       \* where the recording of the call is
    call,       \* the call being recorded
    seen,       \* the local variable mtime of _load_prices
    merged,     \* the local variable merged
    rows,       \* stored calls: [session, tokens, cost, worded]
    totals,     \* sessions rows: [tokens, cost]
    used,       \* history: the mtimes the file has had
    reused      \* history: those it was given more than once

fileVars == <<clock, file, editing, used, reused>>
tableVars == <<cache, cacheMtime, seen, merged>>
vars == <<fileVars, tableVars, step, call, rows, totals>>

----------------------------------------------------------------------------
NoTable == << >>

Steps == {"idle", "stat", "read", "keep", "price"}

Calls == [model : Models, session : Sessions \cup {NoSession},
          prompt : Texts, texts : Seq(Nat), usage : Usages \cup {NoUsage}]

TypeOK ==
    /\ clock \in 1 .. MaxClock
    /\ file \in [entries : Contents, mtime : 0 .. clock]
    /\ editing \in BOOLEAN
    /\ cacheMtime \in 0 .. clock /\ seen \in 0 .. clock
    /\ step \in Steps
    /\ call \in Calls
    /\ \A table \in {cache, merged} \ {NoTable} :
          /\ Len(table) >= Len(DefaultPrices)
          /\ \A i, j \in DOMAIN table : table[i].key = table[j].key => i = j
    /\ rows \in Seq([session : Sessions \cup {NoSession}, tokens : Nat, cost : Nat,
                     worded : BOOLEAN])
    /\ totals \in [Sessions -> [tokens : Nat, cost : Nat]]

\* Between two calls nothing of the last one is kept.
NoCall == [model |-> NoModel, session |-> NoSession,
           prompt |-> CHOOSE p \in Texts : TRUE, texts |-> << >>, usage |-> NoUsage]

Init ==
    /\ clock = 1
    /\ file = [entries |-> << >>, mtime |-> 0]
    /\ editing = FALSE
    /\ cache = NoTable /\ cacheMtime = 0
    /\ seen = 0 /\ merged = NoTable
    /\ step = "idle"
    /\ call = NoCall
    /\ rows = << >>
    /\ totals = [s \in Sessions |-> [tokens |-> 0, cost |-> 0]]
    /\ used = {0} /\ reused = {}

----------------------------------------------------------------------------
\* estimate_usage.

EstimateText(n) == IF n = 0 THEN 0 ELSE Max({1, n \div 4})

Estimated(texts) == SumFunction([i \in DOMAIN texts |-> EstimateText(texts[i])])

\* Usage trusted whenever there is any.
CredulousTokens(c) ==
    IF c.usage # NoUsage THEN c.usage
    ELSE [in |-> Estimated(c.prompt), out |-> Estimated(c.texts)]

\* Usage of all zeros is not trusted.
Tokens(c) ==
    IF c.usage # NoUsage /\ (c.usage.in > 0 \/ c.usage.out > 0) THEN c.usage
    ELSE [in |-> Estimated(c.prompt), out |-> Estimated(c.texts)]

----------------------------------------------------------------------------
\* _load_prices and price_for.

\* Overrides put behind the built-in prices.
BehindPut(table, entry) ==
    IF entry.value = Short THEN table ELSE Append(table, entry)

\* A dict keeps the place of a key whose value changes.
Put(table, entry) ==
    CASE entry.value = Short -> table
      [] entry.value # Short /\ \E i \in DOMAIN table : table[i].key = entry.key ->
            [i \in DOMAIN table |-> IF table[i].key = entry.key THEN entry ELSE table[i]]
      [] OTHER -> Append(table, entry)

\* The entries before the first one that cannot be converted.
Readable(entries) ==
    LET n == SelectInSeq(entries, LAMBDA e : e.value \in {NoNumber, Mistyped})
    IN  IF n = 0 THEN entries ELSE SubSeq(entries, 1, n - 1)

\* TypeError is not among the exceptions that are caught.
Raises(entries) ==
    LET n == Len(Readable(entries)) IN n < Len(entries) /\ entries[n + 1].value = Mistyped

Merged(entries) == FoldLeft(Put, DefaultPrices, Readable(entries))

\* The first key that occurs in the model's name; no key costs nothing.
Price(table, model) ==
    LET n == SelectInSeq(table, LAMBDA e : <<e.key, model>> \in Fits)
    IN  IF n = 0 THEN [in |-> 0, out |-> 0] ELSE table[n].value

Cost(table, c) ==
    LET p == Price(table, c.model)
        t == Tokens(c)
    IN  t.in * p.in + t.out * p.out

----------------------------------------------------------------------------
\* The editor.

Tick ==
    /\ clock < MaxClock
    /\ clock' = clock + 1
    /\ UNCHANGED <<file, editing, used, reused, tableVars, step, call, rows, totals>>

Becomes(entries, mtime) ==
    /\ file' = [entries |-> entries, mtime |-> mtime]
    /\ used' = used \cup {mtime}
    /\ reused' = reused \cup (used \cap {mtime})
    /\ UNCHANGED clock

Empty == ~editing /\ editing' = TRUE /\ Becomes(<< >>, clock)

Write(entries) == editing /\ editing' = FALSE /\ Becomes(entries, clock)

Move(entries, mtime) == ~editing /\ UNCHANGED editing /\ Becomes(entries, mtime)

Delete == ~editing /\ file.mtime # 0 /\ UNCHANGED editing /\ Becomes(<< >>, 0)

Edit ==
    /\ \/ Empty \/ Delete
       \/ \E c \in Contents : Write(c) \/ \E t \in 1 .. clock : Move(c, t)
    /\ UNCHANGED <<tableVars, step, call, rows, totals>>

----------------------------------------------------------------------------
\* A call has been answered, by a body or by a stream that was captured chunk
\* by chunk and rebuilt into a body of one choice.

\* The last usage block is the one that counts, an empty one as none.
LastUsage(chunks) ==
    LET n == SelectLastInSeq(chunks, LAMBDA c : c.usage # NoBlock)
    IN  IF n = 0 THEN NoUsage ELSE chunks[n].usage

Captured(chunks) ==
    [texts |-> <<SumFunction([i \in DOMAIN chunks |-> chunks[i].content])>>,
     usage |-> LastUsage(chunks)]

\* A stream that an error status opened is not rebuilt.
Bodies == [texts : Texts, usage : Usages \cup {NoUsage}]
          \cup {Captured(chunks) : chunks \in Streams}
          \cup {[texts |-> << >>, usage |-> NoUsage]}

Answered(model, session, prompt, body) ==
    /\ step = "idle"
    /\ Len(rows) < MaxCalls
    /\ call' = [model |-> model, session |-> session, prompt |-> prompt,
                texts |-> body.texts, usage |-> body.usage]
    /\ step' = IF model = NoModel THEN "price" ELSE "stat"
    /\ UNCHANGED <<fileVars, tableVars, rows, totals>>

----------------------------------------------------------------------------
\* _load_prices, on behalf of compute_cost.

Hit == cache # NoTable /\ file.mtime = cacheMtime

UseCache ==
    /\ step = "stat"
    /\ Hit
    /\ step' = "price"
    /\ UNCHANGED <<fileVars, tableVars, call, rows, totals>>

Stat ==
    /\ step = "stat"
    /\ ~Hit
    /\ seen' = file.mtime
    /\ step' = "read"
    /\ UNCHANGED <<fileVars, cache, cacheMtime, merged, call, rows, totals>>

Lost == step' = "idle" /\ call' = NoCall /\ UNCHANGED <<tableVars, rows, totals>>

\* The file goes between exists() and stat(): compute_cost raises.
StatRaises == step = "stat" /\ Delete /\ Lost

Read ==
    /\ step = "read"
    /\ ~Raises(file.entries)
    /\ merged' = Merged(file.entries)
    /\ step' = "keep"
    /\ UNCHANGED <<fileVars, cache, cacheMtime, seen, call, rows, totals>>

ReadRaises ==
    /\ step = "read"
    /\ Raises(file.entries)
    /\ Lost
    /\ UNCHANGED fileVars

\* The mtime asked for once the file has been read.
LateMtime == file.mtime

KeptMtime == seen

Keep ==
    /\ step = "keep"
    /\ cache' = merged
    /\ cacheMtime' = KeptMtime
    /\ seen' = 0 /\ merged' = NoTable
    /\ step' = "price"
    /\ UNCHANGED <<fileVars, call, rows, totals>>

\* The session charged at the price of the moment, not of the row.
FreshCharge(c) == Cost(Merged(file.entries), c)

Charge(c) == Cost(cache, c)

\* record_generation and _touch_session, which is given the row's cost.
Store ==
    /\ step = "price"
    /\ LET s == call.session
           total == Tokens(call).in + Tokens(call).out
       IN  /\ rows' = Append(rows,
                 [session |-> s, tokens |-> total, cost |-> Cost(cache, call),
                  worded |-> \E n \in ToSet(call.prompt \o call.texts) : n > 0])
           /\ totals' = IF s = NoSession THEN totals
                        ELSE [totals EXCEPT ![s].tokens = @ + total,
                                            ![s].cost = @ + Charge(call)]
    /\ step' = "idle"
    /\ call' = NoCall
    /\ UNCHANGED <<fileVars, tableVars>>

Next ==
    \/ Tick \/ Edit
    \/ \E m \in Models, s \in Sessions \cup {NoSession}, p \in Texts, b \in Bodies :
          Answered(m, s, p, b)
    \/ UseCache \/ Stat \/ StatRaises \/ Read \/ ReadRaises \/ Keep \/ Store

Spec == Init /\ [][Next]_vars

----------------------------------------------------------------------------
(* Properties. *)

\* What cost.py calls hot reload: a cached table that the next call would use
\* without reading is the one the file gives, whatever edits fell between the
\* stat, the read and the store of an earlier load, and also after a file was
\* moved there that is older than the one before.  What escapes it is an mtime
\* the file had before: two edits within one tick of the clock, a file put
\* back, or one that is gone again.
CacheCurrent == Hit /\ file.mtime \notin reused => cache = Merged(file.entries)

\* A session's sums are those of its rows, while the prices change.
SessionTotals ==
    \A s \in Sessions :
        LET mine == {i \in DOMAIN rows : rows[i].session = s}
        IN  /\ totals[s].tokens = SumFunction([i \in mine |-> rows[i].tokens])
            /\ totals[s].cost = SumFunction([i \in mine |-> rows[i].cost])

\* tokens.py: the dashboard never shows zeros for a call that obviously cost
\* tokens.  However the usage blocks of its stream came, a call with words in
\* it has tokens.
NoZeros == \A i \in DOMAIN rows : rows[i].worded => rows[i].tokens > 0
==============================================================================
