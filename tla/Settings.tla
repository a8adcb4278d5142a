------------------------------- MODULE Settings ------------------------------
(****************************************************************************)
(* Runtime configuration: the settings page in several browser tabs         *)
(* (backend/templates/settings.html), the settings API, the app_config      *)
(* table and the environment it falls back to (settings_service.py,         *)
(* config.py), and what the proxy makes of them (upstreams.py).             *)
(*                                                                          *)
(* A provider stands for its URL and key: the JSON list and the older       *)
(* UPSTREAM_BASE_URL / UPSTREAM_API_KEY pair both name one that way.  The   *)
(* blank JSON is the empty list.  A save is two actions: the token is       *)
(* checked before the handler awaits the body, the table written after it.  *)
(****************************************************************************)
EXTENDS Sequences, Naturals

CONSTANTS
    Providers, Tokens,
    Blank,          \* the empty string
    Absent,         \* no row in app_config
    Tabs,           \* browser tabs
    NoForm,         \* a tab that has not opened the page
    Envs,           \* environments the service may be started with
    MaxProviders    \* bound: provider cards of one form

Lists == UNION {[1 .. n -> Providers] : n \in 0 .. MaxProviders}

Fields == [json : Lists, base : Providers \cup {Blank}, token : Tokens \cup {Blank}]

ASSUME SettingsAssumption ==
    /\ Blank \notin Providers \cup Tokens /\ Absent \notin Providers \cup Tokens
    /\ Blank # Absent /\ << >> \notin Tokens
    /\ \A l \in Lists : l # Blank /\ l # Absent
    /\ MaxProviders \in Nat \ {0}
    /\ Envs \subseteq Fields

VARIABLES
    table,      \* app_config: [json, base, token]
    env,        \* the environment of the running process
    tab,        \* Tabs -> the form, with the token of the page's URL
    posted,     \* Tabs -> what the tab's save under way carries, or NoForm
    saved       \* history: what the save written last carried, or NoForm

vars == <<table, env, tab, posted, saved>>

----------------------------------------------------------------------------
Forms == [providers : Lists, base : Providers \cup {Blank},
          token : Tokens \cup {Blank}, url : Tokens \cup {Blank}]

TypeOK ==
    /\ table \in [json : Lists \cup {Absent}, base : Providers \cup {Blank, Absent},
                  token : Tokens \cup {Blank, Absent}]
    /\ env \in Envs
    /\ tab \in [Tabs -> Forms \cup {NoForm}]
    /\ posted \in [Tabs -> Fields \cup {NoForm}]
    /\ saved \in Fields \cup {NoForm}

Init ==
    /\ table = [json |-> Absent, base |-> Absent, token |-> Absent]
    /\ env \in Envs
    /\ tab = [t \in Tabs |-> NoForm]
    /\ posted = [t \in Tabs |-> NoForm]
    /\ saved = NoForm

----------------------------------------------------------------------------
\* Reading the settings.

Falsy(v) == v \in {Blank, << >>, Absent}

\* The environment wins over the table.
EnvFirstEffective(k) == IF ~Falsy(env[k]) THEN env[k] ELSE table[k]

\* get_config and _db_or_env: a row with a value wins over the environment.
Effective(k) == IF ~Falsy(table[k]) THEN table[k] ELSE env[k]

\* Answering without a token where no row holds one.
TokenlessShown(k) ==
    IF table[k] # Absent \/ k = "token" THEN table[k] ELSE env[k]

\* get_all_config: a row wins over the environment, blank or not.
Shown(k) == IF table[k] # Absent THEN table[k] ELSE env[k]

\* parse_upstreams: the JSON list, or else the one older provider.
ProvidersFrom(json, base) ==
    IF json # << >> THEN json ELSE IF base # Blank THEN << base >> ELSE << >>

Upstreams == ProvidersFrom(Effective("json"), Effective("base"))

\* require_write: the token presented, if one is in force.
Authorized(token) == Effective("token") \in {Blank, token}

----------------------------------------------------------------------------
\* The page.

\* Leaving the older pair alone when there are several providers.
StickySynced(f) ==
    IF Len(f.providers) = 1 THEN [f EXCEPT !.base = f.providers[1]] ELSE f

\* syncHiddenFields: one provider fills the older pair, several clear it,
\* none leaves it alone.
Synced(f) ==
    CASE Len(f.providers) = 1 -> [f EXCEPT !.base = f.providers[1]]
      [] Len(f.providers) > 1 -> [f EXCEPT !.base = Blank]
      [] OTHER -> f

\* settings_page renders, then loadSettings fetches; the page's token is the
\* one in its URL.
Open(t, token) ==
    /\ Authorized(token)
    /\ tab' = [tab EXCEPT ![t] =
                 Synced([providers |-> ProvidersFrom(Shown("json"), Shown("base")),
                         base |-> Shown("base"), token |-> Shown("token"), url |-> token])]
    /\ UNCHANGED <<table, env, posted, saved>>

Edit(t, f) ==
    /\ tab[t] # NoForm
    /\ tab' = [tab EXCEPT ![t] = f]
    /\ UNCHANGED <<table, env, posted, saved>>

AddProvider(t, p) ==
    /\ Len(tab[t].providers) < MaxProviders
    /\ Edit(t, Synced([tab[t] EXCEPT !.providers = Append(@, p)]))

RemoveProvider(t, i) ==
    Edit(t, Synced([tab[t] EXCEPT !.providers =
                      SubSeq(@, 1, i - 1) \o SubSeq(@, i + 1, Len(@))]))

EditToken(t, token) == Edit(t, [tab[t] EXCEPT !.token = token])

----------------------------------------------------------------------------
\* Saving.  A tab has one save under way at a time (a bound).

\* What the page sends; the JSON is written by syncHiddenFields.
Payload(f) == [json |-> f.providers, base |-> f.base, token |-> f.token]

\* set_all_config writes every key of the form in one transaction.
Stored(f) == [json |-> f.json, base |-> f.base, token |-> f.token]

\* The page refuses a form with no provider in either place, and the API one
\* whose token is not in force.
Submit(t) ==
    /\ tab[t] # NoForm /\ posted[t] = NoForm
    /\ tab[t].providers # << >> \/ tab[t].base # Blank
    /\ Authorized(tab[t].url)
    /\ posted' = [posted EXCEPT ![t] = Payload(tab[t])]
    /\ UNCHANGED <<table, env, tab, saved>>

\* The body has been read; the token is not looked at again.
Write(t) ==
    /\ posted[t] # NoForm
    /\ table' = Stored(posted[t])
    /\ saved' = posted[t]
    /\ posted' = [posted EXCEPT ![t] = NoForm]
    /\ UNCHANGED <<env, tab>>

\* The body never arrives whole.
Aborted(t) ==
    /\ posted[t] # NoForm
    /\ posted' = [posted EXCEPT ![t] = NoForm]
    /\ UNCHANGED <<table, env, tab, saved>>

\* The service is restarted, perhaps with other variables; pages stay open.
Restart ==
    /\ env' \in Envs
    /\ posted' = [t \in Tabs |-> NoForm]
    /\ UNCHANGED <<table, tab, saved>>

Next ==
    \/ Restart
    \/ \E t \in Tabs :
          \/ \E token \in Tokens \cup {Blank} : Open(t, token)
          \/ /\ tab[t] # NoForm
             /\ \/ \E p \in Providers : AddProvider(t, p)
                \/ \E i \in DOMAIN tab[t].providers : RemoveProvider(t, i)
                \/ \E token \in Tokens \cup {Blank} : EditToken(t, token)
          \/ Submit(t) \/ Write(t) \/ Aborted(t)

Spec == Init /\ [][Next]_vars

----------------------------------------------------------------------------
(* Properties. *)

\* What was written last is in force, wherever it was not left blank:
\* after restarts under any environment, and whatever other tabs show.
\* (CHANGELOG.md: saved settings take effect at once and survive a restart.)
SavedInForce ==
    saved # NoForm =>
        /\ saved.json # << >> => Upstreams = saved.json
        /\ saved.token # Blank => Effective("token") = saved.token

\* The older pair in the table never names a provider that the JSON list
\* beside it does not: it would come back if the list were cleared.
PairAgrees ==
    (table.json # Absent /\ table.json # << >>) =>
        table.base = IF Len(table.json) = 1 THEN table.json[1] ELSE Blank

----------------------------------------------------------------------------
(* A statement of the documentation that the code does not keep. *)

\* CHANGELOG.md: what is saved on the page takes effect at once - the
\* upstreams in force are those of the form.
SavedUpstreamsInForce == saved # NoForm => Upstreams = saved.json
==============================================================================
