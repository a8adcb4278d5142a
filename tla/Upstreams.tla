------------------------------ MODULE Upstreams ------------------------------
(****************************************************************************)
(* Model routing over the configured upstream providers                     *)
(* (backend/app/upstreams.py).                                              *)
(*                                                                          *)
(* A provider is an opaque value; PatternsOf gives the model patterns of    *)
(* its "models" list, and Fits is the verdict of fnmatchcase, kept as a     *)
(* relation: routing depends on which patterns fit which models and never   *)
(* on how a pattern is spelled.  The configured list is a sequence: the     *)
(* order in which the settings page lists the providers decides ties.       *)
(****************************************************************************)
EXTENDS Integers, Sequences

CONSTANTS
    Providers,      \* the upstream providers that may be configured
    NoProvider,     \* Python's None: no upstream resolved
    Models,         \* model names a request may carry
    NoModel,        \* a request without a "model"
    Patterns,       \* model patterns, e.g. "gpt-*"
    Wildcard,       \* the pattern "*"
    PatternsOf,     \* Providers -> the patterns of its models list
    Fits            \* the <<model, pattern>> pairs fnmatchcase accepts

ASSUME UpstreamsAssumption ==
    /\ NoProvider \notin Providers
    /\ NoModel \notin Models
    /\ Wildcard \in Patterns
    /\ PatternsOf \in [Providers -> SUBSET Patterns]
    /\ Fits \subseteq Models \X Patterns
    /\ \A m \in Models : <<m, Wildcard>> \in Fits

----------------------------------------------------------------------------

\* _matches_model: an empty pattern list matches nothing.
MatchesModel(p, model) == \E pattern \in PatternsOf[p] : <<model, pattern>> \in Fits

\* The positions whose provider lists a pattern that fits the model ...
Matching(ups, model) == {i \in DOMAIN ups : MatchesModel(ups[i], model)}

\* ... and those of the default providers: no patterns at all, or "*".
Defaults(ups) ==
    {i \in DOMAIN ups : PatternsOf[ups[i]] = {} \/ Wildcard \in PatternsOf[ups[i]]}

\* The first position of S, a non-empty set of positions.
First(S) == CHOOSE i \in S : \A j \in S : i <= j

\* resolve_upstream: first match, else first default, else the first provider.
ResolveUpstream(ups, model) ==
    CASE ups = << >> -> NoProvider
      [] ups # << >> /\ model # NoModel /\ Matching(ups, model) # {} ->
            ups[First(Matching(ups, model))]
      [] ups # << >> /\ (model = NoModel \/ Matching(ups, model) = {})
                     /\ Defaults(ups) # {} ->
            ups[First(Defaults(ups))]
      [] OTHER -> ups[1]
==============================================================================
