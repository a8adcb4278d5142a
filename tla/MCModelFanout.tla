---------------------------- MODULE MCModelFanout ----------------------------
(* Values for TLC's runs of ModelFanout. *)
EXTENDS ModelFanout

CONSTANTS p, q, r, shared, own, m, n

MCProviders == {p, q, r}
MCLabels == {shared, own}

\* Two of the providers have one label.
MCLabelOf == (p :> shared) @@ (q :> own) @@ (r :> shared)

MCIds == {m, n}
MCConfigs == { << >>, << p, q >>, << r, q, p >> }
==============================================================================
