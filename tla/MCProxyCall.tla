----------------------------- MODULE MCProxyCall -----------------------------
(* Values for TLC's runs of ProxyCall. *)
EXTENDS ProxyCall, TLC

CONSTANTS pGpt, pAny, gpt, gptPattern, star, c1, c2

MCProviders == {pGpt, pAny}
MCModels == {gpt}
MCPatterns == {gptPattern, star}
MCPatternsOf == (pGpt :> {gptPattern}) @@ (pAny :> {star})
MCFits == {<<gpt, gptPattern>>, <<gpt, star>>}
MCCalls == {c1, c2}
MCOneCall == {c1}

\* An empty upstream list, and two providers of which the first is preferred.
MCConfigs ==
    { [upstreams |-> << >>, timeout |-> 120],
      [upstreams |-> << pGpt, pAny >>, timeout |-> 120] }

MCLiveConfigs ==
    { [upstreams |-> << >>, timeout |-> 120],
      [upstreams |-> << pGpt >>, timeout |-> 120] }

\* The environment names the second of them alone.
MCFallbacks == { [upstreams |-> << pAny >>, timeout |-> 120] }

MCLiveFallbacks == { [upstreams |-> << pGpt >>, timeout |-> 120] }

Symmetric == Permutations(MCCalls)
==============================================================================
