------------------------------ MODULE MCSettings -----------------------------
(* Values for TLC's runs of Settings. *)
EXTENDS Settings, TLC

CONSTANTS p, q, secret, tabA, tabB

MCProviders == {p, q}
MCTokens == {secret}
MCTabs == {tabA, tabB}
MCOneTab == {tabA}
MCSymmetric == Permutations(MCTabs)

\* The older pair and a token, or a JSON list.
MCEnvs ==
    { [json |-> << >>, base |-> q, token |-> secret],
      [json |-> << p, q >>, base |-> Blank, token |-> Blank] }

MCBareEnv == { [json |-> << >>, base |-> Blank, token |-> Blank] }
==============================================================================
