------------------------------ MODULE MCMetering ------------------------------
(* Values for TLC's run of Metering. *)
EXTENDS Metering

CONSTANTS cheap, other, s1

MCPrice(i, o) == [in |-> i, out |-> o]
MCEntry(k, v) == [key |-> k, value |-> v]

\* "gpt" also occurs in the name of the model that "gpt-mini" is for.
MCDefaultPrices == <<MCEntry("gpt", MCPrice(2, 10)), MCEntry("llama", MCPrice(0, 0))>>
MCModels == {cheap, other, NoModel}
MCFits == {<<"gpt", cheap>>, <<"gpt-mini", cheap>>, <<"new", other>>}
MCContents ==
    {<< >>,
     <<MCEntry("new", MCPrice(1, 1)), MCEntry("llama", Short), MCEntry("gpt-mini", MCPrice(1, 1))>>,
     <<MCEntry("gpt", MCPrice(3, 3)), MCEntry("new", NoNumber), MCEntry("llama", Mistyped)>>,
     <<MCEntry("gpt", Mistyped)>>}
MCTexts == {<<2, 9>>}
MCChunk(n, u) == [content |-> n, usage |-> u]
MCStreams == {<<MCChunk(2, NoBlock), MCChunk(1, MCPrice(0, 0))>>,
              <<MCChunk(3, MCPrice(1, 2)), MCChunk(0, NoUsage)>>}
MCUsages == {MCPrice(0, 0), MCPrice(1, 2)}
MCSessions == {s1}
==============================================================================
