--------------------------- MODULE MCHermesMonitor ---------------------------
(* Values for TLC's run of HermesMonitor. *)
EXTENDS HermesMonitor

CONSTANTS e1, e2, bad, th1, t1, s1

MCEvents == {e1, e2, bad}
MCBad == {bad}
MCThreads == {th1}
MCTraces == {t1}
MCSessions == {s1}

\* Two events of one trace: the first leaves its trace pending, which the
\* second, that alone could be stored, then adds again.  What cannot be encoded never gets there.
MCContent ==
    (e1 :> [kind |-> "badmodel", trace |-> t1, session |-> NoSession]) @@
    (e2 :> [kind |-> "good", trace |-> t1, session |-> s1]) @@
    (bad :> [kind |-> "ignored", trace |-> NoTrace, session |-> NoSession])
==============================================================================
