----------------------------- MODULE MCSdkClient -----------------------------
(* Values for TLC's runs of SdkClient. *)
EXTENDS SdkClient

CONSTANTS e1, e2, bad, th1, th2

MCEvents == {e1, e2, bad}
MCSoundEvents == {e1, e2}
MCBad == {bad}
MCThreads == {th1, th2}
MCOneThread == {th1}
==============================================================================
