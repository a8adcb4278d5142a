----------------------------- MODULE MCIngestion -----------------------------
(* Values for TLC's runs of Ingestion. *)
EXTENDS Ingestion

CONSTANTS t1, s1

MCTraces == {t1}
MCSessions == {s1}
==============================================================================
