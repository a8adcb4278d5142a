----------------------------- MODULE MCDashboard -----------------------------
(* Values for TLC's run of Dashboard. *)
EXTENDS Dashboard

\* From the day before the observation begins to its end, whatever the hour is.
MCCalls == [at : 1 .. 6, status : Statuses]
==============================================================================
