------------------------------ MODULE CallLedger -----------------------------
(****************************************************************************)
(* What the recording proxy promises about one generation row per call,     *)
(* with no handler, connection or settings in sight.                        *)
(*                                                                          *)
(* A call is refused without contacting anyone, or it opens towards one     *)
(* provider and later closes.  A recorded call closes with one row, which   *)
(* names that provider, unless the write failed or the process died; no     *)
(* other step touches the ledger.                                           *)
(****************************************************************************)
EXTENDS Sequences

CONSTANTS Calls, Providers, NoProvider, Statuses

VARIABLES
    phase,      \* Calls -> "new", "open" or "closed"
    target,     \* Calls -> the provider an open or closed call was sent to
    ledger      \* Calls -> its rows, as [provider, status]

vars == <<phase, target, ledger>>

Entries == [provider : Providers, status : Statuses]

Init ==
    /\ phase = [c \in Calls |-> "new"]
    /\ target = [c \in Calls |-> NoProvider]
    /\ ledger = [c \in Calls |-> << >>]

Refuse(c) ==
    /\ phase[c] = "new"
    /\ phase' = [phase EXCEPT ![c] = "closed"]
    /\ UNCHANGED <<target, ledger>>

Open(c) ==
    /\ phase[c] = "new"
    /\ phase' = [phase EXCEPT ![c] = "open"]
    /\ \E p \in Providers : target' = [target EXCEPT ![c] = p]
    /\ UNCHANGED ledger

CloseRecorded(c) ==
    /\ phase[c] = "open"
    /\ phase' = [phase EXCEPT ![c] = "closed"]
    /\ \E s \in Statuses :
          ledger' = [ledger EXCEPT ![c] = << [provider |-> target[c], status |-> s] >>]
    /\ UNCHANGED target

CloseUnrecorded(c) ==
    /\ phase[c] = "open"
    /\ phase' = [phase EXCEPT ![c] = "closed"]
    /\ UNCHANGED <<target, ledger>>

\* A crash closes every call that had arrived; the ledger survives it.
Crash ==
    /\ \E S \in SUBSET Calls :
          phase' = [c \in Calls |-> IF c \in S THEN "closed" ELSE phase[c]]
    /\ UNCHANGED <<target, ledger>>

Next ==
    \/ Crash
    \/ \E c \in Calls :
          Refuse(c) \/ Open(c) \/ CloseRecorded(c) \/ CloseUnrecorded(c)

Spec == Init /\ [][Next]_vars
==============================================================================
