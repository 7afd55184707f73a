------------------------------- MODULE MCCdc -------------------------------
(* Instances of CdcSync for TLC. *)
EXTENDS CdcSync, TLC

CONSTANTS c1, c2, c3

OnOneAccount == [b \in Bills |-> c1]

\* How often each row is written.
FirstTwice == [r \in Accounts \cup Bills |-> IF r = c1 THEN 2 ELSE 1]
Twice      == [r \in Accounts \cup Bills |-> 2]
Once       == [r \in Accounts \cup Bills |-> 1]

\* Workers are alike, and so are the two accounts without a bill.
WorkerSymmetry == Permutations(Workers)
Symmetry       == WorkerSymmetry \cup Permutations({c2, c3})
-----------------------------------------------------------------------------
(* What a comment of the repository says of the ingestor, and the code denies. *)

\* cdc_sync_service.go: "queries for rows WHERE updated_at > last_sync_time".
\* Where nothing fails and no run is on, a changed bill is due.
ChangedBillsAreDue ==
    \A b \in Bills : Stale(b) => \/ Due(b, "billing")
                                 \/ Crossed(b, "billing")
                                 \/ CrossedUnseen(b, "billing")
                                 \/ Short(b, "billing")
=============================================================================
