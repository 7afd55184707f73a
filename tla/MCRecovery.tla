----------------------------- MODULE MCRecovery -----------------------------
(* An instance of RecoveryPipeline for TLC. *)
EXTENDS RecoveryPipeline

CONSTANTS f1, f2, j1, u1, u2

\* One job for each flag.
OneJob  == [j \in {j1} |-> f1]

DetectedTypes == {"ADDRESS_UNVERIFIED", "SHADOW_BILL_VARIANCE"}
VisitOutcomes == {"ILLEGAL_CONNECTION_FOUND", "ADDRESS_INVALID", "METER_FOUND_OK",
                  "METER_FOUND_TAMPERED"}
AnyOverride == {"NULL", "REVENUE_LEAKAGE", "DATA_QUALITY"}
-----------------------------------------------------------------------------
(* Two scenes of the instance. *)

\* Two auditors race for f1 while f2 lies untouched and nothing is audited.
Race ==
    /\ \A a \in Audits : audit[a] = NoAudit
    /\ flag[f2] = [type |-> "SHADOW_BILL_VARIANCE", category |-> "NULL",
                   status |-> "OPEN", fraud |-> "NULL", job |-> NoJob]
    /\ ~HasEvent(event, f2)
    /\ \A u \in Auditors : request[u].flag # f2

\* One auditor confirms two flags of a bill's variance, which are visited and
\* whose audit is signed, closed and locked; nothing is dismissed.
Signature ==
    /\ request[u2] = Idle
    /\ request[u1] = Idle \/ /\ request[u1].category = "REVENUE_LEAKAGE"
                             /\ request[u1].fraud = "TRUE"
    /\ \A f \in Flags :
         /\ flag[f].type \in {"SHADOW_BILL_VARIANCE", "UNAUTHORISED_CONSUMPTION"}
         /\ flag[f].category \in {"NULL", "REVENUE_LEAKAGE"}
         /\ flag[f].status \in {"OPEN", "ACKNOWLEDGED", "CONFIRMED"}
         /\ flag[f].fraud # "FALSE"
    /\ \A j \in Jobs : outcome[j] \in {"NULL", "ILLEGAL_CONNECTION_FOUND"}

RaceOrSignature == Race \/ Signature
=============================================================================
