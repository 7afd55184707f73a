------------------------------- MODULE MCSync -------------------------------
(* Instances of SyncGateway for TLC. *)
EXTENDS SyncGateway, TLC

CONSTANTS j1, j2, a1, p1, p2, p3

\* What officers did: an early and a late update of job 1, one of job 2, a GPS
\* confirmation, one for an account that is not there, a photo
\* and an anomaly report, which the table of the flags always refuses.
Targets == [early |-> j1, late |-> j1, other |-> j2, gps |-> a1, lost |-> a1, photo |-> a1, report |-> a1]
Times == [a \in DOMAIN Targets |-> 0]
FatesHere == [early |-> "sound", late |-> "sound", other |-> "sound",
              gps |-> "sound", lost |-> "void", photo |-> "refused", report |-> "broken"]
AllActions == DOMAIN Targets

\* Two pushes lock the jobs in opposite order; a third meets what fails.
Batches == [p \in Pushes |-> CASE p = p1 -> <<"early", "other", "late">>
                              [] p = p2 -> <<"other", "lost", "early">>
                              [] p = p3 -> <<"photo", "gps", "report">>]
-----------------------------------------------------------------------------
(* What a comment of the repository says, and the code denies. *)

\* rls.go: where no transaction can be started, "e.g. pool exhausted", the
\* middleware allows the request to proceed.
RequestsProceed ==
    \A r \in Requests : request[r] = "waiting" ~> request[r] # "waiting"
=============================================================================
