------------------------------ MODULE MCOffline ------------------------------
(* Instances of OfflineSync for TLC. *)
EXTENDS OfflineSync, TLC

CONSTANTS m1, o1, r1, j1

\* Kinds of the items of the instances, all of one job; a run takes those it names.
AllKinds == [i \in {m1, o1, r1} |->
               IF i = m1 THEN "submission"
               ELSE IF i = o1 THEN "outcome" ELSE "report"]
KindsHere == [i \in Items |-> AllKinds[i]]
JobsHere  == [i \in Items |-> j1]
-----------------------------------------------------------------------------
(* What comments of the repository say of the app, and the code denies. *)

\* offline_storage_service.dart says of markIllegalReportFailed that the guard
\* "retry_count < 5" bounds the retries.
ReportsBounded ==
    \A i \in Items : KindOf[i] = "report" => served[i] <= ServeBound

\* The capture screen says "Submitted", syncAll marks the row DONE, and
\* api_service.dart says of the route that it writes the evidence and completes
\* the job: a submission that was shown or marked is on the server or queued.
SubmissionsSurvive ==
    \A i \in Items :
        KindOf[i] = "submission" /\ (screen[i] = "shown" \/ row[i].status = "DONE")
        => i \in Applied \/ row[i].status = "PENDING"
=============================================================================
