---------------------------- MODULE OfflineSync ----------------------------
(***************************************************************************)
(* The field-officer app: three SQLite tables queue what could not be sent *)
(* (meter submissions, job outcomes, illegal-connection reports), and      *)
(* SyncService.syncAll sends the queued rows again.  The gateway's three   *)
(* handlers are on the other side of a network that loses calls and        *)
(* answers, and the app may be killed between any two awaits.              *)
(***************************************************************************)
EXTENDS Naturals, FiniteSets

CONSTANTS
    Items,       \* what officers enter (pool bound)
    KindOf,      \* the kind of each item
    Jobs,        \* rows of field_jobs
    JobOf,       \* the job an item belongs to
    Passes,      \* runs of syncAll that may overlap: the button is not disabled
    Lossy,       \* FALSE if every call arrives and every answer returns
    MaxRetries,  \* the 5 of "retry_count < 5"
    MaxEntries,  \* how many of the items are entered (bound)
    MaxReports,  \* how far the requests of a report are counted (bound)
    MaxKills,    \* how often the app is killed (bound)
    NoItem       \* what a pass holds between two rows

Kinds == {"submission", "outcome", "report"}

ASSUME OfflineAssumption ==
    /\ KindOf \in [Items -> Kinds]
    /\ JobOf \in [Items -> Jobs]
    /\ IsFiniteSet(Items) /\ IsFiniteSet(Passes)
    /\ NoItem \notin Items
    /\ Lossy \in BOOLEAN
    /\ MaxRetries \in Nat \ {0}
    /\ MaxEntries \in Nat
    /\ MaxReports \in Nat \ {0}
    /\ MaxKills \in Nat

VARIABLES
    row,      \* each item's row: status, retry_count, and its place in created_at
    screen,   \* where the screen that entered an item stands
    pass,     \* where each syncAll stands
    local,    \* offline_jobs.status on the device
    cache,    \* the refreshJobs that is running
    job,      \* field_jobs.status on the server
    served,   \* how often the server has run an item's request
    kills

vars == <<row, screen, pass, local, cache, job, served, kills>>
device == <<row, screen, local, cache>>
-----------------------------------------------------------------------------
NoRow  == [status |-> "NONE", retry |-> 0, place |-> 0]
Asleep == [stage |-> "idle", todo |-> {}, hand |-> NoItem, sent |-> "no"]
NoRefresh == [at |-> "idle", snap |-> [j \in Jobs |-> "ABSENT"], keep |-> {}]

Queued(kind) == {i \in Items : KindOf[i] = kind /\ row[i].status # "NONE"}

\* SELECT ... WHERE status = 'PENDING' AND retry_count < 5
Pending(kind) ==
    {i \in Queued(kind) : row[i].status = "PENDING" /\ row[i].retry < MaxRetries}

\* ORDER BY created_at
First(i, todo) == i \in todo /\ \A k \in todo : row[i].place <= row[k].place

\* The order in which syncAll visits the tables.
NextStage(stage) ==
    CASE stage = "submission" -> "outcome"
      [] stage = "outcome"    -> "report"
      [] stage = "report"     -> "idle"

\* Answers the client can parse: the answer of the outcome route has no "id",
\* which FieldJob.fromJson casts to a String, so that call always throws.
AnswerParses(kind) == kind # "outcome"

\* Rows the client can mark: pending_illegal_reports has no attempted_at.
RowMarkable(kind) == kind # "report"

\* SubmitJobEvidence, RecordFieldJobOutcome and ReportIllegalConnection.  The
\* UPDATE of WriteEvidence has parameters in jsonb_build_object whose types
\* PostgreSQL cannot tell ($9 is nowhere else), so it is refused for every
\* submission.  The handler takes that for non-fatal, but it has aborted the
\* transaction of the request, whose commit fails and is only logged: the job
\* is not completed, nothing is written, and the answer is 200 all the same.
Commits(i) == KindOf[i] # "submission"

\* What the retry guard is there for: a request is made once by the screen,
\* MaxRetries times by calls counted as failed, and once more for each other
\* pass that had read the row before, or that a kill kept from counting.
ServeBound == MaxRetries + Cardinality(Passes) * (1 + kills)

\* Nothing bounds the requests of a report.
Bump(i) == IF KindOf[i] = "report" /\ served[i] >= MaxReports
           THEN served[i] ELSE served[i] + 1

\* Mutant of JobAfter: a status that field_job_status does not have.
JobRecorded(i, status) ==
    IF KindOf[i] = "outcome" THEN "RECORDED" ELSE status

\* The status of the job after the statements of the handler.
JobAfter(i, status) ==
    CASE KindOf[i] = "submission" -> "COMPLETED"
      [] KindOf[i] = "outcome"    -> "OUTCOME_RECORDED"
      [] KindOf[i] = "report"     -> status

\* The server runs the request of item i.
Serve(i) ==
    /\ served' = [served EXCEPT ![i] = Bump(i)]
    /\ IF Commits(i) THEN job' = [job EXCEPT ![JobOf[i]] = JobAfter(i, @)]
                     ELSE UNCHANGED job

\* A call reaches the server and is answered, is served but the answer is
\* lost, or never arrives; the client sees an answer it can parse, or throws.
Call(i, answered) ==
    \/ Serve(i) /\ answered = AnswerParses(KindOf[i])
    \/ Lossy /\ ~answered /\ Serve(i)
    \/ Lossy /\ ~answered /\ UNCHANGED <<job, served>>
-----------------------------------------------------------------------------
Init ==
    /\ row = [i \in Items |-> NoRow]
    /\ screen = [i \in Items |-> "new"]
    /\ pass = [s \in Passes |-> Asleep]
    /\ local = [j \in Jobs |-> "DISPATCHED"]
    /\ cache = NoRefresh
    /\ job = [j \in Jobs |-> "DISPATCHED"]
    /\ served = [i \in Items |-> 0]
    /\ kills = 0

\* The capture, outcome or report screen calls the gateway.  The capture
\* screen does so only while the device is online.
ScreenCalls(i) ==
    /\ screen[i] = "new"
    /\ Cardinality({k \in Items : screen[k] # "new"}) < MaxEntries
    /\ \/ \E answered \in BOOLEAN :
            /\ Call(i, answered)
            /\ screen' = [screen EXCEPT ![i] =
                            IF answered THEN "answered" ELSE "failed"]
       \/ /\ KindOf[i] = "submission"
          /\ screen' = [screen EXCEPT ![i] = "offline"]
          /\ UNCHANGED <<job, served>>
    /\ UNCHANGED <<row, pass, local, cache, kills>>

\* queueSubmission, the insert of queueOutcome, queueIllegalConnectionReport
ScreenQueues(i) ==
    /\ screen[i] \in {"failed", "offline"}
    /\ row' = [row EXCEPT ![i] =
                 [status |-> "PENDING", retry |-> 0,
                  place |-> Cardinality(Queued(KindOf[i]))]]
    /\ screen' = [screen EXCEPT ![i] =
                    IF KindOf[i] = "outcome" \/ @ = "offline" THEN "queued"
                    ELSE "shown"]
    /\ UNCHANGED <<pass, local, cache, job, served, kills>>

\* Mutant of ScreenUpdatesLocally: the job is updated before the row is queued.
ScreenUpdatesFirst(i) ==
    /\ screen[i] \in {"failed", "offline", "queued"}
    /\ local' = [local EXCEPT ![JobOf[i]] =
                   IF KindOf[i] = "outcome" THEN "OUTCOME_RECORDED"
                   ELSE "COMPLETED"]
    /\ UNCHANGED <<row, screen, pass, cache, job, served, kills>>

\* updateJobStatusLocally of the offline capture, and updateJobOutcomeLocally
ScreenUpdatesLocally(i) ==
    /\ screen[i] = "queued"
    /\ local' = [local EXCEPT ![JobOf[i]] =
                   IF KindOf[i] = "outcome" THEN "OUTCOME_RECORDED"
                   ELSE "COMPLETED"]
    /\ screen' = [screen EXCEPT ![i] = "shown"]
    /\ UNCHANGED <<row, pass, cache, job, served, kills>>

\* Mutant of ScreenConfirms: the screen confirms a call that failed.
ScreenConfirmsAny(i) ==
    /\ screen[i] \in {"answered", "failed"}
    /\ screen' = [screen EXCEPT ![i] = "shown"]
    /\ UNCHANGED <<row, pass, local, cache, job, served, kills>>

\* The officer is told the entry is submitted.
ScreenConfirms(i) ==
    /\ screen[i] = "answered"
    /\ screen' = [screen EXCEPT ![i] = "shown"]
    /\ UNCHANGED <<row, pass, local, cache, job, served, kills>>

\* A pass enters a table: it reads the pending rows once, if it is online.
Enter(s, kind) ==
    \E todo \in {Pending(kind), {}} :
        pass' = [pass EXCEPT ![s] = [stage |-> kind, todo |-> todo,
                                     hand |-> NoItem, sent |-> "no"]]

StartSync(s) ==
    /\ pass[s] = Asleep
    /\ Enter(s, "submission")
    /\ UNCHANGED <<device, job, served, kills>>

NextTable(s) ==
    LET p == pass[s]
    IN  /\ p.stage # "idle" /\ p.todo = {} /\ p.sent = "no"
        /\ IF NextStage(p.stage) = "idle" THEN pass' = [pass EXCEPT ![s] = Asleep]
           ELSE Enter(s, NextStage(p.stage))
        /\ UNCHANGED <<device, job, served, kills>>

InHand(p, i, answered) ==
    [p EXCEPT !.todo = @ \ {i}, !.hand = i,
              !.sent = IF answered THEN "answered" ELSE "failed"]

\* The call for the next row.
Send(s) ==
    /\ pass[s].sent = "no"
    /\ \E i \in pass[s].todo, answered \in BOOLEAN :
         /\ First(i, pass[s].todo)
         /\ Call(i, answered)
         /\ pass' = [pass EXCEPT ![s] = InHand(@, i, answered)]
    /\ UNCHANGED <<device, kills>>

Advance(p) == [p EXCEPT !.hand = NoItem, !.sent = "no"]

\* markSubmissionDone
MarkDone(s) ==
    LET i == pass[s].hand
    IN  /\ pass[s].sent = "answered" /\ RowMarkable(KindOf[i])
        /\ row' = [row EXCEPT ![i].status = "DONE"]
        /\ pass' = [pass EXCEPT ![s].sent = "marked"]
        /\ UNCHANGED <<screen, local, cache, job, served, kills>>

\* updateJobStatusLocally(COMPLETED) after a submission was marked
UpdateLocally(s) ==
    /\ pass[s].sent = "marked"
    /\ local' = [local EXCEPT ![JobOf[pass[s].hand]] = "COMPLETED"]
    /\ pass' = [pass EXCEPT ![s] = Advance(@)]
    /\ UNCHANGED <<row, screen, cache, job, served, kills>>

\* Mutant of MarkFailed: the attempt is not counted.
MarkFailedUncounted(s) ==
    LET i == pass[s].hand
    IN  /\ pass[s].sent = "failed" /\ RowMarkable(KindOf[i])
        /\ pass' = [pass EXCEPT ![s] = Advance(@)]
        /\ UNCHANGED <<device, job, served, kills>>

\* Mutant of MarkFailed: the row is written back as pending.
MarkFailedRequeues(s) ==
    LET i == pass[s].hand
    IN  /\ pass[s].sent = "failed" /\ RowMarkable(KindOf[i])
        /\ row' = [row EXCEPT ![i].retry = @ + 1, ![i].status = "PENDING"]
        /\ pass' = [pass EXCEPT ![s] = Advance(@)]
        /\ UNCHANGED <<screen, local, cache, job, served, kills>>

\* markSubmissionFailed, markOutcomeFailed
MarkFailed(s) ==
    LET i == pass[s].hand
    IN  /\ pass[s].sent = "failed" /\ RowMarkable(KindOf[i])
        /\ row' = [row EXCEPT ![i].retry = @ + 1]
        /\ pass' = [pass EXCEPT ![s] = Advance(@)]
        /\ UNCHANGED <<screen, local, cache, job, served, kills>>

\* Mutant of MarkThrows: the row that throws is tried again at once.
MarkThrowsAgain(s) ==
    /\ pass[s].sent \in {"answered", "failed"}
    /\ ~RowMarkable(KindOf[pass[s].hand])
    /\ pass' = [pass EXCEPT ![s].todo = @ \cup {pass[s].hand},
                            ![s].hand = NoItem, ![s].sent = "no"]
    /\ UNCHANGED <<device, job, served, kills>>

\* markIllegalReportDone and, in its catch, markIllegalReportFailed both
\* throw: the exception leaves syncAll.
MarkThrows(s) ==
    /\ pass[s].sent \in {"answered", "failed"}
    /\ ~RowMarkable(KindOf[pass[s].hand])
    /\ pass' = [pass EXCEPT ![s] = Asleep]
    /\ UNCHANGED <<device, job, served, kills>>

\* refreshJobs: the answer of /my-jobs, which leaves out what is completed, then
\* cacheJobs' look at the pending submissions, then its batch.
RefreshFetch ==
    /\ cache.at = "idle"
    /\ cache' = [at |-> "fetched", keep |-> {},
                 snap |-> [j \in Jobs |-> IF job[j] = "COMPLETED"
                                          THEN "ABSENT" ELSE job[j]]]
    /\ UNCHANGED <<row, screen, pass, local, job, served, kills>>

RefreshCheck ==
    /\ cache.at = "fetched"
    /\ cache' = [cache EXCEPT !.at = "checked",
         !.keep = {JobOf[i] : i \in {n \in Items : KindOf[n] = "submission"
                                                   /\ row[n].status = "PENDING"}}]
    /\ UNCHANGED <<row, screen, pass, local, job, served, kills>>

RefreshCommit ==
    /\ cache.at = "checked"
    /\ local' = [j \in Jobs |->
                   IF j \in cache.keep \/ cache.snap[j] = "ABSENT"
                   THEN local[j] ELSE cache.snap[j]]
    /\ cache' = NoRefresh
    /\ UNCHANGED <<row, screen, pass, job, served, kills>>

\* The system kills the app: what is in SQLite stays, a screen that has not
\* confirmed its entry is gone.
Kill ==
    /\ kills < MaxKills
    /\ kills' = kills + 1
    /\ pass' = [s \in Passes |-> Asleep]
    /\ cache' = NoRefresh
    /\ screen' = [i \in Items |-> IF screen[i] \in {"new", "shown"} THEN screen[i]
                                  ELSE "gone"]
    /\ UNCHANGED <<row, local, job, served>>

ScreenStep == \E i \in Items : \/ ScreenCalls(i)
                               \/ ScreenQueues(i)
                               \/ ScreenUpdatesLocally(i)
                               \/ ScreenConfirms(i)

PassStep(s) == \/ NextTable(s)
               \/ Send(s)
               \/ MarkDone(s)
               \/ UpdateLocally(s)
               \/ MarkFailed(s)
               \/ MarkThrows(s)

Refresh == RefreshFetch \/ RefreshCheck \/ RefreshCommit

Next == \/ ScreenStep
        \/ \E s \in Passes : StartSync(s) \/ PassStep(s)
        \/ Refresh
        \/ Kill

Spec == Init /\ [][Next]_vars

\* Every await of a pass ends: a call by its answer or by the 30 s timeout.
FairSpec == Spec /\ \A s \in Passes : WF_vars(PassStep(s))
-----------------------------------------------------------------------------
Row == [status : {"NONE", "PENDING", "DONE"}, retry : Nat, place : Nat]
Pass == [stage : Kinds \cup {"idle"}, todo : SUBSET Items,
         hand : Items \cup {NoItem}, sent : {"no", "answered", "failed", "marked"}]
JobStatuses == {"DISPATCHED", "COMPLETED", "OUTCOME_RECORDED"}

TypeOK ==
    /\ row \in [Items -> Row]
    /\ screen \in [Items -> {"new", "answered", "failed", "offline", "queued",
                             "shown", "gone"}]
    /\ pass \in [Passes -> Pass]
    /\ local \in [Jobs -> JobStatuses]
    /\ cache \in [at : {"idle", "fetched", "checked"},
                  snap : [Jobs -> JobStatuses \cup {"ABSENT"}], keep : SUBSET Jobs]
    /\ job \in [Jobs -> JobStatuses]
    /\ served \in [Items -> Nat]
    /\ kills \in Nat

\* The entries that are in the server's tables.
Applied == {i \in Items : Commits(i) /\ served[i] > 0}

\* What the officer was told is recorded, an outcome or a report, is in the
\* server's tables or still in the queue, whatever calls were lost and whenever
\* the app was killed.  Of submissions this is not so: see SubmissionsSurvive.
ShownSurvives ==
    \A i \in Items : screen[i] = "shown" /\ KindOf[i] # "submission" =>
        i \in Applied \/ row[i].status = "PENDING"

\* The retry guard bounds how often the server runs the request of a submission
\* or an outcome, for all that passes overlap and that an app killed between a
\* call and its mark forgets the attempt.
RequestsBounded ==
    \A i \in Items : KindOf[i] # "report" => served[i] <= ServeBound

\* An entry of that kind for job j is queued or was sent to the server.
Entered(kind, j) ==
    \E i \in Items : /\ KindOf[i] = kind /\ JobOf[i] = j
                     /\ row[i].status # "NONE" \/ served[i] > 0

\* A status the app shows comes from the officer's own entry, queued or sent,
\* never from the server alone: what is completed elsewhere is not listed, and
\* no refresh writes a status that was never entered.
LocalStatusBacked ==
    \A j \in Jobs : /\ local[j] = "COMPLETED" => Entered("submission", j)
                   /\ local[j] = "OUTCOME_RECORDED" => Entered("outcome", j)

\* To the officer the queue is an outbox: the box is the status of the rows,
\* taken are the entries whose request the server has run, and the entries shown
\* are those told.
Promise == INSTANCE Outbox
           WITH Entries <- Items,
                box     <- [i \in Items |-> row[i].status],
                taken   <- {i \in Items : served[i] > 0},
                told    <- {i \in Items : screen[i] = "shown"}

\* The queue implements the outbox: whatever overlaps, is lost or is killed, a
\* row is written once, goes from PENDING to DONE only when the server has run
\* its request, and the officer is told only of what is in the box or was taken.
ImplementsOutbox == Promise!Spec

\* A pass that has begun ends: no row can hold it up, neither one that fails
\* every time nor a report row that throws.
PassEnds == \A s \in Passes : []<>(pass[s].stage = "idle")
=============================================================================
