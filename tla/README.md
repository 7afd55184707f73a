# TLA+ verification of GN-WAAS

GN-WAAS audits Ghana Water Limited (GWL): it mirrors GWL's accounts and bills,
finds anomalies, sends field officers, turns confirmed anomalies into recovered
revenue and has the audits signed by the Ghana Revenue Authority (GRA). This
directory holds TLA+ models of its core, TLC runs that check them on small
instances and TLAPS proofs of what holds for every instance. Paths below are
relative to the repository (`src/`), `GW` is `src/backend/api-gateway/internal`.

## 1. The system

| Component | State | Operations | Talks to |
|---|---|---|---|
| api-gateway: revenue recovery (`audit_handler.go`, `revenue_handler.go`, `audit_event_repo.go`, migrations 004, 011, 032) | `anomaly_flags`, `revenue_recovery_events`, `audit_events`, `field_jobs.outcome` | ConfirmAnomaly, UpdateAnomalyStatus, RecordFieldJobOutcome, ConfirmRecovery, CollectRecovery, Create/Update/Assign/Lock of an audit, UpdateGRAStatus, three triggers | mobile app, portals, gra-bridge, sentinel |
| api-gateway: RLS middleware (`rls/rls.go`) | one transaction per request | begin, handler, commit or roll back | every handler |
| api-gateway: field jobs (`field_job_repo.go`) | `field_jobs`, evidence columns of `audit_events` | create, assign, status, evidence, outcome | mobile app |
| api-gateway: sync (`offline_sync_handler.go`) | `offline_sync_queue` | Pull, Push, Status | devices |
| api-gateway: GWL cases (`gwl_handler.go`, `gwl_case_repo.go`) | case columns of `anomaly_flags`, `gwl_case_actions`, reclassification and credit requests, the field job of an assignment | status, assignment, requests, verdicts, monthly report | GWL portal |
| GWL portal (`CaseDetailPage.tsx`, `CreditRequestsPage.tsx`, `useQueries.ts`, `api.ts`) | what a page fetched, its modal, what it waits for | four modals of a case, the verdicts on credits | gateway |
| api-gateway: tariffs (`tariff_admin_handler.go`) | `tariff_rates`, `vat_config` | create, update, deactivate a rate; replace the VAT | admin portal |
| field-officer app (`sync_service.dart`, `offline_storage_service.dart`) | SQLite: jobs, pending submissions, outcomes, reports | capture, outcome and report screens, syncAll, refreshJobs | gateway |
| cdc-ingestor (`cdc_sync_service.go`) | `cdc_sync_log`, `water_accounts`, `gwl_bills` | RunSync for accounts, meters, billing; publication | GWL replica, NATS |
| sentinel (`sentinel_orchestrator.go` and its checkers) | `anomaly_flags`, `districts.zone_type` | RunDistrictScan from cron, NATS and HTTP, hot reload of thresholds | tariff engine's tables, gateway |
| tariff-engine (`tariff_service.go`) | none kept (`shadow_bills` is never written) | shadow bill of a consumption, alone or in a batch | gateway's proxy |
| meter-ingestor | meter readings | IngestReading, batches, outbox-light publication | NATS |
| gra-bridge | none kept (it calls GRA) | SignAuditInvoice, provisional numbers, QR check | GRA, gateway |
| ocr-service, portals, scripts, infrastructure | - | - | - |

What is hard in each, and what makes it correct:

* **Revenue recovery.** Two auditors confirm one flag; both a trigger and the
  handler insert the event; a visit, a signature and a collection come in any
  order. Correct: one event per flag, an amount exactly when one was confirmed,
  every signature backed by a signed audit, every verification by a visit, and
  the event's life is a path through the documented stages.
* **Offline app.** Calls and answers are lost, the app is killed between awaits,
  two passes overlap. Correct: what the officer was told is recorded is on the
  server or queued, a row is DONE only when the server ran its request, requests
  are bounded, a pass ends. For submissions the first is not so (section 6).
* **CDC.** A run's window begins where the last completed run ended, while GWL
  writes and other runs overlap, fail or lose their log entry. Correct: a row
  that was not copied will be asked for, or the log or a running run tells why it is
  not, unless a run that was on when the row changed is gone without an entry.
* **Sentinel.** Scans of one district overlap while tables change, statements fail
  and scans are cut off; a flag is inserted after a look whether its hash is there.
  Correct: a scan flags what is there and loses nothing, a finding comes back
  when it is closed, a district gets the zone of its volumes.
* **Sync push.** A batch is one transaction; a failed statement dooms the ones
  after it, rows and connections are waited for. Correct: what is answered APPLIED
  is applied, newer rows stand, a push that runs ends, and so does every request
  as long as there are fewer pulls than connections.
* **GWL cases.** Pages act on what they fetched; calls overlap, fail, commit
  without being answered and are made again. Correct: the trail of actions explains
  the case, its job is for the officer it names, one decision acts once, a final word is undone only by who did not
  know of it.
* **Tariffs.** A schedule changes row by row and the VAT in two statements, while
  bills are calculated. Correct: no volume is lost, billed twice or charged to a
  wrong tier; when no VAT is found, a change of the VAT is the reason.
* **Meter readings, GRA.** Upserts that keep the old row's identity, and a
  provisional signature that is never followed up (section 7).

## 2. The plan

| Module | What | State |
|---|---|---|
| `RecoveryLedger`, `RecoveryPipeline`, `RecoveryProofs` | anomaly flags, recovery events, audit events, outcomes; the abstract ledger they implement | done |
| `Outbox`, `OfflineSync`, `OfflineProofs` | the app's queues against the gateway's field-job routes; the abstract outbox they implement | done; dispatch and the SOS call to come |
| `CdcSync`, `CdcProofs` | sync windows, overlapping runs, the log | done |
| `SentinelScan`, `SentinelProofs` | overlapping scans of a district | done; the hot reload of thresholds to come |
| `BatchStore`, `SyncGateway`, `SyncProofs` | batches in the request's transaction, row locks, connection pool; the abstract store they implement | done for Push; what a device knows after Pull to come |
| `GwlCases`, `GwlProofs` | cases, requests and field jobs under the calls of stale pages | done |
| `TariffSchedule`, `TariffProofs` | tiers and VAT changed under a calculation; the tier loop | done; amounts and rounding left out |

What is left: dispatch and SOS of field jobs, and the hot reload of the sentinel's
thresholds. Two modules planned before, for meter readings and for GRA
signing, were dropped for the reasons in section 7. A module gets a run per
question, and theorems once TLC agrees with its safety properties.

## 3. The modules and the code

Every module's rows in `PROJECT.json` ("map") give the lines of each definition.

**RecoveryLedger** is the promise: each flag has one line, opened once and moved
only along the transitions that `revenue_handler.go` and migration 032 document.

**RecoveryPipeline** is the code. `flag`, `event`, `audit` and `outcome` are the
tables `anomaly_flags`, `revenue_recovery_events`, `audit_events` and the column
`field_jobs.outcome`, cut down to the columns a guard or a property reads. One
action is one handler with the triggers it fires: `UpdateGRAStatus` contains
`trg_gra_sign_recovery`, `ConfirmWrite` the trigger `fn_auto_create_recovery_event`
and the handler's own insert. Requests run in READ COMMITTED transactions whose
first write locks the row, so a handler is one step from that write on;
ConfirmAnomaly reads the flag before, without a lock, and that read is a step of
its own (`request` keeps what it read). `audit_events` is frozen by
`trg_audit_events_immutable`: `Mutable` guards every write of it. `LinkFlag` is
external: nothing under `src/` sets `anomaly_flags.field_job_id` before an outcome
is recorded, so an operator of the database must.

**Outbox** is what the queue is to an officer: an entry is put in the box once,
leaves it only when the server has run its request, and nobody is told of an entry
that is neither in the box nor taken. What the server keeps of what it takes is not
the outbox's to promise. **OfflineSync** implements it: the box is the status of the
rows, `taken` the entries whose request the server has run, `told` the entries
whose screen said so.

**OfflineSync** has the app's three SQLite tables (`row`, whose `place` stands for
`created_at`), the screens that fill them, `syncAll` as passes that visit the tables
in order with the rows they read (`todo`) and the one they have sent (`hand`), the
cached jobs (`local`, `cache`), and the gateway's answers to three routes: `served`
counts the requests the server has run, `job` is the status it keeps. `Commits`
says which of them leave anything behind. A submission's never does: `WriteEvidence`
gives `jsonb_build_object` parameters whose types PostgreSQL cannot tell, the
statement is refused whatever it matches, the handler goes on, the transaction can
only roll back, and the answer is 200. A call may be lost before or after the
server runs it (`Call`). `Kill` is external: it ends screens and passes, the tables
stay. `Commits`, `AnswerParses` and `RowMarkable` are faults of the code that the
model keeps (section 6).

**CdcSync** has GWL's rows with the time they were stamped, the mirror, runs that
go Start, Fetch, Upsert or SkipRow per row, Finish, WriteSyncLog, and the log they
leave: `ended` has every run that is over, `SyncLog` those with a row in
`cdc_sync_log`, `Vanished` those without. `Vanish` is a process that ends or a
context that expires, and leaves such a run.
`announced` follows the status words of `cmd/main.go` and so never becomes TRUE.
`Crossed` counts the runs that the log or the process shows, `CrossedUnseen` those
that are gone without an entry. `Overtaken` says of a run that another one of its
type was in fact on at the same time, be it still on or gone: it is the only way in
which the mirror goes back (`OldVersionsOvertaken`), and the log need not show it.

**SentinelScan** has one district. A scan examines findings in any order (the
checks are goroutines), persists one flag after the other, reads production and
billing and writes the zone. A *finding* stands for a rule that an account or the
district breaks; the arithmetic of the rules is abstracted to whether a finding is
there. `Visible` are the findings a check comes to see: the phantom check never
sees one, as its query of the billing history fails for every account. `Raised` are
those of them whose flag the schema accepts. `during`, `throughout`, `flagged` and `missed` are history variables of the
properties and guard nothing.

**SyncGateway** has the requests of the sync routes, the transaction of each push,
and committed rows of which `updated_at` and a revision are kept. A push goes from
action to action: `Queue` (insert into `offline_sync_queue`, or a check that
refuses), `Look` (updated_at without a lock), `Write` (waits while another
transaction holds the row), then `Commit`. What the payload does is its `Fate`. A
failed statement dooms a PostgreSQL transaction: later statements fail, and the
commit rolls back. `Locked`, `WaitsFor`, `InCircle` and `Victim` are PostgreSQL's
row locks and deadlock detection, external. Other routes are `UpdateStatus`.
**BatchStore** is what is left of it for who reads answers: a batch is in the rows at
once, in the step in which it is answered, with one time on all its rows and as the
answer says; or not at all, and the answer has a rejection or the commit was lost.

**GwlCases** has the case columns of a flag (`case`), the job an assignment makes
(`job`), the rows of `gwl_case_actions` (`trail`) and the requests (`request`),
which are known by the call that inserted them. `page` is what a session shows: a
case as of the first `seen` entries of its trail, or a list of credits (`listed`),
with its modal and the calls it waits for (`sent`, React Query's `isPending`). A
`call` is sent, takes effect or is refused or fails, and is heard or given up, in
any order with the rest; each carries what its page had been shown. A call takes
effect in one step: it is one READ COMMITTED transaction whose first statement
locks the case's row, or inserts a row nobody else knows before it does. `Fail`
with the answer 200 is the commit error of `rls.go:170`. `Refused` is the row
policy of migration 025, which lets admin roles insert and nobody else, as no
insert names a district. The first eight digits of a case's id, from which a job's
reference is made, are taken to tell cases apart.

**TariffSchedule** has the rows of one category (`rate`), the rows of `vat_config`
(`vat`, known by the call that inserted them), the calls of CreateVATConfig
(`change`) and calculations (`bill`). The handler uses the pool directly, so each
statement commits by itself: CreateVATConfig is `ReplaceVAT` or `ReplaceFails` (its
error is not looked at), then `InsertVAT` or `RefuseVAT`. A calculation is
`ReadRates`, `ReadVAT`, one `Tier` per turn of the loop, `Finish`. Volumes are whole
numbers; `lines` is what each tier is charged for, the gap below it included, where
the code adds both to the subtotal at once. Prices, service charge, VAT amount,
variance and rounding multiply or compare these and are left out. `met` and `cut`
are history variables: the rows an UPDATE found, and the change whose UPDATE ran last.

`MC*` modules give instances their values and hold the properties that documents
claim and runs refute. Definitions named "Mutant of X" are faulty variants of `X` that
show that a property can fail; `Next` uses none.

## 4. What the runs check

| Run | Question | Bounds and why they are enough |
|---|---|---|
| `recovery` | Do concurrent confirmations, visits, dismissals and collections keep one event per flag, with the right amount, along the ledger? Is every signature backed, every verification a visit, every event of a signed flag swept? | 2 flags, 1 job, 3 event ids, 2 auditors, 1 audit event, explored in two scenes (`RaceOrSignature`): two auditors race for one flag while the other lies untouched and nothing is audited, or one auditor confirms two flags of a bill's variance and their audit is signed, closed and locked. A state outside both scenes is checked and not followed; all eight properties are proved without scenes. |
| `offline_queue` | Are outcomes and reports the officer was told of on the server or queued, is the queue an outbox, are requests bounded, is a status shown the officer's own, does a pass end although a row throws or never parses? | Any two of a submission, an outcome and a report of one job (`MaxEntries`), 2 passes, lost calls and answers, 1 kill; `MaxRetries` 1 for the 5, which is both "may be sent again" and "no more"; of a report one request is counted (`MaxReports`), as nothing here asks for more. |
| `offline_report` (violation) | Does the retry guard bound reports? | One report, one pass, the code's 5 retries; requests are counted up to `MaxReports`, past the bound. |
| `offline_lost` (violation) | Does a submission that was shown or marked DONE survive? | One submission over a network that loses nothing (`Lossy` FALSE), one pass, no kill. |
| `cdc_windows` | Is an account that was not copied due, or do the log, a running run or a vanished one account for it? Does a bill follow its account? Who puts an older version back? | 3 accounts, LIMIT 2, 1 bill, 2 overlapping runs, 3 clock values: the least where one row is cut off, one is changed and one is neither. |
| `cdc_bills` (violation) | Is a changed bill fetched? | One account and a bill. |
| `scan` | Does a scan flag only what was there, and all of it? Do findings come back, and does the zone settle? | 2 scans, an account in the wrong category (its flag is accepted) and an imbalance (its flag is refused), 2 volumes of production, 2 faults. |
| `scan_dedup` (violation) | Is a finding flagged once? | 2 scans of an account in the wrong category; the phantom meter beside it is never flagged. |
| `push` | Are answers true, do newer rows stand, does a push that runs end, and every request while pulls are fewer than connections? | 3 pushes on 2 connections, two with crossing locks, one with refused and broken actions; 1 pull on 2 connections (with as many pulls as connections, see `push_pool`); 1 update, 1 fault, 2 clock values (before and after an action was taken). |
| `push_pool` (violation) | Does a request proceed when the pool is exhausted? | 2 pulls on 2 connections and a push. |
| `cases` | Does the trail explain the case, is its job for the officer it names, does one opening act once, are final words undone only by the uninformed? | 2 sessions, 2 officers, 3 calls about one case, one of which fails, fails with a 200 or goes unheard: two calls for a race, a third for a verdict or an assignment between. An account overbilled by an amount may have all three; for the other two kinds one call shows the refusal or the modal in which they differ (`MoreCallsIfOverbilled`). |
| `tariff` | Is every cubic metre billed, once, in its tier? What explains a bill without VAT? | The residential tiers (0-2, 2 and more, in small volumes) and one new row, a tier above a gap or one that overlaps; maxima 1 (upside down in the second tier) and 4; dates before and after; 2 changes of the VAT; a volume inside and one above the tiers. Rates change or the VAT does, until the calculation has ended (`OneTableAtATime`): no action reads both. |

Symmetry is used for workers, rows without a bill, sessions and officers, in runs
that check no liveness. The `recovered` amounts, event ids, kills, faults, clocks,
versions and counts are bounded by constants that the modules name. Deadlock is
checked in the `scan` runs; in the others all requests may have been made and
answered, where the model (not the system) stops.

Fairness:

* `OfflineSync!FairSpec`: every await of a pass ends, by its answer or by the 30 s
  timeout of the HTTP client. Users need not start a pass.
* `SentinelScan!FairSpec`: the cron job and NATS start scans again and again, and
  a scan that is neither cut off nor killed takes its next statement. Faults are
  bounded, so that there are nights without one.
* `SyncGateway!Fairness`: a statement ends, and a request that waits for a
  connection gets one that stays free. That is weak fairness of each request: it
  promises nothing to one that others always overtake, and the violation run
  shows that it does not hide a pool that is never free.

## 5. What is proved

The provers check each theorem for all values of the constants that the module's
named assumption admits. The assumptions type the constants, keep identifiers
apart and, where a set is counted, say that it is finite; they bound nothing.

| Module | Theorem | Argument |
|---|---|---|
| `RecoveryProofs` | `TypeCorrect`, `AtMostOneEvent`, `AmountsFollowStatuses`, `VerifiedOnlyByVisit`, `SignedEventsAreBacked` | The invariants are inductive with types and with facts about free identifiers: an insert takes a fresh id and only where no event of the flag is. A signature survives since a signed row's `gra` is never reset; a visit since a job's link is never taken away. |
| | `BornFromConfirmedLeakage`, `SigningSweeps` | Action properties from the type invariant, one case per handler. |
| | `Refinement` | The four tables implement `RecoveryLedger`: a step that inserts is `Open`, one that moves an event's status is `Advance`, everything else stutters. It rests on one event per flag, without which the mapping's CHOOSE means nothing. |
| | `LedgerOnlyRises`, `RecoveredIsKept` | Every edge of the ledger takes a line to a higher rank of six, so it changes at most five times and COLLECTED is final; the second says it of the rows, with their flag and their amount. |
| `CdcProofs` | `TypeCorrect`, `BillsFollowAccounts`, `NoOtherLoss`, `LogTellsUnlessVanished` | `LossesMet` says that a stale account is due, or a run was on when it changed (`Met`, whatever tells of it), or one fell short. `LossInv` adds to it: stamps, starts and completions are not in the future, a window begins where some completed run ended, and an older copy can only be there if a run crossed the change. Then a run that closes covers all from its since to its completion. What was met is told by the log or by a running run, or else the run has vanished (`MetIsTold`); while none has, the log and the running runs alone tell of every loss. |
| | `AgeTellsOfOverlap` | `AgeInv`: no copy is newer than GWL's row, a run holds versions no newer than the row either, and what it holds is older than the mirror only if another run of its type has been on since it began (`OldMeansOvertaken`). |
| `SentinelProofs` | `TypeCorrect`, `NoFlagFromNothing`, `NoFindingLost` | `ScanInv`: what is still in `found` was there during the scan, and each lasting finding is unexamined, found, flagged or missed. |
| | `StaleScansDrain`, `ZoneStaysSettled` | What of `ZoneSettles` is safety. While the volumes stay and no statement fails, a scan that holds older volumes can end but none can come to hold them (`Stale`), and only the end of such a scan takes the zone away from its value; so a zone that is settled stays so. That the last such scan ends is fairness, and left to TLC. |
| | `ScanStepsRunOut` | A variant: what is left to examine, twice, what is found, and the statements at the end. Each step lowers it, by the library's facts on finite sets; `Findings` is finite, which the named assumption says. |
| `GwlProofs` | `GwlTypes`, `TheTrailExplains`, `JobsFollowAssignments` | The trail only grows, and each call that takes effect adds the entry that matches what it writes. Whoever a case names was assigned to it, so a job that is not his is of somebody assigned before (`AssignedTo`). |
| | `OneEffect`, `FinalWords` | Facts about each call and page (`CallOK`, `PageOK`, `ModalOK`): an opening is named by its first call, a page waits for each call of it not heard yet, so a second one is sent only after a failure or a wait given up (`RepeatsOK`); what a call was shown is no more than the trail held when its modal was opened, and was not resolved. |
| | `TheTrailIsComplete`, `FailuresChangeNothing` | A step adds one call to the effects on a case together with one entry to its trail, or neither (`EffectsMove`), so the trail is as long as the set of effects; a call that was heard to fail is in no such set. |
| `TariffProofs` | `TypeCorrect` | The type invariant, with the key of `tariff_rates`. |
| | `NothingLeftUnbilled`, `TiersChargedTheirOwn` | A loop invariant (`Walked`): what was consumed and what is left make up the volume; an unlimited tier leaves nothing; and in a sorted sequence of tiers that do not overlap, what was consumed is the volume up to the top of the last tier. The arithmetic is in the lemmas `TurnBounded`, `TurnToTheTop` and `ApartSorted`. |
| | `TheTableDecides` | `OnceEach`: a calculation reads each rate once. Two sorted sequences of the same tiers that do not overlap are then equal (`OneOrder`): at the first place where they differ, the lower of the two tiers would come twice in one of them. The line of a tier grows with the volume (`BandGrows`, `RestGrows`). |
| | `ActiveVATsOverlapped`, `OutageExplained` | A row an UPDATE found stays ended (`MetStaysEnded`), so the row of the change that cut last, once inserted, is active (`StandingActive`). |
| `OfflineProofs` | `TypeCorrect`, `ShownIsSaved`, `StatusIsBacked` | What a screen and a pass know is backed (`ScreenInv`, `PassInv`): an answer means that the server has run the request, which for an outcome or a report means its commit; a row that was read stays in its table. Nothing an entry did is undone (`Grows`), so a status on its way to the device, on the server or in a refresh, stays backed as well (`StatusInv`). |
| | `RetriesBound` | `CountInv` counts the passes that hold a row's answer (`Holding`) and those that still wait to send it (`Waiting`). While the row is pending, each request is the screen's, or counted in `retry_count`, or in a pass's hand, or forgotten by a kill; from the step that closes it only waiting passes add to them. No pass is in both sets, so their sizes make the bound. |
| | `QueueIsOutbox`, `OutboxKeepsWord` | The queues implement `Outbox`: a queueing is `Keep`, a request that is run `Take`, an answer shown `Tell`, a mark `Drop`, the rest stutters. `Drop` needs the backing of answers that `OfflineInv` gives. The outbox alone then keeps what was told in the box or taken. |
| | `PassStepsRunOut` | What of `PassEnds` is safety: a pass that is on can take a step, and by a variant (tables left, rows left, the one in hand) has ever fewer of them. |
| `SyncProofs` | `TypeCorrect`, `AnswersTrue` | `ToldInv`: answers and written actions of each push tell the same story (`TrueSoFar`), a doomed push has rejected something, and a push is answered when each of its actions is. |
| | `NewerRowsStand` | `SeenInv`: the revisions a running push began with bound the rows from below, so a row that changes under it stays recognisable, and one that has not is no newer than the push has seen. |
| | `PushesAreAtomic` | The pushes implement `BatchStore`: the rows a push holds when it is over are those its answers call APPLIED (`HeldIsWritten`: by `ToldInv`, and since what is in hand is a write), the three ways to end map to `Apply`, `RollBack` and `Lose`, and before them nothing shows. |
| | `SomebodyMoves`, `PushStepsRunOut` | What of `RequestsEnd` is safety. If no running push could move, each would wait for another one; a smallest set that is closed under waiting (there is one, `Pushes` being finite) is a circle (`CircleExists`), and the database ends one of those. Each step of a push lowers the steps it has left. |

Only model-checked: liveness (`PassEnds`, `FindingsResurface`, `ZoneSettles`,
`RequestsEnd`), which this proof system cannot express with fairness; of all but
`FindingsResurface` the safety half, that somebody can move and that the moves run
out or cannot be undone, is proved. Those theorems say "can take a step" by the
guards themselves (`CanGoOn`, `CanMove`), as ENABLED is out of the provers' reach
too; TLC found them the same on the runs' instances. Every safety property of a
passing run is proved, and the three refinements; that of `BatchStore` is in no run
(`PushesAreAtomic` is its only check here).

## 6. What came out

Each of these has a run that shows it:

* An illegal-connection report is filed anew on every pass: marking its row throws
  (`pending_illegal_reports` has no `attempted_at`), so its retries are never counted.
* No evidence is ever stored. `WriteEvidence` passes `$8` and `$9` untyped to
  `jsonb_build_object` (`field_job_repo.go:463`), PostgreSQL refuses the statement
  for every submission, `audit_handler.go:725` calls that non-fatal, `rls.go:170`
  only logs the failed commit, and the app gets the 200 of which
  `api_service.dart:254` says that the evidence is written and the job COMPLETED.
* A bill entered or changed after a completed run, with an earlier `bill_date`, is
  never fetched (`cdc_sync_service.go:278` against its comment at line 18).
* Flags are not deduplicated: no flag that arises carries the hash, so an account in
  the wrong category is flagged by every scan.
* As many pulls as the pool has connections stop the gateway: each holds its
  transaction and waits for a second connection (`offline_sync_handler.go:117`).
  The comment at `rls.go:114` says requests proceed; line 141 refuses instead, and
  before that BeginTx waits without a deadline. Other handlers and repositories
  nest in the same way (`field_job_repo.go:243`).

Read in the code while modelling, without a run of their own:

* *Gateway.* A push is answered APPLIED for actions that are rolled back when a
  later one of its batch is refused by the database; every anomaly report is (the
  insert names no `title`). A commit error is only logged (`rls.go:170`), so writes
  that are called non-fatal (`audit_handler.go:726`) undo the whole request under
  a 200. "Last write wins" (`offline_sync_handler.go:26`) is not so within a batch:
  the first update of a row stamps it with the transaction's time, against which
  the later ones lose. SUPERSEDED is never answered and `client_sequence` never compared. A panic skips
  both commit and rollback. `sync_timestamp` is later than the query it dates, and
  finished jobs are not pulled.
* *Recovery.* A FRAUDULENT_ACCOUNT flag confirmed with the override
  REVENUE_LEAKAGE gets an event from the trigger, which `audit_handler.go:1247`
  denies. ConfirmAnomaly may answer an event id that no row has
  (`audit_handler.go:1284`). An event can be GRA_SIGNED without an amount
  (migration 032). An outcome reaches a flag only where someone set `field_job_id`.
* *App.* The answer of the outcome route has no `id`, `FieldJob.fromJson` throws
  (`models.dart:355`), so each outcome is queued and sent again though it was
  applied (`outcome_recording_screen.dart:144` queues "Offline or server error").
  `/my-jobs` leaves
  completed jobs out (`field_job_repo.go:663`) and a refresh touches only the rows it
  was sent, so a job closed elsewhere stays open on the device, against the
  "server-wins" of `offline_storage_service.dart:210`.
* *Field jobs.* TriggerSOS sets `sos_triggered` only (`field_job_repo.go:165`) and the
  portals' SOS banners look for the status `SOS` (`JobAssignmentPage.tsx:171`), so
  an alarm does not show; the web page sends `gps_lat` where the handler reads
  `officer_lat`. UpdateStatus has no guard of transitions: the authority portal
  records an outcome and then sends COMPLETED, which puts the job back
  (`MyJobsPage.tsx:42-49`).
* *CDC.* A run ends COMPLETED and `cmd/main.go:214` publishes one that ended
  SUCCESS: `gnwaas.cdc.sync.completed` (README.md:355) is never sent. A row changed
  while a run was on, one beyond LIMIT and one that failed are not asked for
  again; an overlapping run can put an older version back. The schema map names
  no meters table.
* *Sentinel.* The phantom check never flags: `GetBillingHistory` makes its second
  parameter a text (`billing_account_repo.go:58`), the orchestrator passes the
  number 12 (line 285), and each account gives an error. DISTRICT_IMBALANCE flags are refused by the schema each night; zone
  RED begins at 40 %, not above it; a failed statement turns a district GREY;
  `phantomMonths` is read without the lock that `main.go:164` promises; the zone
  may pair volumes read at different moments.
* *GWL cases.* A case that is assigned again, after a change of status, keeps the
  field job of its first officer: the job's reference is made from the flag and the
  conflict does nothing, so the second officer gets none (`gwl_case_repo.go:511`,
  against `gwl_handler.go:134`, "creates a field job", and `gwl_case_repo.go:455`). `JobFollowsAssignment`
  excepts just this case. Supervisors who are not
  admins cannot act on any case: the policy of `025:38-44` wants a district that no
  insert into `gwl_case_actions` names, where `006:4-6` means the table for GWL
  staff. A disputed case is counted both as open and as resolved. The credits page
  forgets which request was clicked when any answer comes, so a verdict can be
  sent twice.
* *Tariffs.* The VAT form of the portal can never succeed: it sends no `components`,
  a nil map is written as NULL and refused by `JSONB NOT NULL`, after the UPDATE has
  ended the active VAT, so that every calculation fails from then on
  (`TariffManagementPage.tsx:126`, `tariff_admin_handler.go:397`). "Historical bills
  are always recalculated with the correct rate" (`tariff_admin_handler.go:22`) is not
  so: the engine asks for `is_active` too, so a row that was ended bills no date. PUT
  "creates a new version" (line 206) and writes in place. A maximum below the
  minimum is accepted, and bills a negative volume in its tier. The form's category
  GOVERNMENT is refused. The service charge is left out when nothing was consumed.
* *Deployment.* Services connect as `gnwaas_app` and set no `app.user_role`, so that
  migration 037's policies hide every row from sentinel and cdc-ingestor. The
  models take a role that is let through; otherwise nothing would happen in them.

## 7. What is not modelled

* Authentication, users, notifications, evidence storage, reports, OCR, demo data
  and deployment: one-row updates, read-only queries, calls to other services.
* Most of the portals' TypeScript: the admin and authority portals are queries,
  forms and single mutations whose effect is in the gateway's modules, and the rest
  of the GWL portal is lists and layout; the two pages that act on cases are in
  `GwlCases`. A session that expires (401) sends a page to the login and is taken
  for a page that is left.
* `frontend/mobile-web/main.dart.js` (103 531 lines, five sixths of the JavaScript
  and TypeScript) is the compiled app, whose Dart source is what `OfflineSync`
  models; the service workers are generated as well. Mapping definitions to
  compiled code would say nothing, which is why the models cover a small share
  of the lines of that language; the system's logic is in Go, SQL and Dart.
* meter-ingestor: the deployed schema lets no second reading through. `GetLatest`
  fails on every account (it coalesces the UUID `reader_id` with an empty string),
  and under row-level security the service finds no account.
* gra-bridge: one call to GRA per request and no state of its own; nothing under
  `src/` calls it. A signature's effect, `UpdateGRAStatus`, is in `RecoveryPipeline`.
* The authority portal's job page, which records an outcome and sends COMPLETED after
  it: in `OfflineSync` the app is a job's only client, and so no job is ever
  COMPLETED on the server.
* Inside the modelled parts: dates and month ends, clock skew and replica lag of
  the CDC, photo upload and drafts of the app, the rules of the checks, hot
  reload, row filters of row-level security (but for `gwl_case_actions`), the answer
  of Pull, the order in which a case's history is listed (by the time a transaction
  began), consumptions below zero of a batch, amounts and rounding of a bill. Rows
  older than 30 days before the first sync come by file import and start as copied.
