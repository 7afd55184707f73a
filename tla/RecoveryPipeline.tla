-------------------------- MODULE RecoveryPipeline --------------------------
(***************************************************************************)
(* The revenue-recovery pipeline of the api-gateway: an anomaly flag is    *)
(* visited by a field officer, confirmed as leakage by an auditor, turned  *)
(* into a revenue_recovery_event, signed by the Ghana Revenue Authority    *)
(* and collected.  The state is four database tables and the values a      *)
(* ConfirmAnomaly request has read before it writes.                       *)
(*                                                                         *)
(* Every handler runs in the READ COMMITTED transaction that rls.Middleware*)
(* opens for the request.  An UPDATE of a row holds that row until commit, *)
(* so a handler is one atomic step from its first write on; what it read   *)
(* before that write is a step of its own, since nothing locks a row that  *)
(* was only read.                                                          *)
(***************************************************************************)
EXTENDS Naturals, FiniteSets

CONSTANTS
    Flags,          \* rows of anomaly_flags
    Events,         \* identifiers of revenue_recovery_events (pool bound)
    Audits,         \* identifiers of audit_events (pool bound)
    Jobs,           \* rows of field_jobs
    Auditors,       \* concurrent callers of ConfirmAnomaly
    InitialTypes,   \* anomaly types the detectors give a new flag
    Outcomes,       \* values of field_job_outcome an officer may record
    Overrides,      \* leakage_category of a confirm request, "NULL" if none
    Amounts,        \* GHS amounts callers send (bound)
    JobFlag,        \* the flag a job was dispatched for
    OperatorLinks,  \* TRUE if operators fill anomaly_flags.field_job_id
    NoFlag, NoJob, NoEvent

ASSUME ConstantsAssumption ==
    /\ JobFlag \in [Jobs -> Flags]
    /\ OperatorLinks \in BOOLEAN
    /\ Overrides \subseteq {"REVENUE_LEAKAGE", "COMPLIANCE", "DATA_QUALITY", "NULL"}
    /\ "NULL" \notin Outcomes
    /\ Amounts \subseteq Nat
    /\ NoFlag \notin Flags
    /\ NoJob \notin Jobs
    /\ NoEvent \notin Events

VARIABLES
    flag,     \* anomaly_flags
    event,    \* revenue_recovery_events
    audit,    \* audit_events
    outcome,  \* field_jobs.outcome
    request,  \* what each running ConfirmAnomaly has read
    reply     \* recovery_event_id of the last ConfirmAnomaly answer

vars == <<flag, event, audit, outcome, request, reply>>
-----------------------------------------------------------------------------
LeakageTypes ==
    {"SHADOW_BILL_VARIANCE", "CATEGORY_MISMATCH", "PHANTOM_METER",
     "DISTRICT_IMBALANCE", "UNMETERED_CONSUMPTION", "METERING_INACCURACY",
     "UNAUTHORISED_CONSUMPTION", "VAT_DISCREPANCY"}
AnomalyTypes == LeakageTypes \cup InitialTypes \cup
    {"OUTAGE_CONSUMPTION", "ADDRESS_UNVERIFIED", "FRAUDULENT_ACCOUNT"}
Categories   == {"REVENUE_LEAKAGE", "COMPLIANCE", "DATA_QUALITY"}
FlagStatuses ==
    {"OPEN", "INVESTIGATING", "ACKNOWLEDGED", "CONFIRMED", "RESOLVED",
     "FALSE_POSITIVE"}

\* Mutant of Classify: no category for an unexpected type.
ClassifyKnown(type) ==
    IF type \in LeakageTypes THEN "REVENUE_LEAKAGE"
    ELSE IF type = "OUTAGE_CONSUMPTION" THEN "COMPLIANCE"
    ELSE "NULL"

\* Category given to a flag that has none.
Classify(type) ==
    IF type \in LeakageTypes THEN "REVENUE_LEAKAGE"
    ELSE IF type = "OUTAGE_CONSUMPTION" THEN "COMPLIANCE"
    ELSE "DATA_QUALITY"

\* Outcomes that confirm leakage on site.
LeakageConfirming ==
    {"METER_NOT_FOUND_INSTALL", "ADDRESS_VALID_UNREGISTERED",
     "CATEGORY_MISMATCH_CONFIRMED", "ILLEGAL_CONNECTION_FOUND",
     "METER_FOUND_TAMPERED", "METER_FOUND_FAULTY", "DUPLICATE_METER"}

\* Mutant of PreSign: a confirmed event is left out of the signature.
PreSignUnconfirmed == {"PENDING", "FIELD_VERIFIED"}

\* A recovery event that the GRA signature still moves on.
PreSign == {"PENDING", "FIELD_VERIFIED", "CONFIRMED"}
EventStatuses == PreSign \cup {"GRA_SIGNED", "COLLECTED"}

\* Audit statuses that trg_audit_events_immutable freezes; of the admitted
\* statuses the gateway can write, CLOSED is the only such one.
TerminalAudit  == {"COMPLETED", "GRA_CONFIRMED", "CLOSED"}
WritableStatus == {"PENDING", "IN_PROGRESS", "DISPUTED", "CLOSED"}

Absent == [flag |-> NoFlag, status |-> "ABSENT", recovered |-> 0]
NoAudit == [flag |-> NoFlag, status |-> "ABSENT", gra |-> "PENDING",
            locked |-> FALSE]
Idle == [flag |-> NoFlag, fraud |-> "FALSE", type |-> "NONE",
         category |-> "NONE"]
-----------------------------------------------------------------------------
HasEvent(tbl, f) == \E e \in Events : tbl[e].flag = f

\* Mutant of InsertUnlessExists: the WHERE NOT EXISTS is lost.
InsertAlways(tbl, f, e) ==
    [tbl EXCEPT ![e] = [flag |-> f, status |-> "PENDING", recovered |-> 0]]

\* INSERT ... WHERE NOT EXISTS (SELECT 1 ... WHERE anomaly_flag_id = f)
InsertUnlessExists(tbl, f, e) ==
    IF HasEvent(tbl, f) THEN tbl
    ELSE [tbl EXCEPT ![e] = [flag |-> f, status |-> "PENDING", recovered |-> 0]]

\* Mutant of AutoCreate: every confirmed flag is taken for revenue leakage.
AutoCreateAnyCategory(tbl, old, new, f, e) ==
    IF new.fraud = "TRUE" /\ old.fraud # "TRUE"
    THEN InsertUnlessExists(tbl, f, e)
    ELSE tbl

\* fn_auto_create_recovery_event, AFTER UPDATE ON anomaly_flags
AutoCreate(tbl, old, new, f, e) ==
    IF /\ new.fraud = "TRUE"
       /\ old.fraud # "TRUE"
       /\ new.category = "REVENUE_LEAKAGE"
    THEN InsertUnlessExists(tbl, f, e)
    ELSE tbl

\* fn_update_recovery_on_gra_sign and step 2 of UpdateGRAStatus
Sign(tbl, f) ==
    [e \in Events |-> IF tbl[e].flag = f /\ tbl[e].status \in PreSign
                      THEN [tbl[e] EXCEPT !.status = "GRA_SIGNED"]
                      ELSE tbl[e]]

FreeEvents == {e \in Events : event[e] = Absent}

\* Two fresh identifiers: the trigger's and the handler's.
TriggerId == CHOOSE e \in FreeEvents : TRUE
HandlerId == CHOOSE e \in FreeEvents \ {TriggerId} : TRUE
-----------------------------------------------------------------------------
\* A flag as a detector inserts it, classified or not.
DetectedRow ==
    {r \in [type : InitialTypes, category : Categories \cup {"NULL"},
            status : {"OPEN"}, fraud : {"NULL"}, job : {NoJob}] :
        r.category \in {"NULL", Classify(r.type)}}

Init ==
    /\ flag \in [Flags -> DetectedRow]
    /\ event = [e \in Events |-> Absent]
    /\ audit = [a \in Audits |-> NoAudit]
    /\ outcome = [j \in Jobs |-> "NULL"]
    /\ request = [u \in Auditors |-> Idle]
    /\ reply = NoEvent

\* No code under src sets anomaly_flags.field_job_id before an outcome is
\* recorded; where it is set, an operator of the database set it.
LinkFlag(f, j) ==
    /\ OperatorLinks
    /\ JobFlag[j] = f
    /\ flag[f].job = NoJob
    /\ flag' = [flag EXCEPT ![f].job = j]
    /\ UNCHANGED <<event, audit, outcome, request, reply>>

\* ConfirmAnomaly up to its first write: the flag's type and category are
\* read, the category overridden by the request or filled in.
ConfirmRead(u, f, fraud, override) ==
    /\ request[u] = Idle
    /\ request' = [request EXCEPT ![u] =
         [flag |-> f, fraud |-> fraud, type |-> flag[f].type,
          category |-> IF override # "NULL" THEN override
                       ELSE IF flag[f].category # "NULL" THEN flag[f].category
                       ELSE Classify(flag[f].type)]]
    /\ UNCHANGED <<flag, event, audit, outcome, reply>>

\* The rest of ConfirmAnomaly: the flag is updated, the trigger may insert an
\* event, the handler inserts one unless there is one already, and answers
\* with the handler's identifier whether or not that row was inserted.
ConfirmWrite(u) ==
    LET c   == request[u]
        f   == c.flag
        new == [flag[f] EXCEPT !.fraud = c.fraud, !.category = c.category,
                  !.status = IF c.fraud = "TRUE" THEN "CONFIRMED"
                             ELSE "FALSE_POSITIVE"]
        triggered == AutoCreate(event, flag[f], new, f, TriggerId)
        inserts == /\ c.fraud = "TRUE"
                   /\ c.category = "REVENUE_LEAKAGE"
                   /\ c.type # "FRAUDULENT_ACCOUNT"
    IN  /\ c # Idle
        /\ FreeEvents \ {TriggerId} # {}
        /\ flag' = [flag EXCEPT ![f] = new]
        /\ event' = IF inserts THEN InsertUnlessExists(triggered, f, HandlerId)
                    ELSE triggered
        /\ reply' = IF inserts THEN HandlerId ELSE NoEvent
        /\ request' = [request EXCEPT ![u] = Idle]
        /\ UNCHANGED <<audit, outcome>>

\* The request fails or its connection is lost: the transaction rolls back.
ConfirmAbort(u) ==
    /\ request[u] # Idle
    /\ request' = [request EXCEPT ![u] = Idle]
    /\ UNCHANGED <<flag, event, audit, outcome, reply>>

\* PATCH /anomaly-flags/:id/status, and the sentinel's own resolve and
\* false-positive routes: any status from any status.
UpdateAnomalyStatus(f, s) ==
    /\ s \in {"OPEN", "INVESTIGATING", "RESOLVED", "FALSE_POSITIVE"}
    /\ flag' = [flag EXCEPT ![f].status = s]
    /\ UNCHANGED <<event, audit, outcome, request, reply>>

\* What an outcome makes of the flag its job is linked to.
AfterOutcome(r, o) ==
    [r EXCEPT
      !.type = CASE o \in {"METER_NOT_FOUND_INSTALL", "ADDRESS_VALID_UNREGISTERED"}
                      -> "UNMETERED_CONSUMPTION"
                 [] o = "ADDRESS_INVALID" -> "FRAUDULENT_ACCOUNT"
                 [] o = "ILLEGAL_CONNECTION_FOUND" -> "UNAUTHORISED_CONSUMPTION"
                 [] OTHER -> @,
      !.category = CASE o \in {"METER_NOT_FOUND_INSTALL",
                               "ADDRESS_VALID_UNREGISTERED",
                               "CATEGORY_MISMATCH_CONFIRMED",
                               "ILLEGAL_CONNECTION_FOUND"} -> "REVENUE_LEAKAGE"
                     [] o = "ADDRESS_INVALID" -> "DATA_QUALITY"
                     [] OTHER -> @,
      !.status = CASE o = "METER_FOUND_OK" -> "FALSE_POSITIVE"
                   [] o \in LeakageConfirming /\ @ = "OPEN" -> "ACKNOWLEDGED"
                   [] OTHER -> @]

\* Mutant of FieldVerify: the WHERE forgets the flag.
FieldVerifyAll(tbl, f) ==
    [e \in Events |-> IF tbl[e].status = "PENDING"
                      THEN [tbl[e] EXCEPT !.status = "FIELD_VERIFIED"]
                      ELSE tbl[e]]

\* Pending events of the flag become FIELD_VERIFIED.
FieldVerify(tbl, f) ==
    [e \in Events |-> IF tbl[e].flag = f /\ tbl[e].status = "PENDING"
                      THEN [tbl[e] EXCEPT !.status = "FIELD_VERIFIED"]
                      ELSE tbl[e]]

\* PATCH /field-jobs/:id/outcome: the flag is found through field_job_id.
RecordFieldJobOutcome(j, o) ==
    LET linked == {f \in Flags : flag[f].job = j}
    IN  /\ outcome' = [outcome EXCEPT ![j] = o]
        /\ \/ linked = {} /\ UNCHANGED <<flag, event>>
           \/ \E f \in linked :
                /\ flag' = [flag EXCEPT ![f] = AfterOutcome(flag[f], o)]
                /\ event' = IF o \in LeakageConfirming
                            THEN FieldVerify(event, f) ELSE event
        /\ UNCHANGED <<audit, request, reply>>

\* Mutant of ConfirmRecovery: recovered_ghs is not written.
ConfirmStatusOnly(e, ghs) ==
    /\ ghs > 0
    /\ event[e].status \in {"PENDING", "FIELD_VERIFIED"}
    /\ event' = [event EXCEPT ![e].status = "CONFIRMED"]
    /\ UNCHANGED <<flag, audit, outcome, request, reply>>

\* PATCH /revenue/events/:id/confirm, recovered_ghs must be positive
ConfirmRecovery(e, ghs) ==
    /\ ghs > 0
    /\ event[e].status \in {"PENDING", "FIELD_VERIFIED"}
    /\ event' = [event EXCEPT ![e].status = "CONFIRMED", ![e].recovered = ghs]
    /\ UNCHANGED <<flag, audit, outcome, request, reply>>

\* Mutant of CollectRecovery: an unconfirmed event is collected too.
CollectUnconfirmed(e, ghs) ==
    /\ ghs > 0
    /\ event[e].status \in PreSign \cup {"GRA_SIGNED"}
    /\ event' = [event EXCEPT ![e].status = "COLLECTED", ![e].recovered = ghs]
    /\ UNCHANGED <<flag, audit, outcome, request, reply>>

\* PATCH /revenue/events/:id/collect, collected_ghs must be positive
CollectRecovery(e, ghs) ==
    /\ ghs > 0
    /\ event[e].status \in {"CONFIRMED", "GRA_SIGNED"}
    /\ event' = [event EXCEPT ![e].status = "COLLECTED", ![e].recovered = ghs]
    /\ UNCHANGED <<flag, audit, outcome, request, reply>>

\* POST /audits for a flag
CreateAuditEvent(a, f) ==
    /\ audit[a] = NoAudit
    /\ audit' = [audit EXCEPT ![a] = [NoAudit EXCEPT !.flag = f, !.status = "PENDING"]]
    /\ UNCHANGED <<flag, event, outcome, request, reply>>

\* trg_audit_events_immutable lets the row be written
Mutable(a) == audit[a].status # "ABSENT" /\ audit[a].status \notin TerminalAudit

\* PATCH /audits/:id
UpdateAuditEvent(a, s) ==
    /\ Mutable(a)
    /\ s \in WritableStatus
    /\ audit' = [audit EXCEPT ![a].status = s]
    /\ UNCHANGED <<flag, event, outcome, request, reply>>

\* AuditEventRepository.LockAudit
LockAudit(a) ==
    /\ Mutable(a)
    /\ audit' = [audit EXCEPT ![a].locked = TRUE]
    /\ UNCHANGED <<flag, event, outcome, request, reply>>

\* AuditEventRepository.UpdateStatus, as AssignAuditEvent calls it
AssignAuditEvent(a) ==
    /\ Mutable(a)
    /\ ~audit[a].locked
    /\ audit' = [audit EXCEPT ![a].status = "IN_PROGRESS"]
    /\ UNCHANGED <<flag, event, outcome, request, reply>>

\* Mutant of UpdateGRAStatus: the second update runs though the first failed.
SignEventsOnly(a) ==
    /\ Mutable(a)
    /\ event' = Sign(event, audit[a].flag)
    /\ UNCHANGED <<flag, audit, outcome, request, reply>>

\* AuditEventRepository.UpdateGRAStatus with trg_gra_sign_recovery
UpdateGRAStatus(a) ==
    /\ Mutable(a)
    /\ audit' = [audit EXCEPT ![a].gra = "SIGNED"]
    /\ event' = Sign(event, audit[a].flag)
    /\ UNCHANGED <<flag, outcome, request, reply>>

FlagStep ==
    \/ \E f \in Flags, j \in Jobs : LinkFlag(f, j)
    \/ \E u \in Auditors, f \in Flags, fraud \in {"TRUE", "FALSE"},
          override \in Overrides : ConfirmRead(u, f, fraud, override)
    \/ \E u \in Auditors : ConfirmWrite(u)
    \/ \E u \in Auditors : ConfirmAbort(u)
    \/ \E f \in Flags, s \in FlagStatuses : UpdateAnomalyStatus(f, s)

EventStep ==
    \/ \E j \in Jobs, o \in Outcomes : RecordFieldJobOutcome(j, o)
    \/ \E e \in Events, ghs \in Amounts : ConfirmRecovery(e, ghs)
    \/ \E e \in Events, ghs \in Amounts : CollectRecovery(e, ghs)

AuditStep ==
    \/ \E a \in Audits, f \in Flags : CreateAuditEvent(a, f)
    \/ \E a \in Audits, s \in WritableStatus : UpdateAuditEvent(a, s)
    \/ \E a \in Audits : LockAudit(a)
    \/ \E a \in Audits : AssignAuditEvent(a)
    \/ \E a \in Audits : UpdateGRAStatus(a)

Next == FlagStep \/ EventStep \/ AuditStep

Spec == Init /\ [][Next]_vars
-----------------------------------------------------------------------------
FlagRow    == [type : AnomalyTypes, category : Categories \cup {"NULL"},
               status : FlagStatuses, fraud : {"NULL", "TRUE", "FALSE"},
               job : Jobs \cup {NoJob}]
EventRow   == [flag : Flags, status : EventStatuses, recovered : Nat]
AuditRow   == [flag : Flags, status : WritableStatus,
               gra : {"PENDING", "SIGNED"}, locked : BOOLEAN]
RequestRow == [flag : Flags, fraud : {"TRUE", "FALSE"},
               type : AnomalyTypes, category : Categories]

\* Every table holds rows of its type, and every request what it has read.
TypeOK ==
    /\ flag \in [Flags -> FlagRow]
    /\ event \in [Events -> EventRow \cup {Absent}]
    /\ audit \in [Audits -> AuditRow \cup {NoAudit}]
    /\ outcome \in [Jobs -> Outcomes \cup {"NULL"}]
    /\ request \in [Auditors -> RequestRow \cup {Idle}]
    /\ reply \in Events \cup {NoEvent}

\* However many auditors confirm a flag at once, and although both the trigger
\* and the handler insert, a flag never has two recovery events: the money is
\* not counted twice (audit_handler.go ConfirmAnomaly, migration 032).
OneEventPerFlag ==
    \A d, e \in Events :
        event[d] # Absent /\ event[d].flag = event[e].flag => d = e

\* An event that reached CONFIRMED or COLLECTED carries the positive amount
\* the confirming or collecting caller gave; one not yet confirmed carries
\* none, whatever the GRA signature did in between (revenue_handler.go).
AmountFollowsStatus ==
    \A e \in Events :
        /\ event[e].status \in {"CONFIRMED", "COLLECTED"} => event[e].recovered > 0
        /\ event[e].status \in {"ABSENT", "PENDING", "FIELD_VERIFIED"}
             => event[e].recovered = 0

\* A GRA_SIGNED event is backed by a signed audit event of the same flag, also
\* when that audit event was closed, locked or reassigned afterwards.
GraSignedIsBacked ==
    \A e \in Events : event[e].status = "GRA_SIGNED" =>
        \E a \in Audits : audit[a].flag = event[e].flag /\ audit[a].gra = "SIGNED"

\* A FIELD_VERIFIED event belongs to a flag whose linked job has an outcome:
\* nothing but a recorded field visit verifies an event.
VerifiedByVisit ==
    \A e \in Events : event[e].status = "FIELD_VERIFIED" =>
        /\ flag[event[e].flag].job # NoJob
        /\ outcome[flag[event[e].flag].job] # "NULL"

\* An event is inserted only by the step that confirms its flag as fraud in
\* category REVENUE_LEAKAGE, never by a dismissal or a compliance case.
EventsBornFromConfirmedLeakage ==
    [][\A e \in Events : event[e] = Absent /\ event'[e] # Absent =>
          LET f == event'[e].flag
          IN flag'[f].fraud = "TRUE" /\ flag'[f].category = "REVENUE_LEAKAGE"]_vars

\* The step that signs an audit event leaves no event of its flag unsigned.
SigningSweepsEvents ==
    [][\A a \in Audits : audit[a].gra = "PENDING" /\ audit'[a].gra = "SIGNED" =>
          \A e \in Events : event[e].flag = audit[a].flag =>
              event'[e].status \in {"GRA_SIGNED", "COLLECTED"}]_vars

\* The line of a flag in the abstract ledger: the status of its event.
LedgerStage(tbl, f) == IF HasEvent(tbl, f)
                       THEN tbl[CHOOSE e \in Events : tbl[e].flag = f].status
                       ELSE "NONE"

Ledger == INSTANCE RecoveryLedger
          WITH stage <- [f \in Flags |-> LedgerStage(event, f)]

\* The four tables implement the ledger: a flag's recovery is opened once and
\* only moves forward, through every interleaving of confirmations, visits,
\* signatures and collections.
ImplementsLedger == Ledger!Spec
=============================================================================
